---------------------------- MODULE Kernel_proofs ----------------------------
(***************************************************************************)
(* What the functions of Kernel do to the lists, the states and the timers *)
(* of the threads, for every set of threads and priorities, as lemmas for  *)
(* KernelIpc_proofs.  KInv says that the lists, the ready group and the    *)
(* threads' states agree; each lemma ...What says of one function that it  *)
(* keeps KInv, and what it does to the threads: nothing (Same), wake them  *)
(* (Woken) or wake them with ETIMEOUT (Late).                              *)
(*                                                                         *)
(* The loops, of the timers that are due and of the threads that are       *)
(* started, are recursive functions; a statement about all their turns is  *)
(* proved by taking the least turn for which it fails.                     *)
(***************************************************************************)
EXTENDS Kernel, FiniteSetTheorems, SequenceTheorems, WellFoundedInduction, TLAPS

\* A set of naturals has a least element.
LEMMA NatMin ==
  ASSUME NEW S \in SUBSET Nat, S /= {}
  PROVE  \E m \in S : \A n \in S : m <= n
  <1>1. IsWellFoundedOn(OpToRel(<, Nat), Nat)
    BY NatLessThanWellFounded
  <1>2. PICK m \in S : \A n \in S : <<n, m>> \notin OpToRel(<, Nat)
    BY <1>1, WFMin
  <1>3. \A n \in S : ~(n < m)
    BY <1>2 DEF OpToRel
  <1> QED BY <1>3

\* What Min of the community modules chooses.
LEMMA MinIsLeast ==
  ASSUME NEW S \in SUBSET Nat, S /= {}
  PROVE  Min(S) \in S /\ \A n \in S : Min(S) <= n
  BY NatMin DEF Min

\* No element is in s twice.
Distinct(s) == \A i, j \in 1 .. Len(s) : s[i] = s[j] => i = j
Elems(s) == {s[i] : i \in 1 .. Len(s)}

\* The elements of a sequence after RemoveAt, one by one.
LEMMA RemoveAtWhat ==
  ASSUME NEW S, NEW s \in Seq(S), NEW i \in 1 .. Len(s)
  PROVE  /\ RemoveAt(s, i) \in Seq(S)
         /\ Len(RemoveAt(s, i)) = Len(s) - 1
         /\ \A j \in 1 .. Len(s) - 1 : RemoveAt(s, i)[j] = IF j < i THEN s[j] ELSE s[j + 1]
  <1> DEFINE a == SubSeq(s, 1, i - 1)
             b == SubSeq(s, i + 1, Len(s))
  <1>1. Len(s) \in Nat /\ i \in Nat
    OBVIOUS
  <1>2. a \in Seq(S) /\ Len(a) = i - 1 /\ \A j \in 1 .. i - 1 : a[j] = s[j]
    BY <1>1
  <1>3. b \in Seq(S) /\ Len(b) = Len(s) - i /\ \A j \in 1 .. Len(s) - i : b[j] = s[i + j]
    BY <1>1
  <1>4. RemoveAt(s, i) = a \o b
    BY DEF RemoveAt
  <1> HIDE DEF a, b
  <1>5. /\ a \o b \in Seq(S) /\ Len(a \o b) = Len(a) + Len(b)
        /\ \A j \in 1 .. Len(a) + Len(b) :
             (a \o b)[j] = IF j <= Len(a) THEN a[j] ELSE b[j - Len(a)]
    BY <1>2, <1>3, ConcatProperties
  <1>6. ASSUME NEW j \in 1 .. Len(s) - 1
        PROVE  (a \o b)[j] = IF j < i THEN s[j] ELSE s[j + 1]
    <2>1. j \in 1 .. Len(a) + Len(b)
      BY <1>1, <1>2, <1>3
    <2>2. CASE j < i
      BY <1>1, <1>2, <1>5, <2>1, <2>2
    <2>3. CASE ~(j < i)
      <3>1. j - Len(a) \in 1 .. Len(s) - i /\ i + (j - Len(a)) = j + 1
        BY <1>1, <1>2, <2>3
      <3>2. b[j - Len(a)] = s[j + 1]
        BY <1>3, <3>1
      <3> QED BY <1>1, <1>2, <1>5, <2>1, <2>3, <3>2
    <2> QED BY <2>2, <2>3
  <1> QED BY <1>1, <1>2, <1>3, <1>4, <1>5, <1>6

\* The elements of a sequence after InsertAt, one by one.
LEMMA InsertAtWhat ==
  ASSUME NEW S, NEW s \in Seq(S), NEW i \in 1 .. Len(s), NEW e \in S
  PROVE  /\ InsertAt(s, i, e) \in Seq(S)
         /\ Len(InsertAt(s, i, e)) = Len(s) + 1
         /\ \A j \in 1 .. Len(s) + 1 :
              InsertAt(s, i, e)[j] = IF j < i THEN s[j] ELSE IF j = i THEN e ELSE s[j - 1]
  <1> DEFINE a == SubSeq(s, 1, i - 1)
             b == SubSeq(s, i, Len(s))
             c == Append(a, e)
  <1>1. Len(s) \in Nat /\ i \in Nat
    OBVIOUS
  <1>2. a \in Seq(S) /\ Len(a) = i - 1 /\ \A j \in 1 .. i - 1 : a[j] = s[j]
    BY <1>1
  <1>3. b \in Seq(S) /\ Len(b) = Len(s) - i + 1
        /\ \A j \in 1 .. Len(s) - i + 1 : b[j] = s[i + j - 1]
    BY <1>1
  <1>4. c \in Seq(S) /\ Len(c) = i /\ \A j \in 1 .. i : c[j] = IF j < i THEN s[j] ELSE e
    <2> HIDE DEF a
    <2> QED BY <1>1, <1>2, AppendProperties
  <1>5. InsertAt(s, i, e) = c \o b
    <2>1. a \o <<e>> = c
      <3> HIDE DEF a
      <3> QED BY <1>2, AppendIsConcat
    <2> QED BY <2>1 DEF InsertAt
  <1> HIDE DEF a, b, c
  <1>6. /\ c \o b \in Seq(S) /\ Len(c \o b) = Len(c) + Len(b)
        /\ \A j \in 1 .. Len(c) + Len(b) :
             (c \o b)[j] = IF j <= Len(c) THEN c[j] ELSE b[j - Len(c)]
    BY <1>3, <1>4, ConcatProperties
  <1>7. ASSUME NEW j \in 1 .. Len(s) + 1
        PROVE  (c \o b)[j] = IF j < i THEN s[j] ELSE IF j = i THEN e ELSE s[j - 1]
    <2>1. j \in 1 .. Len(c) + Len(b)
      BY <1>1, <1>3, <1>4
    <2>2. CASE j <= i
      BY <1>1, <1>4, <1>6, <2>1, <2>2
    <2>3. CASE ~(j <= i)
      <3>1. j - Len(c) \in 1 .. Len(s) - i + 1 /\ i + (j - Len(c)) - 1 = j - 1
        BY <1>1, <1>4, <2>3
      <3>2. b[j - Len(c)] = s[j - 1]
        BY <1>3, <3>1
      <3> QED BY <1>1, <1>4, <1>6, <2>1, <2>3, <3>2
    <2> QED BY <2>2, <2>3
  <1> QED BY <1>1, <1>3, <1>4, <1>5, <1>6, <1>7

\* rt_list_remove of a list that has an element at most once.
LEMMA RemoveFirstWhat ==
  ASSUME NEW S, NEW s \in Seq(S), Distinct(s), NEW e
  PROVE  /\ RemoveFirst(s, e) \in Seq(S)
         /\ Distinct(RemoveFirst(s, e))
         /\ Elems(RemoveFirst(s, e)) = Elems(s) \ {e}
  <1>1. CASE e \notin Elems(s)
    <2>1. RemoveFirst(s, e) = s
      BY <1>1 DEF RemoveFirst, Elems
    <2> QED BY <1>1, <2>1
  <1>2. CASE e \in Elems(s)
    <2> DEFINE I == {i \in 1 .. Len(s) : s[i] = e}
               r == RemoveFirst(s, e)
    <2>1. I \in SUBSET Nat /\ I /= {}
      BY <1>2 DEF Elems
    <2>2. PICK i \in I : i = Min(I)
      BY <2>1, MinIsLeast
    <2>3. r = RemoveAt(s, i)
      BY <1>2, <2>1, <2>2 DEF RemoveFirst, SelectInSeq, Elems
    <2> HIDE DEF r
    <2>4. i \in 1 .. Len(s) /\ s[i] = e /\ Len(s) \in Nat
      OBVIOUS
    <2>5. /\ r \in Seq(S) /\ Len(r) = Len(s) - 1
          /\ \A j \in 1 .. Len(s) - 1 : r[j] = IF j < i THEN s[j] ELSE s[j + 1]
      BY <2>3, <2>4, RemoveAtWhat
    <2>6. Distinct(r)
      <3> SUFFICES ASSUME NEW j \in 1 .. Len(r), NEW l \in 1 .. Len(r), r[j] = r[l]
                   PROVE  j = l
        BY DEF Distinct
      <3> QED BY <2>4, <2>5 DEF Distinct
    <2>7. ASSUME NEW x \in Elems(r) PROVE x \in Elems(s) /\ x /= e
      <3>1. PICK j \in 1 .. Len(r) : x = r[j]
        BY DEF Elems
      <3>2. j \in 1 .. Len(s) /\ j + 1 \in 1 .. Len(s) /\ (j < i => j /= i) /\ (~(j < i) => j + 1 /= i)
        BY <2>4, <2>5
      <3> QED BY <2>4, <2>5, <3>1, <3>2 DEF Distinct, Elems
    <2>8. ASSUME NEW x \in Elems(s), x /= e PROVE x \in Elems(r)
      <3>1. PICK j \in 1 .. Len(s) : x = s[j] /\ j /= i
        BY <2>4, <2>8 DEF Elems
      <3>2. CASE j < i
        <4>1. j \in 1 .. Len(s) - 1 /\ r[j] = s[j]
          BY <2>4, <2>5, <3>1, <3>2
        <4> QED BY <2>5, <3>1, <4>1 DEF Elems
      <3>3. CASE ~(j < i)
        <4>1. j - 1 \in 1 .. Len(s) - 1 /\ ~(j - 1 < i) /\ (j - 1) + 1 = j
          BY <2>4, <3>1, <3>3
        <4>2. r[j - 1] = s[j]
          BY <2>5, <4>1
        <4> QED BY <2>5, <3>1, <4>1, <4>2 DEF Elems
      <3> QED BY <3>2, <3>3
    <2> QED BY <2>5, <2>6, <2>7, <2>8 DEF r
  <1> QED BY <1>1, <1>2

\* rt_list_insert_before the head of a list.
LEMMA AppendWhat ==
  ASSUME NEW S, NEW s \in Seq(S), Distinct(s), NEW e \in S, e \notin Elems(s)
  PROVE  /\ Append(s, e) \in Seq(S)
         /\ Distinct(Append(s, e))
         /\ Elems(Append(s, e)) = Elems(s) \union {e}
  <1> DEFINE r == Append(s, e)
  <1>1. /\ r \in Seq(S) /\ Len(r) = Len(s) + 1 /\ r[Len(s) + 1] = e /\ Len(s) \in Nat
        /\ \A j \in 1 .. Len(s) : r[j] = s[j]
    BY AppendProperties
  <1> HIDE DEF r
  <1>2. \A j \in 1 .. Len(r) : j \in 1 .. Len(s) \/ j = Len(s) + 1
    BY <1>1
  <1>3. \A j \in 1 .. Len(s) : j \in 1 .. Len(r)
    BY <1>1
  <1>4. Distinct(r)
    BY <1>1, <1>2 DEF Distinct, Elems
  <1>5. Elems(r) = Elems(s) \union {e}
    BY <1>1, <1>2, <1>3 DEF Elems
  <1> QED BY <1>1, <1>4, <1>5 DEF r

\* rt_list_insert before an element of a list.
LEMMA InsertWhat ==
  ASSUME NEW S, NEW s \in Seq(S), Distinct(s), NEW e \in S, e \notin Elems(s),
         NEW i \in 1 .. Len(s)
  PROVE  /\ InsertAt(s, i, e) \in Seq(S)
         /\ Distinct(InsertAt(s, i, e))
         /\ Elems(InsertAt(s, i, e)) = Elems(s) \union {e}
  <1> DEFINE r == InsertAt(s, i, e)
  <1>1. /\ r \in Seq(S) /\ Len(r) = Len(s) + 1 /\ Len(s) \in Nat /\ i \in Nat
        /\ \A j \in 1 .. Len(s) + 1 :
             r[j] = IF j < i THEN s[j] ELSE IF j = i THEN e ELSE s[j - 1]
    <2>1. Len(s) \in Nat /\ i \in Nat
      OBVIOUS
    <2> QED BY <2>1, InsertAtWhat
  <1> HIDE DEF r
  <1>2. ASSUME NEW j \in 1 .. Len(r)
        PROVE  /\ j < i => j \in 1 .. Len(s) /\ r[j] = s[j]
               /\ j = i => r[j] = e
               /\ j > i => j - 1 \in 1 .. Len(s) /\ r[j] = s[j - 1]
    BY <1>1
  <1>3. Distinct(r)
    <2> SUFFICES ASSUME NEW j \in 1 .. Len(r), NEW l \in 1 .. Len(r), r[j] = r[l]
                 PROVE  j = l
      BY DEF Distinct
    <2>1. j \in Int /\ l \in Int /\ i \in Int
      BY <1>1
    <2>2. ASSUME NEW m \in 1 .. Len(r) PROVE r[m] = e <=> m = i
      <3>1. m < i \/ m = i \/ m > i
        BY <1>1
      <3> QED BY <1>1, <1>2, <3>1 DEF Elems
    <2>3. CASE j = i \/ l = i
      BY <2>2, <2>3
    <2>4. CASE j < i /\ l < i
      BY <1>2, <2>4 DEF Distinct
    <2>5. CASE j > i /\ l > i
      <3>1. j - 1 = l - 1
        BY <1>2, <2>5 DEF Distinct
      <3> QED BY <2>1, <3>1
    <2>6. CASE (j < i /\ l > i) \/ (j > i /\ l < i)
      <3>1. j = l - 1 \/ j - 1 = l
        BY <1>2, <2>6 DEF Distinct
      <3> QED BY <2>1, <2>6, <3>1
    <2> QED BY <2>1, <2>3, <2>4, <2>5, <2>6
  <1>4. ASSUME NEW j \in 1 .. Len(s)
        PROVE  \E l \in 1 .. Len(r) : r[l] = s[j]
    <2>1. CASE j < i
      <3>1. j \in 1 .. Len(r) /\ r[j] = s[j]
        BY <1>1, <2>1
      <3> QED BY <3>1
    <2>2. CASE ~(j < i)
      <3>1. j + 1 \in 1 .. Len(r) /\ j + 1 > i /\ (j + 1) - 1 = j
        BY <1>1, <2>2
      <3> QED BY <1>2, <3>1
    <2> QED BY <2>1, <2>2
  <1>5. Elems(r) \subseteq Elems(s) \union {e}
    <2> SUFFICES ASSUME NEW j \in 1 .. Len(r) PROVE r[j] \in Elems(s) \union {e}
      BY DEF Elems
    <2>1. j < i \/ j = i \/ j > i
      BY <1>1
    <2> QED BY <1>2, <2>1 DEF Elems
  <1>6. i \in 1 .. Len(r) /\ r[i] = e
    BY <1>1
  <1>7. Elems(r) = Elems(s) \union {e}
    BY <1>4, <1>5, <1>6 DEF Elems
  <1> QED BY <1>1, <1>3, <1>7 DEF r

\* The first element of a list that is not empty.
LEMMA HeadWhat ==
  ASSUME NEW S, NEW s \in Seq(S), s /= <<>>
  PROVE  Head(s) \in S /\ Head(s) \in Elems(s)
  <1>1. Head(s) = s[1] /\ 1 \in 1 .. Len(s) /\ Head(s) \in S
    BY EmptySeq, HeadTailProperties
  <1> QED BY <1>1 DEF Elems

\* A list is empty when it has no elements.
LEMMA NoElems ==
  ASSUME NEW S, NEW s \in Seq(S)
  PROVE  s = <<>> <=> Elems(s) = {}
  <1>1. CASE s = <<>>
    BY <1>1 DEF Elems
  <1>2. CASE s /= <<>>
    BY <1>2, HeadWhat
  <1> QED BY <1>1, <1>2

\* The threads of a list of timers.
Owners(s) == [i \in 1 .. Len(s) |-> s[i].thread]
Timer == [thread : Threads, timeout : 0 .. TickRange - 1]

\* The threads of a list of timers are a list of threads.
LEMMA OwnersType ==
  ASSUME NEW s \in Seq(Timer)
  PROVE  /\ Owners(s) \in Seq(Threads) /\ Len(Owners(s)) = Len(s)
         /\ \A i \in 1 .. Len(s) : Owners(s)[i] = s[i].thread
  <1>1. \A i \in 1 .. Len(s) : s[i].thread \in Threads
    <2>1. \A i \in 1 .. Len(s) : s[i] \in Timer
      OBVIOUS
    <2> QED BY <2>1 DEF Timer
  <1>2. Owners(s) \in [1 .. Len(s) -> Threads] /\ Len(s) \in Nat
    BY <1>1 DEF Owners
  <1> QED BY <1>2 DEF Owners

\* Sequences of one length with the same elements are the same.
LEMMA SameSeq ==
  ASSUME NEW S, NEW r \in Seq(S), NEW s \in Seq(S), Len(r) = Len(s),
         \A i \in 1 .. Len(s) : r[i] = s[i]
  PROVE  r = s
  OBVIOUS

\* The elements of r are in the order in which q has them.
InOrder(q, r) ==
  \A i, j \in 1 .. Len(r) :
    i < j => \E a, b \in 1 .. Len(q) : a < b /\ q[a] = r[i] /\ q[b] = r[j]

\* What keeps the order of what keeps the order keeps it.
LEMMA InOrderAgain ==
  ASSUME NEW p, NEW q, NEW r, InOrder(p, q), InOrder(q, r)
  PROVE  InOrder(p, r)
  <1> SUFFICES ASSUME NEW i \in 1 .. Len(r), NEW j \in 1 .. Len(r), i < j
               PROVE  \E a, b \in 1 .. Len(p) : a < b /\ p[a] = r[i] /\ p[b] = r[j]
    BY Zenon DEF InOrder
  <1>1. PICK c \in 1 .. Len(q), d \in 1 .. Len(q) : c < d /\ q[c] = r[i] /\ q[d] = r[j]
    BY Zenon DEF InOrder
  <1>2. PICK a \in 1 .. Len(p), b \in 1 .. Len(p) : a < b /\ p[a] = q[c] /\ p[b] = q[d]
    BY <1>1, Zenon DEF InOrder
  <1> QED BY <1>1, <1>2, Zenon

\* rt_list_remove keeps the order.
LEMMA RemoveFirstOrder ==
  ASSUME NEW S, NEW s \in Seq(S), NEW e
  PROVE  InOrder(s, RemoveFirst(s, e))
  <1> DEFINE r == RemoveFirst(s, e)
             I == {i \in 1 .. Len(s) : s[i] = e}
  <1>1. CASE I = {}
    <2>1. r = s
      BY <1>1 DEF RemoveFirst
    <2> QED BY <2>1 DEF InOrder
  <1>2. CASE I /= {}
    <2>1. I \in SUBSET Nat
      OBVIOUS
    <2>2. PICK i \in I : i = Min(I)
      BY <1>2, <2>1, MinIsLeast
    <2>3. r = RemoveAt(s, i)
      BY <1>2, <2>2 DEF RemoveFirst, SelectInSeq
    <2> HIDE DEF r
    <2>4. i \in 1 .. Len(s) /\ Len(s) \in Nat
      OBVIOUS
    <2>5. /\ Len(r) = Len(s) - 1
          /\ \A j \in 1 .. Len(s) - 1 : r[j] = IF j < i THEN s[j] ELSE s[j + 1]
      BY <2>3, <2>4, RemoveAtWhat
    <2> HIDE DEF I
    <2> SUFFICES ASSUME NEW j \in 1 .. Len(r), NEW l \in 1 .. Len(r), j < l
                 PROVE  \E a, b \in 1 .. Len(s) : a < b /\ s[a] = r[j] /\ s[b] = r[l]
      BY DEF InOrder, r
    <2> DEFINE a == IF j < i THEN j ELSE j + 1
               b == IF l < i THEN l ELSE l + 1
    <2>6. a \in 1 .. Len(s) /\ b \in 1 .. Len(s) /\ a < b
      BY <2>4, <2>5
    <2>7. s[a] = r[j] /\ s[b] = r[l]
      BY <2>4, <2>5
    <2> HIDE DEF a, b
    <2> QED BY <2>6, <2>7
  <1> QED BY <1>1, <1>2

\* The order of the elements is all there is to know of a list without doubles.
LEMMA OrderTells ==
  ASSUME NEW S, NEW w \in Seq(S), Distinct(w), NEW p \in Seq(S), NEW q \in Seq(S),
         Distinct(p), Distinct(q), Elems(p) = Elems(q), InOrder(w, p), InOrder(w, q)
  PROVE  p = q
  <1>1. Len(p) \in Nat /\ Len(q) \in Nat
    OBVIOUS
  \* What is before another element in q is before it in p.
  <1>2. ASSUME NEW c \in 1 .. Len(q), NEW d \in 1 .. Len(q), c < d,
               NEW a \in 1 .. Len(p), NEW b \in 1 .. Len(p), p[a] = q[c], p[b] = q[d]
        PROVE  a < b
    <2>1. PICK x \in 1 .. Len(w), y \in 1 .. Len(w) : x < y /\ w[x] = q[c] /\ w[y] = q[d]
      BY <1>2 DEF InOrder
    <2>2. a /= b
      BY <1>2 DEF Distinct
    <2>3. ASSUME b < a PROVE FALSE
      <3>1. PICK u \in 1 .. Len(w), v \in 1 .. Len(w) : u < v /\ w[u] = p[b] /\ w[v] = p[a]
        BY <2>3 DEF InOrder
      <3>2. u = y /\ v = x
        BY <1>2, <2>1, <3>1 DEF Distinct
      <3> QED BY <2>1, <3>1, <3>2
    <2> QED BY <2>2, <2>3
  <1> DEFINE Differ == {n \in 1 .. Len(p) : ~(n \in 1 .. Len(q) /\ q[n] = p[n])}
  <1>3. Differ = {}
    <2> SUFFICES ASSUME Differ /= {} PROVE FALSE
      OBVIOUS
    <2>1. Differ \in SUBSET Nat
      OBVIOUS
    <2>2. PICK n \in Differ : \A l \in Differ : n <= l
      BY <2>1, NatMin
    <2>3. n \in 1 .. Len(p) /\ ~(n \in 1 .. Len(q) /\ q[n] = p[n])
      BY <2>2
    <2>4. ASSUME NEW l \in 1 .. n - 1 PROVE l \in 1 .. Len(p) /\ l \in 1 .. Len(q) /\ q[l] = p[l]
      <3>1. l \in 1 .. Len(p) /\ ~(n <= l)
        BY <1>1, <2>3
      <3> QED BY <2>2, <3>1
    <2> HIDE DEF Differ
    <2>5. PICK c \in 1 .. Len(q) : q[c] = p[n]
      BY <2>3 DEF Elems
    <2>6. c \notin 1 .. n - 1
      <3> SUFFICES ASSUME c \in 1 .. n - 1 PROVE FALSE
        OBVIOUS
      <3>1. c \in 1 .. Len(p) /\ p[c] = p[n]
        BY <2>4, <2>5
      <3> QED BY <2>3, <3>1 DEF Distinct
    <2>7. c > n /\ n \in 1 .. Len(q) /\ c /= n
      BY <1>1, <2>3, <2>5, <2>6
    <2>8. PICK d \in 1 .. Len(p) : p[d] = q[n]
      BY <2>7 DEF Elems
    <2>9. d \notin 1 .. n - 1
      <3> SUFFICES ASSUME d \in 1 .. n - 1 PROVE FALSE
        OBVIOUS
      <3>1. d \in 1 .. Len(q) /\ q[d] = q[n]
        BY <2>4, <2>8
      <3> QED BY <2>3, <2>7, <3>1 DEF Distinct
    <2>10. d < n
      BY <1>2, <2>3, <2>5, <2>7, <2>8
    <2>11. d \in 1 .. n - 1
      BY <1>1, <2>3, <2>10
    <2> QED BY <2>9, <2>11
  <1>4. \A n \in 1 .. Len(p) : n \in 1 .. Len(q) /\ q[n] = p[n]
    BY <1>3
  <1>5. Len(p) <= Len(q)
    <2>1. CASE Len(p) = 0
      BY <1>1, <2>1
    <2>2. CASE Len(p) /= 0
      <3>1. Len(p) \in 1 .. Len(p)
        BY <1>1, <2>2
      <3> QED BY <1>1, <1>4, <3>1
    <2> QED BY <2>1, <2>2
  <1>6. Len(q) <= Len(p)
    <2> SUFFICES ASSUME Len(p) < Len(q) PROVE FALSE
      BY <1>1
    <2>1. Len(q) \in 1 .. Len(q)
      BY <1>1
    <2>2. PICK d \in 1 .. Len(p) : p[d] = q[Len(q)]
      BY <2>1 DEF Elems
    <2>3. d \in 1 .. Len(q) /\ q[d] = q[Len(q)]
      BY <1>4, <2>2
    <2>4. d = Len(q)
      BY <2>1, <2>3 DEF Distinct
    <2> QED BY <1>1, <2>2, <2>4
  <1> QED BY <1>1, <1>4, <1>5, <1>6, SameSeq

\* A list keeps its order when its first element is taken.
LEMMA TailOrder ==
  ASSUME NEW S, NEW s \in Seq(S), Distinct(s), s /= <<>>
  PROVE  /\ Tail(s) \in Seq(S) /\ Distinct(Tail(s)) /\ InOrder(s, Tail(s))
         /\ Elems(Tail(s)) = Elems(s) \ {Head(s)}
  <1> DEFINE t == Tail(s)
  <1>1. /\ Len(s) \in Nat \ {0} /\ t \in Seq(S) /\ Len(t) = Len(s) - 1 /\ Head(s) = s[1]
        /\ \A j \in 1 .. Len(s) - 1 : t[j] = s[j + 1]
    BY EmptySeq, HeadTailProperties
  <1> HIDE DEF t
  <1>2. \A j \in 1 .. Len(t) : j + 1 \in 1 .. Len(s) /\ t[j] = s[j + 1] /\ j + 1 /= 1
    BY <1>1
  <1>3. Distinct(t)
    <2> SUFFICES ASSUME NEW i \in 1 .. Len(t), NEW j \in 1 .. Len(t), t[i] = t[j]
                 PROVE  i = j
      BY DEF Distinct
    <2>1. i + 1 = j + 1
      BY <1>2 DEF Distinct
    <2> QED BY <2>1
  <1>4. InOrder(s, t)
    <2> SUFFICES ASSUME NEW i \in 1 .. Len(t), NEW j \in 1 .. Len(t), i < j
                 PROVE  \E a, b \in 1 .. Len(s) : a < b /\ s[a] = t[i] /\ s[b] = t[j]
      BY DEF InOrder
    <2>1. i + 1 < j + 1
      OBVIOUS
    <2> QED BY <1>2, <2>1
  <1>5. ASSUME NEW x \in Elems(s), x /= Head(s) PROVE x \in Elems(t)
    <2>1. PICK j \in 1 .. Len(s) : x = s[j]
      BY DEF Elems
    <2>2. j - 1 \in 1 .. Len(t) /\ (j - 1) + 1 = j
      BY <1>1, <1>5, <2>1
    <2> QED BY <1>2, <2>1, <2>2 DEF Elems
  <1>6. ASSUME NEW x \in Elems(t) PROVE x \in Elems(s) /\ x /= Head(s)
    <2>1. PICK j \in 1 .. Len(t) : x = t[j]
      BY DEF Elems
    <2>2. 1 \in 1 .. Len(s)
      BY <1>1
    <2> QED BY <1>1, <1>2, <2>1, <2>2 DEF Elems, Distinct
  <1> QED BY <1>1, <1>3, <1>4, <1>5, <1>6 DEF t

\* Removing a timer removes its thread.
LEMMA OwnersOfRemoved ==
  ASSUME NEW s \in Seq(Timer), NEW i \in 1 .. Len(s)
  PROVE  Owners(RemoveAt(s, i)) = RemoveAt(Owners(s), i)
  <1> DEFINE a == RemoveAt(s, i)
             b == RemoveAt(Owners(s), i)
  <1>1. /\ a \in Seq(Timer) /\ Len(a) = Len(s) - 1 /\ Len(s) \in Nat /\ i \in Nat
        /\ \A j \in 1 .. Len(s) - 1 : a[j] = IF j < i THEN s[j] ELSE s[j + 1]
    BY RemoveAtWhat
  <1>2. /\ b \in Seq(Threads) /\ Len(b) = Len(s) - 1
        /\ \A j \in 1 .. Len(s) - 1 : b[j] = IF j < i THEN Owners(s)[j] ELSE Owners(s)[j + 1]
    BY OwnersType, RemoveAtWhat
  <1> HIDE DEF a, b
  <1>3. ASSUME NEW j \in 1 .. Len(s) - 1 PROVE a[j].thread = b[j]
    <2>1. j \in 1 .. Len(s) /\ j + 1 \in 1 .. Len(s)
      BY <1>1
    <2>2. Owners(s)[j] = s[j].thread /\ Owners(s)[j + 1] = s[j + 1].thread
      BY <2>1, OwnersType
    <2> QED BY <1>1, <1>2, <2>2
  <1>4. /\ Owners(a) \in Seq(Threads) /\ Len(Owners(a)) = Len(s) - 1
        /\ \A j \in 1 .. Len(s) - 1 : Owners(a)[j] = b[j]
    BY <1>1, <1>3, OwnersType
  <1>5. Owners(a) = b
    BY <1>2, <1>4, SameSeq
  <1> QED BY <1>5 DEF a, b

\* Inserting a timer inserts its thread.
LEMMA OwnersOfInserted ==
  ASSUME NEW s \in Seq(Timer), NEW i \in 1 .. Len(s), NEW e \in Timer
  PROVE  Owners(InsertAt(s, i, e)) = InsertAt(Owners(s), i, e.thread)
  <1> DEFINE a == InsertAt(s, i, e)
             b == InsertAt(Owners(s), i, e.thread)
  <1>1. /\ a \in Seq(Timer) /\ Len(a) = Len(s) + 1 /\ Len(s) \in Nat /\ i \in Nat
        /\ \A j \in 1 .. Len(s) + 1 :
             a[j] = IF j < i THEN s[j] ELSE IF j = i THEN e ELSE s[j - 1]
    <2>1. Len(s) \in Nat /\ i \in Nat
      OBVIOUS
    <2> QED BY <2>1, InsertAtWhat
  <1>2. /\ b \in Seq(Threads) /\ Len(b) = Len(s) + 1
        /\ \A j \in 1 .. Len(s) + 1 :
             b[j] = IF j < i THEN Owners(s)[j] ELSE IF j = i THEN e.thread ELSE Owners(s)[j - 1]
    <2>1. e.thread \in Threads
      BY DEF Timer
    <2>2. Owners(s) \in Seq(Threads) /\ Len(Owners(s)) = Len(s)
      BY OwnersType
    <2> DEFINE o == Owners(s)
    <2> HIDE DEF o
    <2>3. o \in Seq(Threads) /\ i \in 1 .. Len(o) /\ Len(o) = Len(s)
      BY <2>2 DEF o
    <2>4. /\ InsertAt(o, i, e.thread) \in Seq(Threads)
          /\ Len(InsertAt(o, i, e.thread)) = Len(o) + 1
          /\ \A j \in 1 .. Len(o) + 1 :
               InsertAt(o, i, e.thread)[j]
                 = IF j < i THEN o[j] ELSE IF j = i THEN e.thread ELSE o[j - 1]
      <3>1. \A x : x \in Threads =>
              /\ InsertAt(o, i, x) \in Seq(Threads)
              /\ Len(InsertAt(o, i, x)) = Len(o) + 1
              /\ \A j \in 1 .. Len(o) + 1 :
                   InsertAt(o, i, x)[j] = IF j < i THEN o[j] ELSE IF j = i THEN x ELSE o[j - 1]
        BY <2>3, InsertAtWhat
      <3> QED BY <2>1, <3>1
    <2> QED BY <2>3, <2>4 DEF o
  <1> HIDE DEF a, b
  <1>3. ASSUME NEW j \in 1 .. Len(s) + 1 PROVE a[j].thread = b[j]
    <2>1. CASE j < i
      <3>1. j \in 1 .. Len(s)
        BY <1>1, <2>1
      <3>2. Owners(s)[j] = s[j].thread
        BY <3>1, OwnersType
      <3> QED BY <1>1, <1>2, <2>1, <3>2
    <2>2. CASE j > i
      <3>1. j - 1 \in 1 .. Len(s)
        BY <1>1, <2>2
      <3>2. Owners(s)[j - 1] = s[j - 1].thread
        BY <3>1, OwnersType
      <3> QED BY <1>1, <1>2, <2>2, <3>2
    <2>3. CASE j = i
      BY <1>1, <1>2, <2>3
    <2> QED BY <1>1, <2>1, <2>2, <2>3
  <1>4. /\ Owners(a) \in Seq(Threads) /\ Len(Owners(a)) = Len(s) + 1
        /\ \A j \in 1 .. Len(s) + 1 : Owners(a)[j] = b[j]
    BY <1>1, <1>3, OwnersType
  <1>5. Owners(a) = b
    BY <1>2, <1>4, SameSeq
  <1> QED BY <1>5 DEF a, b

\* Appending a timer appends its thread.
LEMMA OwnersOfAppended ==
  ASSUME NEW s \in Seq(Timer), NEW e \in Timer
  PROVE  Owners(Append(s, e)) = Append(Owners(s), e.thread)
  <1> DEFINE a == Append(s, e)
             b == Append(Owners(s), e.thread)
  <1>1. /\ a \in Seq(Timer) /\ Len(a) = Len(s) + 1 /\ Len(s) \in Nat
        /\ a[Len(s) + 1] = e /\ \A j \in 1 .. Len(s) : a[j] = s[j]
    BY AppendProperties
  <1>2. /\ b \in Seq(Threads) /\ Len(b) = Len(s) + 1
        /\ b[Len(s) + 1] = e.thread /\ \A j \in 1 .. Len(s) : b[j] = Owners(s)[j]
    <2>1. e.thread \in Threads
      BY DEF Timer
    <2> QED BY <2>1, OwnersType, AppendProperties
  <1> HIDE DEF a, b
  <1>3. ASSUME NEW j \in 1 .. Len(s) + 1 PROVE a[j].thread = b[j]
    <2>1. j \in 1 .. Len(s) \/ j = Len(s) + 1
      BY <1>1
    <2> QED BY <1>1, <1>2, <2>1, OwnersType
  <1>4. /\ Owners(a) \in Seq(Threads) /\ Len(Owners(a)) = Len(s) + 1
        /\ \A j \in 1 .. Len(s) + 1 : Owners(a)[j] = b[j]
    BY <1>1, <1>3, OwnersType
  <1>5. Owners(a) = b
    BY <1>2, <1>4, SameSeq
  <1> QED BY <1>5 DEF a, b

\* Without its head a list of timers is without the thread of its head.
LEMMA TimersTail ==
  ASSUME NEW s \in Seq(Timer), s /= <<>>, Distinct(Owners(s))
  PROVE  /\ Tail(s) \in Seq(Timer) /\ Distinct(Owners(Tail(s)))
         /\ Head(s).thread \in Elems(Owners(s))
         /\ Elems(Owners(Tail(s))) = Elems(Owners(s)) \ {Head(s).thread}
  <1>1. /\ Tail(s) \in Seq(Timer) /\ Len(Tail(s)) = Len(s) - 1 /\ Len(s) \in Nat \ {0}
        /\ Head(s) = s[1] /\ \A i \in 1 .. Len(s) - 1 : Tail(s)[i] = s[i + 1]
    BY EmptySeq, HeadTailProperties
  <1>2. /\ Owners(s) \in Seq(Threads) /\ Len(Owners(s)) = Len(s)
        /\ \A i \in 1 .. Len(s) : Owners(s)[i] = s[i].thread
    BY OwnersType
  <1>3. /\ Owners(Tail(s)) \in Seq(Threads) /\ Len(Owners(Tail(s))) = Len(s) - 1
        /\ \A i \in 1 .. Len(s) - 1 : Owners(Tail(s))[i] = Owners(s)[i + 1]
    <2>1. /\ Owners(Tail(s)) \in Seq(Threads) /\ Len(Owners(Tail(s))) = Len(s) - 1
          /\ \A i \in 1 .. Len(s) - 1 : Owners(Tail(s))[i] = Tail(s)[i].thread
      BY <1>1, OwnersType
    <2>2. ASSUME NEW i \in 1 .. Len(s) - 1 PROVE Tail(s)[i].thread = Owners(s)[i + 1]
      <3>1. i + 1 \in 1 .. Len(s)
        BY <1>1
      <3> QED BY <1>1, <1>2, <3>1
    <2> QED BY <2>1, <2>2
  <1>4. Distinct(Owners(Tail(s)))
    <2> SUFFICES ASSUME NEW i \in 1 .. Len(s) - 1, NEW j \in 1 .. Len(s) - 1,
                        Owners(s)[i + 1] = Owners(s)[j + 1]
                 PROVE  i = j
      BY <1>3 DEF Distinct
    <2>1. i + 1 \in 1 .. Len(s) /\ j + 1 \in 1 .. Len(s)
      BY <1>1
    <2> QED BY <1>2, <2>1 DEF Distinct
  <1>5. 1 \in 1 .. Len(s) /\ Head(s).thread = Owners(s)[1]
    BY <1>1, <1>2
  <1>6. ASSUME NEW x \in Elems(Owners(Tail(s)))
        PROVE  x \in Elems(Owners(s)) /\ x /= Head(s).thread
    <2>1. PICK i \in 1 .. Len(s) - 1 : x = Owners(s)[i + 1]
      BY <1>3 DEF Elems
    <2>2. i + 1 \in 1 .. Len(s) /\ i + 1 /= 1
      BY <1>1
    <2> QED BY <1>2, <1>5, <2>1, <2>2 DEF Distinct, Elems
  <1>7. ASSUME NEW x \in Elems(Owners(s)), x /= Head(s).thread
        PROVE  x \in Elems(Owners(Tail(s)))
    <2>1. PICK i \in 1 .. Len(s) : x = Owners(s)[i] /\ i /= 1
      BY <1>2, <1>5, <1>7 DEF Elems
    <2>2. i - 1 \in 1 .. Len(s) - 1 /\ (i - 1) + 1 = i
      BY <1>1, <2>1
    <2>3. x = Owners(Tail(s))[i - 1]
      BY <1>3, <2>1, <2>2
    <2> QED BY <1>3, <2>2, <2>3 DEF Elems
  <1> QED BY <1>1, <1>2, <1>4, <1>5, <1>6, <1>7 DEF Elems
-----------------------------------------------------------------------------
\* The state of the kernel.
KState ==
  [tick : 0 .. TickRange - 1, current : Threads \union {Null},
   group : SUBSET Priorities, yield : SUBSET Threads, timers : Seq(Timer),
   stat : [Threads -> {"INIT", "READY", "RUNNING", "SUSPEND"}],
   priority : [Threads -> Priorities],
   error : [Threads -> {"EOK", "ETIMEOUT", "ERROR"}],
   remaining : [Threads -> Nat],
   ready : [Priorities -> Seq(Threads)], waiting : [Objects -> Seq(Threads)]]

ReadyAt(j, p) == Elems(j.ready[p])
WaitsAt(j, o) == Elems(j.waiting[o])
Timed(j) == Elems(Owners(j.timers))

\* No list has a thread twice.
ListsOK(j) ==
  /\ \A p \in Priorities : Distinct(j.ready[p])
  /\ \A o \in Objects : Distinct(j.waiting[o])
  /\ Distinct(Owners(j.timers))

\* The ready group has the priorities with a ready thread.
GroupOK(j) == j.group = {p \in Priorities : ReadyAt(j, p) /= {}}

\* A thread is in the ready list of its priority when its state is READY.
ReadyOK(j) ==
  \A p \in Priorities, t \in Threads :
    t \in ReadyAt(j, p) <=> j.stat[t] = "READY" /\ j.priority[t] = p

\* Who waits or has a timer is suspended, and waits for one object at a time.
WaitingOK(j) ==
  /\ \A o \in Objects, t \in Threads : t \in WaitsAt(j, o) => j.stat[t] = "SUSPEND"
  /\ \A o, q \in Objects, t \in Threads :
       t \in WaitsAt(j, o) /\ t \in WaitsAt(j, q) => o = q
  /\ \A t \in Threads : t \in Timed(j) => j.stat[t] = "SUSPEND"

\* The thread that runs is the current one, which is not in a ready list.
CurrentOK(j) ==
  \A t \in Threads : /\ j.stat[t] = "RUNNING" => j.current = t
                     /\ j.stat[t] = "READY" => j.current /= t

\* The state of a thread tells which lists it may be in.
StatesOK(j) == ReadyOK(j) /\ WaitingOK(j) /\ CurrentOK(j)

KInv(j) == ListsOK(j) /\ GroupOK(j) /\ StatesOK(j)

\* Priorities are numbers.
LEMMA PriorityType ==
  Priorities \in SUBSET Nat /\ InitPriority \in [Threads -> Priorities]
  BY KernelAssumption DEF Priorities

\* No list of waiting threads has got a thread that was not in it, or changed
\* its order.
Thins(i, j) == \A o \in Objects : InOrder(i.waiting[o], j.waiting[o])

LEMMA ThinsSame ==
  ASSUME NEW i, NEW j, i.waiting = j.waiting
  PROVE  Thins(i, j)
  BY DEF Thins, InOrder

LEMMA ThinsAgain ==
  ASSUME NEW i, NEW j, NEW l, Thins(i, j), Thins(j, l)
  PROVE  Thins(i, l)
  BY InOrderAgain DEF Thins

\* t is in no list any more, and the lists of the others are as they were.
LEMMA UnlinkWhat ==
  ASSUME NEW j \in KState, ListsOK(j), NEW t \in Threads
  PROVE  LET u == Unlink(j, t) IN
         /\ u \in KState /\ ListsOK(u)
         /\ u = [j EXCEPT !.ready = u.ready, !.waiting = u.waiting]
         /\ \A p \in Priorities : ReadyAt(u, p) = ReadyAt(j, p) \ {t}
         /\ \A o \in Objects : WaitsAt(u, o) = WaitsAt(j, o) \ {t}
         /\ Thins(j, u)
  <1> DEFINE r == [p \in Priorities |-> RemoveFirst(j.ready[p], t)]
             w == [o \in Objects |-> RemoveFirst(j.waiting[o], t)]
             u == [j EXCEPT !.ready = r, !.waiting = w]
  <1>1. Unlink(j, t) = u
    BY DEF Unlink, KState
  <1>2. ASSUME NEW p \in Priorities
        PROVE  r[p] \in Seq(Threads) /\ Distinct(r[p]) /\ Elems(r[p]) = Elems(j.ready[p]) \ {t}
    <2>1. j.ready[p] \in Seq(Threads) /\ Distinct(j.ready[p])
      BY DEF KState, ListsOK
    <2> QED BY <2>1, RemoveFirstWhat
  <1>3. ASSUME NEW o \in Objects
        PROVE  /\ w[o] \in Seq(Threads) /\ Distinct(w[o]) /\ Elems(w[o]) = Elems(j.waiting[o]) \ {t}
               /\ InOrder(j.waiting[o], w[o])
    <2>1. j.waiting[o] \in Seq(Threads) /\ Distinct(j.waiting[o])
      BY DEF KState, ListsOK
    <2> QED BY <2>1, RemoveFirstWhat, RemoveFirstOrder
  <1>4. r \in [Priorities -> Seq(Threads)] /\ w \in [Objects -> Seq(Threads)]
    BY <1>2, <1>3
  <1> HIDE DEF r, w
  <1>5. u \in KState /\ u.ready = r /\ u.waiting = w /\ u.timers = j.timers
    BY <1>4 DEF KState
  <1>6. u = [j EXCEPT !.ready = u.ready, !.waiting = u.waiting]
    BY <1>5
  <1> HIDE DEF u
  <1>7. ListsOK(u)
    BY <1>2, <1>3, <1>5 DEF ListsOK
  <1> QED BY <1>1, <1>2, <1>3, <1>5, <1>6, <1>7 DEF ReadyAt, WaitsAt, Thins
\* A change of thread->stat changes no list.
LEMMA StatWhat ==
  ASSUME NEW j \in KState, ListsOK(j), GroupOK(j), NEW t \in Threads,
         NEW x \in {"READY", "RUNNING", "SUSPEND"}
  PROVE  LET u == [j EXCEPT !.stat[t] = x] IN
         /\ u \in KState /\ ListsOK(u) /\ GroupOK(u)
         /\ \A p \in Priorities : ReadyAt(u, p) = ReadyAt(j, p)
         /\ \A o \in Objects : WaitsAt(u, o) = WaitsAt(j, o)
         /\ Timed(u) = Timed(j)
  BY DEF KState, ListsOK, GroupOK, ReadyAt, WaitsAt, Timed

\* rt_schedule_remove_thread keeps the ready group in step with the lists.
LEMMA RemoveWhat ==
  ASSUME NEW j \in KState, ListsOK(j), GroupOK(j), NEW t \in Threads,
         \A p \in Priorities \ {j.priority[t]} : t \notin ReadyAt(j, p)
  PROVE  LET u == rt_schedule_remove_thread(j, t) IN
         /\ u \in KState /\ ListsOK(u) /\ GroupOK(u)
         /\ u = [j EXCEPT !.ready = u.ready, !.waiting = u.waiting, !.group = u.group]
         /\ \A p \in Priorities : ReadyAt(u, p) = ReadyAt(j, p) \ {t}
         /\ \A o \in Objects : WaitsAt(u, o) = WaitsAt(j, o) \ {t}
         /\ Thins(j, u)
  <1> DEFINE l == Unlink(j, t)
             u == rt_schedule_remove_thread(j, t)
             p0 == j.priority[t]
  <1>1. /\ l \in KState /\ ListsOK(l)
        /\ l = [j EXCEPT !.ready = l.ready, !.waiting = l.waiting]
        /\ \A p \in Priorities : ReadyAt(l, p) = ReadyAt(j, p) \ {t}
        /\ \A o \in Objects : WaitsAt(l, o) = WaitsAt(j, o) \ {t}
        /\ Thins(j, l)
    BY UnlinkWhat
  <1>2. u = IF l.ready[l.priority[t]] = <<>>
            THEN [l EXCEPT !.group = @ \ {l.priority[t]}] ELSE l
    BY DEF rt_schedule_remove_thread
  <1> HIDE DEF l, u
  <1>3. p0 \in Priorities /\ l.priority[t] = p0 /\ l.group = j.group
    BY <1>1 DEF KState
  <1>4. l.ready[p0] = <<>> <=> ReadyAt(l, p0) = {}
    <2>1. l.ready[p0] \in Seq(Threads)
      BY <1>1, <1>3 DEF KState
    <2> QED BY <2>1, NoElems DEF ReadyAt
  <1> DEFINE g == IF ReadyAt(l, p0) = {} THEN j.group \ {p0} ELSE j.group
  <1>5. u = [l EXCEPT !.group = g]
    BY <1>1, <1>2, <1>3, <1>4 DEF KState
  <1>6. g \in SUBSET Priorities /\ g = {p \in Priorities : ReadyAt(l, p) /= {}}
    BY <1>1, <1>3 DEF GroupOK
  <1> HIDE DEF g
  <1>7. u \in KState /\ u.ready = l.ready /\ u.waiting = l.waiting /\ u.timers = l.timers /\ u.group = g
    BY <1>1, <1>5, <1>6 DEF KState
  <1>8. ListsOK(u)
    BY <1>1, <1>7 DEF ListsOK
  <1>9. GroupOK(u)
    BY <1>6, <1>7 DEF GroupOK, ReadyAt
  <1>10. u = [j EXCEPT !.ready = u.ready, !.waiting = u.waiting, !.group = u.group]
    BY <1>1, <1>5, <1>7 DEF KState
  <1>11. Thins(j, u)
    BY <1>1, <1>7 DEF Thins
  <1> QED BY <1>1, <1>7, <1>8, <1>9, <1>10, <1>11 DEF u, ReadyAt, WaitsAt

\* rt_schedule_insert_thread of a thread that does not run.
LEMMA PutWhat ==
  ASSUME NEW j \in KState, ListsOK(j), GroupOK(j), NEW t \in Threads, j.current /= t,
         \A p \in Priorities : t \notin ReadyAt(j, p)
  PROVE  LET u == rt_schedule_insert_thread(j, t) IN
         /\ u \in KState /\ ListsOK(u) /\ GroupOK(u)
         /\ u = [j EXCEPT !.stat[t] = "READY", !.ready = u.ready, !.group = u.group]
         /\ \A p \in Priorities :
              ReadyAt(u, p) = IF p = j.priority[t] THEN ReadyAt(j, p) \union {t} ELSE ReadyAt(j, p)
  <1> DEFINE p0 == j.priority[t]
             a == Append(j.ready[p0], t)
             r == [j.ready EXCEPT ![p0] = a]
             g == j.group \union {p0}
             u == [j EXCEPT !.stat[t] = "READY", !.ready = r, !.group = g]
  <1>1. p0 \in Priorities /\ j.ready \in [Priorities -> Seq(Threads)]
        /\ j.ready[p0] \in Seq(Threads) /\ Distinct(j.ready[p0]) /\ t \notin Elems(j.ready[p0])
    BY DEF KState, ListsOK, ReadyAt
  <1>2. rt_schedule_insert_thread(j, t) = u
    BY <1>1 DEF rt_schedule_insert_thread, KState
  <1>3. a \in Seq(Threads) /\ Distinct(a) /\ Elems(a) = Elems(j.ready[p0]) \union {t}
    BY <1>1, AppendWhat
  <1> HIDE DEF a
  <1>4. r \in [Priorities -> Seq(Threads)] /\ r[p0] = a
        /\ \A p \in Priorities \ {p0} : r[p] = j.ready[p]
    BY <1>1, <1>3
  <1>5. g \in SUBSET Priorities
    BY <1>1 DEF KState
  <1> HIDE DEF r, g
  <1>6. u \in KState /\ u.ready = r /\ u.waiting = j.waiting /\ u.timers = j.timers /\ u.group = g
    BY <1>4, <1>5 DEF KState
  <1>7. u = [j EXCEPT !.stat[t] = "READY", !.ready = u.ready, !.group = u.group]
    BY <1>6
  <1> HIDE DEF u
  <1>8. ListsOK(u)
    BY <1>3, <1>4, <1>6 DEF ListsOK
  <1>9. \A p \in Priorities : ReadyAt(u, p) = IF p = p0 THEN ReadyAt(j, p) \union {t} ELSE ReadyAt(j, p)
    BY <1>3, <1>4, <1>6 DEF ReadyAt
  <1>10. GroupOK(u)
    BY <1>1, <1>6, <1>9 DEF GroupOK, g
  <1> QED BY <1>2, <1>6, <1>7, <1>8, <1>9, <1>10

\* t has no timer any more.
LEMMA TimerStopWhat ==
  ASSUME NEW j \in KState, ListsOK(j), NEW t \in Threads
  PROVE  LET u == rt_timer_stop(j, t) IN
         /\ u \in KState /\ ListsOK(u)
         /\ u = [j EXCEPT !.timers = u.timers]
         /\ Timed(u) = Timed(j) \ {t}
  <1> DEFINE l == RemoveFirstMatch(j.timers, LAMBDA e : e.thread = t)
             o == Owners(j.timers)
             u == [j EXCEPT !.timers = l]
  <1>1. rt_timer_stop(j, t) = u
    BY DEF rt_timer_stop, KState
  <1>2. j.timers \in Seq(Timer)
    BY DEF KState
  <1>3. o \in Seq(Threads) /\ Len(o) = Len(j.timers) /\ Distinct(o)
        /\ \A i \in 1 .. Len(j.timers) : o[i] = j.timers[i].thread
    BY <1>2, OwnersType DEF ListsOK
  <1> HIDE DEF o
  <1>4. l \in Seq(Timer) /\ Owners(l) = RemoveFirst(o, t)
    <2> DEFINE I == {i \in 1 .. Len(j.timers) : j.timers[i].thread = t}
               m == Min(I)
    <2>1. I = {i \in 1 .. Len(o) : o[i] = t}
      BY <1>3
    <2>2. CASE I = {}
      <3>1. l = j.timers
        BY <2>2 DEF RemoveFirstMatch
      <3>2. RemoveFirst(o, t) = o
        BY <2>1, <2>2 DEF RemoveFirst
      <3> QED BY <1>2, <3>1, <3>2 DEF o
    <2>3. CASE I /= {}
      <3>1. m \in I
        <4>1. I \in SUBSET Nat
          OBVIOUS
        <4> QED BY <2>3, <4>1, MinIsLeast
      <3>2. l = RemoveAt(j.timers, m)
        BY <2>3 DEF RemoveFirstMatch, SelectInSeq
      <3>3. RemoveFirst(o, t) = RemoveAt(o, m)
        BY <2>1, <2>3 DEF RemoveFirst, SelectInSeq
      <3> QED BY <1>2, <3>1, <3>2, <3>3, RemoveAtWhat, OwnersOfRemoved DEF o
    <2> QED BY <2>2, <2>3
  <1>5. Distinct(Owners(l)) /\ Elems(Owners(l)) = Elems(o) \ {t}
    <2>1. Distinct(RemoveFirst(o, t)) /\ Elems(RemoveFirst(o, t)) = Elems(o) \ {t}
      BY <1>3, RemoveFirstWhat
    <2> QED BY <1>4, <2>1
  <1> HIDE DEF l
  <1>6. u \in KState /\ u.timers = l /\ u.ready = j.ready /\ u.waiting = j.waiting
    BY <1>4 DEF KState
  <1>7. u = [j EXCEPT !.timers = u.timers]
    BY <1>6
  <1> HIDE DEF u
  <1>8. ListsOK(u)
    BY <1>5, <1>6 DEF ListsOK
  <1> QED BY <1>1, <1>5, <1>6, <1>7, <1>8 DEF Timed, o

\* t has a timer, and one only, also if it had one before.
LEMMA TimerStartWhat ==
  ASSUME NEW j \in KState, ListsOK(j), NEW t \in Threads, NEW ticks \in Nat
  PROVE  LET u == rt_timer_start(j, t, ticks) IN
         /\ u \in KState /\ ListsOK(u)
         /\ u = [j EXCEPT !.timers = u.timers]
         /\ Timed(u) = Timed(j) \union {t}
  <1> DEFINE l == rt_timer_stop(j, t).timers
             e == [thread |-> t, timeout |-> (j.tick + ticks) % TickRange]
             Later(f) == TicksBetween(f.timeout, e.timeout) \in 1 .. HalfRange - 1
             i == SelectInSeq(l, Later)
             n == IF i = 0 THEN Append(l, e) ELSE InsertAt(l, i, e)
             o == Owners(l)
             u == [j EXCEPT !.timers = n]
  <1>1. rt_timer_start(j, t, ticks) = u
    BY DEF rt_timer_start, KState
  <1>2. l \in Seq(Timer) /\ Distinct(o) /\ Elems(o) = Timed(j) \ {t}
    BY TimerStopWhat DEF KState, ListsOK, Timed
  <1>3. e \in Timer
    <2>1. TickRange \in Nat \ {0}
      BY KernelAssumption
    <2>2. j.tick \in 0 .. TickRange - 1
      BY DEF KState
    <2>3. j.tick + ticks \in Nat
      BY <2>1, <2>2
    <2>4. (j.tick + ticks) % TickRange \in 0 .. TickRange - 1
      BY <2>1, <2>3
    <2> QED BY <2>4 DEF Timer
  <1>4. i \in 0 .. Len(l)
    <2> DEFINE I == {x \in 1 .. Len(l) : Later(l[x])}
    <2>1. CASE I = {}
      <3>1. i = 0
        BY <2>1 DEF SelectInSeq
      <3> QED BY <1>2, <3>1
    <2>2. CASE I /= {}
      <3>1. i = Min(I)
        BY <2>2 DEF SelectInSeq
      <3>2. I \in SUBSET Nat
        OBVIOUS
      <3>3. i \in I
        BY <2>2, <3>1, <3>2, MinIsLeast
      <3>4. i \in 1 .. Len(l)
        BY <3>3
      <3> HIDE DEF i, l
      <3> QED BY <3>4
    <2> QED BY <2>1, <2>2
  <1> HIDE DEF l, i, e
  <1>5. e.thread = t
    BY DEF e
  <1>6. o \in Seq(Threads) /\ Len(o) = Len(l) /\ t \notin Elems(o)
    BY <1>2, OwnersType
  <1> HIDE DEF o
  <1>7. n \in Seq(Timer) /\ Distinct(Owners(n)) /\ Elems(Owners(n)) = Timed(j) \union {t}
    <2>1. CASE i = 0
      <3>1. Owners(Append(l, e)) = Append(o, t)
        BY <1>2, <1>3, <1>5, OwnersOfAppended DEF o
      <3>2. Distinct(Append(o, t)) /\ Elems(Append(o, t)) = Elems(o) \union {t}
        BY <1>2, <1>6, AppendWhat
      <3>3. Append(l, e) \in Seq(Timer)
        BY <1>2, <1>3
      <3> QED BY <1>2, <2>1, <3>1, <3>2, <3>3
    <2>2. CASE i /= 0
      <3>1. i \in 1 .. Len(l) /\ i \in 1 .. Len(o)
        BY <1>2, <1>4, <1>6, <2>2
      <3>2. Owners(InsertAt(l, i, e)) = InsertAt(o, i, t)
        BY <1>2, <1>3, <1>5, <3>1, OwnersOfInserted DEF o
      <3>3. Distinct(InsertAt(o, i, t)) /\ Elems(InsertAt(o, i, t)) = Elems(o) \union {t}
        BY <1>2, <1>6, <3>1, InsertWhat
      <3>4. InsertAt(l, i, e) \in Seq(Timer)
        BY <1>2, <1>3, <3>1, InsertAtWhat
      <3> QED BY <1>2, <2>2, <3>2, <3>3, <3>4
    <2> QED BY <2>1, <2>2
  <1> HIDE DEF n
  <1>8. u \in KState /\ u.timers = n /\ u.ready = j.ready /\ u.waiting = j.waiting
    BY <1>7 DEF KState
  <1>9. u = [j EXCEPT !.timers = u.timers]
    BY <1>8
  <1> HIDE DEF u
  <1>10. ListsOK(u)
    BY <1>7, <1>8 DEF ListsOK
  <1> QED BY <1>1, <1>7, <1>8, <1>9, <1>10 DEF Timed

-----------------------------------------------------------------------------
\* For t nothing has changed but whether it runs or is ready.
Same(i, j, t) ==
  /\ j.stat[t] = "SUSPEND" <=> i.stat[t] = "SUSPEND"
  /\ j.stat[t] = "INIT" <=> i.stat[t] = "INIT"
  /\ j.error[t] = i.error[t]
  /\ t \in Timed(j) <=> t \in Timed(i)
  /\ \A o \in Objects : t \in WaitsAt(j, o) <=> t \in WaitsAt(i, o)

\* t is suspended no more.
Woken(i, j, t) ==
  /\ i.stat[t] = "SUSPEND" /\ j.stat[t] /= "SUSPEND" /\ j.stat[t] /= "INIT"
  /\ t \notin Timed(j) /\ \A o \in Objects : t \notin WaitsAt(j, o)

\* What scheduling and resuming leave alone.
Kept(i, j) ==
  /\ j.tick = i.tick /\ j.priority = i.priority
  /\ j.error = i.error /\ j.remaining = i.remaining

\* The first half of rt_thread_resume: t is in no list and has no timer.
LEMMA StopWhat ==
  ASSUME NEW j \in KState, KInv(j), NEW t \in Threads, j.stat[t] = "SUSPEND"
  PROVE  LET u == rt_timer_stop(Unlink(j, t), t) IN
         /\ u \in KState /\ KInv(u)
         /\ u = [j EXCEPT !.ready = u.ready, !.waiting = u.waiting, !.timers = u.timers]
         /\ \A s \in Threads \ {t} : Same(j, u, s)
         /\ t \notin Timed(u) /\ \A o \in Objects : t \notin WaitsAt(u, o)
         /\ Thins(j, u)
  <1> DEFINE l == Unlink(j, t)
             u == rt_timer_stop(l, t)
  <1>1. /\ l \in KState /\ ListsOK(l)
        /\ l = [j EXCEPT !.ready = l.ready, !.waiting = l.waiting]
        /\ \A p \in Priorities : ReadyAt(l, p) = ReadyAt(j, p) \ {t}
        /\ \A o \in Objects : WaitsAt(l, o) = WaitsAt(j, o) \ {t}
        /\ Thins(j, l)
    BY UnlinkWhat DEF KInv
  <1> HIDE DEF l
  <1>2. /\ u \in KState /\ ListsOK(u)
        /\ u = [l EXCEPT !.timers = u.timers]
        /\ Timed(u) = Timed(l) \ {t}
    BY <1>1, TimerStopWhat
  <1> HIDE DEF u
  <1>3. u = [j EXCEPT !.ready = u.ready, !.waiting = u.waiting, !.timers = u.timers]
    BY <1>1, <1>2 DEF KState
  <1>4. /\ \A p \in Priorities : ReadyAt(u, p) = ReadyAt(j, p) \ {t}
        /\ \A o \in Objects : WaitsAt(u, o) = WaitsAt(j, o) \ {t}
        /\ Timed(u) = Timed(j) \ {t}
    BY <1>1, <1>2 DEF KState, ReadyAt, WaitsAt, Timed
  <1>5. /\ u.stat = j.stat /\ u.priority = j.priority /\ u.current = j.current
        /\ u.group = j.group /\ u.error = j.error
    BY <1>3 DEF KState
  <1>6. \A p \in Priorities : ReadyAt(u, p) = ReadyAt(j, p)
    BY <1>4 DEF KInv, StatesOK, ReadyOK, WaitingOK, CurrentOK
  <1>7. GroupOK(u)
    BY <1>5, <1>6 DEF KInv, GroupOK
  <1>8. StatesOK(u)
    BY <1>4, <1>5, <1>6 DEF KInv, StatesOK, ReadyOK, WaitingOK, CurrentOK
  <1>9. \A s \in Threads \ {t} : Same(j, u, s)
    BY <1>4, <1>5 DEF Same
  <1>10. Thins(j, u)
    <2>1. u.waiting = l.waiting
      BY <1>1, <1>2 DEF KState
    <2> QED BY <1>1, <2>1 DEF Thins
  <1> QED BY <1>2, <1>3, <1>4, <1>7, <1>8, <1>9, <1>10 DEF KInv, u, l

\* The second half: t is ready, or goes on if it is the one that runs.
LEMMA PutBackWhat ==
  ASSUME NEW j \in KState, KInv(j), NEW t \in Threads, j.stat[t] = "SUSPEND",
         t \notin Timed(j), \A o \in Objects : t \notin WaitsAt(j, o)
  PROVE  LET u == rt_schedule_insert_thread(j, t) IN
         /\ u \in KState /\ KInv(u)
         /\ u = [j EXCEPT !.stat = u.stat, !.ready = u.ready, !.group = u.group]
         /\ Woken(j, u, t) /\ \A s \in Threads \ {t} : Same(j, u, s)
  <1> DEFINE u == rt_schedule_insert_thread(j, t)
  <1>1. \A p \in Priorities : t \notin ReadyAt(j, p)
    BY DEF KInv, StatesOK, ReadyOK, WaitingOK, CurrentOK
  <1>2. CASE t = j.current
    <2>1. u = [j EXCEPT !.stat[t] = "RUNNING"]
      BY <1>2 DEF rt_schedule_insert_thread
    <2> HIDE DEF u
    <2>2. /\ u \in KState /\ ListsOK(u) /\ GroupOK(u)
          /\ \A p \in Priorities : ReadyAt(u, p) = ReadyAt(j, p)
          /\ \A o \in Objects : WaitsAt(u, o) = WaitsAt(j, o)
          /\ Timed(u) = Timed(j)
      BY <2>1, StatWhat DEF KInv
    <2>3. /\ u.stat = [j.stat EXCEPT ![t] = "RUNNING"] /\ u.priority = j.priority
          /\ u.current = j.current /\ u.error = j.error /\ u.ready = j.ready /\ u.group = j.group
      BY <2>1 DEF KState
    <2>4. u = [j EXCEPT !.stat = u.stat, !.ready = u.ready, !.group = u.group]
      BY <2>1 DEF KState
    <2>5. j.stat \in [Threads -> {"INIT", "READY", "RUNNING", "SUSPEND"}]
      BY DEF KState
    <2>6. StatesOK(u)
      BY <1>1, <1>2, <2>2, <2>3, <2>5 DEF KInv, StatesOK, ReadyOK, WaitingOK, CurrentOK
    <2>7. Woken(j, u, t) /\ \A s \in Threads \ {t} : Same(j, u, s)
      BY <2>2, <2>3, <2>5 DEF Woken, Same
    <2> QED BY <2>2, <2>4, <2>6, <2>7 DEF KInv, u
  <1>3. CASE t /= j.current
    <2>1. /\ u \in KState /\ ListsOK(u) /\ GroupOK(u)
          /\ u = [j EXCEPT !.stat[t] = "READY", !.ready = u.ready, !.group = u.group]
          /\ \A p \in Priorities :
               ReadyAt(u, p) = IF p = j.priority[t] THEN ReadyAt(j, p) \union {t} ELSE ReadyAt(j, p)
      BY <1>1, <1>3, PutWhat DEF KInv
    <2> HIDE DEF u
    <2>2. /\ u.stat = [j.stat EXCEPT ![t] = "READY"] /\ u.priority = j.priority
          /\ u.current = j.current /\ u.error = j.error /\ u.waiting = j.waiting
          /\ u.timers = j.timers
      BY <2>1 DEF KState
    <2>3. u = [j EXCEPT !.stat = u.stat, !.ready = u.ready, !.group = u.group]
      BY <2>1, <2>2 DEF KState
    <2>4. Timed(u) = Timed(j) /\ \A o \in Objects : WaitsAt(u, o) = WaitsAt(j, o)
      BY <2>2 DEF Timed, WaitsAt
    <2>5. j.stat \in [Threads -> {"INIT", "READY", "RUNNING", "SUSPEND"}]
      BY DEF KState
    <2>6. StatesOK(u)
      BY <1>1, <1>3, <2>1, <2>2, <2>4, <2>5 DEF KInv, StatesOK, ReadyOK, WaitingOK, CurrentOK
    <2>7. Woken(j, u, t) /\ \A s \in Threads \ {t} : Same(j, u, s)
      BY <2>2, <2>4, <2>5 DEF Woken, Same
    <2> QED BY <2>1, <2>3, <2>6, <2>7 DEF KInv, u
  <1> QED BY <1>2, <1>3

\* rt_thread_resume wakes t and does nothing to the others.
LEMMA ResumeWhat ==
  ASSUME NEW j \in KState, KInv(j), NEW t \in Threads, j.stat[t] = "SUSPEND"
  PROVE  LET u == rt_thread_resume(j, t) IN
         /\ u \in KState /\ KInv(u)
         /\ Kept(j, u) /\ u.current = j.current
         /\ Woken(j, u, t) /\ \A s \in Threads \ {t} : Same(j, u, s)
         /\ Thins(j, u)
  <1> DEFINE l == rt_timer_stop(Unlink(j, t), t)
             u == rt_schedule_insert_thread(l, t)
  <1>1. /\ l \in KState /\ KInv(l)
        /\ l = [j EXCEPT !.ready = l.ready, !.waiting = l.waiting, !.timers = l.timers]
        /\ \A s \in Threads \ {t} : Same(j, l, s)
        /\ t \notin Timed(l) /\ \A o \in Objects : t \notin WaitsAt(l, o)
        /\ Thins(j, l)
    BY StopWhat
  <1>2. rt_thread_resume(j, t) = u
    BY DEF rt_thread_resume
  <1> HIDE DEF l
  <1>3. l.stat = j.stat
    BY <1>1 DEF KState
  <1>4. /\ u \in KState /\ KInv(u)
        /\ u = [l EXCEPT !.stat = u.stat, !.ready = u.ready, !.group = u.group]
        /\ Woken(l, u, t) /\ \A s \in Threads \ {t} : Same(l, u, s)
    BY <1>1, <1>3, PutBackWhat
  <1> HIDE DEF u
  <1>5. Kept(j, u) /\ u.current = j.current
    <2>1. Kept(l, u) /\ u.current = l.current
      <3>1. l \in KState
        BY <1>1
      <3>2. u = [l EXCEPT !.stat = u.stat, !.ready = u.ready, !.group = u.group]
        BY <1>4
      <3> QED BY <3>1, <3>2 DEF KState, Kept
    <2>2. Kept(j, l) /\ l.current = j.current
      <3>1. l = [j EXCEPT !.ready = l.ready, !.waiting = l.waiting, !.timers = l.timers]
        BY <1>1
      <3> QED BY <3>1 DEF KState, Kept
    <2> QED BY <2>1, <2>2 DEF Kept
  <1>6. Woken(j, u, t)
    BY <1>3, <1>4 DEF Woken
  <1>7. \A s \in Threads \ {t} : Same(j, u, s)
    BY <1>1, <1>4 DEF Same
  <1>8. Thins(j, u)
    <2>1. u.waiting = l.waiting
      BY <1>1, <1>4 DEF KState
    <2> QED BY <1>1, <2>1 DEF Thins
  <1> QED BY <1>2, <1>4, <1>5, <1>6, <1>7, <1>8

\* The thread h leaves its ready list and runs.
LEMMA ToWhat ==
  ASSUME NEW j \in KState, ListsOK(j), GroupOK(j), NEW h \in Threads,
         \A p \in Priorities \ {j.priority[h]} : h \notin ReadyAt(j, p)
  PROVE  LET u == [rt_schedule_remove_thread(j, h) EXCEPT !.stat[h] = "RUNNING"] IN
         /\ u \in KState /\ ListsOK(u) /\ GroupOK(u)
         /\ u = [j EXCEPT !.ready = u.ready, !.waiting = u.waiting, !.group = u.group,
                          !.stat[h] = "RUNNING"]
         /\ \A p \in Priorities : ReadyAt(u, p) = ReadyAt(j, p) \ {h}
         /\ \A o \in Objects : WaitsAt(u, o) = WaitsAt(j, o) \ {h}
         /\ Thins(j, u)
  <1> DEFINE l == rt_schedule_remove_thread(j, h)
             u == [l EXCEPT !.stat[h] = "RUNNING"]
  <1>1. /\ l \in KState /\ ListsOK(l) /\ GroupOK(l)
        /\ l = [j EXCEPT !.ready = l.ready, !.waiting = l.waiting, !.group = l.group]
        /\ \A p \in Priorities : ReadyAt(l, p) = ReadyAt(j, p) \ {h}
        /\ \A o \in Objects : WaitsAt(l, o) = WaitsAt(j, o) \ {h}
        /\ Thins(j, l)
    BY RemoveWhat
  <1> HIDE DEF l
  <1>2. /\ u \in KState /\ ListsOK(u) /\ GroupOK(u)
        /\ \A p \in Priorities : ReadyAt(u, p) = ReadyAt(l, p)
        /\ \A o \in Objects : WaitsAt(u, o) = WaitsAt(l, o)
    BY <1>1, StatWhat
  <1>3. u = [j EXCEPT !.ready = u.ready, !.waiting = u.waiting, !.group = u.group,
                      !.stat[h] = "RUNNING"]
    BY <1>1 DEF KState
  <1>4. Thins(j, u)
    <2>1. u.waiting = l.waiting
      BY <1>1 DEF KState
    <2> QED BY <1>1, <2>1 DEF Thins
  <1> HIDE DEF u
  <1> QED BY <1>1, <1>2, <1>3, <1>4 DEF u, l

\* The head of the list of the highest priority is a ready thread.
LEMMA HighestReady ==
  ASSUME NEW j \in KState, KInv(j), j.group /= {}
  PROVE  LET p == Min(j.group)
             h == Head(j.ready[p])
         IN /\ p \in Priorities /\ h \in Threads
            /\ j.stat[h] = "READY" /\ j.priority[h] = p
  <1> DEFINE p == Min(j.group)
             h == Head(j.ready[p])
  <1>1. p \in j.group
    BY MinIsLeast, PriorityType DEF KState
  <1> HIDE DEF p
  <1>2. p \in Priorities /\ ReadyAt(j, p) /= {}
    BY <1>1 DEF KInv, GroupOK
  <1>3. j.ready[p] \in Seq(Threads)
    BY <1>2 DEF KState
  <1>4. j.ready[p] /= <<>>
    BY <1>2, <1>3, NoElems DEF ReadyAt
  <1>5. h \in Threads /\ h \in ReadyAt(j, p)
    BY <1>3, <1>4, HeadWhat DEF ReadyAt
  <1> HIDE DEF h
  <1> QED BY <1>2, <1>5 DEF KInv, StatesOK, ReadyOK, WaitingOK, CurrentOK, p, h

\* The thread h is taken out of its ready list and runs.
Ran(j, h) == [rt_schedule_remove_thread(j, h) EXCEPT !.stat[h] = "RUNNING"]

\* The thread that is switched to leaves its ready list and runs.
LEMMA RunsWhat ==
  ASSUME NEW j \in KState, ListsOK(j), GroupOK(j), ReadyOK(j), WaitingOK(j),
         NEW h \in Threads, j.current = h, j.stat[h] \in {"READY", "RUNNING"},
         \A t \in Threads \ {h} : j.stat[t] /= "RUNNING"
  PROVE  LET u == Ran(j, h) IN
         /\ u \in KState /\ KInv(u) /\ Kept(j, u) /\ u.current = h
         /\ u.stat[h] = "RUNNING" /\ \A s \in Threads : Same(j, u, s)
         /\ u.group \subseteq j.group /\ Thins(j, u)
  <1> DEFINE u == Ran(j, h)
  <1>1. \A p \in Priorities \ {j.priority[h]} : h \notin ReadyAt(j, p)
    BY DEF ReadyOK
  <1>2. /\ u \in KState /\ ListsOK(u) /\ GroupOK(u)
        /\ u = [j EXCEPT !.ready = u.ready, !.waiting = u.waiting, !.group = u.group,
                         !.stat[h] = "RUNNING"]
        /\ \A p \in Priorities : ReadyAt(u, p) = ReadyAt(j, p) \ {h}
        /\ \A o \in Objects : WaitsAt(u, o) = WaitsAt(j, o) \ {h}
        /\ Thins(j, u)
    BY <1>1, ToWhat DEF Ran
  <1> HIDE DEF u
  <1>3. /\ Kept(j, u) /\ u.current = h /\ u.timers = j.timers
        /\ u.stat = [j.stat EXCEPT ![h] = "RUNNING"]
    BY <1>2 DEF KState, Kept
  <1>4. /\ Timed(u) = Timed(j) /\ \A o \in Objects : WaitsAt(u, o) = WaitsAt(j, o)
    BY <1>2, <1>3 DEF WaitingOK, Timed
  <1>5. j.stat \in [Threads -> {"INIT", "READY", "RUNNING", "SUSPEND"}]
    BY DEF KState
  <1>6. ReadyOK(u)
    BY <1>2, <1>3, <1>5 DEF ReadyOK, Kept
  <1>7. WaitingOK(u)
    BY <1>3, <1>4, <1>5 DEF WaitingOK
  <1>8. CurrentOK(u)
    BY <1>3, <1>5 DEF CurrentOK
  <1>9. \A s \in Threads : Same(j, u, s)
    BY <1>3, <1>4, <1>5 DEF Same, Kept
  <1>10. u.group \subseteq j.group
    BY <1>2 DEF GroupOK
  <1> QED BY <1>2, <1>3, <1>5, <1>6, <1>7, <1>8, <1>9, <1>10 DEF KInv, StatesOK, u

\* The processor goes to h.
Gone(j, h, S) == [j EXCEPT !.current = h, !.yield = @ \ S]

\* A change of the current thread and of the yield flags changes no list.
LEMMA GoneWhat ==
  ASSUME NEW j \in KState, KInv(j), NEW h \in Threads, NEW S
  PROVE  LET g == Gone(j, h, S) IN
         /\ g \in KState /\ ListsOK(g) /\ GroupOK(g) /\ ReadyOK(g) /\ WaitingOK(g)
         /\ Kept(j, g) /\ g.current = h /\ g.stat = j.stat /\ g.timers = j.timers
         /\ g.waiting = j.waiting /\ g.ready = j.ready /\ g.group = j.group
         /\ \A s \in Threads : Same(j, g, s)
  <1> DEFINE g == Gone(j, h, S)
  <1>1. /\ g \in KState /\ Kept(j, g) /\ g.current = h /\ g.stat = j.stat
        /\ g.timers = j.timers /\ g.waiting = j.waiting /\ g.ready = j.ready /\ g.group = j.group
    BY DEF KState, Kept, Gone
  <1> HIDE DEF g
  <1>2. ListsOK(g)
    BY <1>1 DEF KInv, ListsOK
  <1>3. GroupOK(g)
    BY <1>1 DEF KInv, GroupOK, ReadyAt
  <1>4. ReadyOK(g)
    BY <1>1 DEF KInv, StatesOK, ReadyOK, ReadyAt, Kept
  <1>5. WaitingOK(g)
    BY <1>1 DEF KInv, StatesOK, WaitingOK, WaitsAt, Timed
  <1>6. \A s \in Threads : Same(j, g, s)
    BY <1>1 DEF Same, Kept, WaitsAt, Timed
  <1> QED BY <1>1, <1>2, <1>3, <1>4, <1>5, <1>6 DEF g

\* The thread that ran is put into its ready list.
LEMMA GivenWhat ==
  ASSUME NEW j \in KState, ListsOK(j), GroupOK(j), ReadyOK(j), WaitingOK(j),
         NEW c \in Threads, j.stat[c] = "RUNNING", j.current /= c
  PROVE  LET g == rt_schedule_insert_thread(j, c) IN
         /\ g \in KState /\ ListsOK(g) /\ GroupOK(g) /\ ReadyOK(g) /\ WaitingOK(g)
         /\ Kept(j, g) /\ g.current = j.current /\ g.stat = [j.stat EXCEPT ![c] = "READY"]
         /\ \A s \in Threads : Same(j, g, s)
         /\ g.waiting = j.waiting /\ g.group \subseteq j.group \union {j.priority[c]}
  <1> DEFINE g == rt_schedule_insert_thread(j, c)
  <1>1. /\ g \in KState /\ ListsOK(g) /\ GroupOK(g)
        /\ g = [j EXCEPT !.stat[c] = "READY", !.ready = g.ready, !.group = g.group]
        /\ \A p \in Priorities :
             ReadyAt(g, p) = IF p = j.priority[c] THEN ReadyAt(j, p) \union {c} ELSE ReadyAt(j, p)
    <2>1. \A p \in Priorities : c \notin ReadyAt(j, p)
      BY DEF ReadyOK
    <2> QED BY <2>1, PutWhat
  <1> HIDE DEF g
  <1>2. /\ Kept(j, g) /\ g.current = j.current /\ g.stat = [j.stat EXCEPT ![c] = "READY"]
        /\ g.timers = j.timers /\ g.waiting = j.waiting
    BY <1>1 DEF KState, Kept
  <1>3. j.stat \in [Threads -> {"INIT", "READY", "RUNNING", "SUSPEND"}]
    BY DEF KState
  <1>4. ReadyOK(g)
    BY <1>1, <1>2, <1>3 DEF ReadyOK, Kept
  <1>5. WaitingOK(g)
    BY <1>2, <1>3 DEF WaitingOK, WaitsAt, Timed
  <1>6. \A s \in Threads : Same(j, g, s)
    BY <1>2, <1>3 DEF Same, Kept, WaitsAt, Timed
  <1>7. g.group \subseteq j.group \union {j.priority[c]}
    BY <1>1 DEF GroupOK
  <1> QED BY <1>1, <1>2, <1>4, <1>5, <1>6, <1>7 DEF g

\* No thread that is ready has a higher priority than the current thread.
Highest(j) == \A p \in j.group : j.priority[j.current] <= p

\* rt_schedule keeps the lists right and lets the processor to a thread that
\* is not suspended and has the highest priority, if one is ready.
LEMMA ScheduleWhat ==
  ASSUME NEW j \in KState, KInv(j), j.current \in Threads
  PROVE  LET u == rt_schedule(j) IN
         /\ u \in KState /\ KInv(u) /\ Kept(j, u) /\ u.current \in Threads
         /\ \A s \in Threads : Same(j, u, s)
         /\ IF j.group = {} THEN u = j ELSE u.stat[u.current] = "RUNNING"
         /\ Highest(u) /\ Thins(j, u)
  <1> DEFINE u == rt_schedule(j)
             p == Min(j.group)
             h == Head(j.ready[p])
             cur == j.current
             running == j.stat[cur] = "RUNNING"
             keeps == running /\ KeepsCpu(j, p)
  <1>1. CASE j.group = {}
    <2>1. u = j
      BY <1>1 DEF rt_schedule, Ran
    <2> HIDE DEF u
    <2>2. Highest(j) /\ Thins(j, j)
      BY <1>1, ThinsSame DEF Highest
    <2> QED BY <1>1, <2>1, <2>2 DEF Kept, Same, u
  <1>2. CASE j.group /= {}
    <2>1. p \in Priorities /\ h \in Threads /\ j.stat[h] = "READY" /\ j.priority[h] = p
      BY <1>2, HighestReady
    <2>0. /\ p \in Nat /\ \A q \in j.group : q \in Nat /\ p <= q
          /\ j.priority[cur] \in Nat
      <3>1. j.group \in SUBSET Nat /\ j.priority[cur] \in Priorities
        BY PriorityType DEF KState
      <3> QED BY <1>2, <2>1, <3>1, MinIsLeast, PriorityType
    <2>2. h /= cur /\ \A t \in Threads \ {cur} : j.stat[t] /= "RUNNING"
      BY <2>1 DEF KInv, StatesOK, CurrentOK
    <2>3. CASE keeps
      <3>1. u = Ran(j, cur)
        <4>1. [j EXCEPT !.current = cur] = j
          BY DEF KState
        <4> QED BY <1>2, <2>3, <4>1 DEF rt_schedule, Ran
      <3>2. j.stat[cur] = "RUNNING"
        BY <2>3
      <3> HIDE DEF u, p
      <3>3. /\ u \in KState /\ KInv(u) /\ Kept(j, u) /\ u.current = cur
            /\ u.stat[cur] = "RUNNING" /\ \A s \in Threads : Same(j, u, s)
            /\ u.group \subseteq j.group /\ Thins(j, u)
        BY <2>2, <3>1, <3>2, RunsWhat DEF KInv, StatesOK
      <3>4. Highest(u)
        <4>1. j.priority[cur] <= p
          BY <2>0, <2>3 DEF KeepsCpu
        <4> QED BY <2>0, <3>3, <4>1 DEF Highest, Kept
      <3> QED BY <1>2, <3>3, <3>4 DEF u
    <2>4. CASE ~keeps /\ running
      <3> DEFINE g == Gone(j, h, {cur})
                 n == rt_schedule_insert_thread(g, cur)
      <3>1. u = Ran(n, h)
        <4>1. g = [[j EXCEPT !.current = h] EXCEPT !.yield = @ \ {cur}]
          BY DEF KState, Gone
        <4> QED BY <1>2, <2>4, <4>1 DEF rt_schedule, Ran
      <3>2. j.stat[cur] = "RUNNING"
        BY <2>4
      <3> HIDE DEF u, h
      <3>3. /\ g \in KState /\ ListsOK(g) /\ GroupOK(g) /\ ReadyOK(g) /\ WaitingOK(g)
            /\ Kept(j, g) /\ g.current = h /\ g.stat = j.stat
            /\ g.waiting = j.waiting /\ g.group = j.group
            /\ \A s \in Threads : Same(j, g, s)
        BY <2>1, GoneWhat
      <3> HIDE DEF g
      <3>4. /\ n \in KState /\ ListsOK(n) /\ GroupOK(n) /\ ReadyOK(n) /\ WaitingOK(n)
            /\ Kept(g, n) /\ n.current = h /\ n.stat = [j.stat EXCEPT ![cur] = "READY"]
            /\ \A s \in Threads : Same(g, n, s)
            /\ n.waiting = g.waiting /\ n.group \subseteq g.group \union {g.priority[cur]}
        BY <2>2, <3>2, <3>3, GivenWhat
      <3> HIDE DEF n
      <3>5. n.stat[h] = "READY" /\ \A t \in Threads \ {h} : n.stat[t] /= "RUNNING"
        BY <2>1, <2>2, <3>4 DEF KState
      <3>6. /\ u \in KState /\ KInv(u) /\ Kept(n, u) /\ u.current = h
            /\ u.stat[h] = "RUNNING" /\ \A s \in Threads : Same(n, u, s)
            /\ u.group \subseteq n.group /\ Thins(n, u)
        BY <2>1, <3>1, <3>4, <3>5, RunsWhat
      <3>7. \A s \in Threads : Same(j, u, s)
        BY <3>3, <3>4, <3>6 DEF Same
      <3>8. Kept(j, u)
        BY <3>3, <3>4, <3>6 DEF Kept
      <3>9. Highest(u)
        <4>1. p <= j.priority[cur]
          BY <2>0, <2>4 DEF KeepsCpu
        <4>2. \A q \in u.group : q \in j.group \/ q = j.priority[cur]
          BY <3>3, <3>4, <3>6 DEF Kept
        <4> HIDE DEF p
        <4> QED BY <2>0, <2>1, <3>6, <3>8, <4>1, <4>2 DEF Highest, Kept
      <3>10. Thins(j, u)
        BY <3>3, <3>4, <3>6 DEF Thins
      <3> QED BY <1>2, <2>1, <3>6, <3>7, <3>8, <3>9, <3>10 DEF u
    <2>5. CASE ~running
      <3> DEFINE g == Gone(j, h, {})
      <3>1. u = Ran(g, h)
        <4>1. g = [j EXCEPT !.current = h]
          BY DEF KState, Gone
        <4> QED BY <1>2, <2>5, <4>1 DEF rt_schedule, Ran
      <3>2. j.stat[cur] /= "RUNNING"
        BY <2>5
      <3> HIDE DEF u, h
      <3>3. /\ g \in KState /\ ListsOK(g) /\ GroupOK(g) /\ ReadyOK(g) /\ WaitingOK(g)
            /\ Kept(j, g) /\ g.current = h /\ g.stat = j.stat
            /\ g.waiting = j.waiting /\ g.group = j.group
            /\ \A s \in Threads : Same(j, g, s)
        BY <2>1, GoneWhat
      <3> HIDE DEF g
      <3>4. g.stat[h] = "READY" /\ \A t \in Threads \ {h} : g.stat[t] /= "RUNNING"
        BY <2>1, <2>2, <3>2, <3>3
      <3>5. /\ u \in KState /\ KInv(u) /\ Kept(g, u) /\ u.current = h
            /\ u.stat[h] = "RUNNING" /\ \A s \in Threads : Same(g, u, s)
            /\ u.group \subseteq g.group /\ Thins(g, u)
        BY <2>1, <3>1, <3>3, <3>4, RunsWhat
      <3>6. \A s \in Threads : Same(j, u, s)
        BY <3>3, <3>5 DEF Same
      <3>7. Kept(j, u)
        BY <3>3, <3>5 DEF Kept
      <3>8. Highest(u) /\ Thins(j, u)
        <4> HIDE DEF p
        <4> QED BY <2>0, <2>1, <3>3, <3>5, <3>7 DEF Highest, Kept, Thins
      <3> QED BY <1>2, <2>1, <3>5, <3>6, <3>7, <3>8 DEF u
    <2> QED BY <2>3, <2>4, <2>5
  <1> QED BY <1>1, <1>2

\* rt_thread_suspend: t is suspended, waits nowhere yet and has no timer.
LEMMA SuspendWhat ==
  ASSUME NEW j \in KState, KInv(j), NEW t \in Threads, j.stat[t] \in {"READY", "RUNNING"}
  PROVE  LET u == rt_thread_suspend(j, t) IN
         /\ u \in KState /\ KInv(u) /\ Kept(j, u) /\ u.current = j.current
         /\ u.stat[t] = "SUSPEND" /\ t \notin Timed(u)
         /\ \A o \in Objects : t \notin WaitsAt(u, o)
         /\ \A s \in Threads \ {t} : Same(j, u, s)
         /\ Thins(j, u)
  <1> DEFINE r == rt_schedule_remove_thread(j, t)
             l == [r EXCEPT !.stat[t] = "SUSPEND"]
             u == rt_timer_stop(l, t)
  <1>1. rt_thread_suspend(j, t) = u
    BY DEF rt_thread_suspend
  <1>2. /\ r \in KState /\ ListsOK(r) /\ GroupOK(r)
        /\ r = [j EXCEPT !.ready = r.ready, !.waiting = r.waiting, !.group = r.group]
        /\ \A p \in Priorities : ReadyAt(r, p) = ReadyAt(j, p) \ {t}
        /\ \A o \in Objects : WaitsAt(r, o) = WaitsAt(j, o) \ {t}
        /\ Thins(j, r)
    <2>1. \A p \in Priorities \ {j.priority[t]} : t \notin ReadyAt(j, p)
      BY DEF KInv, StatesOK, ReadyOK
    <2> QED BY <2>1, RemoveWhat DEF KInv
  <1>3. Kept(j, r) /\ r.current = j.current /\ r.stat = j.stat /\ r.timers = j.timers
    BY <1>2 DEF KState, Kept
  <1> HIDE DEF r
  <1>4. /\ l \in KState /\ ListsOK(l) /\ GroupOK(l)
        /\ \A p \in Priorities : ReadyAt(l, p) = ReadyAt(r, p)
        /\ \A o \in Objects : WaitsAt(l, o) = WaitsAt(r, o)
        /\ Timed(l) = Timed(r)
    BY <1>2, StatWhat
  <1>5. /\ Kept(j, l) /\ l.current = j.current /\ l.stat = [j.stat EXCEPT ![t] = "SUSPEND"]
        /\ l.waiting = r.waiting
    BY <1>2, <1>3 DEF KState, Kept
  <1> HIDE DEF l
  <1>6. /\ u \in KState /\ ListsOK(u) /\ u = [l EXCEPT !.timers = u.timers]
        /\ Timed(u) = Timed(l) \ {t}
    BY <1>4, TimerStopWhat
  <1> HIDE DEF u
  <1>7. /\ Kept(l, u) /\ u.current = l.current /\ u.stat = l.stat /\ u.group = l.group
        /\ u.ready = l.ready /\ u.waiting = l.waiting
    BY <1>4, <1>6 DEF KState, Kept
  <1>8. Kept(j, u) /\ u.current = j.current /\ u.stat = [j.stat EXCEPT ![t] = "SUSPEND"]
    BY <1>5, <1>7 DEF Kept
  <1>9. /\ \A p \in Priorities : ReadyAt(u, p) = ReadyAt(j, p) \ {t}
        /\ \A o \in Objects : WaitsAt(u, o) = WaitsAt(j, o) \ {t}
        /\ Timed(u) = Timed(j) \ {t}
    BY <1>2, <1>3, <1>4, <1>6, <1>7 DEF ReadyAt, WaitsAt, Timed
  <1>10. GroupOK(u)
    BY <1>4, <1>7 DEF GroupOK, ReadyAt
  <1>11. j.stat \in [Threads -> {"INIT", "READY", "RUNNING", "SUSPEND"}]
    BY DEF KState
  <1>12. ReadyOK(u)
    BY <1>8, <1>9, <1>11 DEF KInv, StatesOK, ReadyOK, Kept
  <1>13. WaitingOK(u)
    BY <1>8, <1>9, <1>11 DEF KInv, StatesOK, WaitingOK
  <1>14. CurrentOK(u)
    BY <1>8, <1>11 DEF KInv, StatesOK, CurrentOK
  <1>15. \A s \in Threads \ {t} : Same(j, u, s)
    BY <1>8, <1>9, <1>11 DEF Same, Kept
  <1>16. Thins(j, u)
    BY <1>2, <1>5, <1>7 DEF Thins
  <1> QED BY <1>1, <1>6, <1>8, <1>9, <1>10, <1>11, <1>12, <1>13, <1>14, <1>15, <1>16 DEF KInv, StatesOK

\* rt_timer_start for a suspended thread.
LEMMA StartTimerWhat ==
  ASSUME NEW j \in KState, KInv(j), NEW t \in Threads, j.stat[t] = "SUSPEND", NEW ticks \in Nat
  PROVE  LET u == rt_timer_start(j, t, ticks) IN
         /\ u \in KState /\ KInv(u) /\ Kept(j, u) /\ u.current = j.current
         /\ u.stat = j.stat /\ t \in Timed(u) /\ u.waiting = j.waiting
         /\ \A s \in Threads \ {t} : Same(j, u, s)
  <1> DEFINE u == rt_timer_start(j, t, ticks)
  <1>1. /\ u \in KState /\ ListsOK(u) /\ u = [j EXCEPT !.timers = u.timers]
        /\ Timed(u) = Timed(j) \union {t}
    BY TimerStartWhat DEF KInv
  <1> HIDE DEF u
  <1>2. /\ Kept(j, u) /\ u.current = j.current /\ u.stat = j.stat
        /\ u.group = j.group /\ u.ready = j.ready /\ u.waiting = j.waiting
    BY <1>1 DEF KState, Kept
  <1>3. GroupOK(u)
    BY <1>2 DEF KInv, GroupOK, ReadyAt
  <1>4. StatesOK(u)
    BY <1>1, <1>2 DEF KInv, StatesOK, ReadyOK, WaitingOK, CurrentOK, ReadyAt, WaitsAt, Kept
  <1>5. \A s \in Threads \ {t} : Same(j, u, s)
    BY <1>1, <1>2 DEF Same, WaitsAt, Kept
  <1> QED BY <1>1, <1>2, <1>3, <1>4, <1>5 DEF KInv, u

\* A change of priority moves a ready thread and nothing else.
LEMMA ChangePriorityWhat ==
  ASSUME NEW j \in KState, KInv(j), NEW t \in Threads, NEW p \in Priorities
  PROVE  LET u == ChangePriority(j, t, p) IN
         /\ u \in KState /\ KInv(u) /\ u.current = j.current /\ u.stat = j.stat
         /\ u.tick = j.tick /\ u.error = j.error /\ u.remaining = j.remaining
         /\ u.priority = [j.priority EXCEPT ![t] = p]
         /\ \A s \in Threads : Same(j, u, s)
         /\ Thins(j, u) /\ (j.stat[t] /= "READY" => u.group = j.group)
  <1> DEFINE u == ChangePriority(j, t, p)
  <1>1. CASE j.stat[t] = "READY"
    <2> DEFINE r == rt_schedule_remove_thread(j, t)
               l == [r EXCEPT !.priority[t] = p]
    <2>1. u = rt_schedule_insert_thread(l, t)
      BY <1>1 DEF ChangePriority
    <2>2. /\ r \in KState /\ ListsOK(r) /\ GroupOK(r)
          /\ r = [j EXCEPT !.ready = r.ready, !.waiting = r.waiting, !.group = r.group]
          /\ \A q \in Priorities : ReadyAt(r, q) = ReadyAt(j, q) \ {t}
          /\ \A o \in Objects : WaitsAt(r, o) = WaitsAt(j, o) \ {t}
          /\ Thins(j, r)
      <3>1. \A q \in Priorities \ {j.priority[t]} : t \notin ReadyAt(j, q)
        BY DEF KInv, StatesOK, ReadyOK
      <3> QED BY <3>1, RemoveWhat DEF KInv
    <2>3. Kept(j, r) /\ r.current = j.current /\ r.stat = j.stat /\ r.timers = j.timers
      BY <2>2 DEF KState, Kept
    <2> HIDE DEF u, r
    <2>4. /\ l \in KState /\ l.ready = r.ready /\ l.waiting = r.waiting /\ l.group = r.group
          /\ l.timers = j.timers /\ l.stat = j.stat /\ l.current = j.current
          /\ l.priority = [j.priority EXCEPT ![t] = p]
          /\ l.tick = j.tick /\ l.error = j.error /\ l.remaining = j.remaining
      BY <2>2, <2>3 DEF KState, Kept
    <2> HIDE DEF l
    <2>5. ListsOK(l) /\ GroupOK(l)
      BY <2>2, <2>3, <2>4 DEF ListsOK, GroupOK, ReadyAt
    <2>6. \A q \in Priorities : ReadyAt(l, q) = ReadyAt(j, q) \ {t}
      BY <2>2, <2>4 DEF ReadyAt
    <2>7. /\ l.current /= t /\ l.priority[t] = p
          /\ \A q \in Priorities : t \notin ReadyAt(l, q)
      BY <1>1, <2>4, <2>6 DEF KInv, StatesOK, CurrentOK, KState
    <2>8. /\ u \in KState /\ ListsOK(u) /\ GroupOK(u)
          /\ u = [l EXCEPT !.stat[t] = "READY", !.ready = u.ready, !.group = u.group]
          /\ \A q \in Priorities :
               ReadyAt(u, q) = IF q = p THEN ReadyAt(l, q) \union {t} ELSE ReadyAt(l, q)
      <3>1. l \in KState
        BY <2>4
      <3>2. /\ rt_schedule_insert_thread(l, t) \in KState
            /\ ListsOK(rt_schedule_insert_thread(l, t))
            /\ GroupOK(rt_schedule_insert_thread(l, t))
            /\ rt_schedule_insert_thread(l, t) =
                 [l EXCEPT !.stat[t] = "READY",
                           !.ready = rt_schedule_insert_thread(l, t).ready,
                           !.group = rt_schedule_insert_thread(l, t).group]
            /\ \A q \in Priorities :
                 ReadyAt(rt_schedule_insert_thread(l, t), q)
                   = IF q = l.priority[t] THEN ReadyAt(l, q) \union {t} ELSE ReadyAt(l, q)
        BY <2>5, <2>7, <3>1, PutWhat
      <3> QED BY <2>1, <2>7, <3>2
    <2>9. /\ u.stat = [j.stat EXCEPT ![t] = "READY"] /\ u.current = j.current
          /\ u.priority = [j.priority EXCEPT ![t] = p] /\ u.waiting = l.waiting
          /\ u.timers = j.timers /\ u.tick = j.tick /\ u.error = j.error /\ u.remaining = j.remaining
      <3>1. /\ u.stat = [l.stat EXCEPT ![t] = "READY"] /\ u.current = l.current
            /\ u.priority = l.priority /\ u.waiting = l.waiting /\ u.timers = l.timers
            /\ u.tick = l.tick /\ u.error = l.error /\ u.remaining = l.remaining
        <4>1. l \in KState
          BY <2>4
        <4>2. u = [l EXCEPT !.stat[t] = "READY", !.ready = u.ready, !.group = u.group]
          BY <2>8
        <4> QED BY <4>1, <4>2 DEF KState
      <3> QED BY <2>4, <3>1
    <2>10. u.stat = j.stat
      BY <1>1, <2>9 DEF KState
    <2>11. /\ Timed(u) = Timed(j)
           /\ \A o \in Objects : WaitsAt(u, o) = WaitsAt(j, o)
      <3>1. \A o \in Objects : t \notin WaitsAt(j, o)
        BY <1>1 DEF KInv, StatesOK, WaitingOK
      <3>2. u.waiting = r.waiting /\ u.timers = j.timers
        BY <2>4, <2>9
      <3>3. \A o \in Objects : WaitsAt(u, o) = WaitsAt(j, o) \ {t}
        BY <2>2, <3>2 DEF WaitsAt
      <3> QED BY <3>1, <3>2, <3>3 DEF Timed
    <2>12. j.priority \in [Threads -> Priorities]
      BY DEF KState
    <2>13. ReadyOK(u)
      BY <1>1, <2>6, <2>8, <2>9, <2>10, <2>12 DEF KInv, StatesOK, ReadyOK
    <2>14. WaitingOK(u) /\ CurrentOK(u)
      BY <2>9, <2>10, <2>11 DEF KInv, StatesOK, WaitingOK, CurrentOK
    <2>15. \A s \in Threads : Same(j, u, s)
      BY <2>9, <2>10, <2>11 DEF Same
    <2>16. Thins(j, u)
      BY <2>2, <2>4, <2>9 DEF Thins
    <2> QED BY <1>1, <2>8, <2>9, <2>10, <2>13, <2>14, <2>15, <2>16 DEF KInv, StatesOK, u
  <1>2. CASE j.stat[t] /= "READY"
    <2>1. u = [j EXCEPT !.priority[t] = p]
      BY <1>2 DEF ChangePriority
    <2> HIDE DEF u
    <2>2. /\ u \in KState /\ u.ready = j.ready /\ u.waiting = j.waiting /\ u.group = j.group
          /\ u.timers = j.timers /\ u.stat = j.stat /\ u.current = j.current
          /\ u.priority = [j.priority EXCEPT ![t] = p]
          /\ u.tick = j.tick /\ u.error = j.error /\ u.remaining = j.remaining
      BY <2>1 DEF KState
    <2>3. ListsOK(u) /\ GroupOK(u)
      BY <2>2 DEF KInv, ListsOK, GroupOK, ReadyAt
    <2>4. j.priority \in [Threads -> Priorities]
      BY DEF KState
    <2>5. StatesOK(u)
      BY <1>2, <2>2, <2>4 DEF KInv, StatesOK, ReadyOK, WaitingOK, CurrentOK, ReadyAt, WaitsAt, Timed
    <2>6. \A s \in Threads : Same(j, u, s)
      BY <2>2 DEF Same, WaitsAt, Timed
    <2>7. Thins(j, u)
      BY <2>2, ThinsSame
    <2> QED BY <2>2, <2>3, <2>5, <2>6, <2>7 DEF KInv, u
  <1> QED BY <1>1, <1>2

\* A suspended thread, taken out of all lists.
LEMMA UnlinkSuspended ==
  ASSUME NEW j \in KState, KInv(j), NEW t \in Threads, j.stat[t] = "SUSPEND"
  PROVE  LET u == Unlink(j, t) IN
         /\ u \in KState /\ KInv(u) /\ Kept(j, u) /\ u.current = j.current
         /\ u.stat = j.stat /\ u.timers = j.timers
         /\ \A o \in Objects : t \notin WaitsAt(u, o)
         /\ \A s \in Threads \ {t} : Same(j, u, s)
         /\ Thins(j, u)
  <1> DEFINE u == Unlink(j, t)
  <1>1. /\ u \in KState /\ ListsOK(u)
        /\ u = [j EXCEPT !.ready = u.ready, !.waiting = u.waiting]
        /\ \A p \in Priorities : ReadyAt(u, p) = ReadyAt(j, p) \ {t}
        /\ \A o \in Objects : WaitsAt(u, o) = WaitsAt(j, o) \ {t}
        /\ Thins(j, u)
    BY UnlinkWhat DEF KInv
  <1> HIDE DEF u
  <1>2. /\ Kept(j, u) /\ u.current = j.current /\ u.stat = j.stat
        /\ u.timers = j.timers /\ u.group = j.group
    BY <1>1 DEF KState, Kept
  <1>3. Timed(u) = Timed(j) /\ \A p \in Priorities : ReadyAt(u, p) = ReadyAt(j, p)
    <2>1. \A p \in Priorities : t \notin ReadyAt(j, p)
      BY DEF KInv, StatesOK, ReadyOK
    <2> QED BY <1>1, <1>2, <2>1 DEF Timed
  <1>4. GroupOK(u)
    BY <1>2, <1>3 DEF KInv, GroupOK
  <1>5. StatesOK(u)
    BY <1>1, <1>2, <1>3 DEF KInv, StatesOK, ReadyOK, WaitingOK, CurrentOK, Kept
  <1>6. \A s \in Threads \ {t} : Same(j, u, s)
    BY <1>1, <1>2, <1>3 DEF Same, Kept
  <1> QED BY <1>1, <1>2, <1>4, <1>5, <1>6 DEF KInv, u

\* The time of t has run out.
Late(i, j, t) == Woken(i, j, t) /\ t \in Timed(i) /\ j.error[t] = "ETIMEOUT"

\* What time-outs, and the scheduling after them, may change.
Passed(i, j) ==
  /\ j.priority = i.priority
  /\ \A t \in Threads : Same(i, j, t) \/ Late(i, j, t)
  /\ Thins(i, j)
  /\ Highest(j) \/ (~Highest(i) /\ j.current = i.current)
  /\ j.stat[j.current] = "SUSPEND" => j.current = i.current

\* What may pass in two steps may pass in one.
LEMMA PassedAgain ==
  ASSUME NEW i, NEW j, NEW l, j.current \in Threads, l.current \in Threads,
         Passed(i, j), Passed(j, l)
  PROVE  Passed(i, l)
  <1>1. ASSUME NEW t \in Threads PROVE Same(i, l, t) \/ Late(i, l, t)
    <2>0. (Same(i, j, t) \/ Late(i, j, t)) /\ (Same(j, l, t) \/ Late(j, l, t))
      BY DEF Passed
    <2>1. CASE Same(i, j, t) /\ Same(j, l, t)
      BY <2>1 DEF Same
    <2>2. CASE Same(i, j, t) /\ Late(j, l, t)
      BY <2>2 DEF Same, Late, Woken
    <2>3. CASE Late(i, j, t)
      <3>1. Same(j, l, t)
        BY <2>3 DEF Passed, Late, Woken
      <3> QED BY <2>3, <3>1 DEF Same, Late, Woken
    <2> QED BY <2>0, <2>1, <2>2, <2>3
  <1>2. ASSUME l.stat[l.current] = "SUSPEND" PROVE l.current = i.current
    <2>1. l.current = j.current
      BY <1>2 DEF Passed
    <2>2. j.stat[j.current] = "SUSPEND"
      BY <1>2, <2>1 DEF Passed, Same, Late, Woken
    <2> QED BY <2>1, <2>2 DEF Passed
  <1>3. Thins(i, l)
    BY ThinsAgain DEF Passed
  <1>4. Highest(l) \/ (~Highest(i) /\ l.current = i.current)
    BY DEF Passed
  <1> QED BY <1>1, <1>2, <1>3, <1>4 DEF Passed

\* rt_thread_timeout wakes t with ETIMEOUT, and schedules.
LEMMA TimeoutWhat ==
  ASSUME NEW j \in KState, KInv(j), j.current \in Threads, j.timers /= <<>>
  PROVE  LET u == rt_thread_timeout([j EXCEPT !.timers = Tail(@)], Head(j.timers).thread) IN
         /\ u \in KState /\ KInv(u) /\ u.current \in Threads /\ Passed(j, u)
         /\ u.tick = j.tick /\ u.remaining = j.remaining
  <1> DEFINE t == Head(j.timers).thread
             e == [j EXCEPT !.timers = Tail(@), !.error[t] = "ETIMEOUT"]
             l == Unlink(e, t)
             r == rt_schedule_insert_thread(l, t)
             u == rt_schedule(r)
  <1>1. rt_thread_timeout([j EXCEPT !.timers = Tail(@)], t) = u
    <2>1. e = [[j EXCEPT !.timers = Tail(@)] EXCEPT !.error[t] = "ETIMEOUT"]
      BY DEF KState
    <2> QED BY <2>1 DEF rt_thread_timeout
  <1>2. /\ Tail(j.timers) \in Seq(Timer) /\ Distinct(Owners(Tail(j.timers)))
        /\ t \in Timed(j) /\ Elems(Owners(Tail(j.timers))) = Timed(j) \ {t}
    <2>1. j.timers \in Seq(Timer) /\ Distinct(Owners(j.timers))
      BY DEF KState, KInv, ListsOK
    <2> QED BY <2>1, TimersTail DEF Timed
  <1>3. t \in Threads
    <2>1. Owners(j.timers) \in Seq(Threads)
      BY OwnersType DEF KState
    <2> QED BY <1>2, <2>1 DEF Timed, Elems
  <1>4. j.stat[t] = "SUSPEND"
    BY <1>2, <1>3 DEF KInv, StatesOK, WaitingOK
  <1> HIDE DEF t
  <1>5. /\ e \in KState /\ e.timers = Tail(j.timers) /\ e.error = [j.error EXCEPT ![t] = "ETIMEOUT"]
        /\ e.tick = j.tick /\ e.priority = j.priority /\ e.remaining = j.remaining
        /\ e.current = j.current /\ e.stat = j.stat /\ e.ready = j.ready
        /\ e.waiting = j.waiting /\ e.group = j.group
    BY <1>2 DEF KState
  <1> HIDE DEF e
  <1>6. KInv(e)
    <2>1. ListsOK(e)
      BY <1>2, <1>5 DEF KInv, ListsOK
    <2>2. GroupOK(e)
      BY <1>5 DEF KInv, GroupOK, ReadyAt
    <2>3. StatesOK(e)
      BY <1>2, <1>5 DEF KInv, StatesOK, ReadyOK, WaitingOK, CurrentOK, ReadyAt, WaitsAt, Timed
    <2> QED BY <2>1, <2>2, <2>3 DEF KInv
  <1>7. /\ e.error[t] = "ETIMEOUT" /\ t \notin Timed(e)
        /\ \A s \in Threads \ {t} : Same(j, e, s)
    BY <1>2, <1>3, <1>5 DEF Same, WaitsAt, Timed, KState
  <1>8. /\ l \in KState /\ KInv(l) /\ Kept(e, l) /\ l.current = e.current
        /\ l.stat = e.stat /\ l.timers = e.timers
        /\ \A o \in Objects : t \notin WaitsAt(l, o)
        /\ \A s \in Threads \ {t} : Same(e, l, s)
        /\ Thins(e, l)
    BY <1>3, <1>4, <1>5, <1>6, UnlinkSuspended
  <1> HIDE DEF l
  <1>9. l.stat[t] = "SUSPEND" /\ t \notin Timed(l)
    BY <1>4, <1>5, <1>7, <1>8 DEF Timed
  <1>10. /\ r \in KState /\ KInv(r)
         /\ r = [l EXCEPT !.stat = r.stat, !.ready = r.ready, !.group = r.group]
         /\ Woken(l, r, t) /\ \A s \in Threads \ {t} : Same(l, r, s)
    BY <1>3, <1>8, <1>9, PutBackWhat
  <1> HIDE DEF r
  <1>11. Kept(l, r) /\ r.current = l.current
    BY <1>8, <1>10 DEF KState, Kept
  <1>12. /\ u \in KState /\ KInv(u) /\ Kept(r, u) /\ u.current \in Threads
         /\ \A s \in Threads : Same(r, u, s)
         /\ IF r.group = {} THEN u = r ELSE u.stat[u.current] = "RUNNING"
         /\ Highest(u) /\ Thins(r, u)
    BY <1>5, <1>8, <1>10, <1>11, ScheduleWhat
  <1> HIDE DEF u
  <1>13. u.tick = j.tick /\ u.priority = j.priority /\ u.remaining = j.remaining
         /\ u.error = e.error
    BY <1>5, <1>8, <1>11, <1>12 DEF Kept
  <1>14. \A s \in Threads \ {t} : Same(j, u, s)
    BY <1>7, <1>8, <1>10, <1>12 DEF Same
  <1>15. Late(j, u, t)
    <2>1. u.stat[t] /= "SUSPEND" /\ u.stat[t] /= "INIT"
      BY <1>3, <1>10, <1>12 DEF Same, Woken
    <2>2. t \notin Timed(u) /\ \A o \in Objects : t \notin WaitsAt(u, o)
      BY <1>3, <1>10, <1>12 DEF Same, Woken
    <2> QED BY <1>2, <1>4, <1>7, <1>13, <2>1, <2>2 DEF Late, Woken
  <1>16. u.stat[u.current] = "SUSPEND" => u.current = j.current
    BY <1>5, <1>8, <1>11, <1>12
  <1>17. Thins(j, u)
    <2>1. Thins(j, e) /\ Thins(l, r)
      <3>1. r.waiting = l.waiting
        BY <1>8, <1>10 DEF KState
      <3> QED BY <1>5, <3>1, ThinsSame
    <2> QED BY <1>8, <1>12, <2>1, ThinsAgain
  <1> QED BY <1>1, <1>12, <1>13, <1>14, <1>15, <1>16, <1>17 DEF Passed, t

\* One turn of the loop of rt_timer_check
TakeDue(j) ==
  IF j.timers # <<>> /\ Due(j, Head(j.timers))
  THEN rt_thread_timeout([j EXCEPT !.timers = Tail(@)], Head(j.timers).thread)
  ELSE j

Turns(f, j, m) == f = [n \in 0 .. m |-> IF n = 0 THEN j ELSE TakeDue(f[n - 1])]

\* The recursive definition of the loop has a solution.
LEMMA TurnsExist ==
  ASSUME NEW j, NEW m \in Nat
  PROVE  \E f : Turns(f, j, m)
  <1> DEFINE Without == {n \in Nat : ~ \E f : Turns(f, j, n)}
  <1>1. SUFFICES ASSUME Without /= {} PROVE FALSE
    OBVIOUS
  <1>2. PICK n \in Without : \A l \in Without : n <= l
    BY <1>1, NatMin
  <1>3. CASE n = 0
    <2> DEFINE f == [l \in 0 .. 0 |-> j]
    <2>1. Turns(f, j, 0)
      BY DEF Turns
    <2> QED BY <1>2, <1>3, <2>1
  <1>4. CASE n /= 0
    <2>1. n - 1 \in Nat /\ n - 1 \notin Without /\ n \in Nat
      BY <1>2, <1>4
    <2>2. PICK f : Turns(f, j, n - 1)
      BY <2>1
    <2> DEFINE g == [l \in 0 .. n |-> IF l = n THEN TakeDue(f[n - 1]) ELSE f[l]]
    <2>3. ASSUME NEW l \in 0 .. n
          PROVE  g[l] = IF l = 0 THEN j ELSE TakeDue(g[l - 1])
      <3>1. CASE l = n
        <4>1. n - 1 \in 0 .. n /\ n - 1 /= n /\ l /= 0
          BY <1>4, <2>1, <3>1
        <4> QED BY <3>1, <4>1
      <3>2. CASE l /= n
        <4>1. l \in 0 .. n - 1 /\ l - 1 /= n /\ (l /= 0 => l - 1 \in 0 .. n)
          BY <2>1, <3>2
        <4>2. f[l] = IF l = 0 THEN j ELSE TakeDue(f[l - 1])
          BY <2>2, <4>1 DEF Turns
        <4> QED BY <3>2, <4>1, <4>2
      <3> QED BY <3>1, <3>2
    <2>4. Turns(g, j, n)
      <3> DEFINE h == [l \in 0 .. n |-> IF l = 0 THEN j ELSE TakeDue(g[l - 1])]
      <3>1. g = h
        BY <2>3
      <3> QED BY <3>1 DEF Turns
    <2> QED BY <1>2, <2>4
  <1> QED BY <1>3, <1>4

\* rt_timer_check: whoever is woken had a timer and gets ETIMEOUT.
LEMMA CheckWhat ==
  ASSUME NEW j \in KState, KInv(j), j.current \in Threads
  PROVE  LET u == rt_timer_check(j) IN
         /\ u \in KState /\ KInv(u) /\ u.current \in Threads /\ Passed(j, u)
         /\ u.tick = j.tick /\ u.remaining = j.remaining
  <1> DEFINE m == Len(j.timers)
             due == CHOOSE f : f = [n \in 0 .. m |->
                      IF n = 0 THEN j
                      ELSE LET i == f[n - 1] IN
                           IF i.timers # <<>> /\ Due(i, Head(i.timers))
                           THEN rt_thread_timeout([i EXCEPT !.timers = Tail(@)],
                                                  Head(i.timers).thread)
                           ELSE i]
             Right(u) == /\ u \in KState /\ KInv(u) /\ u.current \in Threads /\ Passed(j, u)
                         /\ u.tick = j.tick /\ u.remaining = j.remaining
  <1>1. rt_timer_check(j) = due[m]
    BY DEF rt_timer_check
  <1>2. m \in Nat
    BY DEF KState
  <1>3. due = CHOOSE f : Turns(f, j, m)
    BY DEF Turns, TakeDue
  <1>4. Turns(due, j, m)
    BY <1>2, <1>3, TurnsExist
  <1> HIDE DEF due, m
  <1>5. \A n \in 0 .. m : due[n] = IF n = 0 THEN j ELSE TakeDue(due[n - 1])
    BY <1>4 DEF Turns
  <1>6. Right(j)
    BY ThinsSame DEF Passed, Same
  <1>7. ASSUME NEW i, Right(i) PROVE Right(TakeDue(i))
    <2>1. CASE ~(i.timers # <<>> /\ Due(i, Head(i.timers)))
      BY <1>7, <2>1 DEF TakeDue
    <2>2. CASE i.timers # <<>> /\ Due(i, Head(i.timers))
      <3> DEFINE u == TakeDue(i)
      <3>1. u = rt_thread_timeout([i EXCEPT !.timers = Tail(@)], Head(i.timers).thread)
        BY <2>2 DEF TakeDue
      <3> HIDE DEF u
      <3>2. /\ u \in KState /\ KInv(u) /\ u.current \in Threads /\ Passed(i, u)
            /\ u.tick = i.tick /\ u.remaining = i.remaining
        BY <1>7, <2>2, <3>1, TimeoutWhat
      <3>3. Passed(j, u)
        BY <1>7, <3>2, PassedAgain
      <3> QED BY <1>7, <3>2, <3>3 DEF u
    <2> QED BY <2>1, <2>2
  <1> HIDE DEF Right
  <1>8. \A n \in 0 .. m : Right(due[n])
    <2> DEFINE Wrong == {n \in 0 .. m : ~Right(due[n])}
    <2>1. SUFFICES ASSUME Wrong /= {} PROVE FALSE
      OBVIOUS
    <2>2. Wrong \in SUBSET Nat
      BY <1>2
    <2>3. PICK n \in Wrong : \A l \in Wrong : n <= l
      BY <2>1, <2>2, NatMin
    <2>4. n \in 0 .. m /\ ~Right(due[n])
      BY <2>3
    <2>5. CASE n = 0
      BY <1>5, <1>6, <2>4, <2>5
    <2>6. CASE n /= 0
      <3>1. n - 1 \in 0 .. m /\ ~(n <= n - 1)
        BY <1>2, <2>4, <2>6
      <3>2. Right(due[n - 1])
        BY <2>3, <3>1
      <3> QED BY <1>5, <1>7, <2>4, <2>6, <3>2
    <2> QED BY <2>5, <2>6
  <1>9. Right(due[m])
    BY <1>2, <1>8
  <1> QED BY <1>1, <1>9 DEF Right

\* Slices are counted down, from init_tick to 1.
SliceOK(j) == \A t \in Threads : j.remaining[t] \in 1 .. InitTick[t]

\* rt_tick_increase, with the end of a slice and all time-outs.
LEMMA TickWhat ==
  ASSUME NEW j \in KState, KInv(j), j.current \in Threads, SliceOK(j)
  PROVE  LET u == rt_tick_increase(j) IN
         /\ u \in KState /\ KInv(u) /\ u.current \in Threads /\ SliceOK(u)
         /\ Passed(j, u)
  <1> DEFINE c == j.current
             next == [j EXCEPT !.tick = (@ + 1) % TickRange, !.remaining[c] = @ - 1]
             ended == [next EXCEPT !.remaining[c] = InitTick[c], !.yield = @ \union {c}]
             l == IF next.remaining[c] = 0 THEN rt_schedule(ended) ELSE next
             u == rt_timer_check(l)
  <1>1. rt_tick_increase(j) = u
    BY DEF rt_tick_increase
  <1>2. InitTick[c] \in Nat /\ InitTick[c] > 0 /\ j.remaining[c] \in 1 .. InitTick[c]
        /\ \A t \in Threads : InitTick[t] \in Nat
    BY KernelAssumption DEF SliceOK
  <1>3. (j.tick + 1) % TickRange \in 0 .. TickRange - 1
    <2>1. j.tick + 1 \in Nat /\ TickRange \in Nat \ {0}
      BY KernelAssumption DEF KState
    <2> QED BY <2>1
  <1>4. j.remaining \in [Threads -> Nat] /\ j.yield \in SUBSET Threads
    BY DEF KState
  <1>5. /\ next \in KState /\ next.current = c /\ next.stat = j.stat /\ next.group = j.group
        /\ next.timers = j.timers /\ next.priority = j.priority /\ next.error = j.error
        /\ next.ready = j.ready /\ next.waiting = j.waiting
        /\ next.remaining = [j.remaining EXCEPT ![c] = @ - 1]
    <2>1. [j.remaining EXCEPT ![c] = @ - 1] \in [Threads -> Nat]
      BY <1>2, <1>4
    <2> QED BY <1>3, <2>1 DEF KState
  <1>6. /\ ended \in KState /\ ended.current = c /\ ended.stat = j.stat /\ ended.group = j.group
        /\ ended.timers = j.timers /\ ended.priority = j.priority /\ ended.error = j.error
        /\ ended.ready = j.ready /\ ended.waiting = j.waiting
        /\ ended.remaining = [j.remaining EXCEPT ![c] = InitTick[c]]
    <2> HIDE DEF next
    <2>1. ended \in KState /\ ended.remaining = [next.remaining EXCEPT ![c] = InitTick[c]]
      BY <1>2, <1>5 DEF KState
    <2>2. /\ ended.current = c /\ ended.stat = j.stat /\ ended.group = j.group
          /\ ended.timers = j.timers /\ ended.priority = j.priority /\ ended.error = j.error
          /\ ended.ready = j.ready /\ ended.waiting = j.waiting
      BY <1>5 DEF KState
    <2> QED BY <1>4, <1>5, <2>1, <2>2
  <1> HIDE DEF ended, next
  <1>7. KInv(next) /\ KInv(ended)
    BY <1>5, <1>6 DEF KInv, ListsOK, GroupOK, StatesOK, ReadyOK, WaitingOK, CurrentOK,
                      ReadyAt, WaitsAt, Timed
  <1>8. Passed(j, next) /\ Passed(j, ended)
    <2>1. Thins(j, next) /\ Thins(j, ended)
      BY <1>5, <1>6, ThinsSame
    <2> QED BY <1>5, <1>6, <2>1 DEF Passed, Same, WaitsAt, Timed, Highest
  <1>9. l \in KState /\ KInv(l) /\ l.current \in Threads /\ Passed(j, l) /\ SliceOK(l)
    <2>1. CASE next.remaining[c] /= 0
      <3>1. SliceOK(next)
        BY <1>2, <1>4, <1>5, <2>1 DEF SliceOK
      <3> QED BY <1>5, <1>7, <1>8, <2>1, <3>1
    <2>2. CASE next.remaining[c] = 0
      <3>1. SliceOK(ended)
        BY <1>2, <1>4, <1>6 DEF SliceOK
      <3> DEFINE s == rt_schedule(ended)
      <3>2. /\ s \in KState /\ KInv(s) /\ Kept(ended, s) /\ s.current \in Threads
            /\ \A t \in Threads : Same(ended, s, t)
            /\ IF ended.group = {} THEN s = ended ELSE s.stat[s.current] = "RUNNING"
            /\ Highest(s) /\ Thins(ended, s)
        BY <1>6, <1>7, ScheduleWhat
      <3> HIDE DEF s
      <3>3. Passed(ended, s)
        BY <3>2 DEF Passed, Kept
      <3>4. Passed(j, s)
        BY <1>6, <1>8, <3>2, <3>3, PassedAgain
      <3>5. SliceOK(s)
        BY <3>1, <3>2 DEF SliceOK, Kept
      <3>6. l = s
        BY <2>2 DEF s
      <3> QED BY <3>2, <3>4, <3>5, <3>6
    <2> QED BY <2>1, <2>2
  <1> HIDE DEF l
  <1>10. /\ u \in KState /\ KInv(u) /\ u.current \in Threads /\ Passed(l, u)
         /\ u.tick = l.tick /\ u.remaining = l.remaining
    BY <1>9, CheckWhat
  <1> HIDE DEF u
  <1>11. Passed(j, u)
    BY <1>9, <1>10, PassedAgain
  <1>12. SliceOK(u)
    BY <1>9, <1>10 DEF SliceOK
  <1> QED BY <1>1, <1>10, <1>11, <1>12

\* The threads of X have been started, the scheduler has not.
Begun(j, X) ==
  /\ j \in KState /\ KInv(j) /\ j.current = Null
  /\ j.priority = InitPriority /\ j.remaining = InitTick
  /\ \A t \in Threads : /\ j.stat[t] = IF t \in X THEN "READY" ELSE "INIT"
                        /\ j.error[t] = "EOK" /\ t \notin Timed(j)
                        /\ \A o \in Objects : t \notin WaitsAt(j, o)

\* Before rt_system_scheduler_start no thread is in a list.
LEMMA UnstartedWhat == Begun(Unstarted, {})
  <1> DEFINE u == Unstarted
  <1>1. u \in KState
    <2>1. 0 \in 0 .. TickRange - 1
      BY KernelAssumption
    <2>2. InitTick \in [Threads -> Nat] /\ InitPriority \in [Threads -> Priorities]
      BY KernelAssumption, PriorityType
    <2> QED BY <2>1, <2>2 DEF KState, Unstarted
  <1>2. /\ u.current = Null /\ u.timers = <<>> /\ u.group = {}
        /\ u.priority = InitPriority /\ u.remaining = InitTick
        /\ \A t \in Threads : u.stat[t] = "INIT" /\ u.error[t] = "EOK"
        /\ \A p \in Priorities : u.ready[p] = <<>>
        /\ \A o \in Objects : u.waiting[o] = <<>>
    BY DEF Unstarted
  <1> HIDE DEF u
  <1>3. Distinct(<<>>) /\ Elems(<<>>) = {} /\ Owners(<<>>) = <<>>
    BY DEF Distinct, Elems, Owners
  <1>4. ListsOK(u)
    BY <1>2, <1>3 DEF ListsOK
  <1>5. GroupOK(u)
    BY <1>2, <1>3 DEF GroupOK, ReadyAt
  <1>6. StatesOK(u)
    BY <1>2, <1>3 DEF StatesOK, ReadyOK, WaitingOK, CurrentOK, ReadyAt, WaitsAt, Timed
  <1> QED BY <1>1, <1>2, <1>3, <1>4, <1>5, <1>6 DEF Begun, KInv, WaitsAt, Timed, u

\* rt_thread_startup makes one thread more ready.
LEMMA StartupWhat ==
  ASSUME NEW j, NEW X, Begun(j, X), NEW t \in Threads, t \notin X
  PROVE  Begun(rt_thread_startup(j, t), X \union {t})
  <1> DEFINE e == [j EXCEPT !.priority[t] = InitPriority[t], !.stat[t] = "SUSPEND"]
             u == rt_thread_resume(e, t)
  <1>1. rt_thread_startup(j, t) = u
    BY DEF rt_thread_startup
  <1>2. j \in KState /\ KInv(j)
    BY DEF Begun
  <1>3. /\ e \in KState /\ e.current = Null /\ e.priority = InitPriority
        /\ e.stat = [j.stat EXCEPT ![t] = "SUSPEND"]
        /\ e.timers = j.timers /\ e.group = j.group /\ e.ready = j.ready
        /\ e.waiting = j.waiting /\ e.error = j.error /\ e.remaining = InitTick
    <2>1. /\ j.current = Null /\ j.priority = InitPriority /\ j.remaining = InitTick
      BY DEF Begun
    <2>2. [j.priority EXCEPT ![t] = InitPriority[t]] = InitPriority
      BY <2>1, PriorityType
    <2>3. j.stat \in [Threads -> {"INIT", "READY", "RUNNING", "SUSPEND"}]
      BY <1>2 DEF KState
    <2> QED BY <1>2, <2>1, <2>2, <2>3, PriorityType DEF KState
  <1> HIDE DEF e
  <1>4. ListsOK(e) /\ GroupOK(e)
    BY <1>2, <1>3 DEF KInv, ListsOK, GroupOK, ReadyAt
  <1>5. StatesOK(e)
    BY <1>2, <1>3, KernelAssumption
       DEF Begun, KInv, StatesOK, ReadyOK, WaitingOK, CurrentOK, ReadyAt, WaitsAt, Timed, KState
  <1>6. e.stat[t] = "SUSPEND"
    BY <1>2, <1>3 DEF KState
  <1>7. /\ u \in KState /\ KInv(u) /\ Kept(e, u) /\ u.current = e.current
        /\ Woken(e, u, t) /\ \A s \in Threads \ {t} : Same(e, u, s)
    BY <1>3, <1>4, <1>5, <1>6, ResumeWhat DEF KInv
  <1> HIDE DEF u
  <1>8. ASSUME NEW s \in Threads
        PROVE  /\ u.stat[s] = IF s \in X \union {t} THEN "READY" ELSE "INIT"
               /\ u.error[s] = "EOK" /\ s \notin Timed(u)
               /\ \A o \in Objects : s \notin WaitsAt(u, o)
    <2>1. u.stat[s] \in {"INIT", "READY", "SUSPEND"}
      <3>1. u.stat[s] \in {"INIT", "READY", "RUNNING", "SUSPEND"}
        BY <1>7 DEF KState
      <3>2. u.current /= s
        BY <1>3, <1>7, KernelAssumption
      <3> QED BY <1>7, <3>1, <3>2 DEF KInv, StatesOK, CurrentOK
    <2>2. CASE s = t
      BY <1>3, <1>7, <2>1, <2>2 DEF Woken, Kept, Begun
    <2>3. CASE s /= t
      <3>1. /\ e.stat[s] = IF s \in X THEN "READY" ELSE "INIT"
            /\ e.error[s] = "EOK" /\ s \notin Timed(e)
            /\ \A o \in Objects : s \notin WaitsAt(e, o)
        BY <1>2, <1>3, <2>3 DEF Begun, KState, Timed, WaitsAt
      <3>2. Same(e, u, s)
        BY <1>7, <2>3
      <3> QED BY <2>1, <2>3, <3>1, <3>2 DEF Same
    <2> QED BY <2>2, <2>3
  <1> QED BY <1>1, <1>3, <1>7, <1>8 DEF Begun, Kept

After(f, order, m) ==
  f = [n \in 0 .. m |-> IF n = 0 THEN Unstarted ELSE rt_thread_startup(f[n - 1], order[n])]

\* The recursive definition in Started has a solution.
LEMMA AfterExists ==
  ASSUME NEW order, NEW m \in Nat
  PROVE  \E f : After(f, order, m)
  <1> DEFINE Without == {n \in Nat : ~ \E f : After(f, order, n)}
  <1>1. SUFFICES ASSUME Without /= {} PROVE FALSE
    OBVIOUS
  <1>2. PICK n \in Without : \A l \in Without : n <= l
    BY <1>1, NatMin
  <1>3. CASE n = 0
    <2> DEFINE f == [l \in 0 .. 0 |-> Unstarted]
    <2>1. After(f, order, 0)
      BY DEF After
    <2> QED BY <1>2, <1>3, <2>1
  <1>4. CASE n /= 0
    <2>1. n - 1 \in Nat /\ n - 1 \notin Without /\ n \in Nat
      BY <1>2, <1>4
    <2>2. PICK f : After(f, order, n - 1)
      BY <2>1
    <2> DEFINE g == [l \in 0 .. n |-> IF l = n THEN rt_thread_startup(f[n - 1], order[n]) ELSE f[l]]
    <2>3. ASSUME NEW l \in 0 .. n
          PROVE  g[l] = IF l = 0 THEN Unstarted ELSE rt_thread_startup(g[l - 1], order[l])
      <3>1. CASE l = n
        <4>1. n - 1 \in 0 .. n /\ n - 1 /= n /\ l /= 0
          BY <1>4, <2>1, <3>1
        <4> QED BY <3>1, <4>1
      <3>2. CASE l /= n
        <4>1. l \in 0 .. n - 1 /\ l - 1 /= n /\ (l /= 0 => l - 1 \in 0 .. n)
          BY <2>1, <3>2
        <4>2. f[l] = IF l = 0 THEN Unstarted ELSE rt_thread_startup(f[l - 1], order[l])
          BY <2>2, <4>1 DEF After
        <4> QED BY <3>2, <4>1, <4>2
      <3> QED BY <3>1, <3>2
    <2>4. After(g, order, n)
      <3> DEFINE h == [l \in 0 .. n |->
                        IF l = 0 THEN Unstarted ELSE rt_thread_startup(g[l - 1], order[l])]
      <3>1. g = h
        BY <2>3
      <3> QED BY <3>1 DEF After
    <2> QED BY <1>2, <2>4
  <1> QED BY <1>3, <1>4

\* When the scheduler has started every thread is ready or runs.
LEMMA StartedWhat ==
  ASSUME NEW order \in SetToSeqs(Threads)
  PROVE  LET u == Started(order) IN
         /\ u \in KState /\ KInv(u) /\ u.current \in Threads /\ SliceOK(u)
         /\ u.priority = InitPriority /\ Highest(u)
         /\ \A t \in Threads : /\ u.stat[t] \notin {"INIT", "SUSPEND"}
                               /\ u.error[t] = "EOK" /\ t \notin Timed(u)
                               /\ \A o \in Objects : t \notin WaitsAt(u, o)
  <1> DEFINE m == Len(order)
             after == CHOOSE f : f = [n \in 0 .. m |->
                        IF n = 0 THEN Unstarted ELSE rt_thread_startup(f[n - 1], order[n])]
             j == after[m]
             u == rt_system_scheduler_start(j)
             X(n) == {order[i] : i \in 1 .. n}
  <1>1. Started(order) = u
    BY DEF Started
  <1>2. /\ m \in Nat /\ order \in [1 .. m -> Threads]
        /\ \A a, b \in 1 .. m : a /= b => order[a] /= order[b]
        /\ m = Cardinality(Threads)
    <2>1. Cardinality(Threads) \in Nat
      BY KernelAssumption, FS_CardinalityType
    <2> QED BY <2>1 DEF SetToSeqs
  <1> HIDE DEF m
  <1>3. X(m) = Threads
    <2>1. order \in Injection(1 .. m, Threads)
      BY <1>2 DEF Injection, IsInjective
    <2>2. Cardinality(1 .. m) = m
      BY <1>2, FS_Interval
    <2>3. order \in Surjection(1 .. m, Threads)
      BY <1>2, <2>1, <2>2, KernelAssumption, FS_Injection
    <2> QED BY <1>2, <2>3 DEF Surjection
  <1>4. \A n \in 0 .. m :
          after[n] = IF n = 0 THEN Unstarted ELSE rt_thread_startup(after[n - 1], order[n])
    <2>1. after = CHOOSE f : After(f, order, m)
      BY DEF After
    <2>2. After(after, order, m)
      BY <1>2, <2>1, AfterExists
    <2> HIDE DEF after
    <2> QED BY <2>2 DEF After
  <1> HIDE DEF after
  <1>5. \A n \in 0 .. m : Begun(after[n], X(n))
    <2> DEFINE Wrong == {n \in 0 .. m : ~Begun(after[n], X(n))}
    <2>1. SUFFICES ASSUME Wrong /= {} PROVE FALSE
      OBVIOUS
    <2>2. Wrong \in SUBSET Nat
      BY <1>2
    <2>3. PICK n \in Wrong : \A l \in Wrong : n <= l
      BY <2>1, <2>2, NatMin
    <2>4. n \in 0 .. m /\ ~Begun(after[n], X(n))
      BY <2>3
    <2>5. CASE n = 0
      <3>1. X(0) = {}
        OBVIOUS
      <3> QED BY <1>4, <2>4, <2>5, <3>1, UnstartedWhat
    <2>6. CASE n /= 0
      <3>1. n - 1 \in 0 .. m /\ ~(n <= n - 1) /\ n \in 1 .. m
        BY <1>2, <2>4, <2>6
      <3>2. Begun(after[n - 1], X(n - 1))
        BY <2>3, <3>1
      <3>3. order[n] \in Threads /\ order[n] \notin X(n - 1)
        BY <1>2, <3>1
      <3>4. X(n) = X(n - 1) \union {order[n]}
        <4>1. 1 .. n = (1 .. n - 1) \union {n}
          BY <1>2, <3>1
        <4> QED BY <4>1
      <3> HIDE DEF X
      <3>5. Begun(rt_thread_startup(after[n - 1], order[n]), X(n))
        BY <3>2, <3>3, <3>4, StartupWhat
      <3> QED BY <1>4, <2>4, <2>6, <3>5
    <2> QED BY <2>5, <2>6
  <1>6. Begun(j, Threads)
    <2>1. m \in 0 .. m
      BY <1>2
    <2> QED BY <1>3, <1>5, <2>1
  <1> HIDE DEF j
  <1> DEFINE h == Head(j.ready[Min(j.group)])
             g == Gone(j, h, {})
  <1>7. u = Ran(g, h)
    <2>1. j \in KState /\ j.yield \ {} = j.yield
      BY <1>6 DEF Begun
    <2>2. g = [j EXCEPT !.current = h]
      BY <2>1 DEF KState, Gone
    <2> QED BY <2>2 DEF rt_system_scheduler_start, Ran
  <1>8. j.group /= {}
    <2>1. InitPriority[Idle] \in Priorities /\ Idle \in Threads
      BY KernelAssumption, PriorityType
    <2>2. Idle \in ReadyAt(j, InitPriority[Idle])
      BY <1>6, <2>1 DEF Begun, KInv, StatesOK, ReadyOK
    <2> QED BY <1>6, <2>1, <2>2 DEF Begun, KInv, GroupOK
  <1>9. h \in Threads /\ \A p \in j.group : j.priority[h] <= p
    <2>1. h \in Threads /\ j.priority[h] = Min(j.group)
      BY <1>6, <1>8, HighestReady DEF Begun
    <2>2. j.group \in SUBSET Nat
      BY <1>6, PriorityType DEF Begun, KState
    <2> QED BY <1>8, <2>1, <2>2, MinIsLeast
  <1> HIDE DEF u, h
  <1>10. /\ g \in KState /\ ListsOK(g) /\ GroupOK(g) /\ ReadyOK(g) /\ WaitingOK(g)
         /\ Kept(j, g) /\ g.current = h /\ g.stat = j.stat /\ g.group = j.group
         /\ \A s \in Threads : Same(j, g, s)
    BY <1>6, <1>9, GoneWhat DEF Begun
  <1> HIDE DEF g
  <1>11. g.stat[h] = "READY" /\ \A t \in Threads \ {h} : g.stat[t] /= "RUNNING"
    BY <1>6, <1>9, <1>10 DEF Begun
  <1>12. /\ u \in KState /\ KInv(u) /\ Kept(g, u) /\ u.current = h
         /\ u.stat[h] = "RUNNING" /\ \A s \in Threads : Same(g, u, s)
         /\ u.group \subseteq g.group
    BY <1>7, <1>9, <1>10, <1>11, RunsWhat
  <1>13. SliceOK(u)
    <2>1. u.remaining = InitTick
      BY <1>6, <1>10, <1>12 DEF Begun, Kept
    <2> QED BY <2>1, KernelAssumption DEF SliceOK
  <1>14. ASSUME NEW t \in Threads
         PROVE  /\ u.stat[t] \notin {"INIT", "SUSPEND"}
                /\ u.error[t] = "EOK" /\ t \notin Timed(u)
                /\ \A o \in Objects : t \notin WaitsAt(u, o)
    <2>1. /\ j.stat[t] = "READY" /\ j.error[t] = "EOK" /\ t \notin Timed(j)
          /\ \A o \in Objects : t \notin WaitsAt(j, o)
      BY <1>6 DEF Begun
    <2>2. Same(j, g, t) /\ Same(g, u, t)
      BY <1>10, <1>12
    <2> QED BY <2>1, <2>2 DEF Same
  <1>15. u.priority = InitPriority /\ j.priority = InitPriority
    BY <1>6, <1>10, <1>12 DEF Begun, Kept
  <1>16. Highest(u)
    BY <1>9, <1>10, <1>12, <1>15 DEF Highest
  <1> QED BY <1>1, <1>9, <1>12, <1>13, <1>14, <1>15, <1>16
=============================================================================
