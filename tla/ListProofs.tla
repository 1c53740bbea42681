------------------------------ MODULE ListProofs ------------------------------
(***************************************************************************)
(* Proofs about program 2: list.c and its users for any number of nodes,   *)
(* and the fault injection of its tests, malloc-test.c, for any number of    *)
(* calls.                                                                  *)
(* The lists of a state are described by one function, `sq`, from the        *)
(* handles to sequences of nodes; a walk along the pointers meets exactly    *)
(* the sequence of its list, and each call changes one sequence in one of    *)
(* five ways.                                                              *)
(***************************************************************************)
EXTENDS Sorting, MallocLoop, FiniteSetTheorems, WellFoundedInduction, TLAPS

-----------------------------------------------------------------------------
(* Sequences of nodes *)

\* The k-th element of a sequence, NULL outside of it.
Nth(s, k) == IF k \in 1..Len(s) THEN s[k] ELSE NULL

LEMMA LeastElement ==
  ASSUME NEW T \in SUBSET Nat, T # {}
  PROVE  \E m \in T : \A k \in T : m <= k
<1> DEFINE U == {0..t : t \in T}
<1>1. IsWellFoundedOn(StrictSubsetOrdering(Nat), FiniteSubsetsOf(Nat))
  BY FS_StrictSubsetOrderingWellFounded
<1>2. U \subseteq FiniteSubsetsOf(Nat) /\ U # {}
  <2>1. \A t \in T : 0..t \in SUBSET Nat /\ IsFiniteSet(0..t)
    BY FS_Interval
  <2> QED
    BY <2>1 DEF FiniteSubsetsOf
<1> HIDE DEF U
<1>3. PICK u \in U : \A v \in U : <<v, u>> \notin StrictSubsetOrdering(Nat)
  BY <1>1, <1>2, WFMin
<1>4. PICK m \in T : u = 0..m
  BY <1>3 DEF U
<1>5. ASSUME NEW k \in T, k < m PROVE FALSE
  <2>1. 0..k \in U
    BY DEF U
  <2>2. <<0..k, u>> \in StrictSubsetOrdering(Nat)
    BY <1>4, <1>5 DEF StrictSubsetOrdering
  <2> QED
    BY <1>3, <2>1, <2>2
<1> QED
  BY <1>5

\* There are no more positions in a sequence of different nodes than nodes.
LEMMA NotLonger ==
  ASSUME NEW s \in Seq(Node), \A j, k \in 1..Len(s) : s[j] = s[k] => j = k
  PROVE  /\ Len(s) \in Nat /\ Cardinality(Node) \in Nat
         /\ Len(s) <= Cardinality(Node)
<1> DEFINE f == [k \in 1..Len(s) |-> s[k]]
<1>1. IsFiniteSet(Node) /\ Len(s) \in Nat
  BY ListAssumption
<1>2. f \in Injection(1..Len(s), Node)
  BY DEF Injection, IsInjective
<1>3. Cardinality(1..Len(s)) <= Cardinality(Node)
  BY <1>1, <1>2, FS_Injection
<1> QED
  BY <1>1, <1>3, FS_Interval, FS_CardinalityType

-----------------------------------------------------------------------------
(* Walking *)

\* The k-th pointer that a walk from h along nx meets, and the walk.
Meets(h, nx) ==
    CHOOSE met : met = [k \in 0..Cardinality(Node) |->
                           IF k = 0 THEN h
                           ELSE IF met[k - 1] = NULL THEN NULL ELSE nx[met[k - 1]]]

WalkAlong(h, nx) ==
    [k \in 1..Cardinality({j \in 0..(Cardinality(Node) - 1) : Meets(h, nx)[j] # NULL})
        |-> Meets(h, nx)[k - 1]]

LEMMA WalkIsAlong ==
  ASSUME NEW l \in ListId
  PROVE  Walk(l) = WalkAlong(head[l], next)
BY DEF Walk, WalkAlong, Meets

LEMMA WalkIsAlongNext ==
  ASSUME NEW l \in ListId
  PROVE  Walk(l)' = WalkAlong(head'[l], next')
BY DEF Walk, WalkAlong, Meets

\* A walk meets the nodes of its list, one after the other, and then NULL.
LEMMA WalkMeets ==
  ASSUME NEW s \in Seq(Node), \A j, k \in 1..Len(s) : s[j] = s[k] => j = k,
         NEW h, h = Nth(s, 1),
         NEW nx, \A k \in 1..Len(s) : nx[s[k]] = Nth(s, k + 1)
  PROVE  WalkAlong(h, nx) = s
<1> DEFINE c == Cardinality(Node)
           g == [k \in 0..c |-> Nth(s, k + 1)]
           M == Meets(h, nx)
<1>1. Len(s) \in Nat /\ c \in Nat /\ Len(s) <= c
  BY NotLonger
<1>2. ASSUME NEW k \in 1..Len(s) PROVE s[k] \in Node /\ s[k] # NULL
  <2>1. s[k] \in Node
    OBVIOUS
  <2> QED
    BY <2>1, ListAssumption
<1> HIDE DEF c
<1>3. ASSUME NEW k \in 0..c
      PROVE  g[k] = IF k = 0 THEN h ELSE IF g[k - 1] = NULL THEN NULL ELSE nx[g[k - 1]]
  <2>1. CASE k = 0
    BY <1>1, <2>1
  <2>2. CASE k # 0
    <3>1. k \in 1..c /\ k - 1 \in 0..c /\ (k - 1) + 1 = k
      BY <1>1, <2>2
    <3>2. g[k] = Nth(s, k + 1) /\ g[k - 1] = Nth(s, k)
      BY <1>1, <3>1
    <3>3. CASE k \in 1..Len(s)
      BY <1>2, <2>2, <3>1, <3>2, <3>3 DEF Nth
    <3>4. CASE k \notin 1..Len(s)
      <4>1. k + 1 \notin 1..Len(s)
        BY <1>1, <3>1, <3>4
      <4> QED
        BY <2>2, <3>2, <3>4, <4>1 DEF Nth
    <3> QED
      BY <3>3, <3>4
  <2> QED
    BY <2>1, <2>2
<1>4. g = [k \in 0..c |-> IF k = 0 THEN h
                          ELSE IF g[k - 1] = NULL THEN NULL ELSE nx[g[k - 1]]]
  <2>1. g = [k \in 0..c |-> g[k]]
    OBVIOUS
  <2> HIDE DEF g
  <2> QED
    BY <1>3, <2>1
<1>5. M = CHOOSE met : met = [k \in 0..c |->
                IF k = 0 THEN h ELSE IF met[k - 1] = NULL THEN NULL ELSE nx[met[k - 1]]]
  BY DEF Meets, c
<1> HIDE DEF M, g
<1>6. M = [k \in 0..c |-> IF k = 0 THEN h
                          ELSE IF M[k - 1] = NULL THEN NULL ELSE nx[M[k - 1]]]
  BY <1>4, <1>5
<1>7. \A k \in 0..c : M[k] = g[k]
  <2> DEFINE T == {k \in 0..c : M[k] # g[k]}
  <2> SUFFICES ASSUME T # {} PROVE FALSE
    OBVIOUS
  <2>1. T \in SUBSET Nat
    BY <1>1
  <2> HIDE DEF T
  <2>2. PICK k \in T : \A j \in T : k <= j
    BY <2>1, LeastElement
  <2> USE DEF T
  <2>3. k \in 0..c /\ M[k] # g[k]
    OBVIOUS
  <2>4. k # 0
    BY <1>3, <1>6, <2>3
  <2>5. k - 1 \in 0..c /\ ~(k <= k - 1)
    BY <1>1, <2>3, <2>4
  <2>6. M[k - 1] = g[k - 1]
    BY <2>2, <2>5
  <2>7. M[k] = IF M[k - 1] = NULL THEN NULL ELSE nx[M[k - 1]]
    BY <1>6, <2>3, <2>4
  <2>8. g[k] = IF g[k - 1] = NULL THEN NULL ELSE nx[g[k - 1]]
    BY <1>3, <2>3, <2>4
  <2> QED
    BY <2>3, <2>6, <2>7, <2>8
<1>8. \A k \in 0..c : g[k] = Nth(s, k + 1)
  BY DEF g
<1>9. {j \in 0..(c - 1) : M[j] # NULL} = 0..(Len(s) - 1)
  <2>1. ASSUME NEW j \in 0..(c - 1) PROVE M[j] # NULL <=> j \in 0..(Len(s) - 1)
    <3>1. j \in 0..c /\ j \in Int /\ (j + 1 \in 1..Len(s) <=> j \in 0..(Len(s) - 1))
      BY <1>1, <2>1
    <3> QED
      BY <1>2, <1>7, <1>8, <3>1 DEF Nth
  <2>2. 0..(Len(s) - 1) \subseteq 0..(c - 1)
    BY <1>1
  <2> QED
    BY <2>1, <2>2
<1>10. Cardinality(0..(Len(s) - 1)) = Len(s)
  <2>1. PICK m \in Nat : m = Len(s)
    BY <1>1
  <2>2. Cardinality(0..(m - 1)) = m
    BY FS_Interval
  <2> QED
    BY <2>1, <2>2
<1>11. WalkAlong(h, nx) = [k \in 1..Len(s) |-> M[k - 1]]
  BY <1>9, <1>10 DEF WalkAlong, M, c
<1>12. ASSUME NEW k \in 1..Len(s) PROVE M[k - 1] = s[k]
  <2>1. k - 1 \in 0..c /\ (k - 1) + 1 = k
    BY <1>1
  <2> QED
    BY <1>7, <1>8, <2>1 DEF Nth
<1>13. s = [k \in 1..Len(s) |-> s[k]]
  OBVIOUS
<1> QED
  BY <1>11, <1>12, <1>13

-----------------------------------------------------------------------------
(* The lists of a state *)

ListTypeOK ==
    /\ allocated \subseteq Node
    /\ value \in [Node -> Int]
    /\ next \in [Node -> Pointer] /\ previous \in [Node -> Pointer]
    /\ live \subseteq ListId
    /\ head \in [ListId -> Pointer] /\ tail \in [ListId -> Pointer]

\* A node is in one list and at one place.
Apart(sq) ==
    \A l, k \in ListId : \A i \in 1..Len(sq[l]), j \in 1..Len(sq[k]) :
        sq[l][i] = sq[k][j] => l = k /\ i = j

Among(sq, n) == \E l \in ListId : \E i \in 1..Len(sq[l]) : sq[l][i] = n

Ends(sq) ==
    \A l \in ListId : head[l] = Nth(sq[l], 1) /\ tail[l] = Nth(sq[l], Len(sq[l]))

Links(sq) ==
    \A l \in ListId : \A i \in 1..Len(sq[l]) :
        /\ sq[l][i] \in allocated
        /\ next[sq[l][i]] = Nth(sq[l], i + 1)
        /\ previous[sq[l][i]] = Nth(sq[l], i - 1)

Loose(sq) ==
    \A n \in Node : ~Among(sq, n) => next[n] = NULL /\ previous[n] = NULL

\* Each handle l stands for the list of the nodes sq[l].
Lists(sq) ==
    /\ ListTypeOK
    /\ sq \in [ListId -> Seq(Node)]
    /\ \A l \in ListId : l \notin live => sq[l] = <<>>
    /\ Apart(sq) /\ Ends(sq) /\ Links(sq) /\ Loose(sq)

\* Then the walks are the lists.
LEMMA Walks ==
  ASSUME NEW sq, Lists(sq), NEW l \in ListId
  PROVE  Walk(l) = sq[l]
<1>1. /\ sq[l] \in Seq(Node)
      /\ \A j, k \in 1..Len(sq[l]) : sq[l][j] = sq[l][k] => j = k
      /\ head[l] = Nth(sq[l], 1)
      /\ \A k \in 1..Len(sq[l]) : next[sq[l][k]] = Nth(sq[l], k + 1)
  BY DEF Lists, Apart, Ends, Links
<1> QED
  BY <1>1, WalkMeets, WalkIsAlong

LEMMA WalksNext ==
  ASSUME NEW sq, Lists(sq)', NEW l \in ListId
  PROVE  Walk(l)' = sq[l]
<1>1. /\ sq[l] \in Seq(Node)
      /\ \A j, k \in 1..Len(sq[l]) : sq[l][j] = sq[l][k] => j = k
      /\ head'[l] = Nth(sq[l], 1)
      /\ \A k \in 1..Len(sq[l]) : next'[sq[l][k]] = Nth(sq[l], k + 1)
  BY DEF Lists, Apart, Ends, Links
<1> QED
  BY <1>1, WalkMeets, WalkIsAlongNext

LEMMA InOf ==
  ASSUME NEW sq, Lists(sq), NEW l \in ListId, NEW n
  PROVE  /\ In(l, n) <=> \E i \in 1..Len(sq[l]) : sq[l][i] = n
         /\ n \in ToSet(Walk(l)) <=> \E i \in 1..Len(sq[l]) : sq[l][i] = n
<1>1. Walk(l) = sq[l] /\ sq[l] \in Seq(Node)
  BY Walks DEF Lists
<1> QED
  BY <1>1 DEF In, Contains, ToSet

LEMMA AttachedOf ==
  ASSUME NEW sq, Lists(sq), NEW n \in Node
  PROVE  n \in Attached <=> Among(sq, n)
<1>1. \A l \in ListId : In(l, n) <=> \E i \in 1..Len(sq[l]) : sq[l][i] = n
  BY InOf
<1>2. \A l \in ListId : l \notin live => sq[l] = <<>>
  BY DEF Lists
<1>3. live \subseteq ListId
  BY DEF Lists, ListTypeOK
<1> QED
  BY <1>1, <1>2, <1>3 DEF Attached, Among

\* What the pointers of list.c are to each other, of any lists.
LEMMA WellLinkedOf ==
  ASSUME NEW sq, Lists(sq)
  PROVE  WellLinked
<1>0. /\ live \subseteq ListId /\ allocated \subseteq Node
      /\ \A l \in ListId : sq[l] \in Seq(Node) /\ Walk(l) = sq[l]
  BY Walks DEF Lists, ListTypeOK
<1>1. ASSUME NEW l \in live, NEW s, s = Walk(l)
      PROVE  /\ IsInjective(s)
             /\ ToSet(s) \subseteq allocated
             /\ Mirrored(s)
             /\ tail[l] = IF s = <<>> THEN NULL ELSE s[Len(s)]
             /\ s # <<>> => next[tail[l]] = NULL
  <2>1. l \in ListId /\ s = sq[l] /\ s \in Seq(Node) /\ Len(s) \in Nat
    BY <1>0, <1>1
  <2>2. IsInjective(s)
    BY <2>1 DEF Lists, Apart, IsInjective
  <2>3. ToSet(s) \subseteq allocated
    BY <2>1 DEF Lists, Links, ToSet
  <2>4. Mirrored(s)
    BY <2>1 DEF Lists, Links, Mirrored, Nth
  <2>5. tail[l] = IF s = <<>> THEN NULL ELSE s[Len(s)]
    BY <2>1 DEF Lists, Ends, Nth
  <2>6. s # <<>> => next[tail[l]] = NULL
    <3> SUFFICES ASSUME s # <<>> PROVE next[tail[l]] = NULL
      OBVIOUS
    <3>1. Len(s) \in 1..Len(s) /\ Len(s) + 1 \notin 1..Len(s)
      BY <2>1
    <3>2. next[s[Len(s)]] = Nth(s, Len(s) + 1)
      BY <2>1, <3>1 DEF Lists, Links
    <3> QED
      BY <2>5, <3>1, <3>2 DEF Nth
  <2> QED
    BY <2>2, <2>3, <2>4, <2>5, <2>6
<1>2. \A l, k \in live : l # k => ToSet(Walk(l)) \cap ToSet(Walk(k)) = {}
  BY <1>0 DEF Lists, Apart, ToSet
<1>3. \A n \in allocated \ Attached : next[n] = NULL /\ previous[n] = NULL
  BY <1>0, AttachedOf DEF Lists, Loose
<1> QED
  BY <1>1, <1>2, <1>3 DEF WellLinked

-----------------------------------------------------------------------------
(* How a call changes the lists *)

\* n inserted behind the p-th element of s, and the p-th element removed.
Ins(s, p, n) ==
    [k \in 1..(Len(s) + 1) |-> IF k <= p THEN s[k] ELSE IF k = p + 1 THEN n ELSE s[k - 1]]
Rem(s, p) == [k \in 1..(Len(s) - 1) |-> IF k < p THEN s[k] ELSE s[k + 1]]

LEMMA InsIs ==
  ASSUME NEW s \in Seq(Node), NEW p \in 0..Len(s), NEW n \in Node
  PROVE  /\ Ins(s, p, n) \in Seq(Node)
         /\ Len(Ins(s, p, n)) = Len(s) + 1
         /\ \A k \in 1..(Len(s) + 1) :
               Ins(s, p, n)[k] = IF k <= p THEN s[k] ELSE IF k = p + 1 THEN n ELSE s[k - 1]
         /\ \A k \in Int :
               Nth(Ins(s, p, n), k) = IF k <= p THEN Nth(s, k)
                                      ELSE IF k = p + 1 THEN n ELSE Nth(s, k - 1)
<1> DEFINE t == Ins(s, p, n)
<1>1. Len(s) \in Nat /\ p \in Nat /\ p <= Len(s)
  OBVIOUS
<1>2. ASSUME NEW k \in 1..(Len(s) + 1)
      PROVE  (IF k <= p THEN s[k] ELSE IF k = p + 1 THEN n ELSE s[k - 1]) \in Node
  BY <1>1
<1>3. t \in [1..(Len(s) + 1) -> Node]
  BY <1>1, <1>2 DEF Ins
<1>4. t \in Seq(Node) /\ Len(t) = Len(s) + 1
  BY <1>1, <1>3
<1>5. \A k \in 1..(Len(s) + 1) :
         t[k] = IF k <= p THEN s[k] ELSE IF k = p + 1 THEN n ELSE s[k - 1]
  BY DEF Ins
<1> HIDE DEF t
<1>6. ASSUME NEW k \in Int
      PROVE  Nth(t, k) = IF k <= p THEN Nth(s, k)
                         ELSE IF k = p + 1 THEN n ELSE Nth(s, k - 1)
  BY <1>1, <1>4, <1>5 DEF Nth
<1> QED
  BY <1>4, <1>5, <1>6 DEF t

LEMMA RemIs ==
  ASSUME NEW s \in Seq(Node), NEW p \in 1..Len(s)
  PROVE  /\ Rem(s, p) \in Seq(Node)
         /\ Len(Rem(s, p)) = Len(s) - 1
         /\ \A k \in 1..(Len(s) - 1) : Rem(s, p)[k] = IF k < p THEN s[k] ELSE s[k + 1]
         /\ \A k \in Int :
               Nth(Rem(s, p), k) = IF k < p THEN Nth(s, k)
                                   ELSE IF k = 0 THEN NULL ELSE Nth(s, k + 1)
<1> DEFINE t == Rem(s, p)
<1>1. Len(s) \in Nat /\ p \in Nat /\ p <= Len(s) /\ 1 <= p /\ Len(s) - 1 \in Nat
  OBVIOUS
<1>2. \A k \in 1..(Len(s) - 1) : (IF k < p THEN s[k] ELSE s[k + 1]) \in Node
  BY <1>1
<1>3. t \in [1..(Len(s) - 1) -> Node]
  BY <1>1, <1>2 DEF Rem
<1>4. t \in Seq(Node) /\ Len(t) = Len(s) - 1
  BY <1>1, <1>3
<1>5. \A k \in 1..(Len(s) - 1) : t[k] = IF k < p THEN s[k] ELSE s[k + 1]
  BY DEF Rem
<1> HIDE DEF t
<1>6. ASSUME NEW k \in Int
      PROVE  Nth(t, k) = IF k < p THEN Nth(s, k)
                         ELSE IF k = 0 THEN NULL ELSE Nth(s, k + 1)
  BY <1>1, <1>4, <1>5 DEF Nth
<1> QED
  BY <1>4, <1>5, <1>6 DEF t

\* A loose node is inserted behind the p-th of a list.
Inserts(sq, l, p, n) ==
    /\ next' = [m \in Node |-> IF m = n THEN Nth(sq[l], p + 1)
                               ELSE IF m = Nth(sq[l], p) THEN n ELSE next[m]]
    /\ previous' = [m \in Node |-> IF m = n THEN Nth(sq[l], p)
                                   ELSE IF m = Nth(sq[l], p + 1) THEN n ELSE previous[m]]
    /\ head' = [k \in ListId |-> IF k = l /\ p = 0 THEN n ELSE head[k]]
    /\ tail' = [k \in ListId |-> IF k = l /\ p = Len(sq[l]) THEN n ELSE tail[k]]
    /\ UNCHANGED <<allocated, value, live>>

LEMMA Inserted ==
  ASSUME NEW sq, Lists(sq), NEW l \in live, NEW n \in allocated, ~Among(sq, n),
         NEW p \in 0..Len(sq[l]), Inserts(sq, l, p, n)
  PROVE  Lists([sq EXCEPT ![l] = Ins(sq[l], p, n)])'
<1> DEFINE s == sq[l]
           t == Ins(s, p, n)
           tq == [sq EXCEPT ![l] = t]
<1>1. /\ l \in ListId /\ n \in Node /\ s \in Seq(Node) /\ NULL \notin Node
      /\ Len(s) \in Nat /\ p \in Nat /\ p <= Len(s)
      /\ sq \in [ListId -> Seq(Node)]
  <2>1. /\ l \in ListId /\ n \in Node /\ NULL \notin Node
        /\ sq \in [ListId -> Seq(Node)]
    BY ListAssumption DEF Lists, ListTypeOK
  <2>2. s \in Seq(Node)
    BY <2>1
  <2> HIDE DEF s
  <2>3. Len(s) \in Nat
    BY <2>2
  <2> QED
    BY <2>1, <2>2, <2>3 DEF s
<1>2. /\ t \in Seq(Node) /\ Len(t) = Len(s) + 1
      /\ \A k \in 1..(Len(s) + 1) :
            t[k] = IF k <= p THEN s[k] ELSE IF k = p + 1 THEN n ELSE s[k - 1]
      /\ \A k \in Int : Nth(t, k) = IF k <= p THEN Nth(s, k)
                                    ELSE IF k = p + 1 THEN n ELSE Nth(s, k - 1)
  <2>1. s \in Seq(Node) /\ p \in 0..Len(s) /\ n \in Node
    BY <1>1
  <2> HIDE DEF s
  <2>2. t = Ins(s, p, n)
    OBVIOUS
  <2>3. Ins(s, p, n) \in Seq(Node) /\ Len(Ins(s, p, n)) = Len(s) + 1
    BY <2>1, InsIs
  <2>4. \A k \in 1..(Len(s) + 1) :
            Ins(s, p, n)[k] = IF k <= p THEN s[k] ELSE IF k = p + 1 THEN n ELSE s[k - 1]
    BY <2>1, InsIs
  <2>5. \A k \in Int : Nth(Ins(s, p, n), k) = IF k <= p THEN Nth(s, k)
                                    ELSE IF k = p + 1 THEN n ELSE Nth(s, k - 1)
    BY <2>1, InsIs
  <2> HIDE DEF t
  <2> QED
    BY <2>3, <2>4, <2>5, <2>2
<1>3. /\ tq \in [ListId -> Seq(Node)] /\ tq[l] = t
      /\ \A k \in ListId : k # l => tq[k] = sq[k]
  BY <1>1, <1>2
<1>4. \A k \in Int : Nth(s, k) \in Pointer
  BY <1>1 DEF Nth, Pointer
<1> HIDE DEF t, tq, s
<1>5. ListTypeOK'
  <2>1. Nth(s, p) \in Pointer /\ Nth(s, p + 1) \in Pointer /\ n \in Pointer
    BY <1>1, <1>4 DEF Pointer
  <2> QED
    BY <2>1 DEF Lists, ListTypeOK, Inserts, s
<1>6. \A k \in ListId : k \notin live' => tq[k] = <<>>
  BY <1>3 DEF Lists, Inserts
<1>7. \A k \in ListId : \A i \in 1..Len(sq[k]) : sq[k][i] # n
  BY DEF Among
<1>8. Apart(tq)
  <2> SUFFICES ASSUME NEW a \in ListId, NEW b \in ListId,
                      NEW i \in 1..Len(tq[a]), NEW j \in 1..Len(tq[b]),
                      tq[a][i] = tq[b][j]
               PROVE  a = b /\ i = j
    BY DEF Apart
  <2>1. CASE a # l /\ b # l
    BY <1>3, <2>1 DEF Lists, Apart
  <2>2. \A k \in ListId : k # l =>
           \A x \in 1..Len(t), y \in 1..Len(sq[k]) : t[x] # sq[k][y]
    <3> SUFFICES ASSUME NEW k \in ListId, k # l, NEW x \in 1..Len(t),
                        NEW y \in 1..Len(sq[k])
                 PROVE  t[x] # sq[k][y]
      OBVIOUS
    <3>1. t[x] = n \/ \E z \in 1..Len(s) : t[x] = s[z]
      BY <1>1, <1>2
    <3>2. \A z \in 1..Len(s) : s[z] # sq[k][y]
      BY <1>1 DEF Lists, Apart, s
    <3> QED
      BY <1>7, <3>1, <3>2
  <2>3. \A x, y \in 1..Len(t) : t[x] = t[y] => x = y
    <3>1. \A x, y \in 1..Len(s) : s[x] = s[y] => x = y
      BY <1>1 DEF Lists, Apart, s
    <3>2. \A x \in 1..Len(s) : s[x] # n
      BY <1>1, <1>7 DEF s
    <3> SUFFICES ASSUME NEW x \in 1..Len(t), NEW y \in 1..Len(t), t[x] = t[y]
                 PROVE  x = y
      OBVIOUS
    <3>3. ASSUME NEW z \in 1..Len(t)
          PROVE  \/ z = p + 1 /\ t[z] = n
                 \/ z <= p /\ z \in 1..Len(s) /\ t[z] = s[z]
                 \/ z > p + 1 /\ z - 1 \in 1..Len(s) /\ t[z] = s[z - 1]
      BY <1>1, <1>2
    <3>4. x - 1 = y - 1 => x = y
      BY <1>1, <1>2
    <3>5. CASE x = p + 1 \/ y = p + 1
      <4>1. t[p + 1] = n /\ t[x] = n /\ t[y] = n
        BY <1>1, <1>2, <3>5
      <4>2. \A z \in 1..Len(t) : t[z] = n => z = p + 1
        BY <1>1, <3>2, <3>3
      <4> QED
        BY <4>1, <4>2
    <3>6. CASE x # p + 1 /\ y # p + 1
      <4>1. PICK d \in 1..Len(s) : t[x] = s[d]
                                     /\ \/ x <= p /\ d = x
                                        \/ x > p + 1 /\ d = x - 1
        BY <1>1, <3>3, <3>6
      <4>2. PICK e \in 1..Len(s) : t[y] = s[e]
                                     /\ \/ y <= p /\ e = y
                                        \/ y > p + 1 /\ e = y - 1
        BY <1>1, <3>3, <3>6
      <4>3. d = e
        BY <3>1, <4>1, <4>2
      <4>4. x \in Int /\ y \in Int /\ p \in Int
        BY <1>1, <1>2
      <4> QED
        BY <4>1, <4>2, <4>3, <4>4
    <3> QED
      BY <3>5, <3>6
  <2> QED
    BY <1>3, <2>1, <2>2, <2>3
<1>9. Ends(tq)'
  <2> SUFFICES ASSUME NEW k \in ListId
               PROVE  head'[k] = Nth(tq[k], 1) /\ tail'[k] = Nth(tq[k], Len(tq[k]))
    BY DEF Ends
  <2>1. head[k] = Nth(sq[k], 1) /\ tail[k] = Nth(sq[k], Len(sq[k]))
    BY DEF Lists, Ends
  <2>2. /\ head'[k] = IF k = l /\ p = 0 THEN n ELSE head[k]
        /\ tail'[k] = IF k = l /\ p = Len(s) THEN n ELSE tail[k]
    BY DEF Inserts, s
  <2>3. CASE k = l
    BY <1>1, <1>2, <1>3, <2>1, <2>2, <2>3 DEF s
  <2>4. CASE k # l
    BY <1>3, <2>1, <2>2, <2>4
  <2> QED
    BY <2>3, <2>4
<1>10. /\ \A m \in Node : next'[m] = IF m = n THEN Nth(s, p + 1)
                                     ELSE IF m = Nth(s, p) THEN n ELSE next[m]
       /\ \A m \in Node : previous'[m] = IF m = n THEN Nth(s, p)
                                         ELSE IF m = Nth(s, p + 1) THEN n ELSE previous[m]
       /\ allocated' = allocated
  BY DEF Inserts, s
<1>11. Links(tq)'
  <2> SUFFICES ASSUME NEW k \in ListId, NEW i \in 1..Len(tq[k])
               PROVE  /\ tq[k][i] \in allocated
                      /\ next'[tq[k][i]] = Nth(tq[k], i + 1)
                      /\ previous'[tq[k][i]] = Nth(tq[k], i - 1)
    BY <1>10 DEF Links
  <2>0. \A a \in ListId : \A j \in 1..Len(sq[a]) :
           /\ sq[a][j] \in allocated /\ sq[a][j] \in Node /\ sq[a][j] # n
           /\ next[sq[a][j]] = Nth(sq[a], j + 1)
           /\ previous[sq[a][j]] = Nth(sq[a], j - 1)
    BY <1>1, <1>7 DEF Lists, Links
  <2>1. CASE k # l
    <3>1. /\ tq[k][i] = sq[k][i] /\ i \in 1..Len(sq[k])
          /\ \A j \in 1..Len(s) : sq[k][i] # s[j]
      BY <1>1, <1>3, <2>1 DEF Lists, Apart, s
    <3>2. sq[k][i] # Nth(s, p) /\ sq[k][i] # Nth(s, p + 1)
      BY <1>1, <2>0, <3>1 DEF Nth
    <3>3. PICK e : e = sq[k][i]
      OBVIOUS
    <3>4. /\ e \in allocated /\ e \in Node /\ e # n /\ e # Nth(s, p) /\ e # Nth(s, p + 1)
          /\ next[e] = Nth(sq[k], i + 1) /\ previous[e] = Nth(sq[k], i - 1)
      BY <2>0, <3>1, <3>2, <3>3
    <3>5. next'[e] = next[e] /\ previous'[e] = previous[e] /\ e \in allocated'
      BY <1>10, <3>4
    <3>6. tq[k] = sq[k]
      BY <1>3, <2>1
    <3> QED
      BY <3>1, <3>3, <3>4, <3>5, <3>6
  <2>2. CASE k = l /\ i = p + 1
    <3>1. tq[k][i] = n /\ tq[k] = t
      BY <1>1, <1>2, <1>3, <2>2
    <3>2. Nth(t, i + 1) = Nth(s, p + 1) /\ Nth(t, i - 1) = Nth(s, p)
      BY <1>1, <1>2, <2>2
    <3> QED
      BY <1>1, <1>10, <3>1, <3>2
  <2>3. CASE k = l /\ i # p + 1
    <3>1. PICK j \in 1..Len(s) : t[i] = s[j] /\ j = IF i <= p THEN i ELSE i - 1
      BY <1>1, <1>2, <1>3, <2>3
    <3>2. /\ s[j] \in allocated /\ s[j] \in Node /\ s[j] # n
          /\ next[s[j]] = Nth(s, j + 1) /\ previous[s[j]] = Nth(s, j - 1)
      BY <1>1, <2>0 DEF s
    <3>3. /\ s[j] = Nth(s, p) <=> j = p
          /\ s[j] = Nth(s, p + 1) <=> j = p + 1
      <4>1. \A x, y \in 1..Len(s) : s[x] = s[y] => x = y
        BY <1>1 DEF Lists, Apart, s
      <4> QED
        BY <1>1, <3>2, <4>1 DEF Nth
    <3>4. /\ next'[s[j]] = IF j = p THEN n ELSE Nth(s, j + 1)
          /\ previous'[s[j]] = IF j = p + 1 THEN n ELSE Nth(s, j - 1)
      BY <1>10, <3>2, <3>3
    <3>5. /\ Nth(t, i + 1) = IF j = p THEN n ELSE Nth(s, j + 1)
          /\ Nth(t, i - 1) = IF j = p + 1 THEN n ELSE Nth(s, j - 1)
      BY <1>1, <1>2, <1>3, <2>3, <3>1
    <3> QED
      BY <1>3, <2>3, <3>1, <3>2, <3>4, <3>5
  <2> QED
    BY <2>1, <2>2, <2>3
<1>12. Loose(tq)'
  <2> SUFFICES ASSUME NEW m \in Node, ~Among(tq, m)
               PROVE  next'[m] = NULL /\ previous'[m] = NULL
    BY DEF Loose
  <2>1. m # n
    <3>1. p + 1 \in 1..Len(t) /\ t[p + 1] = n
      BY <1>1, <1>2
    <3> QED
      BY <1>1, <1>3, <3>1 DEF Among
  <2>2. ~Among(sq, m)
    <3> SUFFICES ASSUME NEW k \in ListId, NEW i \in 1..Len(sq[k]), sq[k][i] = m
                 PROVE  FALSE
      BY DEF Among
    <3>1. CASE k # l
      BY <1>3, <3>1 DEF Among
    <3>2. CASE k = l
      <4>1. \E j \in 1..Len(t) : t[j] = m
        <5>1. CASE i <= p
          BY <1>1, <1>2, <3>2, <5>1 DEF s
        <5>2. CASE ~(i <= p)
          <6>1. i + 1 \in 1..Len(t) /\ ~(i + 1 <= p) /\ i + 1 # p + 1 /\ (i + 1) - 1 = i
            BY <1>1, <1>2, <3>2, <5>2 DEF s
          <6> QED
            BY <1>2, <3>2, <6>1 DEF s
        <5> QED
          BY <5>1, <5>2
      <4> QED
        BY <1>1, <1>3, <4>1 DEF Among
    <3> QED
      BY <3>1, <3>2
  <2>3. m # Nth(s, p) /\ m # Nth(s, p + 1)
    BY <1>1, <2>2 DEF Among, Nth, s
  <2>4. next[m] = NULL /\ previous[m] = NULL
    BY <2>2 DEF Lists, Loose
  <2> QED
    BY <1>10, <2>1, <2>3, <2>4
<1> QED
  BY <1>3, <1>5, <1>6, <1>8, <1>9, <1>11, <1>12 DEF Lists, Apart, tq, t, s

\* The p-th node of a list is taken out and is loose.
Removes(sq, l, p) ==
    /\ next' = [m \in Node |-> IF m = sq[l][p] THEN NULL
                               ELSE IF m = Nth(sq[l], p - 1) THEN Nth(sq[l], p + 1)
                               ELSE next[m]]
    /\ previous' = [m \in Node |-> IF m = sq[l][p] THEN NULL
                                   ELSE IF m = Nth(sq[l], p + 1) THEN Nth(sq[l], p - 1)
                                   ELSE previous[m]]
    /\ head' = [k \in ListId |-> IF k = l /\ p = 1 THEN Nth(sq[l], p + 1) ELSE head[k]]
    /\ tail' = [k \in ListId |->
                  IF k = l /\ p = Len(sq[l]) THEN Nth(sq[l], p - 1) ELSE tail[k]]
    /\ UNCHANGED <<allocated, value, live>>

LEMMA Removed ==
  ASSUME NEW sq, Lists(sq), NEW l \in ListId, NEW p \in 1..Len(sq[l]), Removes(sq, l, p)
  PROVE  Lists([sq EXCEPT ![l] = Rem(sq[l], p)])'
<1> DEFINE s == sq[l]
           n == s[p]
           t == Rem(s, p)
           tq == [sq EXCEPT ![l] = t]
<1>0. sq \in [ListId -> Seq(Node)] /\ s \in Seq(Node)
  BY DEF Lists
<1>1. PICK m \in Nat : m = Len(s) /\ p \in 1..m /\ n \in Node /\ NULL \notin Node
  <2>1. s \in Seq(Node) /\ p \in 1..Len(s) /\ NULL \notin Node
    BY <1>0, ListAssumption
  <2> HIDE DEF s
  <2>2. Len(s) \in Nat
    BY <2>1
  <2> QED
    BY <2>1, <2>2
<1>2. /\ Len(t) = m - 1
      /\ \A k \in 1..(m - 1) : t[k] = IF k < p THEN s[k] ELSE s[k + 1]
  <2> HIDE DEF s
  <2> QED
    BY <1>0, <1>1, RemIs
<1>15. \A k \in Int : Nth(t, k) = IF k < p THEN Nth(s, k)
                                  ELSE IF k = 0 THEN NULL ELSE Nth(s, k + 1)
  <2> HIDE DEF s
  <2> QED
    BY <1>0, <1>1, RemIs
<1>3. /\ tq \in [ListId -> Seq(Node)] /\ tq[l] = t
      /\ \A k \in ListId : k # l => tq[k] = sq[k]
  <2>1. t \in Seq(Node)
    BY <1>0, <1>1, RemIs
  <2> HIDE DEF t
  <2> QED
    BY <1>0, <2>1
<1>4. \A k \in Int : Nth(s, k) \in Pointer
  BY <1>0 DEF Nth, Pointer
<1>5. /\ \A x \in Node : next'[x] = IF x = n THEN NULL
                                    ELSE IF x = Nth(s, p - 1) THEN Nth(s, p + 1) ELSE next[x]
      /\ \A x \in Node : previous'[x] = IF x = n THEN NULL
                              ELSE IF x = Nth(s, p + 1) THEN Nth(s, p - 1) ELSE previous[x]
      /\ \A k \in ListId : head'[k] = IF k = l /\ p = 1 THEN Nth(s, p + 1) ELSE head[k]
      /\ \A k \in ListId :
            tail'[k] = IF k = l /\ p = m THEN Nth(s, p - 1) ELSE tail[k]
      /\ allocated' = allocated /\ live' = live
  BY <1>1 DEF Removes
<1> HIDE DEF t, tq, s
<1>6. ListTypeOK'
  <2>1. Nth(s, p - 1) \in Pointer /\ Nth(s, p + 1) \in Pointer /\ NULL \in Pointer
    BY <1>1, <1>4 DEF Pointer
  <2> QED
    BY <2>1 DEF Lists, ListTypeOK, Removes, s
<1>7. \A k \in ListId : k \notin live' => tq[k] = <<>>
  <2>1. l \in live
    <3>1. s # <<>>
      BY <1>1
    <3> QED
      BY <3>1 DEF Lists, s
  <2> QED
    BY <1>3, <1>5, <2>1 DEF Lists
<1>8. \A k \in ListId : \A i \in 1..Len(sq[k]) :
         /\ sq[k][i] \in allocated /\ sq[k][i] \in Node
         /\ next[sq[k][i]] = Nth(sq[k], i + 1)
         /\ previous[sq[k][i]] = Nth(sq[k], i - 1)
         /\ k # l => \A j \in 1..m : sq[k][i] # s[j]
  BY <1>1 DEF Lists, Links, Apart, s
<1>9. \A x, y \in 1..m : s[x] = s[y] => x = y
  BY <1>1 DEF Lists, Apart, s
<1>10. ASSUME NEW x \in 1..Len(t)
       PROVE  \E a \in 1..m : t[x] = s[a] /\ a # p /\ a = IF x < p THEN x ELSE x + 1
  <2>1. x \in 1..(m - 1) /\ x \in Int
    BY <1>1, <1>2
  <2>2. CASE x < p
    <3>1. x \in 1..m /\ t[x] = s[x] /\ x # p
      BY <1>1, <1>2, <2>1, <2>2
    <3> QED
      BY <2>2, <3>1
  <2>3. CASE ~(x < p)
    <3>1. x + 1 \in 1..m /\ t[x] = s[x + 1] /\ x + 1 # p
      BY <1>1, <1>2, <2>1, <2>3
    <3> QED
      BY <2>3, <3>1
  <2> QED
    BY <2>2, <2>3
<1>11. Apart(tq)
  <2> SUFFICES ASSUME NEW a \in ListId, NEW b \in ListId,
                      NEW i \in 1..Len(tq[a]), NEW j \in 1..Len(tq[b]),
                      tq[a][i] = tq[b][j]
               PROVE  a = b /\ i = j
    BY DEF Apart
  <2>1. CASE a # l /\ b # l
    BY <1>3, <2>1 DEF Lists, Apart
  <2>2. CASE a = l /\ b # l
    <3>1. PICK x \in 1..m : t[i] = s[x]
      BY <1>3, <1>10, <2>2
    <3>2. j \in 1..Len(sq[b]) /\ tq[b][j] = sq[b][j] /\ tq[a][i] = t[i]
      BY <1>3, <2>2
    <3>3. sq[b][j] # s[x]
      BY <1>8, <2>2, <3>2
    <3> QED
      BY <3>1, <3>2, <3>3
  <2>3. CASE a # l /\ b = l
    <3>1. PICK x \in 1..m : t[j] = s[x]
      BY <1>3, <1>10, <2>3
    <3> QED
      BY <1>3, <1>8, <2>3, <3>1
  <2>4. CASE a = l /\ b = l
    <3>1. PICK x \in 1..m : t[i] = s[x] /\ x = IF i < p THEN i ELSE i + 1
      BY <1>3, <1>10, <2>4
    <3>2. PICK y \in 1..m : t[j] = s[y] /\ y = IF j < p THEN j ELSE j + 1
      BY <1>3, <1>10, <2>4
    <3>3. x = y
      BY <1>3, <1>9, <2>4, <3>1, <3>2
    <3>4. i \in Int /\ j \in Int
      BY <1>2, <1>3, <2>4
    <3> QED
      BY <1>1, <2>4, <3>1, <3>2, <3>3, <3>4
  <2> QED
    BY <2>1, <2>2, <2>3, <2>4
<1>12. Ends(tq)'
  <2> SUFFICES ASSUME NEW k \in ListId
               PROVE  head'[k] = Nth(tq[k], 1) /\ tail'[k] = Nth(tq[k], Len(tq[k]))
    BY DEF Ends
  <2>1. head[k] = Nth(sq[k], 1) /\ tail[k] = Nth(sq[k], Len(sq[k]))
    BY DEF Lists, Ends
  <2>2. CASE k = l
    <3>1. /\ head'[l] = IF p = 1 THEN Nth(s, p + 1) ELSE Nth(s, 1)
          /\ tail'[l] = IF p = m THEN Nth(s, p - 1) ELSE Nth(s, m)
      BY <1>1, <1>5, <2>1, <2>2 DEF s
    <3>2. Nth(t, 1) = IF p = 1 THEN Nth(s, p + 1) ELSE Nth(s, 1)
      <4>1. Nth(t, 1) = IF 1 < p THEN Nth(s, 1) ELSE IF 1 = 0 THEN NULL ELSE Nth(s, 1 + 1)
        BY <1>15
      <4>2. p # 1 => 1 < p
        BY <1>1
      <4> QED
        BY <4>1, <4>2
    <3>3. Nth(t, m - 1) = IF p = m THEN Nth(s, p - 1) ELSE Nth(s, m)
      <4>1. m - 1 \in Int /\ (m - 1) + 1 = m
            /\ (m - 1 < p <=> p = m) /\ (m - 1 = 0 => p = m)
        BY <1>1
      <4>2. Nth(t, m - 1) = IF m - 1 < p THEN Nth(s, m - 1)
                                 ELSE IF m - 1 = 0 THEN NULL
                                 ELSE Nth(s, (m - 1) + 1)
        BY <1>15, <4>1
      <4> QED
        BY <4>1, <4>2
    <3> QED
      BY <1>2, <1>3, <2>2, <3>1, <3>2, <3>3
  <2>3. CASE k # l
    BY <1>3, <1>5, <2>1, <2>3
  <2> QED
    BY <2>2, <2>3
<1>13. Links(tq)'
  <2> SUFFICES ASSUME NEW k \in ListId, NEW i \in 1..Len(tq[k])
               PROVE  /\ tq[k][i] \in allocated
                      /\ next'[tq[k][i]] = Nth(tq[k], i + 1)
                      /\ previous'[tq[k][i]] = Nth(tq[k], i - 1)
    BY <1>5 DEF Links
  <2>1. CASE k # l
    <3>1. tq[k][i] = sq[k][i] /\ i \in 1..Len(sq[k])
      BY <1>3, <2>1
    <3>2. sq[k][i] # n /\ sq[k][i] # Nth(s, p - 1) /\ sq[k][i] # Nth(s, p + 1)
      BY <1>1, <1>8, <2>1, <3>1 DEF Nth, n
    <3>3. sq[k][i] \in Node
      BY <1>8, <3>1
    <3>4. next'[sq[k][i]] = next[sq[k][i]] /\ previous'[sq[k][i]] = previous[sq[k][i]]
      BY <1>5, <3>2, <3>3
    <3>5. tq[k] = sq[k]
      BY <1>3, <2>1
    <3> QED
      BY <1>8, <3>1, <3>4, <3>5
  <2>2. CASE k = l
    <3>1. PICK j \in 1..m : t[i] = s[j] /\ j # p /\ j = IF i < p THEN i ELSE i + 1
      BY <1>3, <1>10, <2>2
    <3>2. /\ s[j] \in allocated /\ s[j] \in Node
          /\ next[s[j]] = Nth(s, j + 1) /\ previous[s[j]] = Nth(s, j - 1)
      BY <1>1, <1>8 DEF s
    <3>3. /\ s[j] # n
          /\ s[j] = Nth(s, p - 1) <=> j = p - 1
          /\ s[j] = Nth(s, p + 1) <=> j = p + 1
      BY <1>1, <1>9, <3>1, <3>2 DEF Nth, n
    <3>4. /\ next'[s[j]] = IF j = p - 1 THEN Nth(s, p + 1) ELSE Nth(s, j + 1)
          /\ previous'[s[j]] = IF j = p + 1 THEN Nth(s, p - 1) ELSE Nth(s, j - 1)
      BY <1>5, <3>2, <3>3
    <3>5. i \in Int /\ i + 1 \in Int /\ i - 1 \in Int /\ i >= 1
      BY <1>2, <1>3, <2>2
    <3>6. /\ Nth(t, i + 1) = IF j = p - 1 THEN Nth(s, p + 1) ELSE Nth(s, j + 1)
          /\ Nth(t, i - 1) = IF j = p + 1 THEN Nth(s, p - 1) ELSE Nth(s, j - 1)
      <4>1. Nth(s, 0) = NULL
        BY <1>1 DEF Nth
      <4>2. /\ Nth(t, i + 1) = IF i + 1 < p THEN Nth(s, i + 1) ELSE Nth(s, (i + 1) + 1)
            /\ Nth(t, i - 1) = IF i - 1 < p THEN Nth(s, i - 1)
                               ELSE IF i - 1 = 0 THEN NULL ELSE Nth(s, (i - 1) + 1)
        <5>1. Nth(t, i + 1) = IF i + 1 < p THEN Nth(s, i + 1)
                              ELSE IF i + 1 = 0 THEN NULL ELSE Nth(s, (i + 1) + 1)
          BY <1>15, <3>5
        <5>2. Nth(t, i - 1) = IF i - 1 < p THEN Nth(s, i - 1)
                              ELSE IF i - 1 = 0 THEN NULL ELSE Nth(s, (i - 1) + 1)
          BY <1>15, <3>5
        <5>3. i + 1 # 0
          BY <3>5
        <5> QED
          BY <5>1, <5>2, <5>3
      <4>3. (i - 1) + 1 = i /\ (i + 1) + 1 = i + 2 /\ p \in Int /\ j \in Int
        BY <1>1, <3>5
      <4>4. CASE i < p
        <5>1. j = i /\ (i + 1 < p <=> j # p - 1) /\ i - 1 < p /\ j # p + 1
          BY <1>1, <3>1, <3>5, <4>4
        <5>2. j = p - 1 => i + 2 = p + 1
          BY <4>3, <5>1
        <5> QED
          BY <4>2, <4>3, <5>1, <5>2
      <4>5. CASE ~(i < p)
        <5>1. j = i + 1 /\ ~(i + 1 < p) /\ j # p - 1 /\ (i - 1 < p <=> j = p + 1) /\ j - 1 = i
          BY <1>1, <3>1, <3>5, <4>5
        <5>2. j = p + 1 => i - 1 = p - 1
          BY <4>3, <5>1
        <5>3. i - 1 = 0 => i - 1 < p
          BY <1>1
        <5>4. i + 2 = j + 1
          BY <3>5, <5>1
        <5> QED
          BY <4>2, <4>3, <5>1, <5>2, <5>3, <5>4
      <4> QED
        BY <4>4, <4>5
    <3> QED
      BY <1>3, <2>2, <3>1, <3>2, <3>4, <3>6
  <2> QED
    BY <2>1, <2>2
<1>14. Loose(tq)'
  <2> SUFFICES ASSUME NEW x \in Node, ~Among(tq, x)
               PROVE  next'[x] = NULL /\ previous'[x] = NULL
    BY DEF Loose
  <2>1. CASE x = n
    BY <1>5, <2>1
  <2>2. CASE x # n
    <3>1. ~Among(sq, x)
      <4> SUFFICES ASSUME NEW k \in ListId, NEW i \in 1..Len(sq[k]), sq[k][i] = x
                   PROVE  FALSE
        BY DEF Among
      <4>1. CASE k # l
        BY <1>3, <4>1 DEF Among
      <4>2. CASE k = l
        <5>1. i \in 1..m /\ s[i] = x /\ i # p
          BY <1>1, <2>2, <4>2 DEF n, s
        <5>2. \E j \in 1..Len(t) : t[j] = x
          <6>1. CASE i < p
            <7>1. i \in 1..Len(t) /\ t[i] = s[i]
              BY <1>1, <1>2, <5>1, <6>1
            <7> QED
              BY <5>1, <7>1
          <6>2. CASE ~(i < p)
            <7>1. i - 1 \in 1..Len(t) /\ ~(i - 1 < p) /\ (i - 1) + 1 = i
              BY <1>1, <1>2, <5>1, <6>2
            <7> QED
              BY <1>2, <5>1, <7>1
          <6> QED
            BY <6>1, <6>2
        <5> QED
          BY <1>3, <5>2 DEF Among
      <4> QED
        BY <4>1, <4>2
    <3>2. x # Nth(s, p - 1) /\ x # Nth(s, p + 1)
      BY <1>1, <3>1 DEF Among, Nth, s
    <3>3. next[x] = NULL /\ previous[x] = NULL
      BY <3>1 DEF Lists, Loose
    <3> QED
      BY <1>5, <2>2, <3>2, <3>3
  <2> QED
    BY <2>1, <2>2
<1> QED
  BY <1>3, <1>6, <1>7, <1>11, <1>12, <1>13, <1>14 DEF Lists, Apart, tq, t, s

\* A list is cut behind its p-th node, and the rest gets a handle of its own.
Cuts(sq, l, p, k) ==
    /\ next' = [next EXCEPT ![sq[l][p]] = NULL]
    /\ previous' = [previous EXCEPT ![sq[l][p + 1]] = NULL]
    /\ head' = [head EXCEPT ![k] = sq[l][p + 1]]
    /\ tail' = [tail EXCEPT ![l] = sq[l][p], ![k] = tail[l]]
    /\ live' = live \cup {k}
    /\ UNCHANGED <<allocated, value>>

LEMMA CutOff ==
  ASSUME NEW sq, Lists(sq), NEW l \in live, NEW k \in ListId \ live,
         NEW p \in 1..(Len(sq[l]) - 1), Cuts(sq, l, p, k)
  PROVE  Lists([sq EXCEPT ![l] = SubSeq(sq[l], 1, p),
                          ![k] = SubSeq(sq[l], p + 1, Len(sq[l]))])'
<1> DEFINE s == sq[l]
           t == SubSeq(s, 1, p)
           u == SubSeq(s, p + 1, Len(s))
           tq == [sq EXCEPT ![l] = t, ![k] = u]
<1>0. /\ sq \in [ListId -> Seq(Node)] /\ s \in Seq(Node)
      /\ l \in ListId /\ k # l
  BY DEF Lists, ListTypeOK
<1>1. PICK m \in Nat : /\ m = Len(s) /\ p \in Nat /\ 1 <= p /\ p < m
                       /\ p \in 1..m /\ p + 1 \in 1..m
  <2>1. s \in Seq(Node) /\ p \in 1..(Len(s) - 1)
    BY <1>0
  <2> HIDE DEF s
  <2>2. Len(s) \in Nat
    BY <2>1
  <2> QED
    BY <2>1, <2>2
<1>2. /\ t \in Seq(Node) /\ u \in Seq(Node)
      /\ Len(t) = p /\ Len(u) = m - p
      /\ \A j \in 1..p : t[j] = s[j]
      /\ \A j \in 1..(m - p) : u[j] = s[p + j]
  <2> HIDE DEF s
  <2> QED
    BY <1>0, <1>1
<1>3. /\ tq \in [ListId -> Seq(Node)] /\ tq[l] = t /\ tq[k] = u
      /\ \A a \in ListId : a # l /\ a # k => tq[a] = sq[a]
  <2> HIDE DEF t, u
  <2> QED
    BY <1>0, <1>2
<1>4. s[p] \in Node /\ s[p + 1] \in Node /\ NULL \notin Node
  <2> HIDE DEF s
  <2>1. s[p] \in Node /\ s[p + 1] \in Node
    BY <1>0, <1>1
  <2> QED
    BY <2>1, ListAssumption
<1>5. /\ \A x \in Node : next'[x] = IF x = s[p] THEN NULL ELSE next[x]
      /\ \A x \in Node : previous'[x] = IF x = s[p + 1] THEN NULL ELSE previous[x]
      /\ \A a \in ListId : head'[a] = IF a = k THEN s[p + 1] ELSE head[a]
      /\ \A a \in ListId : tail'[a] = IF a = k THEN tail[l] ELSE IF a = l THEN s[p] ELSE tail[a]
      /\ allocated' = allocated /\ live' = live \cup {k}
  BY <1>0 DEF Cuts, Lists, ListTypeOK
<1> HIDE DEF t, u, tq, s
<1>6. ListTypeOK'
  BY <1>0, <1>4 DEF Lists, ListTypeOK, Cuts, Pointer, s
<1>7. \A a \in ListId : a \notin live' => tq[a] = <<>>
  BY <1>3, <1>5 DEF Lists
<1>8. \A a \in ListId : \A i \in 1..Len(sq[a]) :
         /\ sq[a][i] \in allocated /\ sq[a][i] \in Node
         /\ next[sq[a][i]] = Nth(sq[a], i + 1)
         /\ previous[sq[a][i]] = Nth(sq[a], i - 1)
         /\ a # l => \A j \in 1..m : sq[a][i] # s[j]
  BY <1>0, <1>1 DEF Lists, Links, Apart, s
<1>9. \A x, y \in 1..m : s[x] = s[y] => x = y
  BY <1>0, <1>1 DEF Lists, Apart, s
<1>10. sq[k] = <<>>
  BY DEF Lists
\* Where the nodes of the new lists come from.
<1>11. ASSUME NEW a \in ListId, NEW i \in 1..Len(tq[a])
       PROVE  \/ a # l /\ a # k /\ tq[a][i] = sq[a][i] /\ i \in 1..Len(sq[a])
              \/ a = l /\ i \in 1..p /\ i \in 1..m /\ tq[a][i] = s[i]
              \/ a = k /\ p + i \in (p + 1)..m /\ p + i \in 1..m /\ tq[a][i] = s[p + i]
  <2>1. CASE a = l
    BY <1>1, <1>2, <1>3, <2>1
  <2>2. CASE a = k
    BY <1>0, <1>1, <1>2, <1>3, <2>2
  <2>3. CASE a # l /\ a # k
    BY <1>3, <2>3
  <2> QED
    BY <2>1, <2>2, <2>3
<1>12. Apart(tq)
  <2> SUFFICES ASSUME NEW a \in ListId, NEW b \in ListId,
                      NEW i \in 1..Len(tq[a]), NEW j \in 1..Len(tq[b]),
                      tq[a][i] = tq[b][j]
               PROVE  a = b /\ i = j
    BY DEF Apart
  <2>1. CASE a \in {l, k} /\ b \in {l, k}
    <3>1. PICK x \in 1..m : tq[a][i] = s[x] /\ (IF a = l THEN x = i /\ i <= p ELSE x = p + i /\ x > p)
      BY <1>0, <1>1, <1>11, <2>1
    <3>2. PICK y \in 1..m : tq[b][j] = s[y] /\ (IF b = l THEN y = j /\ j <= p ELSE y = p + j /\ y > p)
      BY <1>0, <1>1, <1>11, <2>1
    <3>3. x = y
      BY <1>9, <3>1, <3>2
    <3>4. i \in Int /\ j \in Int
      BY <1>2, <1>3, <2>1
    <3> QED
      BY <1>1, <2>1, <3>1, <3>2, <3>3, <3>4
  <2>2. CASE a \notin {l, k} /\ b \in {l, k}
    <3>1. PICK y \in 1..m : tq[b][j] = s[y]
      BY <1>11, <2>2
    <3>2. tq[a][i] = sq[a][i] /\ i \in 1..Len(sq[a])
      BY <1>11, <2>2
    <3> QED
      BY <1>8, <2>2, <3>1, <3>2
  <2>3. CASE a \in {l, k} /\ b \notin {l, k}
    <3>1. PICK x \in 1..m : tq[a][i] = s[x]
      BY <1>11, <2>3
    <3>2. tq[b][j] = sq[b][j] /\ j \in 1..Len(sq[b])
      BY <1>11, <2>3
    <3>3. sq[b][j] # s[x]
      BY <1>8, <2>3, <3>2
    <3> QED
      BY <3>1, <3>2, <3>3
  <2>4. CASE a \notin {l, k} /\ b \notin {l, k}
    BY <1>3, <2>4 DEF Lists, Apart
  <2> QED
    BY <2>1, <2>2, <2>3, <2>4
<1>13. Ends(tq)'
  <2> SUFFICES ASSUME NEW a \in ListId
               PROVE  head'[a] = Nth(tq[a], 1) /\ tail'[a] = Nth(tq[a], Len(tq[a]))
    BY DEF Ends
  <2>1. head[a] = Nth(sq[a], 1) /\ tail[a] = Nth(sq[a], Len(sq[a]))
        /\ tail[l] = Nth(s, m)
    BY <1>0, <1>1 DEF Lists, Ends, s
  <2>2. CASE a = l
    <3>1. Nth(t, 1) = s[1] /\ Nth(t, p) = s[p] /\ Nth(s, 1) = s[1]
      BY <1>1, <1>2 DEF Nth
    <3> QED
      BY <1>0, <1>2, <1>3, <1>5, <2>1, <2>2, <3>1 DEF s
  <2>3. CASE a = k
    <3>1. 1 \in 1..(m - p) /\ m - p \in 1..(m - p) /\ p + (m - p) = m /\ m \in 1..m
      BY <1>1
    <3>2. Nth(u, 1) = s[p + 1] /\ Nth(u, m - p) = s[m] /\ Nth(s, m) = s[m]
      BY <1>1, <1>2, <3>1 DEF Nth
    <3> QED
      BY <1>0, <1>2, <1>3, <1>5, <2>1, <2>3, <3>2
  <2>4. CASE a # l /\ a # k
    BY <1>3, <1>5, <2>1, <2>4
  <2> QED
    BY <2>2, <2>3, <2>4
<1>14. Links(tq)'
  <2> SUFFICES ASSUME NEW a \in ListId, NEW i \in 1..Len(tq[a])
               PROVE  /\ tq[a][i] \in allocated
                      /\ next'[tq[a][i]] = Nth(tq[a], i + 1)
                      /\ previous'[tq[a][i]] = Nth(tq[a], i - 1)
    BY <1>5 DEF Links
  <2>1. CASE a # l /\ a # k
    <3>1. tq[a] = sq[a] /\ i \in 1..Len(sq[a])
      BY <1>3, <2>1
    <3>2. sq[a][i] \in Node /\ sq[a][i] # s[p] /\ sq[a][i] # s[p + 1]
      BY <1>1, <1>8, <2>1, <3>1
    <3>3. next'[sq[a][i]] = next[sq[a][i]] /\ previous'[sq[a][i]] = previous[sq[a][i]]
      BY <1>5, <3>2
    <3> QED
      BY <1>8, <3>1, <3>3
  <2>2. ASSUME NEW x \in 1..m
        PROVE  /\ s[x] \in allocated
               /\ next'[s[x]] = IF x = p THEN NULL ELSE Nth(s, x + 1)
               /\ previous'[s[x]] = IF x = p + 1 THEN NULL ELSE Nth(s, x - 1)
    <3>1. /\ s[x] \in allocated /\ s[x] \in Node
          /\ next[s[x]] = Nth(s, x + 1) /\ previous[s[x]] = Nth(s, x - 1)
      BY <1>0, <1>1, <1>8 DEF s
    <3>2. (s[x] = s[p] <=> x = p) /\ (s[x] = s[p + 1] <=> x = p + 1)
      BY <1>1, <1>9
    <3> QED
      BY <1>5, <3>1, <3>2
  <2>3. CASE a = l
    <3>1. i \in 1..p /\ i \in 1..m /\ tq[a][i] = s[i] /\ tq[a] = t
      BY <1>0, <1>3, <1>11, <2>3
    <3>2. Nth(t, i + 1) = IF i = p THEN NULL ELSE Nth(s, i + 1)
      BY <1>1, <1>2, <3>1 DEF Nth
    <3>3. Nth(t, i - 1) = Nth(s, i - 1) /\ i # p + 1
      BY <1>1, <1>2, <3>1 DEF Nth
    <3> QED
      BY <2>2, <3>1, <3>2, <3>3
  <2>4. CASE a = k
    <3>1. /\ p + i \in 1..m /\ tq[a][i] = s[p + i] /\ tq[a] = u /\ i \in 1..(m - p)
      BY <1>0, <1>1, <1>2, <1>3, <1>11, <2>4
    <3>2. (p + i) + 1 = p + (i + 1) /\ (p + i) - 1 = p + (i - 1)
      <4>1. i \in Int /\ p \in Int
        BY <1>1, <3>1
      <4> QED
        BY <4>1
    <3>3. Nth(u, i + 1) = Nth(s, (p + i) + 1) /\ p + i # p
      <4>1. i + 1 \in 1..(m - p) <=> (p + i) + 1 \in 1..m
        BY <1>1, <3>1
      <4>2. p + i # p
        BY <1>1, <3>1
      <4>3. i + 1 \in 1..(m - p) => u[i + 1] = s[(p + i) + 1]
        BY <1>2, <3>2
      <4>4. Nth(u, i + 1) = IF i + 1 \in 1..(m - p) THEN u[i + 1] ELSE NULL
        BY <1>2 DEF Nth
      <4>5. Nth(s, (p + i) + 1) = IF (p + i) + 1 \in 1..m THEN s[(p + i) + 1] ELSE NULL
        BY <1>1 DEF Nth
      <4> QED
        BY <4>1, <4>2, <4>3, <4>4, <4>5
    <3>4. Nth(u, i - 1) = IF p + i = p + 1 THEN NULL ELSE Nth(s, (p + i) - 1)
      <4>1. CASE i = 1
        BY <1>2, <4>1 DEF Nth
      <4>2. CASE i # 1
        <5>1. i - 1 \in 1..(m - p) /\ (p + i) - 1 \in 1..m /\ p + i # p + 1
          BY <1>1, <3>1, <4>2
        <5> QED
          BY <1>1, <1>2, <3>2, <5>1 DEF Nth
      <4> QED
        BY <4>1, <4>2
    <3> QED
      BY <2>2, <3>1, <3>3, <3>4
  <2> QED
    BY <2>1, <2>3, <2>4
<1>15. Loose(tq)'
  <2> SUFFICES ASSUME NEW x \in Node, ~Among(tq, x)
               PROVE  next'[x] = NULL /\ previous'[x] = NULL
    BY DEF Loose
  <2>1. ~Among(sq, x)
    <3> SUFFICES ASSUME NEW a \in ListId, NEW i \in 1..Len(sq[a]), sq[a][i] = x
                 PROVE  FALSE
      BY DEF Among
    <3>1. CASE a # l /\ a # k
      BY <1>3, <3>1 DEF Among
    <3>2. CASE a = k
      BY <1>10, <3>2
    <3>3. CASE a = l
      <4>1. i \in 1..m /\ s[i] = x
        BY <1>1, <3>3 DEF s
      <4>2. CASE i <= p
        <5>1. i \in 1..Len(t) /\ t[i] = x
          BY <1>1, <1>2, <4>1, <4>2
        <5> QED
          BY <1>0, <1>3, <5>1 DEF Among
      <4>3. CASE ~(i <= p)
        <5>1. i - p \in 1..(m - p) /\ p + (i - p) = i
          BY <1>1, <4>1, <4>3
        <5>2. i - p \in 1..Len(u) /\ u[i - p] = x
          BY <1>2, <4>1, <5>1
        <5> QED
          BY <1>0, <1>3, <5>2 DEF Among
      <4> QED
        BY <4>2, <4>3
    <3> QED
      BY <3>1, <3>2, <3>3
  <2>2. next[x] = NULL /\ previous[x] = NULL
    BY <2>1 DEF Lists, Loose
  <2> QED
    BY <1>5, <2>2
<1> QED
  BY <1>3, <1>6, <1>7, <1>12, <1>13, <1>14, <1>15 DEF Lists, Apart, tq, t, u, s

\* The pointers stay as they are.
LEMMA Kept ==
  ASSUME NEW sq, Lists(sq), UNCHANGED <<next, previous, head, tail>>,
         allocated' \subseteq Node, value' \in [Node -> Int],
         live' \subseteq ListId, live \subseteq live',
         \A l \in ListId : \A i \in 1..Len(sq[l]) : sq[l][i] \in allocated'
  PROVE  Lists(sq)'
<1>1. ListTypeOK'
  BY DEF Lists, ListTypeOK
<1>2. Ends(sq)'
  BY DEF Lists, Ends
<1>3. Links(sq)'
  BY DEF Lists, Links
<1>4. Loose(sq)'
  BY DEF Lists, Loose
<1> QED
  BY <1>1, <1>2, <1>3, <1>4 DEF Lists, Apart

LEMMA ListsKept ==
  ASSUME NEW sq, Lists(sq), UNCHANGED lists
  PROVE  Lists(sq)'
<1>1. UNCHANGED <<allocated, value, next, previous, live, head, tail>>
  BY DEF lists, fields, ends
<1> QED
  BY <1>1, Kept DEF Lists, ListTypeOK, Links

LEMMA Opened ==
  ASSUME NEW sq, Lists(sq), NEW l \in ListId, list_init(l)
  PROVE  Lists(sq)'
<1>1. head[l] = NULL /\ tail[l] = NULL
  BY DEF list_init, Lists, Ends, Nth
<1>2. UNCHANGED <<next, previous, head, tail, allocated, value>>
  BY <1>1 DEF list_init, fields, Lists, ListTypeOK
<1>3. live' = live \cup {l}
  BY DEF list_init
<1> QED
  BY <1>2, <1>3, Kept DEF Lists, ListTypeOK, Links

\* A node that is not allocated is loose.
LEMMA Unused ==
  ASSUME NEW sq, Lists(sq), NEW n \in Node, n \notin allocated
  PROVE  ~Among(sq, n) /\ next[n] = NULL /\ previous[n] = NULL
BY DEF Lists, Links, Loose, Among

LEMMA Made ==
  ASSUME NEW sq, Lists(sq), NEW v \in Int, list_new_node(v)
  PROVE  /\ Lists(sq)'
         /\ answer' \notin Nat =>
               answer' = NULL /\ UNCHANGED lists
         /\ answer' \in Nat =>
               /\ answer' \in Node \ allocated /\ allocated' = allocated \cup {answer'}
               /\ value' = [value EXCEPT ![answer'] = v]
               /\ UNCHANGED <<next, previous, head, tail, live>>
               /\ ~Among(sq, answer')
<1>1. CASE Answer(NULL)
  BY <1>1, ListsKept, ListAssumption DEF Answer
<1>2. CASE ~Answer(NULL)
  <2>1. PICK n \in Node \ allocated :
           /\ allocated' = allocated \cup {n}
           /\ value' = [value EXCEPT ![n] = v]
           /\ next' = [next EXCEPT ![n] = NULL]
           /\ previous' = [previous EXCEPT ![n] = NULL]
           /\ answer' = n
           /\ UNCHANGED <<live, ends, crashed>>
    BY <1>2 DEF list_new_node
  <2>2. ~Among(sq, n) /\ next[n] = NULL /\ previous[n] = NULL
    BY Unused
  <2>3. UNCHANGED <<next, previous, head, tail, live>>
    BY <2>1, <2>2 DEF ends, Lists, ListTypeOK
  <2>4. Lists(sq)'
    BY <2>1, <2>3, Kept DEF Lists, ListTypeOK, Links
  <2> QED
    BY <2>1, <2>2, <2>3, <2>4, ListAssumption
<1> QED
  BY <1>1, <1>2

LEMMA ValueSet ==
  ASSUME NEW sq, Lists(sq), NEW n \in allocated, NEW v \in Int, list_node_set_value(n, v)
  PROVE  Lists(sq)'
<1>1. UNCHANGED <<next, previous, head, tail, live, allocated>>
      /\ value' = [value EXCEPT ![n] = v]
  BY DEF list_node_set_value, ends
<1> QED
  BY <1>1, Kept DEF Lists, ListTypeOK, Links

LEMMA Freed ==
  ASSUME NEW sq, Lists(sq), NEW n \in allocated, ~Among(sq, n), list_free_node(n)
  PROVE  /\ Lists(sq)'
         /\ allocated' = allocated \ {n}
         /\ \A m \in Node : m # n => value'[m] = value[m]
         /\ UNCHANGED <<next, previous, head, tail, live>>
<1>1. /\ allocated' = allocated \ {n}
      /\ value' = [m \in Node |-> IF m \in {n} THEN 0 ELSE value[m]]
      /\ next' = [m \in Node |-> IF m \in {n} THEN NULL ELSE next[m]]
      /\ previous' = [m \in Node |-> IF m \in {n} THEN NULL ELSE previous[m]]
      /\ UNCHANGED <<head, tail, live>>
  BY DEF list_free_node, Free, Forgotten, ends
<1>2. n \in Node /\ next[n] = NULL /\ previous[n] = NULL
  BY DEF Lists, ListTypeOK, Loose
<1>3. UNCHANGED <<next, previous>>
  BY <1>1, <1>2 DEF Lists, ListTypeOK
<1>4. \A l \in ListId : \A i \in 1..Len(sq[l]) : sq[l][i] \in allocated'
  BY <1>1 DEF Lists, Links, Among
<1>5. value' \in [Node -> Int] /\ allocated' \subseteq Node /\ live' \subseteq ListId
  BY <1>1 DEF Lists, ListTypeOK
<1>6. Lists(sq)'
  BY <1>1, <1>3, <1>4, <1>5, Kept
<1> QED
  BY <1>1, <1>3, <1>6

\* A list is given back with its nodes.
LEMMA Cleaned ==
  ASSUME NEW sq, Lists(sq), NEW l \in live, list_cleanup(l)
  PROVE  /\ Lists([sq EXCEPT ![l] = <<>>])'
         /\ allocated' = {n \in allocated : \A i \in 1..Len(sq[l]) : sq[l][i] # n}
<1> DEFINE tq == [sq EXCEPT ![l] = <<>>]
           G == ToSet(Walk(l))
<1>0. l \in ListId /\ sq \in [ListId -> Seq(Node)]
  BY DEF Lists, ListTypeOK
<1>1. \A n : n \in G <=> \E i \in 1..Len(sq[l]) : sq[l][i] = n
  BY <1>0, InOf
<1> HIDE DEF G
<1>2. /\ allocated' = allocated \ G
      /\ value' = [n \in Node |-> IF n \in G THEN 0 ELSE value[n]]
      /\ next' = [n \in Node |-> IF n \in G THEN NULL ELSE next[n]]
      /\ previous' = [n \in Node |-> IF n \in G THEN NULL ELSE previous[n]]
      /\ live' = live \ {l}
      /\ head' = [head EXCEPT ![l] = NULL] /\ tail' = [tail EXCEPT ![l] = NULL]
  BY DEF list_cleanup, Free, Forgotten, G
<1>3. /\ tq \in [ListId -> Seq(Node)] /\ tq[l] = <<>>
      /\ \A k \in ListId : k # l => tq[k] = sq[k]
  <2>1. <<>> \in Seq(Node)
    OBVIOUS
  <2> QED
    BY <1>0, <2>1
<1>4. \A i : i \notin 1..Len(tq[l])
  BY <1>3
<1> HIDE DEF tq
<1>5. ListTypeOK'
  BY <1>0, <1>2 DEF Lists, ListTypeOK, Pointer
<1>6. \A k \in ListId : k \notin live' => tq[k] = <<>>
  BY <1>2, <1>3 DEF Lists
<1>7. Apart(tq)
  <2> SUFFICES ASSUME NEW a \in ListId, NEW b \in ListId,
                      NEW i \in 1..Len(tq[a]), NEW j \in 1..Len(tq[b]),
                      tq[a][i] = tq[b][j]
               PROVE  a = b /\ i = j
    BY DEF Apart
  <2>1. tq[a] = sq[a] /\ tq[b] = sq[b]
    BY <1>3, <1>4
  <2> QED
    BY <2>1 DEF Lists, Apart
<1>8. Ends(tq)'
  <2>1. Nth(<<>>, 1) = NULL /\ Nth(<<>>, Len(<<>>)) = NULL
    BY DEF Nth
  <2> QED
    BY <1>0, <1>2, <1>3, <2>1 DEF Lists, Ends, ListTypeOK
<1>9. ASSUME NEW k \in ListId, NEW i \in 1..Len(tq[k])
      PROVE  k # l /\ tq[k] = sq[k] /\ sq[k][i] \notin G /\ sq[k][i] \in Node
  <2>1. k # l /\ tq[k] = sq[k]
    BY <1>3, <1>4, <1>9
  <2> QED
    BY <1>0, <1>1, <2>1 DEF Lists, Apart
<1>10. Links(tq)'
  BY <1>2, <1>9 DEF Lists, Links
<1>11. Loose(tq)'
  <2> SUFFICES ASSUME NEW n \in Node, ~Among(tq, n)
               PROVE  next'[n] = NULL /\ previous'[n] = NULL
    BY DEF Loose
  <2>1. CASE n \in G
    BY <1>2, <2>1
  <2>2. CASE n \notin G
    <3>1. ~Among(sq, n)
      BY <1>1, <1>3, <2>2 DEF Among
    <3> QED
      BY <1>2, <2>2, <3>1 DEF Lists, Loose
  <2> QED
    BY <2>1, <2>2
<1>12. allocated' = {n \in allocated : \A i \in 1..Len(sq[l]) : sq[l][i] # n}
  BY <1>1, <1>2
<1>13. Lists(tq)'
  BY <1>3, <1>5, <1>6, <1>7, <1>8, <1>10, <1>11 DEF Lists, Apart
<1> QED
  BY <1>12, <1>13 DEF tq

-----------------------------------------------------------------------------
(* The calls of list.h that are given a node *)

\* n is not in the list, and list_node_present finds it there.
Confusable(l, n) == ~In(l, n) /\ Present(l, n)

\* list_node_present finds a node of the list, or takes for one a node whose
\* neighbours are NULL as those of the only node of the list.
LEMMA PresentOf ==
  ASSUME NEW sq, Lists(sq), NEW l \in ListId, NEW n \in Node
  PROVE  /\ In(l, n) => Present(l, n)
         /\ Present(l, n) =>
               \/ In(l, n)
               \/ /\ next[n] = NULL /\ previous[n] = NULL
                  /\ Len(sq[l]) = 1 /\ value[sq[l][1]] = value[n]
<1>0. /\ \A t : t \in ToSet(Walk(l)) <=> \E i \in 1..Len(sq[l]) : sq[l][i] = t
      /\ In(l, n) <=> \E i \in 1..Len(sq[l]) : sq[l][i] = n
  BY InOf
<1>1. In(l, n) => Present(l, n)
  BY <1>0 DEF Present, Same
<1>2. ASSUME Present(l, n), ~In(l, n)
      PROVE  /\ next[n] = NULL /\ previous[n] = NULL
             /\ Len(sq[l]) = 1 /\ value[sq[l][1]] = value[n]
  <2>1. PICK i \in 1..Len(sq[l]) : Same(sq[l][i], n)
    BY <1>0, <1>2 DEF Present
  <2>2. /\ next[n] = Nth(sq[l], i + 1) /\ previous[n] = Nth(sq[l], i - 1)
        /\ value[n] = value[sq[l][i]]
    BY <2>1 DEF Same, Lists, Links
  <2>3. sq[l] \in Seq(Node) /\ Len(sq[l]) \in Nat /\ NULL \notin Node
    <3>1. sq[l] \in Seq(Node)
      BY DEF Lists
    <3>2. NULL \notin Node
      BY ListAssumption
    <3>3. Len(sq[l]) \in Nat
      BY <3>1
    <3> QED
      BY <3>1, <3>2, <3>3
  <2>4. next[n] = NULL /\ previous[n] = NULL
    <3>1. CASE ~Among(sq, n)
      BY <3>1 DEF Lists, Loose
    <3>2. CASE Among(sq, n)
      <4>1. PICK k \in ListId : \E j \in 1..Len(sq[k]) : sq[k][j] = n
        BY <3>2 DEF Among
      <4>2. PICK j \in 1..Len(sq[k]) : sq[k][j] = n
        BY <4>1
      <4>3. k # l
        BY <1>0, <1>2, <4>2
      <4>4. next[n] = Nth(sq[k], j + 1) /\ previous[n] = Nth(sq[k], j - 1)
        BY <4>2 DEF Lists, Links
      <4>5. ASSUME NEW x, NEW y, Nth(sq[l], x) = Nth(sq[k], y)
            PROVE  Nth(sq[l], x) = NULL
        <5> SUFFICES ASSUME x \in 1..Len(sq[l]) PROVE FALSE
          BY DEF Nth
        <5>1. Nth(sq[l], x) = sq[l][x] /\ sq[l][x] \in Node
          BY <2>3 DEF Nth
        <5>2. y \in 1..Len(sq[k]) /\ sq[k][y] = sq[l][x]
          BY <2>3, <4>5, <5>1 DEF Nth
        <5> QED
          BY <4>3, <5>2 DEF Lists, Apart
      <4> QED
        BY <2>2, <4>4, <4>5
    <3> QED
      BY <3>1, <3>2
  <2>5. ~(i + 1 \in 1..Len(sq[l])) /\ ~(i - 1 \in 1..Len(sq[l]))
    <3>1. \A x \in 1..Len(sq[l]) : Nth(sq[l], x) # NULL
      BY <2>3 DEF Nth
    <3> QED
      BY <2>2, <2>4, <3>1
  <2>6. i = 1 /\ Len(sq[l]) = 1
    <3>1. PICK m \in Nat : m = Len(sq[l])
      BY <2>3
    <3>2. i \in 1..m /\ i + 1 \notin 1..m /\ i - 1 \notin 1..m
      BY <2>5, <3>1
    <3>3. i = 1 /\ m = 1
      BY <3>2
    <3> QED
      BY <3>1, <3>3
  <2> QED
    BY <2>2, <2>4, <2>6
<1> QED
  BY <1>1, <1>2

LEMMA Unlinked ==
  ASSUME NEW sq, Lists(sq), NEW l \in live, NEW n \in allocated, list_unlink_node(l, n)
  PROVE  \/ ~In(l, n) /\ UNCHANGED lists
         \/ \E p \in 1..Len(sq[l]) : sq[l][p] = n /\ Removes(sq, l, p)
<1>0. /\ l \in ListId /\ n \in Node /\ ListTypeOK /\ NULL \notin Node
      /\ sq \in [ListId -> Seq(Node)]
  BY ListAssumption DEF Lists, ListTypeOK
<1>1. CASE ~Present(l, n)
  BY <1>0, <1>1, PresentOf DEF list_unlink_node, Answer
<1>2. CASE Present(l, n)
  <2>1. /\ head' = IF head[l] = n THEN [head EXCEPT ![l] = next[n]] ELSE head
        /\ tail' = IF tail[l] = n THEN [tail EXCEPT ![l] = previous[n]] ELSE tail
        /\ next' = next_without(n)
        /\ previous' = previous_without(n)
        /\ UNCHANGED <<allocated, value, live>>
    BY <1>2 DEF list_unlink_node, Answer
  <2>2. head[l] = Nth(sq[l], 1) /\ tail[l] = Nth(sq[l], Len(sq[l]))
    BY <1>0 DEF Lists, Ends
  <2>3. CASE ~In(l, n)
    <3>1. next[n] = NULL /\ previous[n] = NULL
      BY <1>0, <1>2, <2>3, PresentOf
    <3>2. head[l] # n /\ tail[l] # n
      BY <1>0, <2>2, <2>3, InOf DEF Nth
    <3>3. next' = next /\ previous' = previous
      BY <1>0, <2>1, <3>1 DEF next_without, previous_without, Set, ListTypeOK
    <3> QED
      BY <2>1, <2>3, <3>2, <3>3 DEF lists, fields, ends
  <2>4. CASE In(l, n)
    <3>1. PICK p \in 1..Len(sq[l]) : sq[l][p] = n
      BY <1>0, <2>4, InOf
    <3>2. next[n] = Nth(sq[l], p + 1) /\ previous[n] = Nth(sq[l], p - 1)
      BY <1>0, <3>1 DEF Lists, Links
    <3>3. next[n] \in Pointer /\ previous[n] \in Pointer
      BY <1>0 DEF ListTypeOK
    <3>4. next' = [m \in Node |-> IF m = n THEN NULL
                                  ELSE IF m = previous[n] THEN next[n] ELSE next[m]]
      BY <1>0, <2>1, <3>3 DEF next_without, Set, ListTypeOK, Pointer
    <3>5. previous' = [m \in Node |-> IF m = n THEN NULL
                                      ELSE IF m = next[n] THEN previous[n] ELSE previous[m]]
      BY <1>0, <2>1, <3>3 DEF previous_without, Set, ListTypeOK, Pointer
    <3>6. /\ head[l] = n <=> p = 1
          /\ tail[l] = n <=> p = Len(sq[l])
      <4>1. \A x \in 1..Len(sq[l]) : sq[l][x] = n => x = p
        BY <1>0, <3>1 DEF Lists, Apart
      <4> QED
        BY <1>0, <2>2, <3>1, <4>1 DEF Nth
    <3>7. head' = [k \in ListId |-> IF k = l /\ p = 1 THEN next[n] ELSE head[k]]
      BY <1>0, <2>1, <3>6 DEF ListTypeOK
    <3>8. tail' = [k \in ListId |-> IF k = l /\ p = Len(sq[l]) THEN previous[n] ELSE tail[k]]
      BY <1>0, <2>1, <3>6 DEF ListTypeOK
    <3>9. /\ next' = [m \in Node |-> IF m = sq[l][p] THEN NULL
                                    ELSE IF m = Nth(sq[l], p - 1) THEN Nth(sq[l], p + 1)
                                    ELSE next[m]]
          /\ previous' = [m \in Node |-> IF m = sq[l][p] THEN NULL
                                        ELSE IF m = Nth(sq[l], p + 1) THEN Nth(sq[l], p - 1)
                                        ELSE previous[m]]
      <4> HIDE DEF Nth
      <4> QED
        BY ONLY <3>1, <3>2, <3>4, <3>5
    <3>10. head' = [k \in ListId |-> IF k = l /\ p = 1 THEN Nth(sq[l], p + 1) ELSE head[k]]
      BY <3>2, <3>7
    <3>11. tail' = [k \in ListId |->
                      IF k = l /\ p = Len(sq[l]) THEN Nth(sq[l], p - 1) ELSE tail[k]]
      BY <3>2, <3>8
    <3>12. Removes(sq, l, p)
      BY <2>1, <3>9, <3>10, <3>11 DEF Removes
    <3> QED
      BY <3>1, <3>12
  <2> QED
    BY <2>3, <2>4
<1> QED
  BY <1>1, <1>2

LEMMA NthIs ==
  ASSUME NEW s \in Seq(Node)
  PROVE  /\ \A k : Nth(s, k) \in Pointer
         /\ \A k : Nth(s, k) = NULL <=> k \notin 1..Len(s)
         /\ Len(s) \in Nat /\ 0 \notin 1..Len(s) /\ Len(s) + 1 \notin 1..Len(s)
         /\ Nth(s, 0) = NULL /\ Nth(s, Len(s) + 1) = NULL
<1>1. NULL \notin Node
  BY ListAssumption
<1>2. \A k \in 1..Len(s) : s[k] \in Node
  OBVIOUS
<1>3. Len(s) \in Nat /\ 0 \notin 1..Len(s) /\ Len(s) + 1 \notin 1..Len(s)
  OBVIOUS
<1> QED
  BY <1>1, <1>2, <1>3 DEF Nth, Pointer

\* A list is empty when it has no head.
LEMMA EmptyIs ==
  ASSUME NEW sq, Lists(sq), NEW l \in ListId
  PROVE  /\ head[l] = Nth(sq[l], 1) /\ tail[l] = Nth(sq[l], Len(sq[l]))
         /\ Empty(l) <=> Len(sq[l]) = 0
<1>1. sq[l] \in Seq(Node) /\ head[l] = Nth(sq[l], 1) /\ tail[l] = Nth(sq[l], Len(sq[l]))
  BY DEF Lists, Ends
<1>2. PICK m \in Nat : m = Len(sq[l])
  BY <1>1, NthIs
<1>3. (1 \notin 1..m <=> m = 0) /\ (m \notin 1..m <=> m = 0)
  BY <1>2
<1> QED
  BY <1>1, <1>2, <1>3, NthIs DEF Empty

LEMMA AddedFront ==
  ASSUME NEW sq, Lists(sq), NEW l \in live, NEW n \in allocated, ~Among(sq, n),
         list_add_front(l, n)
  PROVE  0 \in 0..Len(sq[l]) /\ Inserts(sq, l, 0, n)
<1>0. /\ l \in ListId /\ n \in Node /\ ListTypeOK /\ NULL \notin Node
      /\ sq[l] \in Seq(Node) /\ next[n] = NULL /\ previous[n] = NULL
  BY ListAssumption DEF Lists, ListTypeOK, Loose
<1>1. /\ head' = [head EXCEPT ![l] = n]
      /\ \/ /\ Empty(l)
            /\ tail' = [tail EXCEPT ![l] = n]
            /\ UNCHANGED <<next, previous>>
         \/ /\ ~Empty(l)
            /\ next' = [next EXCEPT ![n] = head[l]]
            /\ previous' = [previous EXCEPT ![head[l]] = n]
            /\ UNCHANGED tail
      /\ UNCHANGED <<allocated, value, live>>
  BY DEF list_add_front
<1>2. PICK h : h = Nth(sq[l], 1)
  OBVIOUS
<1>3. PICK m \in Nat : m = Len(sq[l])
  BY <1>0, NthIs
<1>4. /\ head[l] = h /\ (Empty(l) <=> m = 0) /\ (h = NULL <=> m = 0) /\ h \in Pointer
      /\ Nth(sq[l], 0) = NULL
  BY <1>0, <1>2, <1>3, EmptyIs, NthIs
<1>5. next' = [x \in Node |-> IF x = n THEN h ELSE IF x = NULL THEN n ELSE next[x]]
  BY <1>0, <1>1, <1>4 DEF ListTypeOK
<1>6. previous' = [x \in Node |-> IF x = n THEN NULL ELSE IF x = h THEN n ELSE previous[x]]
  <2>1. h # n
    BY <1>0, <1>2 DEF Among, Nth
  <2> QED
    BY <1>0, <1>1, <1>4, <2>1 DEF ListTypeOK, Pointer
<1>7. head' = [k \in ListId |-> IF k = l /\ 0 = 0 THEN n ELSE head[k]]
  BY <1>0, <1>1 DEF ListTypeOK
<1>8. tail' = [k \in ListId |-> IF k = l /\ 0 = m THEN n ELSE tail[k]]
  BY <1>0, <1>1, <1>4 DEF ListTypeOK
<1>9. 0 \in 0..m /\ Nth(sq[l], 0 + 1) = h
  BY <1>2
<1>10. next' = [x \in Node |-> IF x = n THEN Nth(sq[l], 0 + 1)
                               ELSE IF x = Nth(sq[l], 0) THEN n ELSE next[x]]
  BY <1>4, <1>5, <1>9
<1>11. previous' = [x \in Node |-> IF x = n THEN Nth(sq[l], 0)
                                   ELSE IF x = Nth(sq[l], 0 + 1) THEN n ELSE previous[x]]
  BY <1>4, <1>6, <1>9
<1>12. Inserts(sq, l, 0, n)
  BY <1>1, <1>3, <1>7, <1>8, <1>10, <1>11 DEF Inserts
<1> QED
  BY <1>3, <1>9, <1>12

LEMMA AddedBack ==
  ASSUME NEW sq, Lists(sq), NEW l \in live, NEW n \in allocated, ~Among(sq, n),
         list_add_back(l, n)
  PROVE  Len(sq[l]) \in 0..Len(sq[l]) /\ Inserts(sq, l, Len(sq[l]), n)
<1>0. /\ l \in ListId /\ n \in Node /\ ListTypeOK /\ NULL \notin Node
      /\ sq[l] \in Seq(Node) /\ next[n] = NULL /\ previous[n] = NULL
  BY ListAssumption DEF Lists, ListTypeOK, Loose
<1>1. /\ tail' = [tail EXCEPT ![l] = n]
      /\ \/ /\ Empty(l)
            /\ head' = [head EXCEPT ![l] = n]
            /\ UNCHANGED <<next, previous>>
         \/ /\ ~Empty(l)
            /\ previous' = [previous EXCEPT ![n] = tail[l]]
            /\ next' = [next EXCEPT ![tail[l]] = n]
            /\ UNCHANGED head
      /\ UNCHANGED <<allocated, value, live>>
  BY DEF list_add_back
<1>3. PICK m \in Nat : m = Len(sq[l])
  BY <1>0, NthIs
<1>2. PICK h : h = Nth(sq[l], m)
  OBVIOUS
<1>4. /\ tail[l] = h /\ (Empty(l) <=> m = 0) /\ (h = NULL <=> m \notin 1..m) /\ h \in Pointer
      /\ Nth(sq[l], m + 1) = NULL
  BY <1>0, <1>2, <1>3, EmptyIs, NthIs
<1>10. (m \notin 1..m <=> m = 0) /\ m \in 0..m
  BY <1>3
<1>5. next' = [x \in Node |-> IF x = n THEN NULL ELSE IF x = h THEN n ELSE next[x]]
  <2>1. h # n
    BY <1>0, <1>2 DEF Among, Nth
  <2> QED
    BY <1>0, <1>1, <1>4, <1>10, <2>1 DEF ListTypeOK, Pointer
<1>6. previous' = [x \in Node |-> IF x = n THEN h ELSE IF x = NULL THEN n ELSE previous[x]]
  BY <1>0, <1>1, <1>4, <1>10 DEF ListTypeOK
<1>7. head' = [k \in ListId |-> IF k = l /\ m = 0 THEN n ELSE head[k]]
  BY <1>0, <1>1, <1>4 DEF ListTypeOK
<1>8. tail' = [k \in ListId |-> IF k = l /\ m = m THEN n ELSE tail[k]]
  BY <1>0, <1>1 DEF ListTypeOK
<1>11. next' = [x \in Node |-> IF x = n THEN Nth(sq[l], m + 1)
                               ELSE IF x = Nth(sq[l], m) THEN n ELSE next[x]]
  BY <1>2, <1>4, <1>5
<1>12. previous' = [x \in Node |-> IF x = n THEN Nth(sq[l], m)
                                   ELSE IF x = Nth(sq[l], m + 1) THEN n ELSE previous[x]]
  BY <1>2, <1>4, <1>6
<1>13. Inserts(sq, l, m, n)
  BY <1>1, <1>3, <1>7, <1>8, <1>11, <1>12 DEF Inserts
<1> QED
  BY <1>3, <1>10, <1>13

\* Only a node with a twin in the list is taken for another one.
LEMMA TwinIs ==
  ASSUME NEW sq, Lists(sq), NEW l \in ListId, NEW n \in Node
  PROVE  Twin(l, n) <=> Confusable(l, n)
<1>0. /\ Walk(l) = sq[l] /\ sq[l] \in Seq(Node)
      /\ \A t : t \in ToSet(Walk(l)) <=> \E i \in 1..Len(sq[l]) : sq[l][i] = t
      /\ In(l, n) <=> \E i \in 1..Len(sq[l]) : sq[l][i] = n
  BY Walks, InOf DEF Lists
<1>1. ASSUME Twin(l, n) PROVE Confusable(l, n)
  <2>1. PICK t \in Node \ {n} : Walk(l) = <<t>> /\ value[t] = value[n]
    BY <1>1 DEF Twin
  <2>2. Len(sq[l]) = 1 /\ sq[l][1] = t
    BY <1>0, <2>1
  <2>3. next[t] = NULL /\ previous[t] = NULL
    <3>1. next[t] = Nth(sq[l], 1 + 1) /\ previous[t] = Nth(sq[l], 1 - 1)
      BY <2>2 DEF Lists, Links
    <3>2. Nth(sq[l], 1 + 1) = NULL /\ Nth(sq[l], 1 - 1) = NULL
      BY <2>2 DEF Nth
    <3> QED
      BY <3>1, <3>2
  <2>4. Same(t, n)
    BY <1>1, <2>1, <2>3 DEF Same, Twin
  <2>5. t \in ToSet(Walk(l)) /\ ~In(l, n)
    BY <1>0, <2>1, <2>2
  <2> QED
    BY <2>4, <2>5 DEF Confusable, Present
<1>2. ASSUME Confusable(l, n) PROVE Twin(l, n)
  <2>1. /\ next[n] = NULL /\ previous[n] = NULL
        /\ Len(sq[l]) = 1 /\ value[sq[l][1]] = value[n]
    BY <1>2, PresentOf DEF Confusable
  <2>2. sq[l][1] \in Node /\ sq[l] = <<sq[l][1]>>
    BY <1>0, <2>1
  <2>3. sq[l][1] # n
    BY <1>0, <1>2, <2>1 DEF Confusable
  <2> QED
    BY <1>0, <2>1, <2>2, <2>3 DEF Twin
<1> QED
  BY <1>1, <1>2

\* A node with a twin in the list is refused.
LEMMA TwinRefused ==
  ASSUME NEW sq, Lists(sq), NEW l \in ListId, NEW n \in Node, NEW m, Twin(l, n),
         list_insert_after(l, n, m) \/ list_insert_before(l, n, m)
  PROVE  Walk(l)' = Walk(l)
<1>1. Present(l, n)
  BY TwinIs DEF Confusable
<1>2. UNCHANGED <<head, next>>
  BY <1>1 DEF list_insert_after, list_insert_before, Answer, lists, fields, ends
<1> QED
  BY <1>2 DEF Walk

\* A node that list_node_present finds, but whose neighbour it is asked for is
\* NULL inside the list, is another one than it is taken for.
LEMMA PlaceOf ==
  ASSUME NEW sq, Lists(sq), NEW l \in ListId, NEW m \in Node, Present(l, m)
  PROVE  \/ /\ Confusable(l, m) /\ next[m] = NULL /\ previous[m] = NULL
            /\ head[l] # m /\ tail[l] # m
         \/ \E p \in 1..Len(sq[l]) :
               /\ sq[l][p] = m /\ p \in Nat /\ Len(sq[l]) \in Nat
               /\ next[m] = Nth(sq[l], p + 1) /\ previous[m] = Nth(sq[l], p - 1)
               /\ head[l] = m <=> p = 1
               /\ tail[l] = m <=> p = Len(sq[l])
               /\ next[m] = NULL <=> p = Len(sq[l])
               /\ previous[m] = NULL <=> p = 1
               /\ next[m] # m /\ previous[m] # m
               /\ next[m] \in Pointer /\ previous[m] \in Pointer
<1>0. /\ sq[l] \in Seq(Node) /\ NULL \notin Node
      /\ head[l] = Nth(sq[l], 1) /\ tail[l] = Nth(sq[l], Len(sq[l]))
      /\ In(l, m) <=> \E i \in 1..Len(sq[l]) : sq[l][i] = m
  <2>1. /\ sq[l] \in Seq(Node) /\ NULL \notin Node
        /\ head[l] = Nth(sq[l], 1) /\ tail[l] = Nth(sq[l], Len(sq[l]))
    BY ListAssumption DEF Lists, Ends
  <2>2. In(l, m) <=> \E i \in 1..Len(sq[l]) : sq[l][i] = m
    BY InOf
  <2> QED
    BY <2>1, <2>2
<1>1. CASE ~In(l, m)
  <2>1. next[m] = NULL /\ previous[m] = NULL
    BY <1>1, PresentOf
  <2>2. head[l] # m /\ tail[l] # m
    BY <1>0, <1>1 DEF Nth
  <2> QED
    BY <1>1, <2>1, <2>2 DEF Confusable
<1>2. CASE In(l, m)
  <2>1. PICK p \in 1..Len(sq[l]) : sq[l][p] = m
    BY <1>0, <1>2
  <2>2. PICK c \in Nat : c = Len(sq[l])
    BY <1>0, NthIs
  <2>3. \A x \in 1..c : sq[l][x] = m => x = p
    BY <2>1, <2>2 DEF Lists, Apart
  <2>4. \A k : (Nth(sq[l], k) = NULL <=> k \notin 1..c)
               /\ (Nth(sq[l], k) = m => k = p)
               /\ Nth(sq[l], k) \in Pointer
    BY <1>0, <2>2, <2>3, NthIs DEF Nth
  <2>5. next[m] = Nth(sq[l], p + 1) /\ previous[m] = Nth(sq[l], p - 1)
    BY <2>1 DEF Lists, Links
  <2>6. Nth(sq[l], p) = m /\ p \in 1..c /\ p \in Nat
    BY <2>1, <2>2 DEF Nth
  <2>7. /\ p + 1 # p /\ p - 1 # p
        /\ p + 1 \notin 1..c <=> p = c
        /\ p - 1 \notin 1..c <=> p = 1
    BY <2>6
  <2>8. (head[l] = m <=> p = 1) /\ (tail[l] = m <=> p = c)
    BY <1>0, <2>2, <2>4, <2>6
  <2>9. /\ next[m] = NULL <=> p = c
        /\ previous[m] = NULL <=> p = 1
        /\ next[m] # m /\ previous[m] # m
        /\ next[m] \in Pointer /\ previous[m] \in Pointer
    BY <2>4, <2>5, <2>7
  <2> QED
    BY <2>1, <2>2, <2>5, <2>6, <2>8, <2>9
<1> QED
  BY <1>1, <1>2

LEMMA InsertedAfter ==
  ASSUME NEW sq, Lists(sq), NEW l \in live, NEW n \in allocated, NEW m \in allocated,
         ~Among(sq, n) \/ In(l, n), list_insert_after(l, n, m)
  PROVE  \/ UNCHANGED <<lists, crashed>> /\ (Present(l, n) \/ ~Present(l, m))
         \/ UNCHANGED lists /\ crashed' = TRUE /\ Confusable(l, m)
         \/ \E p \in 1..Len(sq[l]) :
               /\ sq[l][p] = m /\ ~Among(sq, n) /\ ~Present(l, n)
               /\ p \in 0..Len(sq[l]) /\ Inserts(sq, l, p, n) /\ UNCHANGED crashed
<1>0. /\ l \in ListId /\ n \in Node /\ m \in Node /\ ListTypeOK /\ NULL \notin Node
      /\ sq[l] \in Seq(Node)
  BY ListAssumption DEF Lists, ListTypeOK
<1>1. CASE (Present(l, n) \/ ~Present(l, m)) /\ Answer(1)
  BY <1>1 DEF Answer
<1>2. CASE ~is_tail(l, m) /\ next[m] = NULL /\ Crash /\ ~Present(l, n) /\ Present(l, m)
  <2>1. Confusable(l, m)
    BY <1>0, <1>2, PlaceOf DEF is_tail
  <2> QED
    BY <1>2, <2>1 DEF Crash
<1>3. CASE /\ ~Present(l, n) /\ Present(l, m)
           /\ is_tail(l, m) \/ next[m] # NULL
           /\ tail' = IF is_tail(l, m) THEN [tail EXCEPT ![l] = n] ELSE tail
           /\ next' = IF is_tail(l, m) THEN [next EXCEPT ![m] = n]
                      ELSE [next EXCEPT ![m] = n, ![n] = next[m]]
           /\ previous' = IF is_tail(l, m) THEN [previous EXCEPT ![n] = m]
                          ELSE [previous EXCEPT ![next[m]] = n, ![n] = m]
           /\ answer' = 0
           /\ UNCHANGED <<allocated, value, live, head, crashed>>
  <2>1. ~Among(sq, n) /\ n # m
    BY <1>0, <1>3, PresentOf
  <2>2. next[n] = NULL /\ previous[n] = NULL
    BY <1>0, <2>1 DEF Lists, Loose
  <2>3. PICK p \in 1..Len(sq[l]) :
               /\ sq[l][p] = m /\ p \in Nat /\ Len(sq[l]) \in Nat
               /\ next[m] = Nth(sq[l], p + 1) /\ previous[m] = Nth(sq[l], p - 1)
               /\ tail[l] = m <=> p = Len(sq[l])
               /\ next[m] = NULL <=> p = Len(sq[l])
               /\ next[m] # m
               /\ next[m] \in Pointer
    BY <1>0, <1>3, PlaceOf DEF is_tail
  <2>4. PICK c \in Nat : c = Len(sq[l])
    BY <2>3
  <2>5. PICK g : g = Nth(sq[l], p + 1)
    OBVIOUS
  <2>6. /\ g \in Pointer /\ (g = NULL <=> p = c) /\ g # m /\ next[m] = g
        /\ is_tail(l, m) <=> p = c
    BY <2>3, <2>4, <2>5 DEF is_tail
  <2>7. g # n
    BY <1>0, <2>1, <2>5 DEF Nth, Among
  <2>8. next' = [x \in Node |-> IF x = n THEN g ELSE IF x = m THEN n ELSE next[x]]
    BY <1>0, <1>3, <2>1, <2>2, <2>6 DEF ListTypeOK
  <2>9. previous' = [x \in Node |-> IF x = n THEN m ELSE IF x = g THEN n ELSE previous[x]]
    BY <1>0, <1>3, <2>1, <2>2, <2>6, <2>7 DEF ListTypeOK, Pointer
  <2>10. Nth(sq[l], p) = m /\ p # 0 /\ p \in 0..Len(sq[l])
    <3>1. p \in 1..c
      BY <2>4
    <3>2. p # 0 /\ p \in 0..c
      BY <3>1
    <3> QED
      BY <2>3, <2>4, <3>2 DEF Nth
  <2>11. head' = [k \in ListId |-> IF k = l /\ p = 0 THEN n ELSE head[k]]
    BY <1>0, <1>3, <2>10 DEF ListTypeOK
  <2>12. tail' = [k \in ListId |-> IF k = l /\ p = c THEN n ELSE tail[k]]
    BY <1>0, <1>3, <2>6 DEF ListTypeOK
  <2>13. next' = [x \in Node |-> IF x = n THEN Nth(sq[l], p + 1)
                                 ELSE IF x = Nth(sq[l], p) THEN n ELSE next[x]]
    BY <2>5, <2>8, <2>10
  <2>14. previous' = [x \in Node |-> IF x = n THEN Nth(sq[l], p)
                                     ELSE IF x = Nth(sq[l], p + 1) THEN n ELSE previous[x]]
    BY <2>5, <2>9, <2>10
  <2>15. Inserts(sq, l, p, n)
    BY <1>3, <2>4, <2>11, <2>12, <2>13, <2>14 DEF Inserts
  <2> QED
    BY <1>3, <2>1, <2>3, <2>10, <2>15
<1> QED
  BY <1>1, <1>2, <1>3 DEF list_insert_after

LEMMA InsertedBefore ==
  ASSUME NEW sq, Lists(sq), NEW l \in live, NEW n \in allocated, NEW m \in allocated,
         ~Among(sq, n) \/ In(l, n), list_insert_before(l, n, m)
  PROVE  \/ UNCHANGED <<lists, crashed>> /\ (Present(l, n) \/ ~Present(l, m))
         \/ UNCHANGED lists /\ crashed' = TRUE /\ Confusable(l, m)
         \/ \E p \in 1..Len(sq[l]) :
               /\ sq[l][p] = m /\ ~Among(sq, n) /\ ~Present(l, n)
               /\ p - 1 \in 0..Len(sq[l]) /\ Inserts(sq, l, p - 1, n) /\ UNCHANGED crashed
<1>0. /\ l \in ListId /\ n \in Node /\ m \in Node /\ ListTypeOK /\ NULL \notin Node
      /\ sq[l] \in Seq(Node)
  BY ListAssumption DEF Lists, ListTypeOK
<1>1. CASE (Present(l, n) \/ ~Present(l, m)) /\ Answer(1)
  BY <1>1 DEF Answer
<1>2. CASE head[l] # m /\ previous[m] = NULL /\ Crash /\ ~Present(l, n) /\ Present(l, m)
  <2>1. Confusable(l, m)
    BY <1>0, <1>2, PlaceOf
  <2> QED
    BY <1>2, <2>1 DEF Crash
<1>3. CASE /\ ~Present(l, n) /\ Present(l, m)
           /\ head[l] = m \/ previous[m] # NULL
           /\ head' = IF head[l] = m THEN [head EXCEPT ![l] = n] ELSE head
           /\ previous' = IF head[l] = m THEN [previous EXCEPT ![m] = n]
                          ELSE [previous EXCEPT ![m] = n, ![n] = previous[m]]
           /\ next' = IF head[l] = m THEN [next EXCEPT ![n] = m]
                      ELSE [next EXCEPT ![previous[m]] = n, ![n] = m]
           /\ answer' = 0
           /\ UNCHANGED <<allocated, value, live, tail, crashed>>
  <2>1. ~Among(sq, n) /\ n # m
    BY <1>0, <1>3, PresentOf
  <2>2. next[n] = NULL /\ previous[n] = NULL
    BY <1>0, <2>1 DEF Lists, Loose
  <2>3. PICK p \in 1..Len(sq[l]) :
               /\ sq[l][p] = m /\ p \in Nat /\ Len(sq[l]) \in Nat
               /\ next[m] = Nth(sq[l], p + 1) /\ previous[m] = Nth(sq[l], p - 1)
               /\ head[l] = m <=> p = 1
               /\ previous[m] = NULL <=> p = 1
               /\ previous[m] # m
               /\ previous[m] \in Pointer
    BY <1>0, <1>3, PlaceOf
  <2>4. PICK c \in Nat : c = Len(sq[l])
    BY <2>3
  <2>5. PICK g : g = Nth(sq[l], p - 1)
    OBVIOUS
  <2>6. /\ g \in Pointer /\ (g = NULL <=> p = 1) /\ g # m /\ previous[m] = g
        /\ head[l] = m <=> p = 1
    BY <2>3, <2>5
  <2>7. g # n
    BY <1>0, <2>1, <2>5 DEF Nth, Among
  <2>8. next' = [x \in Node |-> IF x = n THEN m ELSE IF x = g THEN n ELSE next[x]]
    BY <1>0, <1>3, <2>1, <2>2, <2>6, <2>7 DEF ListTypeOK, Pointer
  <2>9. previous' = [x \in Node |-> IF x = n THEN g ELSE IF x = m THEN n ELSE previous[x]]
    BY <1>0, <1>3, <2>1, <2>2, <2>6 DEF ListTypeOK
  <2>10. /\ Nth(sq[l], p) = m /\ (p - 1) + 1 = p /\ p - 1 # Len(sq[l])
         /\ p - 1 \in 0..Len(sq[l]) /\ (p - 1 = 0 <=> p = 1)
    <3>1. p \in 1..c
      BY <2>4
    <3>2. (p - 1) + 1 = p /\ p - 1 # c /\ p - 1 \in 0..c /\ (p - 1 = 0 <=> p = 1)
      BY <3>1
    <3> QED
      BY <2>3, <2>4, <3>2 DEF Nth
  <2>11. head' = [k \in ListId |-> IF k = l /\ p - 1 = 0 THEN n ELSE head[k]]
    BY <1>0, <1>3, <2>6, <2>10 DEF ListTypeOK
  <2>12. tail' = [k \in ListId |-> IF k = l /\ p - 1 = Len(sq[l]) THEN n ELSE tail[k]]
    BY <1>0, <1>3, <2>10 DEF ListTypeOK
  <2>13. next' = [x \in Node |-> IF x = n THEN Nth(sq[l], (p - 1) + 1)
                                 ELSE IF x = Nth(sq[l], p - 1) THEN n ELSE next[x]]
    BY <2>5, <2>8, <2>10
  <2>14. previous' = [x \in Node |-> IF x = n THEN Nth(sq[l], p - 1)
                                     ELSE IF x = Nth(sq[l], (p - 1) + 1) THEN n
                                     ELSE previous[x]]
    BY <2>5, <2>9, <2>10
  <2>15. Inserts(sq, l, p - 1, n)
    BY <1>3, <2>11, <2>12, <2>13, <2>14 DEF Inserts
  <2> QED
    BY <1>3, <2>1, <2>3, <2>10, <2>15
<1> QED
  BY <1>1, <1>2, <1>3 DEF list_insert_before

LEMMA CutAfter ==
  ASSUME NEW sq, Lists(sq), NEW l \in live, NEW n \in allocated, NEW k \in ListId \ live,
         list_cut_after(l, n, k)
  PROVE  \/ UNCHANGED <<lists, crashed>> /\ answer' = NULL
         \/ UNCHANGED lists /\ crashed' = TRUE /\ Confusable(l, n)
         \/ /\ Lists(sq)' /\ UNCHANGED crashed
            /\ sq[l] # <<>> /\ sq[l][Len(sq[l])] = n /\ sq[k] = <<>>
         \/ \E p \in 1..(Len(sq[l]) - 1) :
               sq[l][p] = n /\ Cuts(sq, l, p, k) /\ UNCHANGED crashed
<1>0. /\ l \in ListId /\ n \in Node /\ ListTypeOK /\ NULL \notin Node /\ l # k
      /\ sq[l] \in Seq(Node) /\ sq[k] = <<>>
  BY ListAssumption DEF Lists, ListTypeOK
<1>1. CASE Answer(NULL)
  BY <1>1 DEF Answer
<1>2. CASE Present(l, n) /\ tail[l] # n /\ next[n] = NULL /\ Crash
  <2>1. Confusable(l, n)
    BY <1>0, <1>2, PlaceOf
  <2> QED
    BY <1>2, <2>1 DEF Crash
<1>3. CASE /\ Present(l, n)
           /\ tail[l] = n
           /\ live' = live \cup {k}
           /\ head' = [head EXCEPT ![k] = NULL]
           /\ tail' = [tail EXCEPT ![k] = NULL]
           /\ answer' = 0
           /\ UNCHANGED <<allocated, fields, crashed>>
  <2>1. tail[l] = Nth(sq[l], Len(sq[l])) /\ head[k] = NULL /\ tail[k] = NULL
    BY <1>0 DEF Lists, Ends, Nth
  <2>2. n # NULL
    BY <1>0
  <2>3. Len(sq[l]) \in 1..Len(sq[l]) /\ sq[l][Len(sq[l])] = n
    BY <1>3, <2>1, <2>2 DEF Nth
  <2>4. sq[l] # <<>>
    BY <2>3
  <2>5. UNCHANGED <<next, previous, head, tail, allocated, value>>
    BY <1>0, <1>3, <2>1 DEF fields, ListTypeOK
  <2>6. Lists(sq)'
    BY <1>3, <2>5, Kept DEF Lists, ListTypeOK, Links
  <2> QED
    BY <1>0, <1>3, <2>3, <2>4, <2>6
<1>4. CASE /\ Present(l, n)
           /\ tail[l] # n /\ next[n] # NULL
           /\ live' = live \cup {k}
           /\ next' = [next EXCEPT ![n] = NULL]
           /\ previous' = [previous EXCEPT ![next[n]] = NULL]
           /\ head' = [head EXCEPT ![k] = next[n]]
           /\ tail' = [tail EXCEPT ![l] = n, ![k] = tail[l]]
           /\ answer' = 0
           /\ UNCHANGED <<allocated, value, crashed>>
  <2>1. PICK p \in 1..Len(sq[l]) :
               /\ sq[l][p] = n /\ p \in Nat /\ Len(sq[l]) \in Nat
               /\ next[n] = Nth(sq[l], p + 1)
               /\ tail[l] = n <=> p = Len(sq[l])
               /\ next[n] = NULL <=> p = Len(sq[l])
    BY <1>0, <1>4, PlaceOf
  <2>2. PICK c \in Nat : c = Len(sq[l])
    BY <2>1
  <2>3. p \in 1..(c - 1) /\ p + 1 \in 1..c
    <3>1. p \in 1..c /\ p # c
      BY <1>4, <2>1, <2>2
    <3> QED
      BY <3>1
  <2>4. next[n] = sq[l][p + 1]
    BY <2>1, <2>2, <2>3 DEF Nth
  <2>5. Cuts(sq, l, p, k)
    BY <1>4, <2>1, <2>4 DEF Cuts
  <2> QED
    BY <1>4, <2>1, <2>2, <2>3, <2>5
<1> QED
  BY <1>1, <1>2, <1>3, <1>4 DEF list_cut_after

-----------------------------------------------------------------------------
(* What the calls do to the order *)

LEMMA IndexIs ==
  ASSUME NEW sq, Lists(sq), NEW l \in ListId, NEW p \in 1..Len(sq[l]), NEW n, n = sq[l][p]
  PROVE  Index(l, n) = p
<1>1. PICK s : s = sq[l]
  OBVIOUS
<1>2. /\ Walk(l) = s /\ p \in 1..Len(s) /\ n = s[p]
      /\ \A i, j \in 1..Len(s) : s[i] = s[j] => i = j
  BY <1>1, Walks DEF Lists, Apart
<1>3. {i \in 1..Len(s) : s[i] = n} = {p}
  BY <1>2
<1>4. Min({p}) = p
  BY DEF Min
<1>5. Index(l, n) = IF {i \in 1..Len(s) : s[i] = n} # {}
                    THEN Min({i \in 1..Len(s) : s[i] = n}) ELSE 0
  BY <1>2 DEF Index, SelectInSeq
<1> QED
  BY <1>3, <1>4, <1>5

\* The positions of a concatenation.
LEMMA Concat ==
  ASSUME NEW S, NEW s \in Seq(S), NEW t \in Seq(S), NEW x, x = Len(s), NEW y, y = Len(t)
  PROVE  /\ s \o t \in Seq(S) /\ Len(s \o t) = x + y
         /\ \A k \in 1..(x + y) : (s \o t)[k] = IF k <= x THEN s[k] ELSE t[k - x]
OBVIOUS

LEMMA Piece ==
  ASSUME NEW S, NEW s \in Seq(S), NEW a \in 1..(Len(s) + 1), NEW b \in (a - 1)..Len(s)
  PROVE  /\ SubSeq(s, a, b) \in Seq(S) /\ Len(SubSeq(s, a, b)) = (b - a) + 1
         /\ \A k \in 1..((b - a) + 1) : SubSeq(s, a, b)[k] = s[(a + k) - 1]
OBVIOUS

LEMMA SameSeq ==
  ASSUME NEW S, NEW s \in Seq(S), NEW t \in Seq(S), Len(s) = Len(t),
         \A k \in 1..Len(s) : s[k] = t[k]
  PROVE  s = t
OBVIOUS

LEMMA RemoveFirstIs ==
  ASSUME NEW s \in Seq(Node), \A i, j \in 1..Len(s) : s[i] = s[j] => i = j,
         NEW p \in 1..Len(s), NEW n, n = s[p]
  PROVE  RemoveFirst(s, n) = Rem(s, p)
<1>1. PICK m \in Nat : m = Len(s)
  OBVIOUS
<1>2. SelectInSeq(s, LAMBDA v : v = n) = p
  <2>1. {i \in 1..Len(s) : s[i] = n} = {p}
    OBVIOUS
  <2>2. Min({p}) = p
    BY DEF Min
  <2>3. SelectInSeq(s, LAMBDA v : v = n) =
            IF {i \in 1..Len(s) : s[i] = n} # {}
            THEN Min({i \in 1..Len(s) : s[i] = n}) ELSE 0
    BY DEF SelectInSeq
  <2> QED
    BY <2>1, <2>2, <2>3
<1>3. RemoveFirst(s, n) = SubSeq(s, 1, p - 1) \o SubSeq(s, p + 1, m)
  BY <1>1, <1>2 DEF RemoveFirst, RemoveAt
<1>4. PICK a : a = SubSeq(s, 1, p - 1)
  OBVIOUS
<1>5. PICK b : b = SubSeq(s, p + 1, m)
  OBVIOUS
<1>6. p \in 1..m /\ p - 1 \in (1 - 1)..m /\ p + 1 \in 1..(m + 1) /\ m \in ((p + 1) - 1)..m
      /\ 1 \in 1..(m + 1)
  BY <1>1
<1>7. /\ a \in Seq(Node) /\ Len(a) = p - 1
      /\ \A k \in 1..(p - 1) : a[k] = s[k]
  <2>1. /\ a \in Seq(Node) /\ Len(a) = ((p - 1) - 1) + 1
        /\ \A k \in 1..(((p - 1) - 1) + 1) : a[k] = s[(1 + k) - 1]
    BY <1>1, <1>4, <1>6, Piece
  <2>2. ((p - 1) - 1) + 1 = p - 1 /\ \A k \in 1..(p - 1) : (1 + k) - 1 = k
    BY <1>6
  <2> QED
    BY <2>1, <2>2
<1>8. /\ b \in Seq(Node) /\ Len(b) = m - p
      /\ \A k \in 1..(m - p) : b[k] = s[p + k]
  <2>1. /\ b \in Seq(Node) /\ Len(b) = (m - (p + 1)) + 1
        /\ \A k \in 1..((m - (p + 1)) + 1) : b[k] = s[((p + 1) + k) - 1]
    BY <1>1, <1>5, <1>6, Piece
  <2>2. (m - (p + 1)) + 1 = m - p /\ \A k \in 1..(m - p) : ((p + 1) + k) - 1 = p + k
    BY <1>6
  <2> QED
    BY <2>1, <2>2
<1>9. /\ a \o b \in Seq(Node) /\ Len(a \o b) = (p - 1) + (m - p)
      /\ \A k \in 1..((p - 1) + (m - p)) :
            (a \o b)[k] = IF k <= p - 1 THEN a[k] ELSE b[k - (p - 1)]
  <2>1. PICK x : x = p - 1
    OBVIOUS
  <2>2. PICK y : y = m - p
    OBVIOUS
  <2>3. a \in Seq(Node) /\ b \in Seq(Node) /\ x = Len(a) /\ y = Len(b)
    BY <1>7, <1>8, <2>1, <2>2
  <2>4. /\ a \o b \in Seq(Node) /\ Len(a \o b) = x + y
        /\ \A k \in 1..(x + y) : (a \o b)[k] = IF k <= x THEN a[k] ELSE b[k - x]
    BY <2>3, Concat
  <2> QED
    BY <2>1, <2>2, <2>4
<1>10. PICK t : t = Rem(s, p)
  OBVIOUS
<1>11. /\ t \in Seq(Node) /\ Len(t) = m - 1
       /\ \A k \in 1..(m - 1) : t[k] = IF k < p THEN s[k] ELSE s[k + 1]
  BY <1>1, <1>10, RemIs
<1>12. ASSUME NEW k \in 1..(m - 1) PROVE (a \o b)[k] = t[k]
  <2>1. k \in 1..((p - 1) + (m - p)) /\ (k <= p - 1 <=> k < p)
    BY <1>6
  <2>2. CASE k < p
    <3>1. k \in 1..(p - 1)
      BY <1>6, <2>2
    <3> QED
      BY <1>7, <1>9, <1>11, <2>1, <2>2, <3>1
  <2>3. CASE ~(k < p)
    <3>1. k - (p - 1) \in 1..(m - p) /\ p + (k - (p - 1)) = k + 1
      BY <1>6, <2>3
    <3> QED
      BY <1>8, <1>9, <1>11, <2>1, <2>3, <3>1
  <2> QED
    BY <2>2, <2>3
<1>13. Len(a \o b) = m - 1
  BY <1>6, <1>9
<1>14. a \o b = t
  BY <1>9, <1>11, <1>12, <1>13, SameSeq
<1> QED
  BY <1>3, <1>4, <1>5, <1>10, <1>14

LEMMA InsertAtIs ==
  ASSUME NEW s \in Seq(Node), NEW p \in 0..Len(s), NEW n \in Node
  PROVE  InsertAt(s, p + 1, n) = Ins(s, p, n)
<1>1. PICK m \in Nat : m = Len(s)
  OBVIOUS
<1>2. PICK a : a = SubSeq(s, 1, (p + 1) - 1)
  OBVIOUS
<1>3. PICK b : b = SubSeq(s, p + 1, m)
  OBVIOUS
<1>4. InsertAt(s, p + 1, n) = (a \o <<n>>) \o b
  BY <1>1, <1>2, <1>3 DEF InsertAt
<1>5. p \in 0..m /\ p \in (1 - 1)..m /\ p + 1 \in 1..(m + 1) /\ m \in ((p + 1) - 1)..m
      /\ 1 \in 1..(m + 1) /\ (p + 1) - 1 = p
  BY <1>1
<1>6. a \in Seq(Node) /\ Len(a) = p /\ \A k \in 1..p : a[k] = s[k]
  <2>1. /\ a \in Seq(Node) /\ Len(a) = (p - 1) + 1
        /\ \A k \in 1..((p - 1) + 1) : a[k] = s[(1 + k) - 1]
    BY <1>1, <1>2, <1>5, Piece
  <2>2. (p - 1) + 1 = p /\ \A k \in 1..p : (1 + k) - 1 = k
    BY <1>5
  <2> QED
    BY <2>1, <2>2
<1>7. /\ b \in Seq(Node) /\ Len(b) = m - p
      /\ \A k \in 1..(m - p) : b[k] = s[p + k]
  <2>1. /\ b \in Seq(Node) /\ Len(b) = (m - (p + 1)) + 1
        /\ \A k \in 1..((m - (p + 1)) + 1) : b[k] = s[((p + 1) + k) - 1]
    BY <1>1, <1>3, <1>5, Piece
  <2>2. (m - (p + 1)) + 1 = m - p /\ \A k \in 1..(m - p) : ((p + 1) + k) - 1 = p + k
    BY <1>5
  <2> QED
    BY <2>1, <2>2
<1>8. <<n>> \in Seq(Node) /\ Len(<<n>>) = 1 /\ <<n>>[1] = n
  OBVIOUS
<1>9. PICK c : c = a \o <<n>>
  OBVIOUS
<1>10. /\ c \in Seq(Node) /\ Len(c) = p + 1
       /\ \A k \in 1..(p + 1) : c[k] = IF k <= p THEN a[k] ELSE n
  <2>1. PICK d : d = <<n>>
    OBVIOUS
  <2>2. /\ c \in Seq(Node) /\ Len(c) = p + 1
        /\ \A k \in 1..(p + 1) : c[k] = IF k <= p THEN a[k] ELSE d[k - p]
    BY <1>6, <1>8, <1>9, <2>1, Concat
  <2>3. \A k \in 1..(p + 1) : ~(k <= p) => k - p = 1
    BY <1>5
  <2>4. d[1] = n
    BY <1>8, <2>1
  <2> QED
    BY <2>2, <2>3, <2>4
<1>11. /\ c \o b \in Seq(Node) /\ Len(c \o b) = (p + 1) + (m - p)
       /\ \A k \in 1..((p + 1) + (m - p)) :
             (c \o b)[k] = IF k <= p + 1 THEN c[k] ELSE b[k - (p + 1)]
  <2>1. PICK x : x = p + 1
    OBVIOUS
  <2>2. PICK y : y = m - p
    OBVIOUS
  <2>3. c \in Seq(Node) /\ b \in Seq(Node) /\ x = Len(c) /\ y = Len(b)
    BY <1>10, <1>7, <2>1, <2>2
  <2>4. /\ c \o b \in Seq(Node) /\ Len(c \o b) = x + y
        /\ \A k \in 1..(x + y) : (c \o b)[k] = IF k <= x THEN c[k] ELSE b[k - x]
    BY <2>3, Concat
  <2> QED
    BY <2>1, <2>2, <2>4
<1>12. PICK t : t = Ins(s, p, n)
  OBVIOUS
<1>13. /\ t \in Seq(Node) /\ Len(t) = m + 1
       /\ \A k \in 1..(m + 1) :
             t[k] = IF k <= p THEN s[k] ELSE IF k = p + 1 THEN n ELSE s[k - 1]
  <2>1. /\ Ins(s, p, n) \in Seq(Node) /\ Len(Ins(s, p, n)) = Len(s) + 1
        /\ \A k \in 1..(Len(s) + 1) :
              Ins(s, p, n)[k] = IF k <= p THEN s[k]
                                ELSE IF k = p + 1 THEN n ELSE s[k - 1]
    BY InsIs
  <2> QED
    BY <1>1, <1>12, <2>1
<1>14. ASSUME NEW k \in 1..(m + 1) PROVE (c \o b)[k] = t[k]
  <2>1. k \in 1..((p + 1) + (m - p))
    BY <1>5
  <2>2. CASE k <= p
    <3>1. k \in 1..p /\ k \in 1..(p + 1) /\ k <= p + 1
      BY <1>5, <2>2
    <3> QED
      BY <1>6, <1>10, <1>11, <1>13, <2>1, <2>2, <3>1
  <2>3. CASE k = p + 1
    <3>1. k \in 1..(p + 1) /\ k <= p + 1 /\ ~(k <= p)
      BY <1>5, <2>3
    <3> QED
      BY <1>10, <1>11, <1>13, <2>1, <2>3, <3>1
  <2>4. CASE ~(k <= p) /\ k # p + 1
    <3>1. k - (p + 1) \in 1..(m - p) /\ p + (k - (p + 1)) = k - 1 /\ ~(k <= p + 1)
      BY <1>5, <2>4
    <3> QED
      BY <1>7, <1>11, <1>13, <2>1, <2>4, <3>1
  <2> QED
    BY <2>2, <2>3, <2>4
<1>15. Len(c \o b) = m + 1
  BY <1>5, <1>11
<1>16. c \o b = t
  BY <1>11, <1>13, <1>14, <1>15, SameSeq
<1> QED
  BY <1>4, <1>9, <1>12, <1>16

LEMMA PiecesMeet ==
  ASSUME NEW s \in Seq(Node), NEW p \in 1..(Len(s) - 1)
  PROVE  SubSeq(s, 1, p) \o SubSeq(s, p + 1, Len(s)) = s
<1>1. PICK m \in Nat : m = Len(s)
  OBVIOUS
<1>2. PICK a : a = SubSeq(s, 1, p)
  OBVIOUS
<1>3. PICK b : b = SubSeq(s, p + 1, m)
  OBVIOUS
<1>5. p \in 0..m /\ p \in (1 - 1)..m /\ p + 1 \in 1..(m + 1) /\ m \in ((p + 1) - 1)..m
      /\ 1 \in 1..(m + 1)
  BY <1>1
<1>6. a \in Seq(Node) /\ Len(a) = p /\ \A k \in 1..p : a[k] = s[k]
  <2>1. /\ a \in Seq(Node) /\ Len(a) = (p - 1) + 1
        /\ \A k \in 1..((p - 1) + 1) : a[k] = s[(1 + k) - 1]
    BY <1>1, <1>2, <1>5, Piece
  <2>2. (p - 1) + 1 = p /\ \A k \in 1..p : (1 + k) - 1 = k
    BY <1>5
  <2> QED
    BY <2>1, <2>2
<1>7. /\ b \in Seq(Node) /\ Len(b) = m - p
      /\ \A k \in 1..(m - p) : b[k] = s[p + k]
  <2>1. /\ b \in Seq(Node) /\ Len(b) = (m - (p + 1)) + 1
        /\ \A k \in 1..((m - (p + 1)) + 1) : b[k] = s[((p + 1) + k) - 1]
    BY <1>1, <1>3, <1>5, Piece
  <2>2. (m - (p + 1)) + 1 = m - p /\ \A k \in 1..(m - p) : ((p + 1) + k) - 1 = p + k
    BY <1>5
  <2> QED
    BY <2>1, <2>2
<1>8. /\ a \o b \in Seq(Node) /\ Len(a \o b) = p + (m - p)
      /\ \A k \in 1..(p + (m - p)) : (a \o b)[k] = IF k <= p THEN a[k] ELSE b[k - p]
  <2>1. PICK y : y = m - p
    OBVIOUS
  <2>2. a \in Seq(Node) /\ b \in Seq(Node) /\ p = Len(a) /\ y = Len(b)
    BY <1>6, <1>7, <2>1
  <2>3. /\ a \o b \in Seq(Node) /\ Len(a \o b) = p + y
        /\ \A k \in 1..(p + y) : (a \o b)[k] = IF k <= p THEN a[k] ELSE b[k - p]
    BY <2>2, Concat
  <2> QED
    BY <2>1, <2>3
<1>9. ASSUME NEW k \in 1..m PROVE (a \o b)[k] = s[k]
  <2>1. k \in 1..(p + (m - p))
    BY <1>5
  <2>2. CASE k <= p
    <3>1. k \in 1..p
      BY <1>5, <2>2
    <3> QED
      BY <1>6, <1>8, <2>1, <2>2, <3>1
  <2>3. CASE ~(k <= p)
    <3>1. k - p \in 1..(m - p) /\ p + (k - p) = k
      BY <1>5, <2>3
    <3> QED
      BY <1>7, <1>8, <2>1, <2>3, <3>1
  <2> QED
    BY <2>2, <2>3
<1>10. Len(a \o b) = m
  BY <1>5, <1>8
<1> QED
  BY <1>1, <1>2, <1>3, <1>8, <1>9, <1>10, SameSeq

LEMMA UnlinkOrder ==
  ASSUME NEW sq, Lists(sq), NEW l \in live, NEW n \in allocated,
         list_unlink_node(l, n), In(l, n)
  PROVE  Walk(l)' = RemoveFirst(Walk(l), n)
<1>0. /\ l \in ListId /\ sq \in [ListId -> Seq(Node)] /\ sq[l] \in Seq(Node) /\ Walk(l) = sq[l]
      /\ \A i, j \in 1..Len(sq[l]) : sq[l][i] = sq[l][j] => i = j
  <2>1. l \in ListId /\ sq \in [ListId -> Seq(Node)] /\ Apart(sq)
    BY DEF Lists, ListTypeOK
  <2>2. sq[l] \in Seq(Node) /\ Walk(l) = sq[l]
    BY <2>1, Walks
  <2>3. \A i, j \in 1..Len(sq[l]) : sq[l][i] = sq[l][j] => i = j
    BY <2>1 DEF Apart
  <2> QED
    BY <2>1, <2>2, <2>3
<1>1. PICK p \in 1..Len(sq[l]) : sq[l][p] = n /\ Removes(sq, l, p)
  BY Unlinked
<1>2. PICK tq : tq = [sq EXCEPT ![l] = Rem(sq[l], p)]
  OBVIOUS
<1>3. Lists(tq)'
  <2>1. Lists([sq EXCEPT ![l] = Rem(sq[l], p)])'
    BY <1>0, <1>1, Removed
  <2> QED
    BY <1>2, <2>1
<1>4. Walk(l)' = tq[l] /\ tq[l] = Rem(sq[l], p)
  BY <1>0, <1>2, <1>3, WalksNext
<1>5. RemoveFirst(sq[l], n) = Rem(sq[l], p)
  BY <1>0, <1>1, RemoveFirstIs
<1> QED
  BY <1>0, <1>4, <1>5

LEMMA InsertOrder ==
  ASSUME NEW sq, Lists(sq), NEW l \in live, NEW n \in allocated, ~Among(sq, n),
         NEW p \in 0..Len(sq[l]), Inserts(sq, l, p, n)
  PROVE  Walk(l)' = InsertAt(Walk(l), p + 1, n)
<1>0. /\ l \in ListId /\ sq \in [ListId -> Seq(Node)] /\ sq[l] \in Seq(Node) /\ Walk(l) = sq[l]
      /\ n \in Node
  BY Walks DEF Lists, ListTypeOK
<1>2. PICK tq : tq = [sq EXCEPT ![l] = Ins(sq[l], p, n)]
  OBVIOUS
<1>3. Lists(tq)'
  <2>1. Lists([sq EXCEPT ![l] = Ins(sq[l], p, n)])'
    BY <1>0, Inserted
  <2> QED
    BY <1>2, <2>1
<1>4. Walk(l)' = tq[l] /\ tq[l] = Ins(sq[l], p, n)
  BY <1>0, <1>2, <1>3, WalksNext
<1>5. InsertAt(sq[l], p + 1, n) = Ins(sq[l], p, n)
  BY <1>0, InsertAtIs
<1> QED
  BY <1>0, <1>4, <1>5

LEMMA AfterOrder ==
  ASSUME NEW sq, Lists(sq), NEW l \in live, NEW n \in allocated, NEW m \in ToSet(Walk(l)),
         ~Among(sq, n), ~Confusable(l, n), list_insert_after(l, n, m)
  PROVE  Walk(l)' = InsertAt(Walk(l), Index(l, m) + 1, n)
<1>0. /\ l \in ListId /\ n \in Node
  BY DEF Lists, ListTypeOK
<1>1. ~In(l, n)
  BY <1>0, InOf DEF Among
<1>2. ~Present(l, n)
  BY <1>1 DEF Confusable
<1>3. In(l, m) /\ m \in allocated /\ m \in Node
  <2>1. PICK i \in 1..Len(sq[l]) : sq[l][i] = m
    BY <1>0, InOf
  <2>2. In(l, m)
    BY <1>0, <2>1, InOf
  <2>3. m \in allocated
    BY <1>0, <2>1 DEF Lists, Links
  <2> QED
    BY <2>2, <2>3 DEF Lists, ListTypeOK
<1>4. Present(l, m) /\ ~Confusable(l, m)
  BY <1>0, <1>3, PresentOf DEF Confusable
<1>5. PICK p \in 1..Len(sq[l]) : sq[l][p] = m /\ p \in 0..Len(sq[l]) /\ Inserts(sq, l, p, n)
  BY <1>2, <1>3, <1>4, InsertedAfter
<1>6. Index(l, m) = p
  BY <1>0, <1>5, IndexIs
<1> QED
  BY <1>5, <1>6, InsertOrder

LEMMA BeforeOrder ==
  ASSUME NEW sq, Lists(sq), NEW l \in live, NEW n \in allocated, NEW m \in ToSet(Walk(l)),
         ~Among(sq, n), ~Confusable(l, n), list_insert_before(l, n, m)
  PROVE  Walk(l)' = InsertAt(Walk(l), Index(l, m), n)
<1>0. /\ l \in ListId /\ n \in Node
  BY DEF Lists, ListTypeOK
<1>1. ~In(l, n)
  BY <1>0, InOf DEF Among
<1>2. ~Present(l, n)
  BY <1>1 DEF Confusable
<1>3. In(l, m) /\ m \in allocated /\ m \in Node
  <2>1. PICK i \in 1..Len(sq[l]) : sq[l][i] = m
    BY <1>0, InOf
  <2>2. In(l, m)
    BY <1>0, <2>1, InOf
  <2>3. m \in allocated
    BY <1>0, <2>1 DEF Lists, Links
  <2> QED
    BY <2>2, <2>3 DEF Lists, ListTypeOK
<1>4. Present(l, m) /\ ~Confusable(l, m)
  BY <1>0, <1>3, PresentOf DEF Confusable
<1>5. PICK p \in 1..Len(sq[l]) :
         sq[l][p] = m /\ p - 1 \in 0..Len(sq[l]) /\ Inserts(sq, l, p - 1, n)
  BY <1>2, <1>3, <1>4, InsertedBefore
<1>6. Index(l, m) = p
  BY <1>0, <1>5, IndexIs
<1>7. Walk(l)' = InsertAt(Walk(l), (p - 1) + 1, n)
  BY <1>0, <1>5, InsertOrder
<1>8. (p - 1) + 1 = p
  OBVIOUS
<1> QED
  BY <1>6, <1>7, <1>8

LEMMA CutOrder ==
  ASSUME NEW sq, Lists(sq), NEW l \in live, NEW n \in allocated, NEW k \in ListId \ live,
         list_cut_after(l, n, k), In(l, n), answer' # NULL
  PROVE  Walk(l)' = SubSeq(Walk(l), 1, Index(l, n)) /\ Walk(l)' \o Walk(k)' = Walk(l)
<1>0. /\ l \in ListId /\ k \in ListId /\ l # k
      /\ sq \in [ListId -> Seq(Node)] /\ sq[l] \in Seq(Node) /\ Walk(l) = sq[l]
  BY Walks DEF Lists, ListTypeOK
<1>1. PICK s : s = sq[l]
  OBVIOUS
<1>2. PICK m \in Nat : m = Len(s)
  BY <1>0, <1>1
<1>3. ~Confusable(l, n)
  BY DEF Confusable
<1>4. CASE /\ Lists(sq)' /\ sq[l] # <<>> /\ sq[l][Len(sq[l])] = n /\ sq[k] = <<>>
  <2>1. Walk(l)' = s /\ Walk(k)' = <<>>
    BY <1>0, <1>1, <1>4, WalksNext
  <2>2. m \in 1..m
    BY <1>0, <1>1, <1>2, <1>4
  <2>3. Index(l, n) = m
    BY <1>0, <1>1, <1>2, <1>4, <2>2, IndexIs
  <2>4. s \in Seq(Node) /\ SubSeq(s, 1, m) = s /\ s \o <<>> = s
    <3>1. s \in Seq(Node)
      BY <1>0, <1>1
    <3>2. PICK a : a = SubSeq(s, 1, m)
      OBVIOUS
    <3>3. 1 \in 1..(m + 1) /\ m \in (1 - 1)..m /\ (m - 1) + 1 = m
          /\ \A i \in 1..m : (1 + i) - 1 = i
      BY <2>2
    <3>4. /\ a \in Seq(Node) /\ Len(a) = (m - 1) + 1
          /\ \A i \in 1..((m - 1) + 1) : a[i] = s[(1 + i) - 1]
      BY <1>2, <3>1, <3>2, <3>3, Piece
    <3>5. a = s
      BY <1>2, <3>1, <3>3, <3>4, SameSeq
    <3>6. s \o <<>> = s
      BY <3>1
    <3> QED
      BY <3>1, <3>2, <3>5, <3>6
  <2> QED
    BY <1>0, <1>1, <2>1, <2>3, <2>4
<1>5. CASE \E p \in 1..(Len(sq[l]) - 1) : sq[l][p] = n /\ Cuts(sq, l, p, k)
  <2>1. PICK p \in 1..(m - 1) : s[p] = n /\ Cuts(sq, l, p, k)
    BY <1>1, <1>2, <1>5
  <2>2. PICK tq : tq = [sq EXCEPT ![l] = SubSeq(sq[l], 1, p),
                                  ![k] = SubSeq(sq[l], p + 1, Len(sq[l]))]
    OBVIOUS
  <2>3. Lists(tq)'
    <3>1. Lists([sq EXCEPT ![l] = SubSeq(sq[l], 1, p),
                           ![k] = SubSeq(sq[l], p + 1, Len(sq[l]))])'
      BY <1>1, <1>2, <2>1, CutOff
    <3> QED
      BY <2>2, <3>1
  <2>4. Walk(l)' = SubSeq(s, 1, p) /\ Walk(k)' = SubSeq(s, p + 1, Len(s))
    <3>1. tq[l] = SubSeq(s, 1, p) /\ tq[k] = SubSeq(s, p + 1, Len(s))
      BY <1>0, <1>1, <2>2
    <3> QED
      BY <1>0, <2>3, <3>1, WalksNext
  <2>5. Index(l, n) = p
    <3>1. p \in 1..m
      BY <2>1
    <3> QED
      BY <1>0, <1>1, <1>2, <2>1, <3>1, IndexIs
  <2>6. SubSeq(s, 1, p) \o SubSeq(s, p + 1, Len(s)) = s
    BY <1>0, <1>1, <1>2, PiecesMeet
  <2> QED
    BY <1>0, <1>1, <2>4, <2>5, <2>6
<1> QED
  <2>1. ~(UNCHANGED lists /\ crashed' = TRUE /\ Confusable(l, n))
    BY <1>3
  <2> QED
    BY <1>4, <1>5, <2>1, CutAfter

\* A node of another list is not taken into a list when what is left behind is
\* lists again: it would have two nodes in front of it, or behind it.
LEMMA NotFromOther ==
  ASSUME NEW sq, Lists(sq), NEW tq, Lists(tq)', NEW l \in ListId,
         NEW n \in Node, NEW m \in Node, In(l, m), ~In(l, n),
         \/ /\ next'[m] = n /\ UNCHANGED head
            /\ \A x \in Node : x # m /\ x # n => next'[x] = next[x]
         \/ /\ previous'[m] = n /\ UNCHANGED tail
            /\ \A x \in Node : x # m /\ x # n => previous'[x] = previous[x]
  PROVE  ~Among(sq, n)
<1> SUFFICES ASSUME Among(sq, n) PROVE FALSE
  OBVIOUS
<1>0. /\ \A a \in ListId : tq[a] \in Seq(Node) /\ Len(tq[a]) \in Nat
      /\ \A a \in ListId : sq[a] \in Seq(Node) /\ Len(sq[a]) \in Nat
      /\ NULL \notin Node /\ Apart(sq) /\ Apart(tq)
  <2>1. \A a \in ListId : tq[a] \in Seq(Node) /\ sq[a] \in Seq(Node)
    BY DEF Lists
  <2>2. NULL \notin Node
    BY ListAssumption
  <2>3. Apart(sq) /\ Apart(tq)
    BY DEF Lists, Apart
  <2> QED
    BY <2>1, <2>2, <2>3
<1>1. PICK k \in ListId : \E i \in 1..Len(sq[k]) : sq[k][i] = n
  BY DEF Among
<1>2. PICK i \in 1..Len(sq[k]) : sq[k][i] = n
  BY <1>1
<1>3. PICK p \in 1..Len(sq[l]) : sq[l][p] = m
  BY InOf
<1>4. k # l
  BY <1>2, InOf
<1>5. ASSUME NEW x \in Node, NEW y \in Node, next'[x] = y
      PROVE  \E a \in ListId : \E d \in 1..Len(tq[a]) :
                d + 1 \in 1..Len(tq[a]) /\ tq[a][d] = x /\ tq[a][d + 1] = y
  <2>1. Among(tq, x)
    BY <1>0, <1>5 DEF Lists, Loose
  <2>2. PICK a \in ListId : \E d \in 1..Len(tq[a]) : tq[a][d] = x
    BY <2>1 DEF Among
  <2>3. PICK d \in 1..Len(tq[a]) : tq[a][d] = x
    BY <2>2
  <2>4. next'[x] = Nth(tq[a], d + 1)
    BY <2>3 DEF Lists, Links
  <2> QED
    BY <1>0, <1>5, <2>3, <2>4 DEF Nth
<1>6. ASSUME NEW x \in Node, NEW y \in Node, previous'[x] = y
      PROVE  \E a \in ListId : \E d \in 1..Len(tq[a]) :
                d - 1 \in 1..Len(tq[a]) /\ tq[a][d] = x /\ tq[a][d - 1] = y
  <2>1. Among(tq, x)
    BY <1>0, <1>6 DEF Lists, Loose
  <2>2. PICK a \in ListId : \E d \in 1..Len(tq[a]) : tq[a][d] = x
    BY <2>1 DEF Among
  <2>3. PICK d \in 1..Len(tq[a]) : tq[a][d] = x
    BY <2>2
  <2>4. previous'[x] = Nth(tq[a], d - 1)
    BY <2>3 DEF Lists, Links
  <2> QED
    BY <1>0, <1>6, <2>3, <2>4 DEF Nth
<1>7. CASE /\ next'[m] = n /\ UNCHANGED head
           /\ \A x \in Node : x # m /\ x # n => next'[x] = next[x]
  <2>1. PICK a \in ListId : \E d \in 1..Len(tq[a]) :
                d + 1 \in 1..Len(tq[a]) /\ tq[a][d] = m /\ tq[a][d + 1] = n
    BY <1>5, <1>7
  <2>2. PICK d \in 1..Len(tq[a]) : d + 1 \in 1..Len(tq[a]) /\ tq[a][d] = m /\ tq[a][d + 1] = n
    BY <2>1
  <2>3. CASE i = 1
    <3>1. head[k] = n
      BY <1>2, <2>3 DEF Lists, Ends, Nth
    <3>2. Nth(tq[k], 1) = n
      BY <1>7, <3>1 DEF Lists, Ends
    <3>3. 1 \in 1..Len(tq[k]) /\ tq[k][1] = n
      BY <1>0, <3>2 DEF Nth
    <3>4. d + 1 = 1
      BY <1>0, <2>2, <3>3 DEF Apart
    <3>5. d + 1 # 1
      BY <1>0
    <3> QED
      BY <3>4, <3>5
  <2>4. CASE i # 1
    <3>1. i - 1 \in 1..Len(sq[k]) /\ (i - 1) + 1 = i /\ i - 1 # i
      BY <1>0, <2>4
    <3>2. PICK b : b = sq[k][i - 1]
      OBVIOUS
    <3>3. b \in Node /\ b # n /\ b # m
      BY <1>0, <1>2, <1>3, <1>4, <3>1, <3>2 DEF Lists, Apart
    <3>4. next[b] = n
      <4>1. next[b] = Nth(sq[k], (i - 1) + 1)
        BY <3>1, <3>2 DEF Lists, Links
      <4> QED
        BY <1>2, <3>1, <4>1 DEF Nth
    <3>5. PICK c \in ListId : \E e \in 1..Len(tq[c]) :
                e + 1 \in 1..Len(tq[c]) /\ tq[c][e] = b /\ tq[c][e + 1] = n
      <4>1. next'[b] = n
        BY <1>7, <3>3, <3>4
      <4> QED
        BY <1>5, <3>3, <4>1
    <3>6. PICK e \in 1..Len(tq[c]) :
                e + 1 \in 1..Len(tq[c]) /\ tq[c][e] = b /\ tq[c][e + 1] = n
      BY <3>5
    <3>7. c = a /\ e + 1 = d + 1
      BY <1>0, <2>2, <3>6 DEF Apart
    <3>8. e = d
      BY <1>0, <3>7
    <3> QED
      BY <2>2, <3>3, <3>6, <3>7, <3>8
  <2> QED
    BY <2>3, <2>4
<1>8. CASE /\ previous'[m] = n /\ UNCHANGED tail
           /\ \A x \in Node : x # m /\ x # n => previous'[x] = previous[x]
  <2>1. PICK a \in ListId : \E d \in 1..Len(tq[a]) :
                d - 1 \in 1..Len(tq[a]) /\ tq[a][d] = m /\ tq[a][d - 1] = n
    BY <1>6, <1>8
  <2>2. PICK d \in 1..Len(tq[a]) : d - 1 \in 1..Len(tq[a]) /\ tq[a][d] = m /\ tq[a][d - 1] = n
    BY <2>1
  <2>3. CASE i = Len(sq[k])
    <3>1. tail[k] = n
      BY <1>2, <2>3 DEF Lists, Ends, Nth
    <3>2. Nth(tq[k], Len(tq[k])) = n
      BY <1>8, <3>1 DEF Lists, Ends
    <3>3. Len(tq[k]) \in 1..Len(tq[k]) /\ tq[k][Len(tq[k])] = n
      BY <1>0, <3>2 DEF Nth
    <3>4. k = a /\ d - 1 = Len(tq[k])
      <4>1. PICK x : x = d - 1
        OBVIOUS
      <4>2. PICK z : z = Len(tq[k])
        OBVIOUS
      <4>3. x \in 1..Len(tq[a]) /\ z \in 1..Len(tq[k]) /\ tq[a][x] = tq[k][z]
        BY <2>2, <3>3, <4>1, <4>2
      <4>4. k = a /\ x = z
        BY <1>0, <4>3 DEF Apart
      <4> QED
        BY <4>1, <4>2, <4>4
    <3>5. d - 1 # Len(tq[a])
      <4>1. PICK h \in Nat : h = Len(tq[a])
        BY <1>0
      <4>2. d \in 1..h
        BY <4>1
      <4>3. d - 1 # h
        BY <4>2
      <4> QED
        BY <4>1, <4>3
    <3> QED
      BY <3>4, <3>5
  <2>4. CASE i # Len(sq[k])
    <3>1. i + 1 \in 1..Len(sq[k]) /\ (i + 1) - 1 = i /\ i + 1 # i
      BY <1>0, <2>4
    <3>2. PICK b : b = sq[k][i + 1]
      OBVIOUS
    <3>3. b \in Node /\ b # n /\ b # m
      BY <1>0, <1>2, <1>3, <1>4, <3>1, <3>2 DEF Lists, Apart
    <3>4. previous[b] = n
      <4>1. previous[b] = Nth(sq[k], (i + 1) - 1)
        BY <3>1, <3>2 DEF Lists, Links
      <4> QED
        BY <1>2, <3>1, <4>1 DEF Nth
    <3>5. PICK c \in ListId : \E e \in 1..Len(tq[c]) :
                e - 1 \in 1..Len(tq[c]) /\ tq[c][e] = b /\ tq[c][e - 1] = n
      <4>1. previous'[b] = n
        BY <1>8, <3>3, <3>4
      <4> QED
        BY <1>6, <3>3, <4>1
    <3>6. PICK e \in 1..Len(tq[c]) :
                e - 1 \in 1..Len(tq[c]) /\ tq[c][e] = b /\ tq[c][e - 1] = n
      BY <3>5
    <3>7. c = a /\ e - 1 = d - 1
      <4>1. PICK x : x = d - 1
        OBVIOUS
      <4>2. PICK z : z = e - 1
        OBVIOUS
      <4>3. x \in 1..Len(tq[a]) /\ z \in 1..Len(tq[c]) /\ tq[a][x] = tq[c][z]
        BY <2>2, <3>6, <4>1, <4>2
      <4>4. c = a /\ x = z
        BY <1>0, <4>3 DEF Apart
      <4> QED
        BY <4>1, <4>2, <4>4
    <3>8. e = d
      BY <1>0, <3>7
    <3> QED
      BY <2>2, <3>3, <3>6, <3>7, <3>8
  <2> QED
    BY <2>3, <2>4
<1> QED
  BY <1>7, <1>8

LEMMA NewInAfter ==
  ASSUME NEW sq, Lists(sq), NEW tq, Lists(tq)', NEW l \in live, NEW n \in allocated,
         NEW m \in ToSet(Walk(l)), ~In(l, n), ~Confusable(l, n), list_insert_after(l, n, m)
  PROVE  ~Among(sq, n)
<1>0. l \in ListId /\ n \in Node /\ ListTypeOK
  BY DEF Lists, ListTypeOK
<1>1. In(l, m) /\ m \in Node
  <2>1. PICK i \in 1..Len(sq[l]) : sq[l][i] = m
    BY <1>0, InOf
  <2>2. In(l, m) /\ m \in allocated
    BY <1>0, <2>1, InOf DEF Lists, Links
  <2> QED
    BY <1>0, <2>2 DEF ListTypeOK
<1>2. ~Present(l, n) /\ Present(l, m) /\ ~Confusable(l, m)
  BY <1>0, <1>1, PresentOf DEF Confusable
<1>3. n # m
  BY <1>1
<1>4. ~(~is_tail(l, m) /\ next[m] = NULL)
  BY <1>0, <1>1, <1>2, PlaceOf DEF is_tail
<1>5. /\ next' = IF is_tail(l, m) THEN [next EXCEPT ![m] = n]
                 ELSE [next EXCEPT ![m] = n, ![n] = next[m]]
      /\ UNCHANGED head
  BY <1>2, <1>4 DEF list_insert_after, Answer
<1>6. next'[m] = n /\ \A x \in Node : x # m /\ x # n => next'[x] = next[x]
  BY <1>0, <1>1, <1>3, <1>5 DEF ListTypeOK
<1> QED
  BY <1>0, <1>1, <1>5, <1>6, NotFromOther

LEMMA NewInBefore ==
  ASSUME NEW sq, Lists(sq), NEW tq, Lists(tq)', NEW l \in live, NEW n \in allocated,
         NEW m \in ToSet(Walk(l)), ~In(l, n), ~Confusable(l, n), list_insert_before(l, n, m)
  PROVE  ~Among(sq, n)
<1>0. l \in ListId /\ n \in Node /\ ListTypeOK
  BY DEF Lists, ListTypeOK
<1>1. In(l, m) /\ m \in Node
  <2>1. PICK i \in 1..Len(sq[l]) : sq[l][i] = m
    BY <1>0, InOf
  <2>2. In(l, m) /\ m \in allocated
    BY <1>0, <2>1, InOf DEF Lists, Links
  <2> QED
    BY <1>0, <2>2 DEF ListTypeOK
<1>2. ~Present(l, n) /\ Present(l, m) /\ ~Confusable(l, m)
  BY <1>0, <1>1, PresentOf DEF Confusable
<1>3. n # m
  BY <1>1
<1>4. ~(head[l] # m /\ previous[m] = NULL)
  BY <1>0, <1>1, <1>2, PlaceOf
<1>5. /\ previous' = IF head[l] = m THEN [previous EXCEPT ![m] = n]
                     ELSE [previous EXCEPT ![m] = n, ![n] = previous[m]]
      /\ UNCHANGED tail
  BY <1>2, <1>4 DEF list_insert_before, Answer
<1>6. previous'[m] = n /\ \A x \in Node : x # m /\ x # n => previous'[x] = previous[x]
  BY <1>0, <1>1, <1>3, <1>5 DEF ListTypeOK
<1> QED
  BY <1>0, <1>1, <1>5, <1>6, NotFromOther

\* What a step from lists to lists does to the order.
LEMMA OrderKept ==
  ASSUME NEW sq, Lists(sq), NEW tq, Lists(tq)', NEW l \in live, NEW n \in allocated
  PROVE  /\ list_unlink_node(l, n) /\ In(l, n) => Walk(l)' = RemoveFirst(Walk(l), n)
         /\ \A m \in ToSet(Walk(l)) :
               ~In(l, n) =>
                  /\ list_insert_after(l, n, m) =>
                        Walk(l)' = IF Twin(l, n) THEN Walk(l)
                                   ELSE InsertAt(Walk(l), Index(l, m) + 1, n)
                  /\ list_insert_before(l, n, m) =>
                        Walk(l)' = IF Twin(l, n) THEN Walk(l)
                                   ELSE InsertAt(Walk(l), Index(l, m), n)
         /\ \A k \in ListId \ live :
               list_cut_after(l, n, k) /\ In(l, n) /\ answer' # NULL =>
                  Walk(l)' = SubSeq(Walk(l), 1, Index(l, n)) /\ Walk(l)' \o Walk(k)' = Walk(l)
<1>0. l \in ListId /\ n \in Node
  BY DEF Lists, ListTypeOK
<1>1. list_unlink_node(l, n) /\ In(l, n) => Walk(l)' = RemoveFirst(Walk(l), n)
  BY UnlinkOrder
<1>2. ASSUME NEW m \in ToSet(Walk(l)), ~In(l, n), ~Twin(l, n), list_insert_after(l, n, m)
      PROVE  Walk(l)' = InsertAt(Walk(l), Index(l, m) + 1, n)
  <2>1. ~Confusable(l, n)
    BY <1>0, <1>2, TwinIs
  <2>2. ~Among(sq, n)
    BY <1>2, <2>1, NewInAfter
  <2> QED
    BY <1>2, <2>1, <2>2, AfterOrder
<1>3. ASSUME NEW m \in ToSet(Walk(l)), ~In(l, n), ~Twin(l, n), list_insert_before(l, n, m)
      PROVE  Walk(l)' = InsertAt(Walk(l), Index(l, m), n)
  <2>1. ~Confusable(l, n)
    BY <1>0, <1>3, TwinIs
  <2>2. ~Among(sq, n)
    BY <1>3, <2>1, NewInBefore
  <2> QED
    BY <1>3, <2>1, <2>2, BeforeOrder
<1>4. ASSUME NEW m, Twin(l, n), list_insert_after(l, n, m) \/ list_insert_before(l, n, m)
      PROVE  Walk(l)' = Walk(l)
  BY <1>0, <1>4, TwinRefused
<1>5. ASSUME NEW k \in ListId \ live, list_cut_after(l, n, k), In(l, n), answer' # NULL
      PROVE  Walk(l)' = SubSeq(Walk(l), 1, Index(l, n)) /\ Walk(l)' \o Walk(k)' = Walk(l)
  BY <1>5, CutOrder
<1> QED
  BY <1>1, <1>2, <1>3, <1>4, <1>5

\* A client's call that crashes took a node for another one.
LEMMA ClientCrash ==
  ASSUME NEW sq, Lists(sq), NEW ints, Client(ints), ~crashed, crashed'
  PROVE  \E m \in allocated, k \in live : Twin(k, m)
<1>0. \A n \in allocated \ Attached : ~Among(sq, n)
  BY AttachedOf DEF Lists, ListTypeOK
<1>1. ASSUME NEW l \in live, NEW m \in allocated, NEW n \in allocated,
             n \notin Attached \/ In(l, n),
             list_insert_after(l, n, m) \/ list_insert_before(l, n, m)
      PROVE  Confusable(l, m)
  <2>1. ~Among(sq, n) \/ In(l, n)
    BY <1>0, <1>1
  <2>2. \/ UNCHANGED crashed
        \/ Confusable(l, m)
    BY <1>1, <2>1, InsertedAfter, InsertedBefore
  <2> QED
    BY <2>2
<1>2. ASSUME NEW l \in live, NEW n \in allocated, NEW k \in ListId \ live,
             list_cut_after(l, n, k)
      PROVE  Confusable(l, n)
  <2>1. UNCHANGED crashed \/ Confusable(l, n)
    BY <1>2, CutAfter
  <2> QED
    BY <2>1
<1>3. \E m \in allocated, k \in live : Confusable(k, m)
  BY <1>1, <1>2 DEF Client, list_init, list_new_node, list_free_node, list_add_front,
     list_add_back, list_node_set_value, list_cleanup, list_length, list_get_ith,
     list_unlink_node, list_node_present, list_prev, Answer
<1>4. \A m \in allocated, k \in live : m \in Node /\ k \in ListId
  BY DEF Lists, ListTypeOK
<1> QED
  BY <1>3, <1>4, TwinIs

-----------------------------------------------------------------------------
(* Every call of a client leaves lists behind *)

LEMMA ClientKeepsLists ==
  ASSUME NEW sq, Lists(sq), NEW ints \in SUBSET Int, Client(ints)
  PROVE  \E tq : Lists(tq)'
<1>0. /\ live \subseteq ListId /\ allocated \subseteq Node
      /\ \A n \in allocated \ Attached : ~Among(sq, n)
  BY AttachedOf DEF Lists, ListTypeOK
<1>1. CASE \E l \in ListId : list_init(l)
  BY <1>1, Opened
<1>2. CASE \E v \in ints : list_new_node(v)
  BY <1>2, Made
<1>3. ASSUME NEW n \in allocated \ Attached,
             \/ list_free_node(n)
             \/ \E l \in live : list_add_front(l, n) \/ list_add_back(l, n)
      PROVE  \E tq : Lists(tq)'
  <2>1. n \in allocated /\ ~Among(sq, n)
    BY <1>0
  <2>2. CASE list_free_node(n)
    BY <2>1, <2>2, Freed
  <2>3. ASSUME NEW l \in live, list_add_front(l, n) PROVE \E tq : Lists(tq)'
    <3>1. 0 \in 0..Len(sq[l]) /\ Inserts(sq, l, 0, n)
      BY <2>1, <2>3, AddedFront
    <3> QED
      BY <2>1, <3>1, Inserted
  <2>4. ASSUME NEW l \in live, list_add_back(l, n) PROVE \E tq : Lists(tq)'
    <3>1. Len(sq[l]) \in 0..Len(sq[l]) /\ Inserts(sq, l, Len(sq[l]), n)
      BY <2>1, <2>4, AddedBack
    <3> QED
      BY <2>1, <3>1, Inserted
  <2> QED
    BY <1>3, <2>2, <2>3, <2>4
<1>4. CASE \E n \in allocated, v \in ints : list_node_set_value(n, v)
  BY <1>4, ValueSet
<1>5. ASSUME NEW l \in live, list_cleanup(l) PROVE \E tq : Lists(tq)'
  BY <1>5, Cleaned
<1>6. ASSUME NEW l \in live,
             \/ list_length(l) \/ (\E i \in 0..Len(Walk(l)) : list_get_ith(l, i))
             \/ \E n \in allocated : list_node_present(l, n) \/ list_prev(l, n)
      PROVE  \E tq : Lists(tq)'
  <2>1. UNCHANGED lists
    BY <1>6 DEF list_length, list_get_ith, list_node_present, list_prev, Answer
  <2> QED
    BY <2>1, ListsKept
<1>7. ASSUME NEW l \in live, NEW n \in allocated, list_unlink_node(l, n)
      PROVE  \E tq : Lists(tq)'
  <2>1. \/ UNCHANGED lists
        \/ \E p \in 1..Len(sq[l]) : Removes(sq, l, p)
    BY <1>7, Unlinked
  <2> QED
    BY <1>0, <2>1, ListsKept, Removed
<1>8. ASSUME NEW l \in live, NEW n \in allocated, NEW k \in ListId \ live,
             list_cut_after(l, n, k)
      PROVE  \E tq : Lists(tq)'
  <2>1. \/ UNCHANGED lists
        \/ Lists(sq)'
        \/ \E p \in 1..(Len(sq[l]) - 1) : Cuts(sq, l, p, k)
    BY <1>8, CutAfter
  <2> QED
    BY <2>1, ListsKept, CutOff
<1>9. ASSUME NEW l \in live, NEW m \in allocated, NEW n \in allocated,
             n \notin Attached \/ In(l, n),
             list_insert_after(l, n, m) \/ list_insert_before(l, n, m)
      PROVE  \E tq : Lists(tq)'
  <2>1. ~Among(sq, n) \/ In(l, n)
    BY <1>0, <1>9
  <2>2. \/ UNCHANGED lists
        \/ \E p \in 0..Len(sq[l]) : ~Among(sq, n) /\ Inserts(sq, l, p, n)
    BY <1>9, <2>1, InsertedAfter, InsertedBefore
  <2> QED
    BY <2>2, ListsKept, Inserted
<1> QED
  BY <1>1, <1>2, <1>3, <1>4, <1>5, <1>6, <1>7, <1>8, <1>9 DEF Client

-----------------------------------------------------------------------------
(* The sort program: its list at each place of it *)

\* The nodes that exist are those of s and those of `more`.
Owns(s, more) ==
    \A n \in Node : n \in allocated <=> n \in more \/ \E i \in 1..Len(s) : s[i] = n

NotIn(s, n) == n \in Node /\ \A i \in 1..Len(s) : s[i] # n

\* The list holds the first ints that were read, in the order of the input.
IsRead(s) ==
    /\ Len(s) <= Len(read)
    /\ \A k \in 1..Len(s) : value[s[k]] = read[k]

NumOf(v) == Cardinality({n \in allocated : value[n] = v})

\* The nodes hold what was read, but for numbers that remove_odd removed.
Numbers ==
    \A v \in Values :
        \/ NumOf(v) = Count(read, v)
        \/ /\ rem2(v) = 1 /\ NumOf(v) = 0 /\ Len(read) > 1
           /\ function = "descending_order"

\* That x may stand before y, and that the search for the place of y passes x.
Ordered(x, y) == IF function = "insertion_sort" THEN x <= y ELSE x >= y
Passed(x, y) == IF function = "insertion_sort" THEN x <= y ELSE x > y

SortedTo(s, p) ==
    \A j, k \in 1..Len(s) : j < k /\ k <= p => Ordered(value[s[j]], value[s[k]])

\* The search has passed the nodes before the q-th one.
Searched(s, q, x) ==
    /\ previous_node = Nth(s, q - 1)
    /\ \A j \in 1..Len(s) : j < q => Passed(value[s[j]], x)

AtReading(s) == Owns(s, {}) /\ IsRead(s) /\ Len(s) = Len(read)
AtAdd(s) ==
    /\ NotIn(s, answer) /\ Owns(s, {answer}) /\ IsRead(s)
    /\ Len(read) = Len(s) + 1 /\ value[answer] = read[Len(read)]
AtStart(s) ==
    Owns(s, {}) /\ Numbers /\ (function = "remove_odd" => Len(s) = Len(read))
AtOuter(s) ==
    /\ Owns(s, {}) /\ Numbers
    /\ \E p \in 1..(Len(s) + 1) : current_node = Nth(s, p) /\ SortedTo(s, p - 1)
Inside(s, p, q) ==
    /\ current_node = s[p] /\ next_node = Nth(s, p + 1) /\ insertion_node = s[q]
    /\ SortedTo(s, p - 1) /\ Searched(s, q, value[s[p]])
AtInner(s) ==
    /\ Owns(s, {}) /\ Numbers
    /\ \E p \in 1..Len(s) : \E q \in 1..p : Inside(s, p, q)
AtUnlink(s) ==
    /\ Owns(s, {}) /\ Numbers
    /\ \E p \in 1..Len(s) : \E q \in 1..(p - 1) :
          Inside(s, p, q) /\ ~Passed(value[s[q]], value[s[p]])
AtInsert(s) ==
    /\ NotIn(s, current_node) /\ Owns(s, {current_node}) /\ Numbers
    /\ \E p \in 1..Len(s) : \E q \in 1..p :
          /\ next_node = Nth(s, p + 1)
          /\ SortedTo(s, p) /\ Searched(s, q, value[current_node])
          /\ ~Passed(value[s[q]], value[current_node])
AtAdvance(s) ==
    /\ Owns(s, {}) /\ Numbers
    /\ \E p \in 1..Len(s) : \E q \in 1..p :
          current_node = s[q] /\ next_node = Nth(s, p + 1) /\ SortedTo(s, p)

\* remove_odd has been at the nodes before the p-th one, which are not odd.
Evens(s, p) ==
    /\ Len(read) > 1
    /\ \A v \in Values : rem2(v) # 1 => NumOf(v) = Count(read, v)
    /\ \A k \in 1..Len(s) : k < p => rem2(value[s[k]]) # 1
AtOdd(s) ==
    /\ Owns(s, {})
    /\ \E p \in 1..(Len(s) + 1) : current_node = Nth(s, p) /\ Evens(s, p)
AtFree(s) ==
    /\ NotIn(s, current_node) /\ Owns(s, {current_node})
    /\ rem2(value[current_node]) = 1
    /\ \E p \in 1..(Len(s) + 1) : next_node = Nth(s, p) /\ Evens(s, p)
AtPrint(s) == Owns(s, {}) /\ Numbers /\ SortedTo(s, Len(s))

MainInv(s) ==
    /\ ~crashed /\ read \in Seq(Values) /\ live \subseteq {LIST}
    /\ stage \notin {"reading", "done"} => LIST \in live
    /\ stage = "reading" => AtReading(s)
    /\ stage = "add" => AtAdd(s)
    /\ stage = "start" => AtStart(s)
    /\ stage = "outer" => AtOuter(s)
    /\ stage = "inner" => AtInner(s)
    /\ stage = "unlink" => AtUnlink(s)
    /\ stage = "insert" => AtInsert(s)
    /\ stage = "advance" => AtAdvance(s)
    /\ stage = "odd" => AtOdd(s)
    /\ stage = "free" => AtFree(s)
    /\ stage = "print" => AtPrint(s)
    /\ stage = "cleanup" => SortedOutput

ListInv(sq) ==
    /\ Lists(sq)
    /\ user = "main" => MainInv(sq[LIST])
    /\ user # "main" => stage = "reading"

LEMMA MainsList ==
  ASSUME NEW sq, Lists(sq), live \subseteq {LIST}
  PROVE  /\ LIST \in ListId /\ sq[LIST] \in Seq(Node) /\ Len(sq[LIST]) \in Nat
         /\ NULL \notin Node
         /\ \A n \in Node : ~Among(sq, n) <=> NotIn(sq[LIST], n)
         /\ Walk(LIST) = sq[LIST]
         /\ \A i, j \in 1..Len(sq[LIST]) : sq[LIST][i] = sq[LIST][j] => i = j
<1>1. LIST \in ListId /\ NULL \notin Node
  BY SortingAssumption, ListAssumption
<1>2. sq[LIST] \in Seq(Node)
  BY <1>1 DEF Lists
<1>3. Len(sq[LIST]) \in Nat
  BY <1>2
<1>4. Walk(LIST) = sq[LIST]
  BY <1>1, Walks
<1>5. \A l \in ListId : l # LIST => sq[l] = <<>>
  BY DEF Lists
<1>6. \A n \in Node : ~Among(sq, n) <=> NotIn(sq[LIST], n)
  BY <1>1, <1>5 DEF Among, NotIn
<1>7. \A i, j \in 1..Len(sq[LIST]) : sq[LIST][i] = sq[LIST][j] => i = j
  BY <1>1 DEF Lists, Apart
<1> QED
  BY <1>1, <1>2, <1>3, <1>4, <1>6, <1>7

\* The nodes with the value v are as many as the places of the list with it.
LEMMA Counting ==
  ASSUME NEW s \in Seq(Node), \A j, k \in 1..Len(s) : s[j] = s[k] => j = k,
         allocated \subseteq Node, Owns(s, {}), NEW v,
         NEW t, Len(t) = Len(s), \A k \in 1..Len(s) : t[k] = value[s[k]]
  PROVE  Count(t, v) = NumOf(v)
<1> DEFINE K == {k \in 1..Len(s) : t[k] = v}
           N == {n \in allocated : value[n] = v}
           f == [k \in K |-> s[k]]
<1>1. IsFiniteSet(K)
  <2>1. IsFiniteSet(1..Len(s))
    BY FS_Interval
  <2> QED
    BY <2>1, FS_Subset
<1>2. \A k \in K : s[k] \in N
  BY DEF Owns
<1>3. \A n \in N : \E k \in K : s[k] = n
  BY DEF Owns
<1>4. f \in Bijection(K, N)
  BY <1>2, <1>3 DEF Bijection, Injection, Surjection, IsInjective
<1>5. Cardinality(K) = Cardinality(N)
  BY <1>1, <1>4, FS_Bijection DEF ExistsBijection
<1> QED
  BY <1>5 DEF Count, NumOf

LEMMA SameNumbers ==
  ASSUME Numbers, UNCHANGED <<allocated, value, read, function>>
  PROVE  Numbers'
BY DEF Numbers, NumOf, Count

LEMMA InsRange ==
  ASSUME NEW s \in Seq(Node), NEW p \in 0..Len(s), NEW n \in Node, NEW x
  PROVE  (\E i \in 1..Len(Ins(s, p, n)) : Ins(s, p, n)[i] = x)
         <=> x = n \/ \E i \in 1..Len(s) : s[i] = x
<1> DEFINE t == Ins(s, p, n)
<1>1. PICK m \in Nat : m = Len(s)
  OBVIOUS
<1>2. /\ Len(t) = m + 1 /\ p \in 0..m
      /\ \A k \in 1..(m + 1) :
            t[k] = IF k <= p THEN s[k] ELSE IF k = p + 1 THEN n ELSE s[k - 1]
  BY <1>1, InsIs
<1> HIDE DEF t
<1>3. ASSUME NEW i \in 1..(m + 1), t[i] = x PROVE x = n \/ \E j \in 1..m : s[j] = x
  <2>1. (i <= p => i \in 1..m) /\ (~(i <= p) /\ i # p + 1 => i - 1 \in 1..m)
    BY <1>2
  <2> QED
    BY <1>2, <1>3, <2>1
<1>4. ASSUME x = n PROVE \E i \in 1..(m + 1) : t[i] = x
  <2>1. p + 1 \in 1..(m + 1) /\ ~(p + 1 <= p)
    BY <1>2
  <2> QED
    BY <1>2, <1>4, <2>1
<1>5. ASSUME NEW j \in 1..m, s[j] = x PROVE \E i \in 1..(m + 1) : t[i] = x
  <2>1. CASE j <= p
    <3>1. j \in 1..(m + 1)
      BY <1>2
    <3> QED
      BY <1>2, <1>5, <2>1, <3>1
  <2>2. CASE ~(j <= p)
    <3>1. j + 1 \in 1..(m + 1) /\ ~(j + 1 <= p) /\ j + 1 # p + 1 /\ (j + 1) - 1 = j
      BY <1>2, <2>2
    <3> QED
      BY <1>2, <1>5, <3>1
  <2> QED
    BY <2>1, <2>2
<1> QED
  BY <1>1, <1>2, <1>3, <1>4, <1>5 DEF t

LEMMA RemRange ==
  ASSUME NEW s \in Seq(Node), NEW p \in 1..Len(s),
         \A i, j \in 1..Len(s) : s[i] = s[j] => i = j, NEW x
  PROVE  (\E i \in 1..Len(Rem(s, p)) : Rem(s, p)[i] = x)
         <=> x # s[p] /\ \E i \in 1..Len(s) : s[i] = x
<1> DEFINE t == Rem(s, p)
<1>1. PICK m \in Nat : m = Len(s)
  OBVIOUS
<1>2. /\ Len(t) = m - 1 /\ p \in 1..m
      /\ \A k \in 1..(m - 1) : t[k] = IF k < p THEN s[k] ELSE s[k + 1]
  BY <1>1, RemIs
<1> HIDE DEF t
<1>3. ASSUME NEW i \in 1..(m - 1), t[i] = x PROVE x # s[p] /\ \E j \in 1..m : s[j] = x
  <2>1. i \in 1..m /\ i + 1 \in 1..m /\ (i < p => i # p) /\ (~(i < p) => i + 1 # p)
    BY <1>2
  <2> QED
    BY <1>1, <1>2, <1>3, <2>1
<1>4. ASSUME NEW j \in 1..m, s[j] = x, x # s[p] PROVE \E i \in 1..(m - 1) : t[i] = x
  <2>1. CASE j < p
    <3>1. j \in 1..(m - 1)
      BY <1>2, <2>1
    <3> QED
      BY <1>2, <1>4, <2>1, <3>1
  <2>2. CASE ~(j < p)
    <3>1. j - 1 \in 1..(m - 1) /\ ~(j - 1 < p) /\ (j - 1) + 1 = j
      <4>1. j # p
        BY <1>4
      <4> QED
        BY <1>2, <2>2, <4>1
    <3> QED
      BY <1>2, <1>4, <3>1
  <2> QED
    BY <2>1, <2>2
<1> QED
  BY <1>1, <1>2, <1>3, <1>4 DEF t

LEMMA InsOwns ==
  ASSUME NEW s \in Seq(Node), NEW p \in 0..Len(s), NEW n \in Node,
         Owns(s, {n}), UNCHANGED allocated
  PROVE  Owns(Ins(s, p, n), {})'
<1>1. \A x : (\E i \in 1..Len(Ins(s, p, n)) : Ins(s, p, n)[i] = x)
             <=> x = n \/ \E i \in 1..Len(s) : s[i] = x
  BY InsRange
<1> QED
  BY <1>1 DEF Owns

LEMMA RemOwns ==
  ASSUME NEW s \in Seq(Node), NEW p \in 1..Len(s),
         \A i, j \in 1..Len(s) : s[i] = s[j] => i = j,
         Owns(s, {}), UNCHANGED allocated
  PROVE  Owns(Rem(s, p), {s[p]})' /\ NotIn(Rem(s, p), s[p])
<1>1. \A x : (\E i \in 1..Len(Rem(s, p)) : Rem(s, p)[i] = x)
             <=> x # s[p] /\ \E i \in 1..Len(s) : s[i] = x
  BY RemRange
<1>2. s[p] \in Node
  OBVIOUS
<1> QED
  BY <1>1, <1>2 DEF Owns, NotIn

\* What the steps of main start from.
LEMMA InMain ==
  ASSUME NEW sq, ListInv(sq), user = "main"
  PROVE  /\ Lists(sq) /\ MainInv(sq[LIST]) /\ ListTypeOK
         /\ LIST \in ListId /\ sq[LIST] \in Seq(Node) /\ Len(sq[LIST]) \in Nat
         /\ NULL \notin Node
         /\ \A n \in Node : ~Among(sq, n) <=> NotIn(sq[LIST], n)
         /\ Walk(LIST) = sq[LIST]
         /\ \A i, j \in 1..Len(sq[LIST]) : sq[LIST][i] = sq[LIST][j] => i = j
         /\ head[LIST] = Nth(sq[LIST], 1) /\ tail[LIST] = Nth(sq[LIST], Len(sq[LIST]))
         /\ \A i \in 1..Len(sq[LIST]) :
               /\ sq[LIST][i] \in allocated /\ sq[LIST][i] # NULL
               /\ next[sq[LIST][i]] = Nth(sq[LIST], i + 1)
               /\ value[sq[LIST][i]] \in Int
<1>1. Lists(sq) /\ MainInv(sq[LIST]) /\ ListTypeOK /\ live \subseteq {LIST}
  BY DEF ListInv, MainInv, Lists
<1>2. LIST \in ListId /\ sq[LIST] \in Seq(Node) /\ NULL \notin Node
  BY <1>1, MainsList
<1>3. head[LIST] = Nth(sq[LIST], 1) /\ tail[LIST] = Nth(sq[LIST], Len(sq[LIST]))
  BY <1>1, <1>2 DEF Lists, Ends
<1>4. \A i \in 1..Len(sq[LIST]) :
               /\ sq[LIST][i] \in allocated /\ next[sq[LIST][i]] = Nth(sq[LIST], i + 1)
  BY <1>1, <1>2 DEF Lists, Links
<1>5. \A i \in 1..Len(sq[LIST]) : sq[LIST][i] # NULL /\ value[sq[LIST][i]] \in Int
  BY <1>1, <1>2 DEF ListTypeOK
<1>6. /\ Len(sq[LIST]) \in Nat
      /\ \A n \in Node : ~Among(sq, n) <=> NotIn(sq[LIST], n)
      /\ Walk(LIST) = sq[LIST]
      /\ \A i, j \in 1..Len(sq[LIST]) : sq[LIST][i] = sq[LIST][j] => i = j
  BY <1>1, MainsList
<1> QED
  BY <1>1, <1>2, <1>3, <1>4, <1>5, <1>6

LEMMA MakeListStep ==
  ASSUME NEW sq, ListInv(sq), user = "main", MakeList
  PROVE  \E tq : ListInv(tq)'
<1>0. Lists(sq) /\ MainInv(sq[LIST]) /\ LIST \in ListId
  BY InMain
<1>1. /\ stage = "reading" /\ stage' = "reading" /\ user' = "main" /\ read' = read
      /\ live' = live \cup {LIST} /\ UNCHANGED <<allocated, value, crashed>>
  BY DEF MakeList, main_vars, list_init, fields
<1>2. Lists(sq)'
  BY <1>0, Opened DEF MakeList
<1>3. AtReading(sq[LIST])'
  BY <1>0, <1>1 DEF MainInv, AtReading, Owns, IsRead
<1>4. MainInv(sq[LIST])'
  BY <1>0, <1>1, <1>3 DEF MainInv
<1> QED
  BY <1>1, <1>2, <1>4 DEF ListInv

LEMMA ReadStep ==
  ASSUME NEW sq, ListInv(sq), user = "main", NEW v \in Values, Read(v)
  PROVE  \E tq : ListInv(tq)'
<1> DEFINE s == sq[LIST]
<1>0. /\ Lists(sq) /\ MainInv(s) /\ s \in Seq(Node) /\ Len(s) \in Nat /\ ListTypeOK
      /\ \A n \in Node : ~Among(sq, n) <=> NotIn(s, n)
  BY InMain
<1>1. /\ stage = "reading" /\ user' = "main" /\ list_new_node(v)
      /\ stage' = IF answer' = NULL THEN "failed" ELSE "add"
      /\ read' = Append(read, v) /\ v \in Int /\ LIST \in live
  BY SortingAssumption DEF Read
<1>2. AtReading(s) /\ read \in Seq(Values) /\ ~crashed /\ live \subseteq {LIST}
  BY <1>0, <1>1 DEF MainInv
<1>3. crashed' = crashed
  BY <1>1 DEF list_new_node, Answer
<1>4. /\ read' \in Seq(Values) /\ Len(read') = Len(read) + 1
      /\ \A k \in 1..Len(read) : read'[k] = read[k]
      /\ read'[Len(read')] = v
  BY <1>1, <1>2
<1> HIDE DEF s
<1>5. /\ Lists(sq)'
      /\ answer' \notin Nat => answer' = NULL /\ UNCHANGED lists
      /\ answer' \in Nat =>
               /\ answer' \in Node \ allocated /\ allocated' = allocated \cup {answer'}
               /\ value' = [value EXCEPT ![answer'] = v]
               /\ UNCHANGED <<next, previous, head, tail, live>>
               /\ ~Among(sq, answer')
  BY <1>0, <1>1, Made
<1>6. CASE answer' \notin Nat
  <2>1. stage' = "failed" /\ live' = live
    BY <1>1, <1>5, <1>6 DEF lists
  <2>2. MainInv(s)'
    BY <1>1, <1>2, <1>3, <1>4, <2>1 DEF MainInv
  <2> QED
    BY <1>1, <1>5, <2>2 DEF ListInv, s
<1>7. CASE answer' \in Nat
  <2>1. /\ stage' = "add" /\ live' = live /\ NotIn(s, answer')
        /\ allocated' = allocated \cup {answer'} /\ answer' \in Node
        /\ value' = [value EXCEPT ![answer'] = v]
    BY <1>0, <1>1, <1>5, <1>7, ListAssumption
  <2>2. Owns(s, {answer})'
    BY <1>2, <2>1 DEF AtReading, Owns
  <2>3. /\ Len(s) = Len(read) /\ Len(s) <= Len(read') /\ Len(read') = Len(s) + 1
        /\ \A k \in 1..Len(s) : value[s[k]] = read[k]
    <3>1. Len(s) = Len(read) /\ \A k \in 1..Len(s) : value[s[k]] = read[k]
      BY <1>2 DEF AtReading, IsRead
    <3>2. PICK m \in Nat : m = Len(s)
      BY <1>0
    <3> QED
      BY <1>4, <3>1, <3>2
  <2>4. ASSUME NEW k \in 1..Len(s) PROVE value'[s[k]] = read'[k]
    <3>1. s[k] \in Node /\ s[k] # answer'
      BY <1>0, <2>1 DEF NotIn
    <3> QED
      BY <1>0, <1>4, <2>1, <2>3, <3>1 DEF ListTypeOK
  <2>5. value'[answer'] = v
    BY <1>0, <2>1 DEF ListTypeOK
  <2>6. AtAdd(s)'
    BY <1>4, <2>1, <2>2, <2>3, <2>4, <2>5 DEF AtAdd, IsRead, NotIn
  <2>7. MainInv(s)'
    BY <1>1, <1>2, <1>3, <1>4, <2>1, <2>6 DEF MainInv
  <2> QED
    BY <1>1, <1>5, <2>7 DEF ListInv, s
<1> QED
  BY <1>6, <1>7

\* t is s with n behind its p-th element, and s without it.
GrowsTo(s, t, p, n) ==
    /\ t \in Seq(Node) /\ Len(t) = Len(s) + 1
    /\ \A k \in 1..(Len(s) + 1) :
          t[k] = IF k <= p THEN s[k] ELSE IF k = p + 1 THEN n ELSE s[k - 1]
    /\ \A k \in Int : Nth(t, k) = IF k <= p THEN Nth(s, k)
                                  ELSE IF k = p + 1 THEN n ELSE Nth(s, k - 1)
ShrinksTo(s, t, p) ==
    /\ t \in Seq(Node) /\ Len(t) = Len(s) - 1
    /\ \A k \in 1..(Len(s) - 1) : t[k] = IF k < p THEN s[k] ELSE s[k + 1]
    /\ \A k \in Int : Nth(t, k) = IF k < p THEN Nth(s, k)
                                  ELSE IF k = 0 THEN NULL ELSE Nth(s, k + 1)

\* main's list after an insertion and after a removal.
LEMMA Grown ==
  ASSUME NEW sq, ListInv(sq), user = "main", LIST \in live, NEW n \in allocated,
         NotIn(sq[LIST], n), NEW p \in 0..Len(sq[LIST]), Inserts(sq, LIST, p, n)
  PROVE  \E tq : /\ Lists(tq)'
                 /\ GrowsTo(sq[LIST], tq[LIST], p, n)
                 /\ Owns(sq[LIST], {n}) => Owns(tq[LIST], {})'
<1>0. /\ Lists(sq) /\ sq[LIST] \in Seq(Node) /\ n \in Node /\ LIST \in ListId
      /\ sq \in [ListId -> Seq(Node)] /\ ~Among(sq, n) /\ UNCHANGED allocated
  BY InMain DEF Lists, Inserts, NotIn
<1>1. PICK s : s = sq[LIST]
  OBVIOUS
<1>2. PICK t : t = Ins(s, p, n)
  OBVIOUS
<1>3. PICK tq : tq = [sq EXCEPT ![LIST] = t]
  OBVIOUS
<1>4. Lists(tq)'
  <2>1. Lists([sq EXCEPT ![LIST] = Ins(sq[LIST], p, n)])'
    BY <1>0, Inserted
  <2> QED
    BY <1>1, <1>2, <1>3, <2>1
<1>5. tq[LIST] = t
  BY <1>0, <1>3
<1>6. s \in Seq(Node) /\ p \in 0..Len(s)
  BY <1>0, <1>1
<1>7. GrowsTo(s, t, p, n)
  <2>1. /\ Ins(s, p, n) \in Seq(Node) /\ Len(Ins(s, p, n)) = Len(s) + 1
    BY <1>0, <1>6, InsIs
  <2>2. \A k \in 1..(Len(s) + 1) :
            Ins(s, p, n)[k] = IF k <= p THEN s[k] ELSE IF k = p + 1 THEN n ELSE s[k - 1]
    BY <1>0, <1>6, InsIs
  <2>3. \A k \in Int :
            Nth(Ins(s, p, n), k) = IF k <= p THEN Nth(s, k)
                                   ELSE IF k = p + 1 THEN n ELSE Nth(s, k - 1)
    <3>1. n \in Node
      BY <1>0
    <3> QED
      BY ONLY <1>6, <3>1, InsIs
  <2> QED
    BY <1>2, <2>1, <2>2, <2>3 DEF GrowsTo
<1>8. Owns(s, {n}) => Owns(t, {})'
  <2>1. Owns(s, {n}) => Owns(Ins(s, p, n), {})'
    BY <1>0, <1>6, InsOwns
  <2> QED
    BY <1>2, <2>1
<1> QED
  BY <1>1, <1>4, <1>5, <1>7, <1>8

LEMMA Shrunk ==
  ASSUME NEW sq, ListInv(sq), user = "main", NEW p \in 1..Len(sq[LIST]),
         Removes(sq, LIST, p)
  PROVE  \E tq : /\ Lists(tq)'
                 /\ ShrinksTo(sq[LIST], tq[LIST], p)
                 /\ Owns(sq[LIST], {}) => Owns(tq[LIST], {sq[LIST][p]})'
                 /\ NotIn(tq[LIST], sq[LIST][p])
<1>0. /\ Lists(sq) /\ sq[LIST] \in Seq(Node) /\ LIST \in ListId
      /\ sq \in [ListId -> Seq(Node)] /\ UNCHANGED allocated
      /\ \A i, j \in 1..Len(sq[LIST]) : sq[LIST][i] = sq[LIST][j] => i = j
  BY InMain DEF Lists, Removes
<1>1. PICK s : s = sq[LIST]
  OBVIOUS
<1>2. PICK t : t = Rem(s, p)
  OBVIOUS
<1>3. PICK tq : tq = [sq EXCEPT ![LIST] = t]
  OBVIOUS
<1>4. Lists(tq)'
  <2>1. Lists([sq EXCEPT ![LIST] = Rem(sq[LIST], p)])'
    BY <1>0, Removed
  <2> QED
    BY <1>1, <1>2, <1>3, <2>1
<1>5. tq[LIST] = t
  BY <1>0, <1>3
<1>6. /\ s \in Seq(Node) /\ p \in 1..Len(s)
      /\ \A i, j \in 1..Len(s) : s[i] = s[j] => i = j
  BY <1>0, <1>1
<1>7. ShrinksTo(s, t, p)
  <2>1. Rem(s, p) \in Seq(Node) /\ Len(Rem(s, p)) = Len(s) - 1
    BY <1>6, RemIs
  <2>2. \A k \in 1..(Len(s) - 1) : Rem(s, p)[k] = IF k < p THEN s[k] ELSE s[k + 1]
    BY <1>6, RemIs
  <2>3. \A k \in Int : Nth(Rem(s, p), k) = IF k < p THEN Nth(s, k)
                                           ELSE IF k = 0 THEN NULL ELSE Nth(s, k + 1)
    BY <1>6, RemIs
  <2> QED
    BY <1>2, <2>1, <2>2, <2>3 DEF ShrinksTo
<1>8. (Owns(s, {}) => Owns(t, {s[p]})') /\ NotIn(t, s[p])
  <2>1. Owns(s, {}) => Owns(Rem(s, p), {s[p]})'
    BY <1>0, <1>6, RemOwns
  <2>2. NotIn(Rem(s, p), s[p])
    <3>1. \A x : (\E i \in 1..Len(Rem(s, p)) : Rem(s, p)[i] = x)
                 <=> x # s[p] /\ \E i \in 1..Len(s) : s[i] = x
      BY <1>6, RemRange
    <3>2. s[p] \in Node
      BY <1>6
    <3> QED
      BY <3>1, <3>2 DEF NotIn
  <2> QED
    BY <1>2, <2>1, <2>2
<1> QED
  BY <1>1, <1>4, <1>5, <1>7, <1>8

LEMMA AddBackStep ==
  ASSUME NEW sq, ListInv(sq), user = "main", AddBack
  PROVE  \E tq : ListInv(tq)'
<1>1. PICK s : s = sq[LIST]
  OBVIOUS
<1>2. PICK n : n = answer
  OBVIOUS
<1>0. /\ Lists(sq) /\ MainInv(s) /\ s \in Seq(Node) /\ ListTypeOK /\ LIST \in ListId
      /\ \A x \in Node : ~Among(sq, x) <=> NotIn(s, x)
  BY <1>1, InMain
<1>3. PICK m \in Nat : m = Len(s)
  BY <1>0
<1>4. /\ stage = "add" /\ stage' = "reading" /\ user' = "main" /\ read' = read
      /\ list_add_back(LIST, n)
  BY <1>2 DEF AddBack, At
<1>5. AtAdd(s) /\ read \in Seq(Values) /\ ~crashed /\ live \subseteq {LIST} /\ LIST \in live
  BY <1>0, <1>4 DEF MainInv
<1>6. UNCHANGED <<crashed, allocated, value, live>>
  BY <1>4 DEF list_add_back
<1>7. n \in Node /\ n \in allocated /\ NotIn(s, n) /\ ~Among(sq, n)
  BY <1>0, <1>2, <1>5 DEF AtAdd, NotIn, Owns
<1>8. m \in 0..m /\ Inserts(sq, LIST, m, n)
  BY <1>0, <1>1, <1>3, <1>4, <1>5, <1>7, AddedBack
<1>9. PICK tq : /\ Lists(tq)' /\ GrowsTo(s, tq[LIST], m, n)
                /\ Owns(s, {n}) => Owns(tq[LIST], {})'
  BY <1>1, <1>3, <1>5, <1>7, <1>8, Grown
<1>10. PICK t : t = tq[LIST]
  OBVIOUS
<1>11. /\ Len(t) = m + 1 /\ Owns(t, {})'
       /\ \A k \in 1..(m + 1) : t[k] = IF k <= m THEN s[k] ELSE n
  <2>1. \A k \in 1..(m + 1) : k <= m \/ k = m + 1
    BY <1>3
  <2> QED
    BY <1>2, <1>3, <1>5, <1>9, <1>10, <2>1 DEF AtAdd, GrowsTo
<1>12. Len(t) = Len(read)
  BY <1>3, <1>5, <1>11 DEF AtAdd
<1>13. ASSUME NEW k \in 1..(m + 1) PROVE value[t[k]] = read[k]
  <2>1. CASE k <= m
    <3>1. k \in 1..m
      BY <2>1
    <3> QED
      BY <1>3, <1>5, <1>11, <2>1, <3>1 DEF AtAdd, IsRead
  <2>2. CASE ~(k <= m)
    <3>1. k = m + 1
      BY <2>2
    <3> QED
      BY <1>2, <1>5, <1>11, <1>12, <2>2, <3>1 DEF AtAdd
  <2> QED
    BY <2>1, <2>2
<1>14. AtReading(t)'
  <2>1. Len(t) <= Len(read)
    BY <1>11, <1>12
  <2> QED
    BY <1>4, <1>6, <1>11, <1>12, <1>13, <2>1 DEF AtReading, IsRead
<1>15. MainInv(t)'
  BY <1>4, <1>5, <1>6, <1>14 DEF MainInv
<1> QED
  BY <1>4, <1>9, <1>10, <1>15 DEF ListInv

\* Steps that change no list.
LEMMA Rests ==
  ASSUME NEW sq, ListInv(sq), user = "main", UNCHANGED <<list_vars, user>>, MainInv(sq[LIST])'
  PROVE  \E tq : ListInv(tq)'
<1>1. Lists(sq)'
  BY ListsKept DEF ListInv, list_vars
<1> QED
  BY <1>1 DEF ListInv

LEMMA EndOfInputStep ==
  ASSUME NEW sq, ListInv(sq), user = "main", EndOfInput
  PROVE  \E tq : ListInv(tq)'
<1> DEFINE s == sq[LIST]
<1>0. /\ MainInv(s) /\ s \in Seq(Node) /\ ListTypeOK
      /\ \A i, j \in 1..Len(s) : s[i] = s[j] => i = j
  BY InMain
<1>1. /\ stage = "reading" /\ stage' = "start" /\ LIST \in live
      /\ UNCHANGED <<list_vars, user, function, read, allocated, value, live, crashed>>
  BY DEF EndOfInput, At, list_vars, lists, fields
<1>2. AtReading(s) /\ read \in Seq(Values) /\ ~crashed /\ live \subseteq {LIST}
  BY <1>0, <1>1 DEF MainInv
<1> HIDE DEF s
<1>3. Numbers
  <2>1. ASSUME NEW v \in Values PROVE NumOf(v) = Count(read, v)
    <3>1. /\ Owns(s, {}) /\ Len(read) = Len(s)
          /\ \A k \in 1..Len(s) : read[k] = value[s[k]]
      BY <1>2 DEF AtReading, IsRead
    <3> QED
      BY <1>0, <3>1, Counting DEF ListTypeOK
  <2> QED
    BY <2>1 DEF Numbers
<1>4. Numbers'
  BY <1>1, <1>3, SameNumbers
<1>5. AtStart(s)'
  BY <1>1, <1>2, <1>4 DEF AtStart, AtReading, Owns
<1>6. MainInv(s)'
  BY <1>1, <1>2, <1>5 DEF MainInv
<1> QED
  BY <1>1, <1>6, Rests DEF s

LEMMA StartStep ==
  ASSUME NEW sq, ListInv(sq), user = "main", Start
  PROVE  \E tq : ListInv(tq)'
<1> DEFINE s == sq[LIST]
<1>0. /\ MainInv(s) /\ s \in Seq(Node) /\ NULL \notin Node
      /\ head[LIST] = Nth(s, 1)
      /\ \A i \in 1..Len(s) : next[s[i]] = Nth(s, i + 1) /\ s[i] # NULL
  BY InMain
<1>1. /\ stage = "start"
      /\ UNCHANGED <<list_vars, user, function, read, allocated, value, live, crashed>>
  BY DEF Start, list_vars, lists, fields
<1>2. AtStart(s) /\ read \in Seq(Values) /\ ~crashed /\ live \subseteq {LIST} /\ LIST \in live
  BY <1>0, <1>1 DEF MainInv
<1> HIDE DEF s
<1>3. PICK m \in Nat : m = Len(s)
  BY <1>0
<1>4. next_of(head[LIST]) = Nth(s, 2) /\ (Nth(s, 2) = NULL <=> 2 \notin 1..m)
  <2>1. CASE 1 \in 1..m
    <3>1. head[LIST] = s[1] /\ s[1] # NULL /\ next[s[1]] = Nth(s, 1 + 1)
      BY <1>0, <1>3, <2>1 DEF Nth
    <3> QED
      BY <1>0, <1>3, <3>1, NthIs DEF next_of
  <2>2. CASE 1 \notin 1..m
    <3>1. 2 \notin 1..m
      BY <2>2
    <3> QED
      BY <1>0, <1>3, <2>2, <3>1 DEF next_of, Nth
  <2> QED
    BY <2>1, <2>2
<1>5. Numbers' /\ Owns(s, {})'
  BY <1>1, <1>2, SameNumbers DEF AtStart, Owns
<1>6. CASE next_of(head[LIST]) = NULL
  <2>1. \A j, k \in 1..m : ~(j < k)
    BY <1>4, <1>6
  <2>2. SortedTo(s, Len(s))'
    BY <1>3, <2>1 DEF SortedTo
  <2>3. stage' = "print"
    BY <1>6 DEF Start
  <2>4. MainInv(s)'
    BY <1>1, <1>2, <1>5, <2>2, <2>3 DEF MainInv, AtPrint
  <2> QED
    BY <1>1, <2>4, Rests DEF s
<1>7. CASE next_of(head[LIST]) # NULL
  <2>1. /\ stage' = IF function = "remove_odd" THEN "odd" ELSE "outer"
        /\ current_node' = IF function = "remove_odd" THEN head[LIST] ELSE next[head[LIST]]
    BY <1>7 DEF Start
  <2>2. 1 \in 1..m /\ 1 \in 1..(m + 1) /\ 2 \in 1..(m + 1) /\ m > 1
    BY <1>4, <1>7
  <2>3. CASE function = "remove_odd"
    <3>1. /\ stage' = "odd" /\ current_node' = Nth(s, 1)
          /\ Len(read) > 1
      BY <1>0, <1>2, <1>3, <2>1, <2>2, <2>3 DEF AtStart
    <3>2. \A k \in 1..Len(s) : ~(k < 1)
      BY <1>3
    <3>3. \A v \in Values : NumOf(v) = Count(read, v)
      BY <1>2, <2>3 DEF AtStart, Numbers
    <3>4. Evens(s, 1)'
      BY <1>1, <3>1, <3>2, <3>3 DEF Evens, NumOf, Count
    <3>5. AtOdd(s)'
      BY <1>3, <1>5, <2>2, <3>1, <3>4 DEF AtOdd
    <3>6. MainInv(s)'
      BY <1>1, <1>2, <3>1, <3>5 DEF MainInv
    <3> QED
      BY <1>1, <3>6, Rests DEF s
  <2>4. CASE function # "remove_odd"
    <3>1. stage' = "outer" /\ current_node' = Nth(s, 2)
      <4>1. head[LIST] = s[1] /\ s[1] # NULL
        BY <1>0, <1>3, <2>2 DEF Nth
      <4> QED
        BY <1>4, <2>1, <2>4, <4>1 DEF next_of
    <3>2. \A j, k \in 1..Len(s) : j < k => ~(k <= 2 - 1)
      BY <1>3
    <3>3. SortedTo(s, 2 - 1)'
      BY <3>2 DEF SortedTo
    <3>4. AtOuter(s)'
      BY <1>3, <1>5, <2>2, <3>1, <3>3 DEF AtOuter
    <3>5. MainInv(s)'
      BY <1>1, <1>2, <3>1, <3>4 DEF MainInv
    <3> QED
      BY <1>1, <3>5, Rests DEF s
  <2> QED
    BY <2>3, <2>4
<1> QED
  BY <1>6, <1>7

LEMMA OuterStep ==
  ASSUME NEW sq, ListInv(sq), user = "main", Outer
  PROVE  \E tq : ListInv(tq)'
<1>1. PICK s : s = sq[LIST]
  OBVIOUS
<1>0. /\ MainInv(s) /\ s \in Seq(Node) /\ head[LIST] = Nth(s, 1)
      /\ \A i \in 1..Len(s) : next[s[i]] = Nth(s, i + 1) /\ s[i] # NULL
  BY <1>1, InMain
<1>2. /\ stage = "outer"
      /\ UNCHANGED <<list_vars, user, function, read, allocated, value, live, crashed>>
  BY DEF Outer, list_vars, lists, fields
<1>3. AtOuter(s) /\ read \in Seq(Values) /\ ~crashed /\ live \subseteq {LIST} /\ LIST \in live
  BY <1>0, <1>2 DEF MainInv
<1>4. PICK m \in Nat : m = Len(s)
  BY <1>0
<1>5. PICK p \in 1..(m + 1) : current_node = Nth(s, p) /\ SortedTo(s, p - 1)
  BY <1>3, <1>4 DEF AtOuter
<1>6. Numbers' /\ Owns(s, {})'
  BY <1>2, <1>3, SameNumbers DEF AtOuter, Owns
<1>7. SortedTo(s, p - 1)'
  BY <1>2, <1>5 DEF SortedTo, Ordered
<1>8. CASE current_node = NULL
  <2>1. p - 1 = Len(s)
    <3>1. p \notin 1..m
      BY <1>0, <1>4, <1>5, <1>8, NthIs
    <3> QED
      BY <1>4, <3>1
  <2>2. stage' = "print"
    BY <1>8 DEF Outer
  <2>3. AtPrint(s)'
    BY <1>6, <1>7, <2>1 DEF AtPrint
  <2>4. MainInv(s)'
    BY <1>2, <1>3, <2>2, <2>3 DEF MainInv
  <2> QED
    BY <1>1, <1>2, <2>4, Rests
<1>9. CASE current_node # NULL
  <2>1. p \in 1..m /\ current_node = s[p] /\ 1 \in 1..p /\ 1 \in 1..m
    <3>1. p \in 1..m /\ current_node = s[p]
      BY <1>4, <1>5, <1>9 DEF Nth
    <3> QED
      BY <3>1
  <2>2. /\ stage' = "inner" /\ next_node' = Nth(s, p + 1) /\ insertion_node' = s[1]
        /\ previous_node' = NULL /\ current_node' = s[p]
    <3>1. /\ stage' = "inner" /\ next_node' = next[current_node]
          /\ insertion_node' = head[LIST]
          /\ previous_node' = NULL /\ current_node' = current_node
      BY <1>9 DEF Outer
    <3>2. head[LIST] = s[1]
      BY <1>0, <1>4, <2>1 DEF Nth
    <3> QED
      BY <1>0, <1>4, <2>1, <3>1, <3>2
  <2>3. Searched(s, 1, value[s[p]])'
    <3>1. \A j \in 1..m : ~(j < 1)
      BY <1>4
    <3>2. Nth(s, 1 - 1) = NULL
      BY <1>0, NthIs
    <3> QED
      BY <1>4, <2>2, <3>1, <3>2 DEF Searched
  <2>4. Inside(s, p, 1)'
    BY <1>7, <2>2, <2>3 DEF Inside
  <2>5. AtInner(s)'
    BY <1>4, <1>6, <2>1, <2>4 DEF AtInner
  <2>6. MainInv(s)'
    BY <1>2, <1>3, <2>2, <2>5 DEF MainInv
  <2> QED
    BY <1>1, <1>2, <2>6, Rests
<1> QED
  BY <1>8, <1>9

LEMMA InnerStep ==
  ASSUME NEW sq, ListInv(sq), user = "main", Inner
  PROVE  \E tq : ListInv(tq)'
<1>1. PICK s : s = sq[LIST]
  OBVIOUS
<1>0. /\ MainInv(s) /\ s \in Seq(Node)
      /\ \A i \in 1..Len(s) :
            next[s[i]] = Nth(s, i + 1) /\ s[i] # NULL /\ value[s[i]] \in Int
      /\ \A i, j \in 1..Len(s) : s[i] = s[j] => i = j
  BY <1>1, InMain
<1>2. /\ stage = "inner"
      /\ UNCHANGED <<list_vars, user, function, read, allocated, value, live, crashed,
                     current_node, next_node>>
  BY DEF Inner, list_vars, lists, fields
<1>3. AtInner(s) /\ read \in Seq(Values) /\ ~crashed /\ live \subseteq {LIST} /\ LIST \in live
  BY <1>0, <1>2 DEF MainInv
<1>4. PICK m \in Nat : m = Len(s)
  BY <1>0
<1>5. PICK p \in 1..m : \E q \in 1..p : Inside(s, p, q)
  BY <1>3, <1>4 DEF AtInner
<1>6. PICK q \in 1..p : Inside(s, p, q)
  BY <1>5
<1>7. Numbers' /\ Owns(s, {})'
  BY <1>2, <1>3, SameNumbers DEF AtInner, Owns
<1>8. SortedTo(s, p - 1)'
  BY <1>2, <1>6 DEF SortedTo, Ordered, Inside
<1>9. /\ current_node = s[p] /\ next_node = Nth(s, p + 1) /\ insertion_node = s[q]
      /\ q \in 1..m /\ Searched(s, q, value[s[p]])
  BY <1>4, <1>6 DEF Inside
<1>10. /\ passes <=> q # p /\ Passed(value[s[q]], value[s[p]])
       /\ insertion_node # current_node <=> q # p
  <2>1. insertion_node # current_node <=> q # p
    BY <1>0, <1>4, <1>9
  <2>2. value_of(insertion_node) = value[s[q]] /\ value_of(current_node) = value[s[p]]
    BY <1>0, <1>4, <1>9 DEF value_of
  <2> QED
    BY <2>1, <2>2 DEF passes, Passed
<1>11. CASE passes
  <2>1. q < p /\ q + 1 \in 1..p /\ q + 1 \in 1..m
    BY <1>10, <1>11
  <2>2. /\ stage' = "inner" /\ previous_node' = s[q] /\ insertion_node' = s[q + 1]
    <3>1. stage' = "inner" /\ previous_node' = s[q] /\ insertion_node' = next_of(s[q])
      BY <1>2, <1>9, <1>11 DEF Inner
    <3>2. next_of(s[q]) = s[q + 1]
      BY <1>0, <1>4, <1>9, <2>1 DEF next_of, Nth
    <3> QED
      BY <3>1, <3>2
  <2>3. Searched(s, q + 1, value[s[p]])'
    <3>1. Nth(s, (q + 1) - 1) = s[q]
      <4>1. (q + 1) - 1 = q
        BY <1>9
      <4> QED
        BY <1>4, <1>9, <4>1 DEF Nth
    <3>2. ASSUME NEW j \in 1..m, j < q + 1 PROVE Passed(value[s[j]], value[s[p]])
      <4>1. j = q \/ j < q
        BY <1>9, <3>2
      <4> QED
        BY <1>4, <1>9, <1>10, <1>11, <4>1 DEF Searched
    <3> QED
      BY <1>2, <1>4, <2>2, <3>1, <3>2 DEF Searched, Passed
  <2>4. Inside(s, p, q + 1)'
    BY <1>2, <1>8, <1>9, <2>2, <2>3 DEF Inside
  <2>5. AtInner(s)'
    BY <1>4, <1>7, <2>1, <2>4 DEF AtInner
  <2>6. MainInv(s)'
    BY <1>2, <1>3, <2>2, <2>5 DEF MainInv
  <2> QED
    BY <1>1, <1>2, <2>6, Rests
<1>12. CASE ~passes /\ q # p
  <2>1. /\ stage' = "unlink" /\ UNCHANGED <<insertion_node, previous_node>>
        /\ q \in 1..(p - 1)
    <3>1. q \in 1..(p - 1)
      BY <1>9, <1>12
    <3> QED
      BY <1>10, <1>12, <3>1 DEF Inner
  <2>2. Searched(s, q, value[s[p]])'
    BY <1>2, <1>9, <2>1 DEF Searched, Passed
  <2>3. Inside(s, p, q)'
    BY <1>2, <1>8, <1>9, <2>1, <2>2 DEF Inside
  <2>4. (~Passed(value[s[q]], value[s[p]]))'
    BY <1>2, <1>10, <1>12 DEF Passed
  <2>5. AtUnlink(s)'
    BY <1>4, <1>7, <2>1, <2>3, <2>4 DEF AtUnlink
  <2>6. MainInv(s)'
    BY <1>2, <1>3, <2>1, <2>5 DEF MainInv
  <2> QED
    BY <1>1, <1>2, <2>6, Rests
<1>13. CASE q = p
  <2>1. stage' = "advance" /\ ~passes
    BY <1>10, <1>13 DEF Inner
  <2>2. SortedTo(s, p)
    <3> SUFFICES ASSUME NEW j \in 1..m, NEW k \in 1..m, j < k, k <= p
                 PROVE  Ordered(value[s[j]], value[s[k]])
      BY <1>4 DEF SortedTo
    <3>1. CASE k = p
      <4>1. j < q
        BY <1>13, <3>1
      <4>2. Passed(value[s[j]], value[s[p]])
        BY <1>4, <1>9, <4>1 DEF Searched
      <4>3. value[s[j]] \in Int /\ value[s[p]] \in Int
        BY <1>0, <1>4
      <4> QED
        BY <3>1, <4>2, <4>3 DEF Passed, Ordered
    <3>2. CASE k # p
      <4>1. k <= p - 1
        BY <3>2
      <4> QED
        BY <1>4, <1>6, <4>1 DEF Inside, SortedTo
    <3> QED
      BY <3>1, <3>2
  <2>3. SortedTo(s, p)'
    BY <1>2, <2>2 DEF SortedTo, Ordered
  <2>4. current_node' = s[q] /\ next_node' = Nth(s, p + 1)
    BY <1>2, <1>9, <1>13
  <2>5. AtAdvance(s)'
    BY <1>4, <1>7, <2>3, <2>4 DEF AtAdvance
  <2>6. MainInv(s)'
    BY <1>2, <1>3, <2>1, <2>5 DEF MainInv
  <2> QED
    BY <1>1, <1>2, <2>6, Rests
<1> QED
  BY <1>11, <1>12, <1>13

LEMMA AdvanceStep ==
  ASSUME NEW sq, ListInv(sq), user = "main", Advance
  PROVE  \E tq : ListInv(tq)'
<1>1. PICK s : s = sq[LIST]
  OBVIOUS
<1>0. /\ MainInv(s) /\ s \in Seq(Node)
      /\ \A i \in 1..Len(s) : next[s[i]] = Nth(s, i + 1) /\ s[i] # NULL
  BY <1>1, InMain
<1>2. /\ stage = "advance" /\ stage' = "outer"
      /\ UNCHANGED <<list_vars, user, function, read, allocated, value, live, crashed>>
      /\ current_node' = IF function = "insertion_sort" THEN next_of(current_node)
                         ELSE next_node
  BY DEF Advance, At, list_vars, lists, fields
<1>3. AtAdvance(s) /\ read \in Seq(Values) /\ ~crashed /\ live \subseteq {LIST} /\ LIST \in live
  BY <1>0, <1>2 DEF MainInv
<1>4. PICK m \in Nat : m = Len(s)
  BY <1>0
<1>5. PICK p \in 1..m : \E q \in 1..p : /\ current_node = s[q] /\ next_node = Nth(s, p + 1)
                                         /\ SortedTo(s, p)
  BY <1>3, <1>4 DEF AtAdvance
<1>6. PICK q \in 1..p : current_node = s[q] /\ next_node = Nth(s, p + 1) /\ SortedTo(s, p)
  BY <1>5
<1>7. Numbers' /\ Owns(s, {})'
  BY <1>2, <1>3, SameNumbers DEF AtAdvance, Owns
<1>8. \E r \in 1..(m + 1) : current_node' = Nth(s, r) /\ SortedTo(s, r - 1)'
  <2>1. CASE function = "insertion_sort"
    <3>1. q \in 1..m /\ q + 1 \in 1..(m + 1) /\ (q + 1) - 1 = q
      BY <1>4
    <3>2. current_node' = Nth(s, q + 1)
      BY <1>0, <1>2, <1>4, <1>6, <2>1, <3>1 DEF next_of
    <3>3. SortedTo(s, q)
      <4>1. \A k \in 1..m : k <= q => k <= p
        BY <1>4
      <4> QED
        BY <1>4, <1>6, <4>1 DEF SortedTo
    <3>4. SortedTo(s, q)'
      BY <1>2, <3>3 DEF SortedTo, Ordered
    <3> QED
      BY <3>1, <3>2, <3>4
  <2>2. CASE function # "insertion_sort"
    <3>1. p + 1 \in 1..(m + 1) /\ (p + 1) - 1 = p
      BY <1>4
    <3>2. SortedTo(s, p)'
      BY <1>2, <1>6 DEF SortedTo, Ordered
    <3> QED
      BY <1>2, <1>6, <2>2, <3>1, <3>2
  <2> QED
    BY <2>1, <2>2
<1>9. AtOuter(s)'
  BY <1>4, <1>7, <1>8 DEF AtOuter
<1>10. MainInv(s)'
  BY <1>2, <1>3, <1>9 DEF MainInv
<1> QED
  BY <1>1, <1>2, <1>10, Rests

\* A node of the list is unlinked.
LEMMA UnlinkedInMain ==
  ASSUME NEW sq, ListInv(sq), user = "main", LIST \in live, NEW p \in 1..Len(sq[LIST]),
         list_unlink_node(LIST, sq[LIST][p])
  PROVE  /\ UNCHANGED <<allocated, value, live, crashed>>
         /\ \E tq : /\ Lists(tq)'
                    /\ ShrinksTo(sq[LIST], tq[LIST], p)
                    /\ Owns(sq[LIST], {}) => Owns(tq[LIST], {sq[LIST][p]})'
                    /\ NotIn(tq[LIST], sq[LIST][p])
<1>0. /\ Lists(sq) /\ LIST \in ListId /\ sq[LIST][p] \in allocated
      /\ \A i, j \in 1..Len(sq[LIST]) : sq[LIST][i] = sq[LIST][j] => i = j
  BY InMain
<1>1. In(LIST, sq[LIST][p])
  BY <1>0, InOf
<1>2. PICK r \in 1..Len(sq[LIST]) : sq[LIST][r] = sq[LIST][p] /\ Removes(sq, LIST, r)
  BY <1>0, <1>1, Unlinked
<1>3. Removes(sq, LIST, p)
  BY <1>0, <1>2
<1>4. UNCHANGED crashed
  BY DEF list_unlink_node, Answer
<1>5. UNCHANGED <<allocated, value, live>>
  BY <1>3 DEF Removes
<1> QED
  BY <1>3, <1>4, <1>5, Shrunk

LEMMA UnlinkStep ==
  ASSUME NEW sq, ListInv(sq), user = "main", Unlink
  PROVE  \E tq : ListInv(tq)'
<1>1. PICK s : s = sq[LIST]
  OBVIOUS
<1>0. MainInv(s) /\ s \in Seq(Node)
  BY <1>1, InMain
<1>2. /\ stage = "unlink" /\ stage' = "insert" /\ list_unlink_node(LIST, current_node)
      /\ UNCHANGED <<user, function, cursors, read>>
  BY DEF Unlink, At
<1>3. AtUnlink(s) /\ read \in Seq(Values) /\ ~crashed /\ live \subseteq {LIST} /\ LIST \in live
  BY <1>0, <1>2 DEF MainInv
<1>4. PICK m \in Nat : m = Len(s)
  BY <1>0
<1>5. PICK p \in 1..m : \E q \in 1..(p - 1) :
         Inside(s, p, q) /\ ~Passed(value[s[q]], value[s[p]])
  BY <1>3, <1>4 DEF AtUnlink
<1>6. PICK q \in 1..(p - 1) : Inside(s, p, q) /\ ~Passed(value[s[q]], value[s[p]])
  BY <1>5
<1>7. current_node = s[p]
  BY <1>6 DEF Inside
<1>8. /\ UNCHANGED <<allocated, value, live, crashed>>
      /\ \E tq : /\ Lists(tq)' /\ ShrinksTo(s, tq[LIST], p)
                 /\ Owns(s, {}) => Owns(tq[LIST], {s[p]})'
                 /\ NotIn(tq[LIST], s[p])
  BY <1>1, <1>2, <1>3, <1>4, <1>7, UnlinkedInMain
<1>9. PICK tq : /\ Lists(tq)' /\ ShrinksTo(s, tq[LIST], p)
                /\ Owns(s, {}) => Owns(tq[LIST], {s[p]})'
                /\ NotIn(tq[LIST], s[p])
  BY <1>8
<1>10. PICK t : t = tq[LIST]
  OBVIOUS
<1>11. PICK n : n = s[p]
  OBVIOUS
<1>12. /\ Len(t) = m - 1
       /\ \A k \in 1..(m - 1) : t[k] = IF k < p THEN s[k] ELSE s[k + 1]
       /\ \A k \in Int : Nth(t, k) = IF k < p THEN Nth(s, k)
                                     ELSE IF k = 0 THEN NULL ELSE Nth(s, k + 1)
  BY <1>4, <1>9, <1>10 DEF ShrinksTo
<1>13. /\ p - 1 \in 1..(m - 1) /\ p - 1 \in Int /\ q - 1 \in Int /\ q < p /\ q - 1 < p
       /\ \A k \in 1..(m - 1) : k <= p - 1 => k < p /\ k \in 1..m
       /\ \A k \in 1..(m - 1) : k < q => k < p /\ k \in 1..m
       /\ (p - 1) + 1 = p /\ p \in Int /\ ~(p < p) /\ p # 0 /\ q \in 1..(m - 1)
  BY <1>4
<1>14. UNCHANGED <<current_node, next_node, previous_node>> /\ current_node' = n
  BY <1>2, <1>7, <1>11 DEF cursors
<1>15. next_node' = Nth(t, (p - 1) + 1)
  BY <1>6, <1>12, <1>13, <1>14 DEF Inside
<1>16. SortedTo(t, p - 1)'
  <2>1. SortedTo(s, p - 1)
    BY <1>6 DEF Inside
  <2> SUFFICES ASSUME NEW j \in 1..(m - 1), NEW k \in 1..(m - 1), j < k, k <= p - 1
               PROVE  Ordered(value[t[j]], value[t[k]])'
    BY <1>12 DEF SortedTo
  <2>2. j < p /\ k < p /\ j \in 1..m /\ k \in 1..m
    BY <1>13
  <2>3. Ordered(value[s[j]], value[s[k]])
    BY <1>4, <2>1, <2>2 DEF SortedTo
  <2> QED
    BY <1>2, <1>8, <1>12, <2>2, <2>3 DEF Ordered
<1>17. Searched(t, q, value[n])'
  <2>1. Searched(s, q, value[n])
    BY <1>6, <1>11 DEF Inside
  <2>2. previous_node' = Nth(t, q - 1)
    BY <1>12, <1>13, <1>14, <2>1 DEF Searched
  <2>3. ASSUME NEW j \in 1..(m - 1), j < q PROVE Passed(value[t[j]], value[n])'
    <3>1. j < p /\ j \in 1..m
      BY <1>13, <2>3
    <3>2. Passed(value[s[j]], value[n])
      BY <1>4, <2>1, <2>3, <3>1 DEF Searched
    <3> QED
      BY <1>2, <1>8, <1>12, <3>1, <3>2 DEF Passed
  <2> QED
    BY <1>12, <2>2, <2>3 DEF Searched
<1>18. (~Passed(value[t[q]], value[n]))'
  BY <1>2, <1>6, <1>8, <1>11, <1>12, <1>13 DEF Passed
<1>19. Numbers'
  BY <1>2, <1>3, <1>8, SameNumbers DEF AtUnlink
<1>20. NotIn(t, n)' /\ Owns(t, {n})'
  BY <1>3, <1>9, <1>10, <1>11 DEF AtUnlink, NotIn
<1>21. \E p1 \in 1..Len(t) : \E q1 \in 1..p1 :
          /\ next_node' = Nth(t, p1 + 1)
          /\ SortedTo(t, p1)' /\ Searched(t, q1, value[n])'
          /\ (~Passed(value[t[q1]], value[n]))'
  BY <1>12, <1>13, <1>15, <1>16, <1>17, <1>18
<1>22. AtInsert(t)'
  BY <1>14, <1>19, <1>20, <1>21 DEF AtInsert
<1>23. MainInv(t)'
  BY <1>2, <1>3, <1>8, <1>22 DEF MainInv
<1> QED
  BY <1>2, <1>9, <1>10, <1>23 DEF ListInv

\* The search has stopped at the q-th node: the current one is put in front of
\* it.  It is taken for no other node, for a list with two nodes or more has
\* none without neighbours.
LEMMA PutInFront ==
  ASSUME NEW sq, ListInv(sq), user = "main", Insert, LIST \in live,
         NEW n \in allocated, n = current_node, NotIn(sq[LIST], n),
         NEW q \in 1..Len(sq[LIST]), previous_node = Nth(sq[LIST], q - 1)
  PROVE  /\ q - 1 \in 0..Len(sq[LIST]) /\ Inserts(sq, LIST, q - 1, n)
         /\ UNCHANGED crashed
<1>1. PICK s : s = sq[LIST]
  OBVIOUS
<1>0. /\ Lists(sq) /\ s \in Seq(Node) /\ LIST \in ListId /\ n \in Node
      /\ ~Among(sq, n) /\ Walk(LIST) = s
      /\ \A i \in 1..Len(s) : s[i] \in allocated
      /\ \A i, j \in 1..Len(s) : s[i] = s[j] => i = j
  BY <1>1, InMain DEF NotIn
<1>2. PICK m \in Nat : m = Len(s)
  BY <1>0
<1>3. q \in 1..m /\ q - 1 \in 0..m /\ NotIn(s, n) /\ previous_node = Nth(s, q - 1)
  <2>1. q \in 1..m
    BY <1>1, <1>2
  <2> QED
    BY <1>1, <2>1
<1>4. CASE previous_node = NULL
  <2>1. q - 1 = 0
    <3>1. q - 1 \notin 1..m
      BY <1>0, <1>2, <1>3, <1>4, NthIs
    <3> QED
      BY <1>3, <3>1
  <2>2. list_add_front(LIST, n)
    BY <1>4 DEF Insert
  <2>3. UNCHANGED crashed
    BY <2>2 DEF list_add_front
  <2>4. Inserts(sq, LIST, 0, n)
    BY <1>0, <2>2, AddedFront
  <2> QED
    BY <1>1, <1>2, <1>3, <2>1, <2>3, <2>4
<1>5. CASE previous_node # NULL
  <2>1. q - 1 \in 1..m /\ previous_node = s[q - 1] /\ m # 1
    <3>1. q - 1 \in 1..m /\ previous_node = s[q - 1]
      BY <1>2, <1>3, <1>5 DEF Nth
    <3> QED
      BY <1>3, <3>1
  <2>2. PICK b : b = s[q - 1]
    OBVIOUS
  <2>3. b \in allocated /\ list_insert_after(LIST, n, b)
    BY <1>0, <1>2, <1>5, <2>1, <2>2 DEF Insert
  <2>4. In(LIST, b)
    BY <1>0, <1>1, <1>2, <2>1, <2>2, InOf
  <2>5. ~In(LIST, n)
    <3>1. \A i \in 1..Len(sq[LIST]) : sq[LIST][i] # n
      BY <1>1, <1>3 DEF NotIn
    <3> QED
      BY <1>0, <3>1, InOf
  <2>6. ~Present(LIST, n)
    BY <1>0, <1>1, <1>2, <2>1, <2>5, PresentOf
  <2>7. b \in Node
    BY <1>0, <1>2, <2>1, <2>2
  <2>8. Present(LIST, b) /\ ~Confusable(LIST, b)
    BY <1>0, <2>4, <2>7, PresentOf DEF Confusable
  <2>9. PICK r \in 1..Len(sq[LIST]) :
           sq[LIST][r] = b /\ Inserts(sq, LIST, r, n) /\ UNCHANGED crashed
    BY <1>0, <2>3, <2>6, <2>8, InsertedAfter
  <2>10. r = q - 1
    BY <1>0, <1>1, <1>2, <2>1, <2>2, <2>9
  <2> QED
    BY <1>1, <1>2, <1>3, <2>9, <2>10
<1> QED
  BY <1>4, <1>5

\* A sorted prefix stays sorted when the node is put where the search stopped.
LEMMA StillSorted ==
  ASSUME NEW s \in Seq(Node), NEW t, NEW n \in Node, value \in [Node -> Int],
         NEW p \in 1..Len(s), NEW q \in 1..p, GrowsTo(s, t, q - 1, n),
         SortedTo(s, p), \A j \in 1..Len(s) : j < q => Passed(value[s[j]], value[n]),
         ~Passed(value[s[q]], value[n])
  PROVE  SortedTo(t, p + 1)
<1>1. PICK m \in Nat : m = Len(s)
  OBVIOUS
<1>2. /\ Len(t) = m + 1
      /\ \A k \in 1..(m + 1) :
            t[k] = IF k <= q - 1 THEN s[k] ELSE IF k = (q - 1) + 1 THEN n ELSE s[k - 1]
  BY <1>1 DEF GrowsTo
<1>3. p \in 1..m /\ q \in 1..m /\ (q - 1) + 1 = q /\ p \in Int /\ q \in Int
  BY <1>1
<1>4. \A i \in 1..m : value[s[i]] \in Int
  BY <1>1
<1>5. value[n] \in Int
  OBVIOUS
<1>6. \A i, j \in 1..m : i < j /\ j <= p => Ordered(value[s[i]], value[s[j]])
  BY <1>1 DEF SortedTo
<1>7. \A i \in 1..m : i < q => Ordered(value[s[i]], value[n])
  BY <1>1, <1>4, <1>5 DEF Passed, Ordered
<1>8. ASSUME NEW i \in 1..m, q <= i, i <= p PROVE Ordered(value[n], value[s[i]])
  <2>1. i = q \/ q < i
    BY <1>3, <1>8
  <2>2. value[s[i]] \in Int /\ value[s[q]] \in Int
    BY <1>3, <1>4
  <2>3. i = q \/ Ordered(value[s[q]], value[s[i]])
    BY <1>3, <1>6, <1>8, <2>1
  <2> QED
    BY <1>5, <2>2, <2>3 DEF Ordered, Passed
<1> SUFFICES ASSUME NEW j \in 1..(m + 1), NEW k \in 1..(m + 1), j < k, k <= p + 1
             PROVE  Ordered(value[t[j]], value[t[k]])
  BY <1>2 DEF SortedTo
<1>9. ASSUME NEW i \in 1..(m + 1)
      PROVE  \/ i < q /\ i \in 1..m /\ t[i] = s[i]
             \/ i = q /\ t[i] = n
             \/ i > q /\ i - 1 \in 1..m /\ t[i] = s[i - 1]
  BY <1>2, <1>3
<1>10. CASE k < q
  <2>1. j < q /\ k <= p
    BY <1>3, <1>10
  <2>2. j \in 1..m /\ k \in 1..m /\ t[j] = s[j] /\ t[k] = s[k]
    BY <1>3, <1>9, <1>10, <2>1
  <2> QED
    BY <1>6, <2>1, <2>2
<1>11. CASE k = q
  <2>1. j < q /\ j \in 1..m /\ t[j] = s[j] /\ t[k] = n
    BY <1>3, <1>9, <1>11
  <2> QED
    BY <1>7, <2>1
<1>12. CASE k > q
  <2>1. k - 1 \in 1..m /\ t[k] = s[k - 1] /\ k - 1 <= p /\ q <= k - 1
    BY <1>3, <1>9, <1>12
  <2>2. CASE j < q
    <3>1. j \in 1..m /\ t[j] = s[j] /\ j < k - 1
      BY <1>3, <1>9, <2>1, <2>2
    <3> QED
      BY <1>6, <2>1, <3>1
  <2>3. CASE j = q
    <3>1. t[j] = n
      BY <1>3, <1>9, <2>3
    <3> QED
      BY <1>8, <2>1, <3>1
  <2>4. CASE j > q
    <3>1. j - 1 \in 1..m /\ t[j] = s[j - 1] /\ j - 1 < k - 1
      BY <1>3, <1>9, <2>1, <2>4
    <3> QED
      BY <1>6, <2>1, <3>1
  <2> QED
    BY <1>3, <2>2, <2>3, <2>4
<1> QED
  BY <1>3, <1>10, <1>11, <1>12

LEMMA InsertStep ==
  ASSUME NEW sq, ListInv(sq), user = "main", Insert
  PROVE  \E tq : ListInv(tq)'
<1>1. PICK s : s = sq[LIST]
  OBVIOUS
<1>0. MainInv(s) /\ s \in Seq(Node) /\ value \in [Node -> Int]
  BY <1>1, InMain DEF ListTypeOK
<1>2. /\ stage = "insert" /\ stage' = "advance"
      /\ UNCHANGED <<user, function, current_node, next_node, read>>
  BY DEF Insert, At, cursors
<1>3. AtInsert(s) /\ read \in Seq(Values) /\ ~crashed /\ live \subseteq {LIST} /\ LIST \in live
  BY <1>0, <1>2 DEF MainInv
<1>4. PICK m \in Nat : m = Len(s)
  BY <1>0
<1>5. PICK n : n = current_node
  OBVIOUS
<1>6. NotIn(s, n) /\ Owns(s, {n}) /\ Numbers /\ n \in Node /\ n \in allocated
  BY <1>3, <1>5 DEF AtInsert, NotIn, Owns
<1>7. PICK p \in 1..m : \E q \in 1..p :
          /\ next_node = Nth(s, p + 1)
          /\ SortedTo(s, p) /\ Searched(s, q, value[n])
          /\ ~Passed(value[s[q]], value[n])
  BY <1>3, <1>4, <1>5 DEF AtInsert
<1>8. PICK q \in 1..p : /\ next_node = Nth(s, p + 1)
                        /\ SortedTo(s, p) /\ Searched(s, q, value[n])
                        /\ ~Passed(value[s[q]], value[n])
  BY <1>7
<1>9. q \in 1..m /\ previous_node = Nth(s, q - 1)
  BY <1>8 DEF Searched
<1>10. q - 1 \in 0..Len(s) /\ Inserts(sq, LIST, q - 1, n) /\ UNCHANGED crashed
  BY <1>1, <1>3, <1>4, <1>5, <1>6, <1>9, PutInFront
<1>11. UNCHANGED <<allocated, value, live>>
  BY <1>10 DEF Inserts
<1>12. PICK tq : /\ Lists(tq)' /\ GrowsTo(s, tq[LIST], q - 1, n)
                 /\ Owns(s, {n}) => Owns(tq[LIST], {})'
  BY <1>1, <1>3, <1>6, <1>10, Grown
<1>13. PICK t : t = tq[LIST]
  OBVIOUS
<1>14. SortedTo(t, p + 1)
  <2>1. \A j \in 1..Len(s) : j < q => Passed(value[s[j]], value[n])
    BY <1>8 DEF Searched
  <2>2. p \in 1..Len(s) /\ GrowsTo(s, t, q - 1, n)
    BY <1>4, <1>12, <1>13
  <2> QED
    BY <1>0, <1>6, <1>8, <2>1, <2>2, StillSorted
<1>15. /\ Len(t) = m + 1 /\ t[q] = n /\ Nth(t, (p + 1) + 1) = Nth(s, p + 1)
       /\ p + 1 \in 1..(m + 1) /\ q \in 1..(p + 1)
  <2>1. q \in 1..(m + 1) /\ ~(q <= q - 1) /\ q = (q - 1) + 1
    BY <1>4
  <2>2. /\ p + 2 \in Int /\ ~(p + 2 <= q - 1) /\ p + 2 # (q - 1) + 1
        /\ (p + 2) - 1 = p + 1 /\ (p + 1) + 1 = p + 2
        /\ p + 1 \in 1..(m + 1) /\ q \in 1..(p + 1)
    BY <1>4
  <2>3. Nth(t, p + 2) = Nth(s, (p + 2) - 1)
    BY <1>12, <1>13, <2>2 DEF GrowsTo
  <2>4. Len(t) = m + 1 /\ t[q] = n
    BY <1>4, <1>12, <1>13, <2>1 DEF GrowsTo
  <2> QED
    BY <2>2, <2>3, <2>4
<1>16. SortedTo(t, p + 1)'
  BY <1>2, <1>11, <1>14 DEF SortedTo, Ordered
<1>17. Numbers'
  BY <1>2, <1>6, <1>11, SameNumbers
<1>18. Owns(t, {})'
  BY <1>6, <1>12, <1>13
<1>19. current_node' = t[q] /\ next_node' = Nth(t, (p + 1) + 1)
  BY <1>2, <1>5, <1>8, <1>15
<1>20. AtAdvance(t)'
  BY <1>15, <1>16, <1>17, <1>18, <1>19 DEF AtAdvance
<1>21. MainInv(t)'
  BY <1>2, <1>3, <1>10, <1>11, <1>20 DEF MainInv
<1> QED
  BY <1>2, <1>12, <1>13, <1>21 DEF ListInv

LEMMA OddStep ==
  ASSUME NEW sq, ListInv(sq), user = "main", Odd
  PROVE  \E tq : ListInv(tq)'
<1>1. PICK s : s = sq[LIST]
  OBVIOUS
<1>0. /\ MainInv(s) /\ s \in Seq(Node) /\ allocated \subseteq Node
      /\ \A i \in 1..Len(s) : next[s[i]] = Nth(s, i + 1) /\ s[i] # NULL
  BY <1>1, InMain DEF ListTypeOK
<1>2. stage = "odd" /\ UNCHANGED <<user, read>>
  BY DEF Odd
<1>3. AtOdd(s) /\ read \in Seq(Values) /\ ~crashed /\ live \subseteq {LIST} /\ LIST \in live
  BY <1>0, <1>2 DEF MainInv
<1>4. PICK m \in Nat : m = Len(s)
  BY <1>0
<1>5. PICK p \in 1..(m + 1) : current_node = Nth(s, p) /\ Evens(s, p)
  BY <1>3, <1>4 DEF AtOdd
<1>6. Owns(s, {})
  BY <1>3 DEF AtOdd
<1>7. CASE current_node = NULL
  <2>1. /\ stage' = "start" /\ function' = "descending_order"
        /\ UNCHANGED <<list_vars, allocated, value, live, crashed>>
    BY <1>7 DEF Odd, list_vars, lists, fields
  <2>2. \A k \in 1..m : k < p
    <3>1. p \notin 1..m
      BY <1>0, <1>4, <1>5, <1>7, NthIs
    <3> QED
      BY <1>4, <3>1
  <2>3. \A k \in 1..m : rem2(value[s[k]]) # 1
    BY <1>4, <1>5, <2>2 DEF Evens
  <2>4. ASSUME NEW v \in Values, rem2(v) = 1 PROVE NumOf(v) = 0
    <3>1. \A n \in allocated : value[n] # v
      BY <1>0, <1>4, <1>6, <2>3, <2>4 DEF Owns
    <3>2. {n \in allocated : value[n] = v} = {}
      BY <3>1
    <3> QED
      BY <3>2, FS_EmptySet DEF NumOf
  <2>5. Numbers'
    <3>1. \A v \in Values : NumOf(v)' = NumOf(v) /\ Count(read, v)' = Count(read, v)
      BY <1>2, <2>1 DEF NumOf, Count
    <3>2. Len(read') > 1 /\ \A v \in Values : rem2(v) # 1 => NumOf(v) = Count(read, v)
      BY <1>2, <1>5 DEF Evens
    <3> QED
      BY <2>1, <2>4, <3>1, <3>2 DEF Numbers
  <2>6. AtStart(s)'
    BY <1>6, <2>1, <2>5 DEF AtStart, Owns
  <2>7. MainInv(s)'
    BY <1>2, <1>3, <2>1, <2>6 DEF MainInv
  <2> QED
    BY <1>1, <1>2, <2>1, <2>7, Rests
<1>8. CASE current_node # NULL
  <2>1. p \in 1..m /\ current_node = s[p] /\ next[current_node] = Nth(s, p + 1)
    BY <1>0, <1>4, <1>5, <1>8 DEF Nth
  <2>2. /\ next_node' = Nth(s, p + 1)
        /\ UNCHANGED <<function, insertion_node, previous_node>>
        /\ \/ /\ rem2(value[s[p]]) = 1
              /\ list_unlink_node(LIST, s[p])
              /\ stage' = "free"
              /\ UNCHANGED current_node
           \/ /\ rem2(value[s[p]]) # 1
              /\ current_node' = next_node'
              /\ UNCHANGED <<list_vars, stage>>
    BY <1>8, <2>1 DEF Odd
  <2>3. CASE /\ rem2(value[s[p]]) = 1 /\ list_unlink_node(LIST, s[p])
             /\ stage' = "free" /\ UNCHANGED current_node
    <3>1. /\ UNCHANGED <<allocated, value, live, crashed>>
          /\ \E tq : /\ Lists(tq)' /\ ShrinksTo(s, tq[LIST], p)
                     /\ Owns(s, {}) => Owns(tq[LIST], {s[p]})'
                     /\ NotIn(tq[LIST], s[p])
      BY <1>1, <1>3, <1>4, <2>1, <2>3, UnlinkedInMain
    <3>2. PICK tq : /\ Lists(tq)' /\ ShrinksTo(s, tq[LIST], p)
                    /\ Owns(s, {}) => Owns(tq[LIST], {s[p]})'
                    /\ NotIn(tq[LIST], s[p])
      BY <3>1
    <3>3. PICK t : t = tq[LIST]
      OBVIOUS
    <3>4. PICK n : n = s[p]
      OBVIOUS
    <3>5. /\ Len(t) = m - 1 /\ Nth(t, p) = Nth(s, p + 1)
          /\ \A k \in 1..(m - 1) : k < p => t[k] = s[k] /\ k \in 1..m
      <4>1. p \in Int /\ ~(p < p) /\ p # 0 /\ \A k \in 1..(m - 1) : k \in 1..m
        BY <1>4, <2>1
      <4> QED
        BY <1>4, <3>2, <3>3, <4>1 DEF ShrinksTo
    <3>6. Evens(t, p)'
      <4>1. \A v \in Values : NumOf(v)' = NumOf(v) /\ Count(read, v)' = Count(read, v)
        BY <1>2, <3>1 DEF NumOf, Count
      <4>2. \A k \in 1..(m - 1) : k < p => rem2(value'[t[k]]) # 1
        BY <1>4, <1>5, <3>1, <3>5 DEF Evens
      <4> QED
        BY <1>2, <1>5, <3>5, <4>1, <4>2 DEF Evens
    <3>7. p \in 1..(Len(t) + 1)
      BY <1>4, <2>1, <3>5
    <3>8. AtFree(t)'
      <4>1. NotIn(t, n) /\ Owns(t, {n})' /\ current_node' = n
        BY <1>6, <2>1, <2>3, <3>2, <3>3, <3>4
      <4>2. rem2(value[current_node])' = 1
        BY <2>3, <3>1, <3>4, <4>1
      <4>3. next_node' = Nth(t, p)
        BY <2>2, <3>5
      <4> QED
        BY <3>6, <3>7, <4>1, <4>2, <4>3 DEF AtFree, NotIn
    <3>9. MainInv(t)'
      BY <1>2, <1>3, <2>3, <3>1, <3>8 DEF MainInv
    <3> QED
      BY <1>2, <3>2, <3>3, <3>9 DEF ListInv
  <2>4. CASE /\ rem2(value[s[p]]) # 1 /\ current_node' = next_node'
             /\ UNCHANGED <<list_vars, stage>>
    <3>1. UNCHANGED <<allocated, value, live, crashed>>
      BY <2>4 DEF list_vars, lists, fields
    <3>2. Evens(s, p + 1)'
      <4>1. \A v \in Values : NumOf(v)' = NumOf(v) /\ Count(read, v)' = Count(read, v)
        BY <1>2, <3>1 DEF NumOf, Count
      <4>2. \A k \in 1..m : k < p + 1 => k < p \/ k = p
        BY <2>1
      <4>3. \A k \in 1..m : k < p + 1 => rem2(value'[s[k]]) # 1
        BY <1>4, <1>5, <2>4, <3>1, <4>2 DEF Evens
      <4> QED
        BY <1>2, <1>4, <1>5, <4>1, <4>3 DEF Evens
    <3>3. p + 1 \in 1..(m + 1) /\ current_node' = Nth(s, p + 1)
      BY <2>1, <2>2, <2>4
    <3>4. AtOdd(s)'
      BY <1>4, <1>6, <3>1, <3>2, <3>3 DEF AtOdd, Owns
    <3>5. MainInv(s)'
      BY <1>2, <1>3, <2>4, <3>1, <3>4 DEF MainInv
    <3> QED
      BY <1>1, <1>2, <2>4, <3>5, Rests
  <2> QED
    BY <2>2, <2>3, <2>4
<1> QED
  BY <1>7, <1>8

LEMMA FreeOddStep ==
  ASSUME NEW sq, ListInv(sq), user = "main", FreeOdd
  PROVE  \E tq : ListInv(tq)'
<1>1. PICK s : s = sq[LIST]
  OBVIOUS
<1>0. /\ Lists(sq) /\ MainInv(s) /\ s \in Seq(Node) /\ allocated \subseteq Node
      /\ \A x \in Node : ~Among(sq, x) <=> NotIn(s, x)
  BY <1>1, InMain DEF ListTypeOK
<1>2. PICK n : n = current_node
  OBVIOUS
<1>3. /\ stage = "free" /\ stage' = "odd" /\ UNCHANGED <<user, function, read>>
      /\ list_free_node(n) /\ current_node' = next_node
  BY <1>2 DEF FreeOdd, At
<1>4. AtFree(s) /\ read \in Seq(Values) /\ ~crashed /\ live \subseteq {LIST} /\ LIST \in live
  BY <1>0, <1>3 DEF MainInv
<1>5. n \in Node /\ NotIn(s, n) /\ ~Among(sq, n) /\ n \in allocated /\ Owns(s, {n})
  BY <1>0, <1>2, <1>4 DEF AtFree, NotIn, Owns
<1>6. UNCHANGED crashed
  BY <1>3 DEF list_free_node
<1>7. /\ Lists(sq)' /\ allocated' = allocated \ {n} /\ live' = live
      /\ \A x \in Node : x # n => value'[x] = value[x]
  BY <1>0, <1>3, <1>5, Freed
<1>8. Owns(s, {})'
  BY <1>5, <1>7 DEF Owns, NotIn
<1>9. PICK p \in 1..(Len(s) + 1) : next_node = Nth(s, p) /\ Evens(s, p)
  BY <1>4 DEF AtFree
<1>10. ASSUME NEW v \in Values, rem2(v) # 1 PROVE NumOf(v)' = NumOf(v)
  <2>1. value[n] # v
    BY <1>2, <1>4, <1>10 DEF AtFree
  <2>2. {x \in allocated' : value'[x] = v} = {x \in allocated : value[x] = v}
    BY <1>0, <1>7, <2>1
  <2> QED
    BY <2>2 DEF NumOf
<1>11. Evens(s, p)'
  <2>1. ASSUME NEW k \in 1..Len(s) PROVE value'[s[k]] = value[s[k]]
    BY <1>0, <1>5, <1>7 DEF NotIn
  <2>2. \A v \in Values : Count(read, v)' = Count(read, v)
    BY <1>3 DEF Count
  <2> QED
    BY <1>3, <1>9, <1>10, <2>1, <2>2 DEF Evens
<1>12. AtOdd(s)'
  BY <1>3, <1>8, <1>9, <1>11 DEF AtOdd
<1>13. MainInv(s)'
  BY <1>3, <1>4, <1>6, <1>7, <1>12 DEF MainInv
<1> QED
  BY <1>1, <1>3, <1>7, <1>13 DEF ListInv

LEMMA PrintListStep ==
  ASSUME NEW sq, ListInv(sq), user = "main", PrintList
  PROVE  \E tq : ListInv(tq)'
<1>1. PICK s : s = sq[LIST]
  OBVIOUS
<1>0. /\ MainInv(s) /\ s \in Seq(Node) /\ Walk(LIST) = s /\ allocated \subseteq Node
      /\ \A i, j \in 1..Len(s) : s[i] = s[j] => i = j
  BY <1>1, InMain DEF ListTypeOK
<1>2. /\ stage = "print" /\ stage' = "cleanup"
      /\ UNCHANGED <<list_vars, user, function, read, live, crashed>>
      /\ printed' = [k \in 1..Len(s) |-> value[s[k]]]
  BY <1>0 DEF PrintList, At, list_vars, lists
<1>3. AtPrint(s) /\ read \in Seq(Values) /\ ~crashed /\ live \subseteq {LIST} /\ LIST \in live
  BY <1>0, <1>2 DEF MainInv
<1>4. PICK t : t = printed'
  OBVIOUS
<1>5. PICK m \in Nat : m = Len(s)
  BY <1>0
<1>6. Len(t) = m /\ \A k \in 1..m : t[k] = value[s[k]]
  <2>1. t = [k \in 1..m |-> value[s[k]]]
    BY <1>2, <1>4, <1>5
  <2>2. Len(t) = m
    <3>1. \A f : f = [k \in 1..m |-> value[s[k]]] => Len(f) = m
      OBVIOUS
    <3> QED
      BY <2>1, <3>1
  <2> QED
    BY <2>1, <2>2
<1>7. \A v : Count(t, v) = NumOf(v)
  BY <1>0, <1>3, <1>5, <1>6, Counting DEF AtPrint
<1>8. /\ \A j, k \in 1..Len(t) : j < k => Ordered(t[j], t[k])
      /\ \A v \in Values :
            \/ Count(t, v) = Count(read, v)
            \/ /\ rem2(v) = 1 /\ Count(t, v) = 0 /\ Len(read) > 1
               /\ function = "descending_order"
  <2>1. \A k \in 1..m : k <= m
    OBVIOUS
  <2>2. \A j, k \in 1..m : j < k => Ordered(value[s[j]], value[s[k]])
    BY <1>3, <1>5, <2>1 DEF AtPrint, SortedTo
  <2>3. \A j, k \in 1..Len(t) : j < k => Ordered(t[j], t[k])
    BY <1>6, <2>2
  <2>4. \A v \in Values :
            \/ Count(t, v) = Count(read, v)
            \/ /\ rem2(v) = 1 /\ Count(t, v) = 0 /\ Len(read) > 1
               /\ function = "descending_order"
    BY <1>3, <1>7 DEF AtPrint, Numbers
  <2> QED
    BY <2>3, <2>4
<1>9. SortedOutput'
  BY <1>2, <1>4, <1>8 DEF SortedOutput, Ordered, Count
<1>10. MainInv(s)'
  BY <1>2, <1>3, <1>9 DEF MainInv
<1> QED
  BY <1>1, <1>2, <1>10, Rests

LEMMA CleanUpStep ==
  ASSUME NEW sq, ListInv(sq), user = "main", CleanUp
  PROVE  \E tq : ListInv(tq)'
<1>0. Lists(sq) /\ MainInv(sq[LIST])
  BY InMain
<1>1. /\ stage = "cleanup" /\ stage' = "done" /\ list_cleanup(LIST)
      /\ UNCHANGED <<user, read>>
  BY DEF CleanUp, At
<1>2. read \in Seq(Values) /\ ~crashed /\ live \subseteq {LIST} /\ LIST \in live
  BY <1>0, <1>1 DEF MainInv
<1>3. PICK tq : Lists(tq)'
  BY <1>0, <1>1, <1>2, Cleaned
<1>4. live' \subseteq {LIST} /\ ~crashed'
  BY <1>1, <1>2 DEF list_cleanup
<1>5. MainInv(tq[LIST])'
  BY <1>1, <1>2, <1>4 DEF MainInv
<1> QED
  BY <1>1, <1>3, <1>5 DEF ListInv

-----------------------------------------------------------------------------
(* The theorems *)

WellFormed == user \in {"client", "main"} /\ \E sq : ListInv(sq)

LEMMA InitWellFormed == Init => WellFormed
<1> SUFFICES ASSUME Init PROVE WellFormed
  OBVIOUS
<1>1. PICK sq : sq = [l \in ListId |-> <<>>]
  OBVIOUS
<1>2. /\ ListInit /\ SortInit /\ user \in {"client", "main"}
  BY DEF Init
<1>3. /\ sq \in [ListId -> Seq(Node)] /\ LIST \in ListId
      /\ \A l \in ListId : sq[l] = <<>> /\ \A i : i \notin 1..Len(sq[l])
  BY <1>1, SortingAssumption
<1>4. ListTypeOK
  BY <1>2 DEF ListInit, ListTypeOK, Pointer
<1>5. Lists(sq)
  <2>1. Apart(sq) /\ Ends(sq) /\ Links(sq) /\ Loose(sq)
    BY <1>2, <1>3 DEF ListInit, Apart, Ends, Links, Loose, Nth
  <2> QED
    BY <1>3, <1>4, <2>1 DEF Lists
<1>6. AtReading(sq[LIST])
  <2>1. sq[LIST] = <<>> /\ Len(<<>>) = 0 /\ \A i : i \notin 1..0
    BY <1>3
  <2> QED
    BY <1>2, <2>1 DEF ListInit, SortInit, AtReading, Owns, IsRead
<1>7. MainInv(sq[LIST])
  <2>1. read \in Seq(Values)
    BY <1>2 DEF SortInit
  <2> QED
    BY <1>2, <1>6, <2>1 DEF ListInit, SortInit, MainInv
<1> QED
  BY <1>2, <1>5, <1>7 DEF ListInv, WellFormed, SortInit

LEMMA NextWellFormed == WellFormed /\ [Next]_vars => WellFormed'
<1> SUFFICES ASSUME WellFormed, [Next]_vars PROVE WellFormed'
  OBVIOUS
<1>1. PICK sq : ListInv(sq)
  BY DEF WellFormed
<1>2. CASE UNCHANGED vars
  <2>1. /\ UNCHANGED <<list_vars, lists, main_vars, user, function, stage, cursors, read>>
        /\ UNCHANGED <<current_node, next_node, insertion_node, previous_node, printed>>
        /\ UNCHANGED <<allocated, value, live, crashed, answer>>
    BY <1>2 DEF vars, list_vars, lists, fields, main_vars, cursors
  <2>2. Lists(sq)'
    BY <1>1, <2>1, ListsKept DEF ListInv
  <2>3. ASSUME user = "main" PROVE MainInv(sq[LIST])'
    <3>1. PICK s : s = sq[LIST]
      OBVIOUS
    <3>2. MainInv(s)
      BY <1>1, <2>3, <3>1 DEF ListInv
    <3>3. AtReading(s) => AtReading(s)'
      BY <2>1 DEF AtReading, Owns, IsRead
    <3>4. AtAdd(s) => AtAdd(s)'
      BY <2>1 DEF AtAdd, Owns, IsRead, NotIn
    <3>5. Numbers => Numbers'
      BY <2>1 DEF Numbers, NumOf, Count
    <3>6. AtStart(s) => AtStart(s)'
      BY <2>1, <3>5 DEF AtStart, Owns
    <3>7. AtOuter(s) => AtOuter(s)'
      BY <2>1, <3>5 DEF AtOuter, Owns, SortedTo, Ordered
    <3>8. AtInner(s) => AtInner(s)'
      BY <2>1, <3>5 DEF AtInner, Owns, Inside, SortedTo, Ordered, Searched, Passed
    <3>9. AtUnlink(s) => AtUnlink(s)'
      BY <2>1, <3>5 DEF AtUnlink, Owns, Inside, SortedTo, Ordered, Searched, Passed
    <3>10. AtInsert(s) => AtInsert(s)'
      BY <2>1, <3>5 DEF AtInsert, NotIn, Owns, SortedTo, Ordered, Searched, Passed
    <3>11. AtAdvance(s) => AtAdvance(s)'
      BY <2>1, <3>5 DEF AtAdvance, Owns, SortedTo, Ordered
    <3>12. AtOdd(s) => AtOdd(s)'
      BY <2>1 DEF AtOdd, Owns, Evens, NumOf, Count
    <3>13. AtFree(s) => AtFree(s)'
      BY <2>1 DEF AtFree, NotIn, Owns, Evens, NumOf, Count
    <3>14. AtPrint(s) => AtPrint(s)'
      BY <2>1, <3>5 DEF AtPrint, Owns, SortedTo, Ordered
    <3>15. SortedOutput => SortedOutput'
      BY <2>1 DEF SortedOutput, Count
    <3>16. MainInv(s)'
      BY <2>1, <3>2, <3>3, <3>4, <3>5, <3>6, <3>7, <3>8, <3>9,
         <3>10, <3>11, <3>12, <3>13, <3>14, <3>15 DEF MainInv
    <3> QED
      BY <3>1, <3>16
  <2> QED
    BY <1>1, <2>1, <2>2, <2>3 DEF ListInv, WellFormed
<1>3. CASE user = "main" /\ (Main \/ Work)
  <2>1. UNCHANGED user
    BY <1>3 DEF Main, Work, MakeList, Read, EndOfInput, AddBack, Start, Outer, Inner, Unlink,
       Insert, Advance, Odd, FreeOdd, PrintList, CleanUp, main_vars
  <2>2. ASSUME Main PROVE \E tq : ListInv(tq)'
    BY <1>1, <1>3, <2>2, MakeListStep, ReadStep, EndOfInputStep DEF Main
  <2>3. ASSUME Work PROVE \E tq : ListInv(tq)'
    BY <1>1, <1>3, <2>3, AddBackStep, StartStep, OuterStep, InnerStep, UnlinkStep,
       InsertStep, AdvanceStep, OddStep, FreeOddStep, PrintListStep, CleanUpStep DEF Work
  <2>4. \E tq : ListInv(tq)'
    BY <1>3, <2>2, <2>3
  <2> QED
    BY <1>3, <2>1, <2>4 DEF WellFormed
<1>4. CASE user = "client" /\ Client(CLIENT_VALUES) /\ UNCHANGED main_vars
  <2>1. PICK tq : Lists(tq)'
    BY <1>1, <1>4, ClientKeepsLists, SortingAssumption DEF ListInv
  <2>2. UNCHANGED <<user, stage>>
    BY <1>4 DEF main_vars
  <2> QED
    BY <1>1, <1>4, <2>1, <2>2 DEF ListInv, WellFormed
<1> QED
  BY <1>2, <1>3, <1>4 DEF Next

\* The lists of list.c are what its header says after any calls, of a client
\* and of the sort program (list.h:46-47).
THEOREM ListsWellLinked == Spec => []WellLinked
<1>1. WellFormed => WellLinked
  BY WellLinkedOf DEF WellFormed, ListInv
<1> QED
  BY <1>1, InitWellFormed, NextWellFormed, PTL DEF Spec

\* The sort program prints what it read, in the order that was asked for and
\* without the odd numbers when it was asked to drop them.
THEOREM OutputSorted == Spec => []SortedOutput
<1>1. WellFormed => SortedOutput
  BY DEF WellFormed, ListInv, MainInv, SortedOutput
<1> QED
  BY <1>1, InitWellFormed, NextWellFormed, PTL DEF Spec

\* The sort program follows no null pointer: its calls of list_insert_after
\* take no node for another one.
THEOREM MainNeverCrashes == Spec => [](user = "main" => ~crashed)
<1>1. WellFormed => (user = "main" => ~crashed)
  BY DEF WellFormed, ListInv, MainInv
<1> QED
  BY <1>1, InitWellFormed, NextWellFormed, PTL DEF Spec

\* The calls of list.h do to the order of a list what their names say, but
\* refuse a new node that has a twin in the list, and crash only for a twin
\* (list.h:108-127, 139-142; list.c:200).
THEOREM OrderOfCalls == Spec => CallsKeepOrder
<1> DEFINE Kept1 ==
          \A l \in live, n \in allocated :
          LET s == Walk(l)
              t == Walk(l)'
          IN  /\ list_unlink_node(l, n) /\ In(l, n) => t = RemoveFirst(s, n)
              /\ \A m \in ToSet(s) :
                    ~In(l, n) =>
                       /\ list_insert_after(l, n, m) =>
                             t = IF Twin(l, n) THEN s
                                 ELSE InsertAt(s, Index(l, m) + 1, n)
                       /\ list_insert_before(l, n, m) =>
                             t = IF Twin(l, n) THEN s
                                 ELSE InsertAt(s, Index(l, m), n)
              /\ \A k \in ListId \ live :
                    list_cut_after(l, n, k) /\ In(l, n) /\ answer' # NULL =>
                       t = SubSeq(s, 1, Index(l, n)) /\ t \o Walk(k)' = s
              /\ crashed' => \E m \in allocated, k \in live : Twin(k, m)
<1>1. WellFormed /\ WellFormed' /\ [Next]_vars => [Kept1]_list_vars
  <2> SUFFICES ASSUME WellFormed, WellFormed', Next PROVE Kept1
    <3>1. UNCHANGED vars => UNCHANGED list_vars
      BY DEF vars
    <3> QED
      BY <3>1
  <2>1. PICK sq : ListInv(sq)
    BY DEF WellFormed
  <2>2. PICK tq : ListInv(tq)'
    BY DEF WellFormed
  <2>3. Lists(sq) /\ Lists(tq)'
    BY <2>1, <2>2 DEF ListInv
  <2>4. ~crashed
    BY DEF Next
  <2>5. crashed' => \E m \in allocated, k \in live : Twin(k, m)
    <3>1. CASE user = "main" /\ (Main \/ Work)
      <4>1. user' = "main"
        BY <3>1 DEF Main, Work, MakeList, Read, EndOfInput, AddBack, Start, Outer, Inner,
           Unlink, Insert, Advance, Odd, FreeOdd, PrintList, CleanUp, main_vars
      <4>2. ~crashed'
        BY <2>2, <4>1 DEF ListInv, MainInv
      <4> QED
        BY <4>2
    <3>2. CASE Client(CLIENT_VALUES)
      BY <2>3, <2>4, <3>2, ClientCrash
    <3> QED
      BY <3>1, <3>2 DEF Next
  <2> QED
    BY <2>3, <2>5, OrderKept
<1> QED
  BY <1>1, InitWellFormed, NextWellFormed, PTL DEF Spec, CallsKeepOrder

-----------------------------------------------------------------------------
(* The fault injection *)

Faults == {"again", "null", "exit", "swallowed", "unasked", "leak"}

LoopTypeOK ==
  /\ subject \in DOMAIN Tested \cup {"other"}
  /\ pc \in {"call", "returned", "again", "use", "passed", "failed"}
  /\ malloc_non_fail_amount \in Nat
  /\ malloc_fail_amount \in Nat
  /\ malloc_failedp \in {0, 1}
  /\ free_count \in Nat
  /\ res \in {"ok", "err"}
  /\ blocks \in Nat
  /\ faults \in SUBSET Faults

\* A function of the repository has done nothing wrong.
Innocent == subject # "other" => faults = {} /\ pc # "failed"

\* An allocation was refused if and only if the call asked for more than were
\* to be granted.
RefusalKnown ==
  pc \in {"call", "returned"} =>
    (malloc_failedp = 1 <=> malloc_non_fail_amount > malloc_fail_amount)

\* What was asked for was refused, is held or was freed, unless the function
\* asked again after a refusal or freed NULL.
Books ==
  pc \in {"call", "returned"} /\ faults \cap {"again", "null"} = {} =>
    malloc_non_fail_amount
      = blocks + free_count + malloc_failedp

\* What a call did wrong is either still to be judged or has been let through.
Judged ==
  /\ pc \in {"call", "again"} => "swallowed" \notin faults
  /\ pc # "failed" => "exit" \notin faults
  /\ pc = "call" => "unasked" \notin faults
  /\ pc = "returned" =>
        /\ "swallowed" \in faults => res = "ok" /\ malloc_failedp = 1
        /\ "unasked" \in faults => res = "err" /\ malloc_failedp = 0
        /\ res = "ok" /\ malloc_failedp = 1 => "swallowed" \in faults
        /\ res = "err" /\ malloc_failedp = 0 => "unasked" \in faults
  /\ pc = "again" =>
        /\ "unasked" \in faults => res = "err" /\ malloc_failedp = 0
        /\ malloc_failedp = 1 => res = "err"
        /\ res = "err" /\ malloc_failedp = 0 => "unasked" \in faults
        /\ malloc_failedp = 0 => malloc_non_fail_amount <= malloc_fail_amount
  /\ pc \in {"use", "passed"} =>
        /\ "swallowed" \notin faults
        /\ "unasked" \in faults <=> res = "err"
        /\ malloc_non_fail_amount <= malloc_fail_amount
  /\ pc = "passed" => res = "ok"
  /\ pc = "failed" => faults # {}

\* Without a free of NULL a fault that was let through there is none; the
\* balance of the call at hand gives it away.
Honest ==
  "null" \notin faults =>
    /\ pc = "call" => faults \subseteq {"again"}
    /\ pc \in {"again", "use", "passed"} => faults \subseteq {"unasked"}
    /\ "again" \in faults /\ pc \in {"call", "returned"} =>
          malloc_failedp = 1 /\ malloc_non_fail_amount > blocks + free_count + 1
    /\ pc = "returned" /\ "leak" \in faults => blocks > 0 /\ res = "err" /\ malloc_failedp = 1
    /\ pc = "returned" /\ res = "err" /\ malloc_failedp = 1 /\ blocks > 0 => "leak" \in faults

LoopInv == LoopTypeOK /\ Innocent /\ RefusalKnown /\ Books /\ Judged /\ Honest

LEMMA LoopInitHolds == LoopInit => LoopInv
BY DEF LoopInit, LoopInv, LoopTypeOK, Innocent, RefusalKnown, Books, Judged, Honest, Faults

LEMMA mallocKeeps ==
  ASSUME LoopInv, malloc
  PROVE  LoopInv'
<1>1. LoopTypeOK'
  <2>1. /\ malloc_non_fail_amount' \in Nat
        /\ malloc_failedp' \in {0, 1}
        /\ blocks' \in Nat
    BY DEF LoopInv, LoopTypeOK, malloc, Refused
  <2>2. faults' \in SUBSET Faults
    BY DEF LoopInv, LoopTypeOK, Faults, malloc
  <2> QED
    BY <2>1, <2>2 DEF LoopInv, LoopTypeOK, malloc
<1>2. Innocent'
  <2>1. subject # "other" => malloc_failedp = 0
    BY DEF malloc, MayAsk
  <2> QED
    BY <2>1 DEF LoopInv, LoopTypeOK, Innocent, malloc
<1>3. RefusalKnown'
  BY DEF LoopInv, LoopTypeOK, RefusalKnown, malloc, Refused
<1>4. Books'
  BY DEF LoopInv, LoopTypeOK, RefusalKnown, Books, malloc, Refused
<1>5. Judged'
  BY DEF LoopInv, LoopTypeOK, RefusalKnown, Judged, malloc, Refused
<1>6. Honest'
  <2>1. CASE malloc_failedp = 0
    BY <2>1 DEF LoopInv, LoopTypeOK, Books, Judged, Honest, malloc
  <2>2. CASE malloc_failedp = 1
    <3>1. "again" \in faults' /\ malloc_failedp' = 1
      BY <2>2 DEF LoopInv, LoopTypeOK, malloc
    <3>2. "null" \notin faults' =>
             malloc_non_fail_amount' > blocks' + free_count' + 1
      BY <2>2 DEF LoopInv, LoopTypeOK, RefusalKnown, Books, Honest, malloc, Refused
    <3> QED
      BY <2>2, <3>1, <3>2 DEF LoopInv, LoopTypeOK, Honest, malloc
  <2> QED
    BY <2>1, <2>2 DEF LoopInv, LoopTypeOK
<1> QED
  BY <1>1, <1>2, <1>3, <1>4, <1>5, <1>6 DEF LoopInv

LEMMA freeKeeps ==
  ASSUME LoopInv, free
  PROVE  LoopInv'
<1>1. LoopTypeOK'
  <2>1. free_count' \in Nat /\ blocks' \in Nat
    BY DEF LoopInv, LoopTypeOK, free
  <2>2. faults' \in SUBSET Faults
    BY DEF LoopInv, LoopTypeOK, Faults, free
  <2> QED
    BY <2>1, <2>2 DEF LoopInv, LoopTypeOK, free
<1>2. Innocent'
  BY DEF LoopInv, LoopTypeOK, Innocent, free
<1>3. RefusalKnown'
  BY DEF LoopInv, LoopTypeOK, RefusalKnown, free
<1>4. Books'
  BY DEF LoopInv, LoopTypeOK, RefusalKnown, Books, free
<1>5. Judged'
  BY DEF LoopInv, LoopTypeOK, RefusalKnown, Judged, free
<1>6. Honest'
  BY DEF LoopInv, LoopTypeOK, Books, Judged, Honest, free
<1> QED
  BY <1>1, <1>2, <1>3, <1>4, <1>5, <1>6 DEF LoopInv

LEMMA exitKeeps ==
  ASSUME LoopInv, exit
  PROVE  LoopInv'
<1>1. LoopTypeOK'
  BY DEF LoopInv, LoopTypeOK, Faults, exit, counters
<1>2. Innocent'
  BY DEF LoopInv, LoopTypeOK, Innocent, exit, counters
<1>3. RefusalKnown'
  BY DEF LoopInv, LoopTypeOK, RefusalKnown, exit, counters
<1>4. Books'
  BY DEF LoopInv, LoopTypeOK, RefusalKnown, Books, exit, counters
<1>5. Judged'
  BY DEF LoopInv, LoopTypeOK, RefusalKnown, Judged, exit, counters
<1>6. Honest'
  BY DEF LoopInv, LoopTypeOK, Books, Judged, Honest, exit, counters
<1> QED
  BY <1>1, <1>2, <1>3, <1>4, <1>5, <1>6 DEF LoopInv

LEMMA ReturnKeeps ==
  ASSUME LoopInv, NEW r \in {"ok", "err"}, Return(r)
  PROVE  LoopInv'
<1>1. LoopTypeOK'
  BY DEF LoopInv, LoopTypeOK, Faults, Return, counters
<1>2. Innocent'
  BY DEF LoopInv, LoopTypeOK, Innocent, Return, counters, Answers
<1>3. RefusalKnown'
  BY DEF LoopInv, LoopTypeOK, RefusalKnown, Return, counters
<1>4. Books'
  BY DEF LoopInv, LoopTypeOK, RefusalKnown, Books, Return, counters
<1>5. Judged'
  BY DEF LoopInv, LoopTypeOK, RefusalKnown, Judged, Return, counters
<1>6. Honest'
  BY DEF LoopInv, LoopTypeOK, Books, Judged, Honest, Return, counters
<1> QED
  BY <1>1, <1>2, <1>3, <1>4, <1>5, <1>6 DEF LoopInv

LEMMA JudgeKeeps ==
  ASSUME LoopInv, Judge
  PROVE  LoopInv'
<1>1. LoopTypeOK'
  BY DEF LoopInv, LoopTypeOK, Faults, Judge, counters
<1>2. Innocent'
  BY DEF LoopInv, LoopTypeOK, Innocent, Judge, counters, Accepted, Balanced, Books, Judged,
         Honest
<1>3. RefusalKnown'
  BY DEF LoopInv, LoopTypeOK, RefusalKnown, Judge, counters
<1>4. Books'
  BY DEF LoopInv, LoopTypeOK, RefusalKnown, Books, Judge, counters
<1>5. Judged'
  BY DEF LoopInv, LoopTypeOK, RefusalKnown, Books, Judged, Honest, Judge, counters, Accepted, Balanced
<1>6. Honest'
  <2> SUFFICES ASSUME "null" \notin faults, Accepted
               PROVE  faults \subseteq {"unasked"}
    BY DEF LoopInv, LoopTypeOK, Honest, Judge, counters
  <2>1. "swallowed" \notin faults /\ "exit" \notin faults
    BY DEF LoopInv, Judged, Judge, Accepted
  <2>2. "again" \notin faults
    BY DEF LoopInv, LoopTypeOK, Honest, Judge, Accepted, Balanced
  <2>3. "leak" \notin faults
    BY <2>2 DEF LoopInv, LoopTypeOK, Books, Honest, Judge, Accepted, Balanced
  <2> QED
    BY <2>1, <2>2, <2>3 DEF LoopInv, LoopTypeOK, Faults
<1> QED
  BY <1>1, <1>2, <1>3, <1>4, <1>5, <1>6 DEF LoopInv

LEMMA AgainKeeps ==
  ASSUME LoopInv, Again
  PROVE  LoopInv'
<1>1. LoopTypeOK'
  BY DEF LoopInv, LoopTypeOK, Faults, Again, one_more
<1>2. Innocent'
  BY DEF LoopInv, LoopTypeOK, Innocent, Again, one_more
<1>3. RefusalKnown'
  BY DEF LoopInv, LoopTypeOK, RefusalKnown, Again, one_more
<1>4. Books'
  BY DEF LoopInv, LoopTypeOK, RefusalKnown, Books, Again, one_more
<1>5. Judged'
  BY DEF LoopInv, LoopTypeOK, RefusalKnown, Judged, Again, one_more
<1>6. Honest'
  BY DEF LoopInv, LoopTypeOK, Books, Judged, Honest, Again, one_more
<1> QED
  BY <1>1, <1>2, <1>3, <1>4, <1>5, <1>6 DEF LoopInv

LEMMA UseKeeps ==
  ASSUME LoopInv, Use
  PROVE  LoopInv'
<1>1. LoopTypeOK'
  BY DEF LoopInv, LoopTypeOK, Faults, Use, counters
<1>2. Innocent'
  BY DEF LoopInv, LoopTypeOK, Innocent, Use, counters, Judged
<1>3. RefusalKnown'
  BY DEF LoopInv, LoopTypeOK, RefusalKnown, Use, counters
<1>4. Books'
  BY DEF LoopInv, LoopTypeOK, RefusalKnown, Books, Use, counters
<1>5. Judged'
  BY DEF LoopInv, LoopTypeOK, RefusalKnown, Judged, Use, counters
<1>6. Honest'
  BY DEF LoopInv, LoopTypeOK, Books, Judged, Honest, Use, counters
<1> QED
  BY <1>1, <1>2, <1>3, <1>4, <1>5, <1>6 DEF LoopInv

LEMMA LoopInductive == LoopInv /\ [LoopNext]_loop_vars => LoopInv'
<1> SUFFICES ASSUME LoopInv, [LoopNext]_loop_vars
             PROVE  LoopInv'
  OBVIOUS
<1>1. CASE UNCHANGED loop_vars
  BY <1>1 DEF loop_vars, counters, LoopInv, LoopTypeOK, Innocent, RefusalKnown, Books, Judged, Honest
<1>2. CASE LoopNext
  BY <1>2, mallocKeeps, freeKeeps, exitKeeps, ReturnKeeps, JudgeKeeps, AgainKeeps, UseKeeps
     DEF LoopNext
<1> QED
  BY <1>1, <1>2

LEMMA LoopExact == LoopInv => VerdictExact
BY DEF LoopInv, LoopTypeOK, Innocent, Judged, Honest, Faults, VerdictExact

\* A function under test passes the fault injection exactly if it never ignores
\* a refusal and, unless it frees NULL, gives back all it got; the functions of
\* this repository pass.  For every bound on the calls.
THEOREM VerdictIsExact == LoopSpec => []VerdictExact
<1>1. LoopInit => LoopInv
  BY LoopInitHolds
<1>2. LoopInv /\ [LoopNext]_loop_vars => LoopInv'
  BY LoopInductive
<1>3. LoopInv => VerdictExact
  BY LoopExact
<1> QED
  BY <1>1, <1>2, <1>3, PTL DEF LoopSpec
=============================================================================
