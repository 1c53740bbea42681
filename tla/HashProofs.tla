------------------------------ MODULE HashProofs ------------------------------
(***************************************************************************)
(* Proofs about hash_table.c, array.c and the main of the word index for    *)
(* every set of keys, hash functions, capacities and load factors: a table   *)
(* is its set of nodes, distributed over the chains by their hash, and       *)
(* insertions, resizes, removals and failed allocations change that set as    *)
(* the dictionary of hash_table.h changes.                                    *)
(***************************************************************************)
EXTENDS WordIndex, FiniteSetTheorems, FunctionTheorems, TLAPS

\* The nodes there can be: an array that is full goes by its capacity.
Node ==
    [key : Key, value : [data : Seq(Value), room : Nat, capacity : Nat]]

NodeOK(e) ==
    /\ e \in Node
    /\ e.value.data # <<>>
    /\ Len(e.value.data) <= e.value.capacity

\* A set of nodes, one for each key at most.
NodesOK(nodes) ==
    /\ IsFiniteSet(nodes)
    /\ \A e \in nodes : NodeOK(e)
    /\ \A e, f \in nodes : e.key = f.key => e = f

\* The nodes distributed over n chains by their hash.
ByHash(h, n, nodes) == [i \in 0..(n - 1) |-> {e \in nodes : h[e.key] % n = i}]

\* Nodes whose arrays have the room that they go by.
Roomy(nodes) == \A e \in nodes : e.value.room = e.value.capacity

H == HASH[hash_func]

TableTypeOK ==
    /\ is_null \in BOOLEAN /\ aborted \in BOOLEAN /\ memory_lasts \in BOOLEAN
    /\ size \in Nat /\ capacity \in Nat /\ load \in Nat
    /\ max_load_factor \in Nat \X (Nat \ {0})
    /\ ~is_null => hash_func \in DOMAIN HASH
    /\ is_null => size = 0

\* The capacity is the size of the block, doubled for every resize for which
\* there was no memory.
CapacityOK == \E m \in Nat \ {0} : capacity = size * m

TInv ==
    /\ TableTypeOK
    /\ CapacityOK
    /\ array = ByHash(H, size, all_nodes)
    /\ NodesOK(all_nodes)
    /\ load = Cardinality(all_nodes)
    /\ blocks = IF is_null THEN 0 ELSE 2 + 4 * load
    /\ SizesAgree

-----------------------------------------------------------------------------
(* Arithmetic *)

LEMMA Remainder ==
  ASSUME NEW h \in Nat, NEW n \in Nat \ {0}
  PROVE  h % n \in 0..(n - 1)
OBVIOUS

LEMMA Quotient ==
  ASSUME NEW h \in Int, NEW c \in Int, c > 0,
         NEW q \in Int, q = h \div c, NEW r \in Int, r = h % c
  PROVE  h = q * c + r
OBVIOUS

LEMMA RemainderUnique ==
  ASSUME NEW h \in Int, NEW s \in Int, s > 0,
         NEW t \in Int, NEW r \in Int, 0 <= r, r < s, h = s * t + r
  PROVE  h % s = r
OBVIOUS

\* A remainder that lies in the smaller block is the one by its size.
LEMMA RemainderByMultiple ==
  ASSUME NEW h \in Nat, NEW s \in Nat \ {0}, NEW m \in Nat \ {0},
         h % (s * m) \in 0..(s - 1)
  PROVE  h % s = h % (s * m)
<1>1. PICK c \in Nat \ {0} : c = s * m
  OBVIOUS
<1>2. PICK q \in Nat : q = h \div c
  BY <1>1
<1>3. PICK r \in 0..(s - 1) : r = h % c
  BY <1>1
<1>4. h = c * q + r
  <2>1. /\ h \in Int /\ c \in Int /\ c > 0
        /\ q \in Int /\ q = h \div c /\ r \in Int /\ r = h % c
    BY <1>1, <1>2, <1>3
  <2>2. h = q * c + r
    BY ONLY <2>1, Quotient
  <2> QED
    BY <2>1, <2>2
<1>5. PICK t \in Nat : t = m * q
  OBVIOUS
<1>6. h = s * t + r
  BY <1>1, <1>4, <1>5
<1>7. h % s = r
  <2>1. h \in Int /\ s \in Int /\ s > 0 /\ t \in Int /\ r \in Int /\ 0 <= r /\ r < s
    BY <1>3, <1>5
  <2> QED
    BY ONLY <2>1, <1>6, RemainderUnique, Zenon
<1> QED
  BY <1>1, <1>3, <1>7

-----------------------------------------------------------------------------
(* Nodes distributed by their hash *)

LEMMA ChainOf ==
  ASSUME NEW h \in [Key -> Nat], NEW n \in Nat \ {0}, NEW nodes, NEW k \in Key
  PROVE  /\ h[k] % n \in DOMAIN ByHash(h, n, nodes)
         /\ Found(ByHash(h, n, nodes)[h[k] % n], k) = {e \in nodes : e.key = k}
<1>1. h[k] \in Nat
  OBVIOUS
<1>2. h[k] % n \in 0..(n - 1)
  BY <1>1, Remainder
<1> QED
  BY <1>2 DEF ByHash, Found

LEMMA NodesOfChains ==
  ASSUME NEW h \in [Key -> Nat], NEW n \in Nat \ {0}, NEW nodes,
         \A e \in nodes : e.key \in Key
  PROVE  UNION {ByHash(h, n, nodes)[i] : i \in DOMAIN ByHash(h, n, nodes)} = nodes
<1>1. DOMAIN ByHash(h, n, nodes) = 0..(n - 1)
  BY DEF ByHash
<1>2. \A e \in nodes : h[e.key] % n \in 0..(n - 1)
  BY Remainder
<1>3. \A e \in nodes : e \in ByHash(h, n, nodes)[h[e.key] % n]
  BY <1>2 DEF ByHash
<1>4. \A i \in 0..(n - 1) : ByHash(h, n, nodes)[i] \subseteq nodes
  BY DEF ByHash
<1> QED
  BY <1>1, <1>2, <1>3, <1>4

-----------------------------------------------------------------------------
(* The arrays of values *)

ValueArray == [data : Seq(Value), room : Nat, capacity : Nat]

LEMMA AppendOK ==
  ASSUME NEW a \in ValueArray, Len(a.data) <= a.capacity, NEW v \in Value,
         NEW b \in array_append(a, v), memory_lasts \in BOOLEAN
  PROVE  /\ b \in ValueArray
         /\ Len(b.data) <= b.capacity
         /\ b.data = Append(a.data, v) \/ b.data = a.data
         /\ memory_lasts \/ Len(a.data) # a.capacity => b.data = Append(a.data, v)
         /\ memory_lasts /\ a.room = a.capacity => b.room = b.capacity
<1>1. /\ a.data \in Seq(Value) /\ a.room \in Nat /\ a.capacity \in Nat
      /\ Len(a.data) \in Nat
      /\ Append(a.data, v) \in Seq(Value)
      /\ Len(Append(a.data, v)) = Len(a.data) + 1
  BY DEF ValueArray
<1>2. CASE Len(a.data) # a.capacity
  <2>1. b = [a EXCEPT !.data = Append(a.data, v)]
    BY <1>2 DEF array_append
  <2>2. b = [data |-> Append(a.data, v), room |-> a.room, capacity |-> a.capacity]
    BY <2>1 DEF ValueArray
  <2> QED
    BY <1>1, <1>2, <2>2 DEF ValueArray
<1>3. CASE Len(a.data) = a.capacity
  <2>1. PICK grown \in Nat : grown = IF a.capacity > 0 THEN a.capacity * 2 ELSE 1
    BY <1>1
  <2>2. grown >= a.capacity + 1
    BY <1>1, <2>1
  <2>3. \/ b = [data |-> Append(a.data, v), room |-> grown, capacity |-> grown]
        \/ ~memory_lasts /\ b = [a EXCEPT !.capacity = grown]
    BY <1>3, <2>1 DEF array_append
  <2>4. \/ b = [data |-> Append(a.data, v), room |-> grown, capacity |-> grown]
        \/ ~memory_lasts /\ b = [data |-> a.data, room |-> a.room, capacity |-> grown]
    BY <2>3 DEF ValueArray
  <2>5. Len(a.data) <= grown /\ Len(Append(a.data, v)) <= grown
    BY <1>1, <1>3, <2>1, <2>2
  <2>6. CASE b = [data |-> Append(a.data, v), room |-> grown, capacity |-> grown]
    BY <1>1, <2>1, <2>5, <2>6 DEF ValueArray
  <2>7. CASE ~memory_lasts
             /\ b = [data |-> a.data, room |-> a.room, capacity |-> grown]
    BY <1>1, <1>3, <2>1, <2>5, <2>7 DEF ValueArray
  <2> QED
    BY <2>4, <2>6, <2>7
<1> QED
  BY <1>2, <1>3

\* The node of a key after an append to its values.
LEMMA AppendToNode ==
  ASSUME NEW e, NodeOK(e), NEW k \in Key, NEW v \in Value, memory_lasts \in BOOLEAN,
         NEW a \in array_append(e.value, v)
  PROVE  /\ NodeOK([key |-> k, value |-> a])
         /\ \/ a.data = Append(e.value.data, v)
            \/ a.data = e.value.data /\ ~memory_lasts
         /\ memory_lasts /\ e.value.room = e.value.capacity =>
               a.room = a.capacity /\ ~Overrun(a)
<1>1. e.value \in ValueArray /\ Len(e.value.data) <= e.value.capacity
      /\ e.value.data # <<>>
  BY DEF NodeOK, Node, ValueArray
<1>2. /\ a \in ValueArray
      /\ Len(a.data) <= a.capacity
      /\ \/ a.data = Append(e.value.data, v)
         \/ a.data = e.value.data /\ ~memory_lasts
      /\ memory_lasts /\ e.value.room = e.value.capacity => a.room = a.capacity
  BY <1>1, AppendOK
<1>3. a.data # <<>>
  <2>1. e.value.data \in Seq(Value)
    BY <1>1 DEF ValueArray
  <2> QED
    BY <1>1, <1>2, <2>1
<1>4. NodeOK([key |-> k, value |-> a])
  BY <1>2, <1>3 DEF NodeOK, Node, ValueArray
<1>5. a.room = a.capacity => ~Overrun(a)
  BY <1>2 DEF Overrun, ValueArray
<1> QED
  BY <1>2, <1>4, <1>5

\* The node that is made for a new key.
LEMMA NewNode ==
  ASSUME NEW k \in Key, NEW v \in Value, memory_lasts \in BOOLEAN,
         NEW a \in array_append(array_init(ARRAY_START), v)
  PROVE  /\ NodeOK([key |-> k, value |-> a])
         /\ a.data = <<v>>
         /\ memory_lasts => a.room = a.capacity
<1>1. PICK b : b = array_init(ARRAY_START)
  OBVIOUS
<1>2. /\ b \in ValueArray /\ b.data = <<>> /\ Len(b.data) = 0
      /\ b.room = b.capacity /\ b.capacity = ARRAY_START /\ b.capacity > 0
  BY <1>1, TableAssumption DEF array_init, ValueArray
<1>3. a \in array_append(b, v) /\ Len(b.data) <= b.capacity /\ Len(b.data) # b.capacity
  BY <1>1, <1>2, TableAssumption
<1>4. /\ a \in ValueArray
      /\ Len(a.data) <= a.capacity
      /\ a.data = Append(b.data, v)
      /\ memory_lasts => a.room = a.capacity
  BY <1>2, <1>3, AppendOK
<1>5. a.data = <<v>>
  BY <1>2, <1>4
<1>6. a.data # <<>>
  BY <1>5
<1>7. [key |-> k, value |-> a] \in Node
  BY <1>4 DEF Node, ValueArray
<1> QED
  BY <1>4, <1>5, <1>6, <1>7 DEF NodeOK

-----------------------------------------------------------------------------
(* Changes of a set of nodes *)

LEMMA NodeAdded ==
  ASSUME NEW nodes, NodesOK(nodes), NEW e, NodeOK(e), \A f \in nodes : f.key # e.key
  PROVE  /\ NodesOK(nodes \cup {e})
         /\ Cardinality(nodes \cup {e}) = Cardinality(nodes) + 1
<1>1. IsFiniteSet(nodes) /\ e \notin nodes
  BY DEF NodesOK
<1>2. /\ IsFiniteSet(nodes \cup {e})
      /\ Cardinality(nodes \cup {e}) = Cardinality(nodes) + 1
  BY <1>1, FS_AddElement
<1> QED
  BY <1>2 DEF NodesOK

LEMMA NodeRemoved ==
  ASSUME NEW nodes, NodesOK(nodes), NEW e \in nodes
  PROVE  /\ NodesOK(nodes \ {e})
         /\ Cardinality(nodes \ {e}) = Cardinality(nodes) - 1
         /\ Cardinality(nodes) \in Nat /\ Cardinality(nodes) > 0
         /\ \A f \in nodes \ {e} : f.key # e.key
<1>1. IsFiniteSet(nodes)
  BY DEF NodesOK
<1>2. /\ IsFiniteSet(nodes \ {e})
      /\ Cardinality(nodes \ {e}) = Cardinality(nodes) - 1
  BY <1>1, FS_RemoveElement
<1>3. Cardinality(nodes) \in Nat /\ Cardinality(nodes) # 0
  BY <1>1, FS_CardinalityType, FS_EmptySet
<1> QED
  BY <1>2, <1>3 DEF NodesOK

LEMMA NodeReplaced ==
  ASSUME NEW nodes, NodesOK(nodes), NEW e \in nodes, NEW f, NodeOK(f), f.key = e.key
  PROVE  /\ NodesOK((nodes \ {e}) \cup {f})
         /\ Cardinality((nodes \ {e}) \cup {f}) = Cardinality(nodes)
<1>1. /\ NodesOK(nodes \ {e}) /\ \A x \in nodes \ {e} : x.key # f.key
      /\ Cardinality(nodes \ {e}) = Cardinality(nodes) - 1
      /\ Cardinality(nodes) \in Nat
  BY NodeRemoved
<1> QED
  BY <1>1, NodeAdded

-----------------------------------------------------------------------------
(* The invariant of the table *)

LEMMA HashType ==
  ASSUME TableTypeOK, ~is_null
  PROVE  H \in [Key -> Nat]
BY TableAssumption DEF TableTypeOK, H

\* What a block is that was filled by hash.
LEMMA Rebuilt ==
  ASSUME NEW h \in [Key -> Nat], NEW n \in Nat, NEW nodes, NodesOK(nodes),
         n = 0 => nodes = {}, array' = ByHash(h, n, nodes)
  PROVE  size' = n /\ all_nodes' = nodes
<1>1. DOMAIN array' = 0..(n - 1)
  BY DEF ByHash
<1>2. Cardinality(0..(n - 1)) = n
  <2>1. CASE n = 0
    <3>1. 0..(n - 1) = {}
      BY <2>1
    <3> QED
      BY <2>1, <3>1, FS_EmptySet
  <2>2. CASE n > 0
    BY <2>2, FS_Interval
  <2> QED
    BY <2>1, <2>2
<1>3. size' = n
  BY <1>1, <1>2 DEF size
<1>4. all_nodes' = nodes
  <2>1. CASE n = 0
    <3>1. DOMAIN array' = {}
      BY <1>1, <2>1
    <3> QED
      BY <2>1, <3>1 DEF all_nodes
  <2>2. CASE n > 0
    <3>1. \A e \in nodes : e.key \in Key
      BY DEF NodesOK, NodeOK, Node
    <3>2. UNION {ByHash(h, n, nodes)[i] : i \in DOMAIN ByHash(h, n, nodes)} = nodes
      BY <2>2, <3>1, NodesOfChains
    <3> QED
      BY <3>2 DEF all_nodes
  <2> QED
    BY <2>1, <2>2
<1> QED
  BY <1>3, <1>4

\* A call that changes the nodes, and perhaps the size, of a table.
LEMMA NodesChange ==
  ASSUME TInv, ~is_null, UNCHANGED <<is_null, fixed, memory_lasts, aborted>>, ~aborted,
         NEW n \in Nat, NEW m \in Nat \ {0}, NEW nodes, NodesOK(nodes),
         n = 0 => nodes = {},
         array' = ByHash(H, n, nodes), capacity' = n * m,
         load' = Cardinality(nodes), blocks' = 2 + 4 * load',
         memory_lasts => m = 1 /\ Roomy(nodes)
  PROVE  TInv' /\ all_nodes' = nodes
<1>1. TableTypeOK /\ H \in [Key -> Nat] /\ H' = H
  BY HashType DEF TInv, H, fixed
<1>2. size' = n /\ all_nodes' = nodes
  BY <1>1, Rebuilt
<1>3. n * m \in Nat
  OBVIOUS
<1>4. load' \in Nat
  BY FS_CardinalityType DEF NodesOK
<1>5. TableTypeOK'
  BY <1>1, <1>2, <1>3, <1>4 DEF TableTypeOK, fixed
<1>6. CapacityOK'
  BY <1>2 DEF CapacityOK
<1>7. SizesAgree'
  BY <1>2 DEF SizesAgree, Roomy
<1>8. is_null' = FALSE
  BY <1>1 DEF TableTypeOK
<1> QED
  BY <1>1, <1>2, <1>5, <1>6, <1>7, <1>8 DEF TInv

\* A call that changes no more than the answer, or stops the process.
LEMMA NothingChanges ==
  ASSUME TInv, UNCHANGED <<table, blocks, memory_lasts>>, aborted' \in BOOLEAN,
         memory_lasts /\ aborted' => capacity = 0
  PROVE  TInv'
<1>1. /\ size' = size /\ all_nodes' = all_nodes /\ H' = H
      /\ UNCHANGED <<is_null, array, capacity, load, max_load_factor, hash_func>>
  BY DEF size, all_nodes, H, table
<1>2. TableTypeOK' /\ CapacityOK'
  BY <1>1 DEF TInv, TableTypeOK, CapacityOK
<1>3. SizesAgree'
  BY <1>1 DEF TInv, SizesAgree
<1> QED
  BY <1>1, <1>2, <1>3 DEF TInv

LEMMA AnswerChanges ==
  ASSUME TInv, UNCHANGED <<table, blocks, aborted>>, memory_lasts' = memory_lasts
  PROVE  TInv'
<1>1. /\ UNCHANGED <<table, blocks, memory_lasts>> /\ aborted' \in BOOLEAN
      /\ memory_lasts /\ aborted' => capacity = 0
  BY DEF TInv, TableTypeOK, SizesAgree
<1> QED
  BY <1>1, NothingChanges

-----------------------------------------------------------------------------
(* What the storing of a value does to the nodes *)

\* The nodes sit in n chains by their hash, and the code goes by c chains.
Spread(h, n, c, nodes, chains) ==
    /\ h \in [Key -> Nat] /\ H = h /\ n \in Nat
    /\ \E m \in Nat \ {0} : c = n * m
    /\ chains = ByHash(h, n, nodes)

\* The bucket that is computed with a capacity too big is the right one when
\* it lies inside the block at all.
LEMMA Reached ==
  ASSUME NEW h, NEW n, NEW c, NEW nodes, NEW chains, Spread(h, n, c, nodes, chains),
         NEW k \in Key
  PROVE  /\ Reaches(chains, c, k) => n > 0 /\ hash(k) % c = h[k] % n
         /\ n > 0 /\ c = n => Reaches(chains, c, k)
<1>0. h \in [Key -> Nat] /\ H = h /\ n \in Nat /\ chains = ByHash(h, n, nodes)
  BY DEF Spread
<1>1. hash(k) = h[k] /\ h[k] \in Nat
  BY <1>0 DEF hash, H
<1>2. DOMAIN chains = 0..(n - 1)
  BY <1>0 DEF ByHash
<1>3. n > 0 /\ c = n => Reaches(chains, c, k)
  <2>1. n > 0 => h[k] % n \in 0..(n - 1)
    <3>1. n > 0 => n \in Nat \ {0}
      BY <1>0
    <3> QED
      BY ONLY <1>1, <3>1, Remainder
  <2> QED
    BY ONLY <1>0, <1>1, <1>2, <2>1 DEF Reaches
<1>4. ASSUME Reaches(chains, c, k)
      PROVE  n > 0 /\ hash(k) % c = h[k] % n
  <2>1. c # 0 /\ hash(k) % c \in 0..(n - 1)
    BY <1>2, <1>4 DEF Reaches
  <2>2. n # 0
    BY <1>0, <2>1
  <2> PICK m \in Nat \ {0} : c = n * m
    BY DEF Spread
  <2>3. h[k] % (n * m) \in 0..(n - 1)
    BY <1>1, <2>1
  <2>4. h[k] % n = h[k] % (n * m)
    BY <1>0, <1>1, <2>2, <2>3, RemainderByMultiple
  <2> QED
    BY <1>0, <1>1, <2>2, <2>4
<1> QED
  BY <1>3, <1>4

StoreUnchanged == UNCHANGED <<is_null, fixed, aborted>>

\* The ways a value can be stored among nodes that sit in n chains.
StoreStops(n, c) == Abort /\ (memory_lasts /\ c = n => n = 0)

StoreAppends(k, v, n, c, nodes) ==
    /\ n > 0
    /\ \E e \in nodes : \E a \in array_append(e.value, v) :
          /\ e.key = k
          /\ array' = ByHash(H, n, (nodes \ {e}) \cup {[key |-> k, value |-> a]})
    /\ capacity' = c /\ answer' = <<0>>
    /\ UNCHANGED <<load, blocks>> /\ StoreUnchanged

StoreRefuses(n, c, nodes) ==
    /\ n > 0 /\ ~memory_lasts
    /\ array' = ByHash(H, n, nodes)
    /\ capacity' = c /\ answer' = <<1>>
    /\ UNCHANGED <<load, blocks>> /\ StoreUnchanged

StoreAdds(k, v, n, c, nodes) ==
    /\ n > 0
    /\ \A e \in nodes : e.key # k
    /\ \E a \in array_append(array_init(ARRAY_START), v) :
          array' = ByHash(H, n, nodes \cup {[key |-> k, value |-> a]})
    /\ capacity' = c /\ answer' = <<0>>
    /\ load' = load + 1 /\ blocks' = blocks + 4 /\ StoreUnchanged

LEMMA StoreCases ==
  ASSUME NEW h \in [Key -> Nat], H = h, memory_lasts \in BOOLEAN,
         NEW n \in Nat, NEW c, \E m \in Nat \ {0} : c = n * m,
         NEW nodes, NodesOK(nodes), memory_lasts => Roomy(nodes),
         NEW chains, chains = ByHash(h, n, nodes),
         NEW k \in Key, NEW v \in Value, Store(k, v, chains, c)
  PROVE  \/ StoreStops(n, c)
         \/ StoreAppends(k, v, n, c, nodes)
         \/ StoreRefuses(n, c, nodes)
         \/ StoreAdds(k, v, n, c, nodes)
<1>1. /\ Reaches(chains, c, k) => n > 0 /\ hash(k) % c = h[k] % n
      /\ n > 0 /\ c = n => Reaches(chains, c, k)
  <2>1. Spread(h, n, c, nodes, chains)
    BY DEF Spread
  <2> QED
    BY <2>1, Reached
<1>2. PICK i : i = hash(k) % c
  OBVIOUS
<1>3. CASE ~Reaches(chains, c, k)
  <2>1. Abort
    BY <1>3 DEF Store
  <2> QED
    BY <1>1, <1>3, <2>1 DEF StoreStops
<1>4. ASSUME Reaches(chains, c, k)
      PROVE  /\ n \in Nat \ {0}
             /\ i = h[k] % n
             /\ Found(chains[i], k) = {e \in nodes : e.key = k}
  BY <1>1, <1>2, <1>4, ChainOf
<1>5. ASSUME Reaches(chains, c, k), NEW e \in Found(chains[i], k),
             NEW a \in array_append(e.value, v), Overrun(a), Abort
      PROVE  StoreStops(n, c)
  <2>1. e \in nodes /\ NodeOK(e)
    BY <1>4, <1>5 DEF NodesOK
  <2>2. ~memory_lasts
    BY <1>5, <2>1, AppendToNode DEF Roomy
  <2> QED
    BY <1>5, <2>2 DEF StoreStops
<1>6. ASSUME Reaches(chains, c, k), NEW e \in Found(chains[i], k),
             NEW a \in array_append(e.value, v),
             array' = [chains EXCEPT ![i] = (@ \ {e}) \cup {[key |-> k, value |-> a]}],
             capacity' = c, answer' = << 0 >>,
             UNCHANGED <<is_null, load, fixed, blocks, aborted>>
      PROVE  StoreAppends(k, v, n, c, nodes)
  <2>1. n \in Nat \ {0} /\ e \in nodes /\ e.key = k
    BY <1>4, <1>6
  <2>2. array' = [ByHash(h, n, nodes) EXCEPT ![h[k] % n] =
                     (@ \ {e}) \cup {[key |-> k, value |-> a]}]
    BY <1>4, <1>6
  <2>3. (\A x \in {e} : x.key = k) /\ \A x \in {[key |-> k, value |-> a]} : x.key = k
    BY <2>1
  <2>4. array' = ByHash(H, n, (nodes \ {e}) \cup {[key |-> k, value |-> a]})
    <3>1. h \in [Key -> Nat] /\ H = h /\ k \in Key /\ h[k] % n \in 0..(n - 1)
      BY <2>1, Remainder
    <3> QED
      BY ONLY <2>1, <2>2, <2>3, <3>1 DEF ByHash
  <2>5. n > 0
    BY <2>1
  <2> QED
    BY <1>6, <2>1, <2>4, <2>5, Zenon DEF StoreAppends, StoreUnchanged
<1>7. ASSUME Reaches(chains, c, k), ~memory_lasts, array' = chains,
             capacity' = c, answer' = << 1 >>,
             UNCHANGED <<is_null, load, fixed, blocks, aborted>>
      PROVE  StoreRefuses(n, c, nodes)
  BY <1>4, <1>7 DEF StoreRefuses, StoreUnchanged
<1>8. ASSUME Reaches(chains, c, k), Found(chains[i], k) = {},
             NEW a \in array_append(array_init(ARRAY_START), v),
             array' = [chains EXCEPT ![i] = @ \cup {[key |-> k, value |-> a]}],
             capacity' = c, load' = load + 1, blocks' = blocks + 4, answer' = << 0 >>,
             UNCHANGED <<is_null, fixed, aborted>>
      PROVE  StoreAdds(k, v, n, c, nodes)
  <2>1. n \in Nat \ {0} /\ \A e \in nodes : e.key # k
    BY <1>4, <1>8
  <2>2. array' = [ByHash(h, n, nodes) EXCEPT ![h[k] % n] =
                     (@ \ {}) \cup {[key |-> k, value |-> a]}]
    BY <1>4, <1>8
  <2>3. (\A x \in {} : x.key = k) /\ \A x \in {[key |-> k, value |-> a]} : x.key = k
    OBVIOUS
  <2>4. array' = ByHash(H, n, (nodes \ {}) \cup {[key |-> k, value |-> a]})
    <3>1. h \in [Key -> Nat] /\ H = h /\ k \in Key /\ h[k] % n \in 0..(n - 1)
      BY <2>1, Remainder
    <3> QED
      BY ONLY <2>1, <2>2, <2>3, <3>1 DEF ByHash
  <2>5. array' = ByHash(H, n, nodes \cup {[key |-> k, value |-> a]})
    <3>1. nodes \ {} = nodes
      OBVIOUS
    <3> QED
      BY <2>4, <3>1
  <2>6. n > 0
    BY <2>1
  <2> QED
    BY <1>8, <2>1, <2>5, <2>6, Zenon DEF StoreAdds, StoreUnchanged
<1> QED
  <2>1. Reaches(chains, c, k) =>
        \/ \E e \in Found(chains[i], k) : \E a \in array_append(e.value, v) :
              \/ Overrun(a) /\ Abort
              \/ /\ array' = [chains EXCEPT ![i] =
                                 (@ \ {e}) \cup {[key |-> k, value |-> a]}]
                 /\ capacity' = c /\ answer' = <<0>>
                 /\ UNCHANGED <<is_null, load, fixed, blocks, aborted>>
        \/ /\ ~memory_lasts /\ array' = chains /\ capacity' = c /\ answer' = <<1>>
           /\ UNCHANGED <<is_null, load, fixed, blocks, aborted>>
        \/ /\ Found(chains[i], k) = {}
           /\ \E a \in array_append(array_init(ARRAY_START), v) :
                 array' = [chains EXCEPT ![i] = @ \cup {[key |-> k, value |-> a]}]
           /\ capacity' = c /\ load' = load + 1 /\ blocks' = blocks + 4
           /\ answer' = <<0>>
           /\ UNCHANGED <<is_null, fixed, aborted>>
    BY <1>2 DEF Store
  <2>2. CASE Reaches(chains, c, k)
    BY <2>1, <2>2, <1>5, <1>6, <1>7, <1>8
  <2> QED
    BY <1>3, <2>2

-----------------------------------------------------------------------------
(* The calls preserve the invariant *)

LEMMA NoBuckets ==
  ASSUME TInv, size = 0
  PROVE  all_nodes = {}
<1>1. DOMAIN array = {}
  BY DEF TInv, ByHash
<1> QED
  BY <1>1 DEF all_nodes

\* What an insertion does to the set of nodes, and what it answers.
InsertEffect(k, v) ==
    \/ UNCHANGED <<is_null, all_nodes, answer>> /\ aborted'
    \/ UNCHANGED <<is_null, all_nodes>> /\ answer' = <<1>> /\ (~memory_lasts \/ is_null)
    \/ /\ UNCHANGED is_null /\ ~is_null /\ answer' = <<0>>
       /\ \E e \in all_nodes : \E a \in array_append(e.value, v) :
             /\ e.key = k
             /\ all_nodes' = (all_nodes \ {e}) \cup {[key |-> k, value |-> a]}
    \/ /\ UNCHANGED is_null /\ ~is_null /\ answer' = <<0>>
       /\ \A e \in all_nodes : e.key # k
       /\ \E a \in array_append(array_init(ARRAY_START), v) :
             all_nodes' = all_nodes \cup {[key |-> k, value |-> a]}

LEMMA StorePreserves ==
  ASSUME TInv, ~is_null, ~aborted, memory_lasts' = memory_lasts,
         NEW n \in Nat, NEW m \in Nat \ {0}, memory_lasts => m = 1,
         n = 0 => capacity = 0,
         NEW c, c = n * m, NEW chains, chains = ByHash(H, n, all_nodes),
         NEW k \in Key, NEW v \in Value, Store(k, v, chains, c)
  PROVE  TInv' /\ InsertEffect(k, v)
<1>0. /\ TInv /\ ~is_null /\ ~aborted /\ n \in Nat /\ m \in Nat \ {0}
      /\ memory_lasts => m = 1
  OBVIOUS
<1>1. PICK nodes : nodes = all_nodes
  OBVIOUS
<1>2. /\ NodesOK(nodes) /\ load = Cardinality(nodes) /\ blocks = 2 + 4 * load
      /\ memory_lasts => Roomy(nodes)
      /\ memory_lasts \in BOOLEAN
      /\ load \in Nat
  BY <1>1 DEF TInv, TableTypeOK, SizesAgree, Roomy
<1>3. PICK h \in [Key -> Nat] : h = H
  BY HashType DEF TInv
<1>4. memory_lasts => c = n
  OBVIOUS
<1>5. \/ StoreStops(n, c)
      \/ StoreAppends(k, v, n, c, nodes)
      \/ StoreRefuses(n, c, nodes)
      \/ StoreAdds(k, v, n, c, nodes)
  <2>1. /\ h \in [Key -> Nat] /\ H = h /\ n \in Nat
        /\ \E q \in Nat \ {0} : c = n * q
        /\ chains = ByHash(h, n, nodes) /\ k \in Key /\ v \in Value
        /\ NodesOK(nodes) /\ memory_lasts \in BOOLEAN
        /\ memory_lasts => Roomy(nodes)
        /\ Store(k, v, chains, c)
    BY <1>1, <1>2, <1>3
  <2> QED
    BY ONLY <2>1, StoreCases
<1>6. CASE StoreStops(n, c)
  <2>1. UNCHANGED <<is_null, all_nodes, answer>>
    BY <1>6 DEF StoreStops, Abort, table, all_nodes
  <2> QED
    BY <1>4, <1>6, <2>1, NothingChanges DEF StoreStops, Abort, InsertEffect
<1>7. CASE StoreAppends(k, v, n, c, nodes)
  <2>0. PICK e \in nodes : \E a \in array_append(e.value, v) :
           /\ e.key = k
           /\ array' = ByHash(H, n, (nodes \ {e}) \cup {[key |-> k, value |-> a]})
    BY <1>7 DEF StoreAppends
  <2>1. PICK a \in array_append(e.value, v) :
           /\ e.key = k
           /\ array' = ByHash(H, n, (nodes \ {e}) \cup {[key |-> k, value |-> a]})
    BY <2>0
  <2>2. PICK f : f = [key |-> k, value |-> a]
    OBVIOUS
  <2>3. NodeOK(e)
    BY <1>2 DEF NodesOK
  <2>4. NodeOK(f) /\ f.key = e.key
    BY <1>2, <2>1, <2>2, <2>3, AppendToNode
  <2>5. PICK new : new = (nodes \ {e}) \cup {f}
    OBVIOUS
  <2>6. NodesOK(new) /\ Cardinality(new) = load
    BY <1>2, <2>4, <2>5, NodeReplaced
  <2>7. memory_lasts => a.room = a.capacity
    BY <1>2, <2>3, AppendToNode DEF Roomy
  <2>8. memory_lasts => Roomy(new)
    BY <1>2, <2>2, <2>5, <2>7 DEF Roomy
  <2>9. /\ UNCHANGED <<is_null, fixed, memory_lasts, aborted, load, blocks>>
        /\ n > 0 /\ capacity' = n * m
        /\ array' = ByHash(H, n, new)
        /\ load' = Cardinality(new) /\ blocks' = 2 + 4 * load'
    BY <1>2, <1>7, <2>1, <2>2, <2>5, <2>6 DEF StoreAppends, StoreUnchanged
  <2>10. TInv' /\ all_nodes' = new
    BY ONLY <1>0, <2>6, <2>8, <2>9, NodesChange
  <2>11. \E x \in all_nodes : \E b \in array_append(x.value, v) :
            /\ x.key = k
            /\ all_nodes' = (all_nodes \ {x}) \cup {[key |-> k, value |-> b]}
    BY <1>1, <2>1, <2>2, <2>5, <2>10
  <2>12. UNCHANGED is_null /\ answer' = <<0>>
    BY <1>7 DEF StoreAppends, StoreUnchanged
  <2> QED
    BY <1>0, <2>10, <2>11, <2>12 DEF InsertEffect
<1>8. CASE StoreRefuses(n, c, nodes)
  <2>1. /\ UNCHANGED <<is_null, fixed, memory_lasts, aborted, load, blocks>>
        /\ n > 0 /\ capacity' = n * m /\ ~memory_lasts
        /\ array' = ByHash(H, n, nodes)
        /\ load' = Cardinality(nodes) /\ blocks' = 2 + 4 * load'
    BY <1>2, <1>8 DEF StoreRefuses, StoreUnchanged
  <2>2. TInv' /\ all_nodes' = nodes
    BY ONLY <1>0, <1>2, <2>1, NodesChange
  <2> QED
    BY <1>1, <1>8, <2>2 DEF StoreRefuses, StoreUnchanged, InsertEffect
<1>9. CASE StoreAdds(k, v, n, c, nodes)
  <2>1. PICK a \in array_append(array_init(ARRAY_START), v) :
           array' = ByHash(H, n, nodes \cup {[key |-> k, value |-> a]})
    BY <1>9 DEF StoreAdds
  <2>2. PICK f : f = [key |-> k, value |-> a]
    OBVIOUS
  <2>3. NodeOK(f)
    BY <1>2, <2>2, NewNode
  <2>4. \A e \in nodes : e.key # f.key
    BY <1>9, <2>2 DEF StoreAdds
  <2>5. PICK new : new = nodes \cup {f}
    OBVIOUS
  <2>6. NodesOK(new) /\ Cardinality(new) = load + 1
    BY <1>2, <2>3, <2>4, <2>5, NodeAdded
  <2>7. memory_lasts => Roomy(new)
    BY <1>2, <2>2, <2>5, NewNode DEF Roomy
  <2>8. /\ UNCHANGED <<is_null, fixed, memory_lasts, aborted>>
        /\ load' = load + 1 /\ blocks' = blocks + 4
        /\ n > 0 /\ capacity' = n * m
        /\ array' = ByHash(H, n, new)
    BY <1>9, <2>1, <2>2, <2>5 DEF StoreAdds, StoreUnchanged
  <2>9. load' = Cardinality(new) /\ blocks' = 2 + 4 * load'
    BY <1>2, <2>6, <2>8
  <2>10. TInv' /\ all_nodes' = new
    BY <1>2, <2>6, <2>7, <2>8, <2>9, NodesChange
  <2>11. \E b \in array_append(array_init(ARRAY_START), v) :
            all_nodes' = all_nodes \cup {[key |-> k, value |-> b]}
    BY <1>1, <2>2, <2>5, <2>10
  <2>12. UNCHANGED is_null /\ answer' = <<0>> /\ \A e \in all_nodes : e.key # k
    BY <1>1, <1>9 DEF StoreAdds, StoreUnchanged
  <2> QED
    BY <1>0, <2>10, <2>11, <2>12 DEF InsertEffect
<1> QED
  BY <1>5, <1>6, <1>7, <1>8, <1>9

LEMMA InitPreserves ==
  ASSUME TInv, ~aborted, memory_lasts' = memory_lasts,
         NEW c \in Nat, NEW m \in Nat \X (Nat \ {0}), NEW h \in DOMAIN HASH,
         table_init(c, m, h)
  PROVE  TInv'
<1>1. CASE UNCHANGED <<table, blocks, answer, aborted>>
  BY <1>1, AnswerChanges
<1>2. CASE /\ is_null' = FALSE /\ array' = Chains(c) /\ capacity' = c /\ load' = 0
           /\ max_load_factor' = m /\ hash_func' = h /\ blocks' = blocks + 2
           /\ UNCHANGED <<answer, aborted>>
  <2>1. PICK g \in [Key -> Nat] : g = HASH[h]
    BY TableAssumption
  <2>2. array' = ByHash(g, c, {})
    BY <1>2 DEF Chains, ByHash
  <2>3. NodesOK({}) /\ Cardinality({}) = 0
    BY FS_EmptySet DEF NodesOK
  <2>4. size' = c /\ all_nodes' = {}
    BY <2>2, <2>3, Rebuilt
  <2>5. H' = g
    BY <1>2, <2>1 DEF H
  <2>6. TableTypeOK'
    BY <1>2, <2>4 DEF TInv, TableTypeOK
  <2>7. CapacityOK'
    <3>1. capacity' = size' * 1
      BY <1>2, <2>4
    <3> QED
      BY <3>1 DEF CapacityOK
  <2>8. SizesAgree'
    BY <1>2, <2>4 DEF SizesAgree
  <2>9. blocks' = 2
    BY <1>2 DEF TInv, table_init
  <2> QED
    BY <1>2, <2>2, <2>3, <2>4, <2>5, <2>6, <2>7, <2>8, <2>9 DEF TInv
<1> QED
  BY <1>1, <1>2 DEF table_init

LEMMA InsertPreserves ==
  ASSUME TInv, ~aborted, memory_lasts' = memory_lasts,
         NEW k \in Key, NEW v \in Value, table_insert(k, v)
  PROVE  TInv' /\ InsertEffect(k, v)
<1>0. /\ size \in Nat /\ capacity \in Nat /\ memory_lasts \in BOOLEAN
      /\ memory_lasts => capacity = size
      /\ array = ByHash(H, size, all_nodes)
      /\ capacity = 0 \/ size # 0
  BY DEF TInv, TableTypeOK, SizesAgree, CapacityOK
<1>1. PICK m \in Nat \ {0} : capacity = size * m
  BY DEF TInv, CapacityOK
<1>2. CASE UNCHANGED <<table, blocks, aborted>> /\ answer' = <<1>> /\ is_null
  <2>1. UNCHANGED <<is_null, all_nodes>>
    BY <1>2 DEF table, all_nodes
  <2> QED
    BY <1>2, <2>1, AnswerChanges DEF InsertEffect
<1>3. CASE ~is_null /\ Store(k, v, array, capacity)
  <2>1. PICK q \in Nat \ {0} : capacity = size * q /\ (memory_lasts => q = 1)
    <3>1. CASE memory_lasts
      <4>1. capacity = size * 1
        BY <1>0, <3>1
      <4> QED
        BY <4>1
    <3>2. CASE ~memory_lasts
      BY <1>1, <3>2
    <3> QED
      BY <3>1, <3>2
  <2>2. size = 0 => capacity = 0
    BY <1>0
  <2>3. /\ TInv /\ ~is_null /\ ~aborted /\ memory_lasts' = memory_lasts
        /\ size \in Nat /\ q \in Nat \ {0} /\ k \in Key /\ v \in Value
        /\ Store(k, v, array, capacity)
    BY <1>0, <1>3
  <2> QED
    BY ONLY <1>0, <2>1, <2>2, <2>3, StorePreserves
<1>4. CASE /\ ~is_null /\ must_resize /\ ~memory_lasts
           /\ capacity' = capacity * 2 /\ answer' = <<1>>
           /\ UNCHANGED <<is_null, array, load, fixed, blocks, aborted>>
  <2>1. PICK q \in Nat \ {0} : q = m * 2
    OBVIOUS
  <2>2. /\ capacity' = size * q
        /\ array' = ByHash(H, size, all_nodes)
    BY <1>0, <1>1, <1>4, <2>1
  <2>3. NodesOK(all_nodes) /\ (size = 0 => all_nodes = {})
    BY NoBuckets DEF TInv
  <2>4. load' = Cardinality(all_nodes) /\ blocks' = 2 + 4 * load'
    BY <1>4 DEF TInv
  <2>5. TInv' /\ all_nodes' = all_nodes
    BY <1>0, <1>4, <2>2, <2>3, <2>4, NodesChange
  <2> QED
    BY <1>4, <2>5 DEF InsertEffect
<1>5. CASE ~is_null /\ must_resize /\ (capacity - 1) \notin DOMAIN array /\ Abort
  <2>1. capacity > 0
    BY <1>0, <1>5 DEF must_resize
  <2>2. DOMAIN array = 0..(size - 1)
    BY <1>0 DEF ByHash
  <2>3. ~memory_lasts
    BY <1>0, <1>5, <2>1, <2>2
  <2>4. UNCHANGED <<is_null, all_nodes, answer>>
    BY <1>5 DEF Abort, table, all_nodes
  <2> QED
    BY <1>5, <2>3, <2>4, NothingChanges DEF Abort, InsertEffect
<1>6. CASE /\ ~is_null /\ must_resize
           /\ Store(k, v, Rehashed(capacity * 2), capacity * 2)
  <2>1. PICK n \in Nat : n = capacity * 2
    BY <1>0
  <2>2. Rehashed(n) = ByHash(H, n, all_nodes)
    BY DEF Rehashed, ByHash, new_index, hash, H
  <2>3. n = 0 => capacity = 0
    BY <1>0, <2>1
  <2>4. /\ Store(k, v, Rehashed(n), n) /\ ~is_null /\ n = n * 1
    BY <1>6, <2>1
  <2>5. /\ TInv /\ ~aborted /\ memory_lasts' = memory_lasts
        /\ n \in Nat /\ 1 \in Nat \ {0} /\ k \in Key /\ v \in Value
    OBVIOUS
  <2> QED
    BY ONLY <2>2, <2>3, <2>4, <2>5, StorePreserves
<1> QED
  BY <1>2, <1>3, <1>4, <1>5, <1>6 DEF table_insert

\* The bucket in which a call looks for a key.
LEMMA Bucket ==
  ASSUME TInv, ~is_null, NEW k \in Key
  PROVE  /\ Reaches(array, capacity, k) =>
              /\ size \in Nat \ {0}
              /\ hash(k) % capacity = H[k] % size
              /\ Found(array[hash(k) % capacity], k) = {e \in all_nodes : e.key = k}
         /\ memory_lasts /\ ~Reaches(array, capacity, k) => capacity = 0
<1>1. /\ size \in Nat
      /\ memory_lasts => capacity = size
      /\ array = ByHash(H, size, all_nodes)
  BY DEF TInv, TableTypeOK, SizesAgree
<1>2. PICK h \in [Key -> Nat] : h = H
  BY HashType DEF TInv
<1>3. \E m \in Nat \ {0} : capacity = size * m
  BY DEF TInv, CapacityOK
<1>4. PICK n \in Nat : n = size
  BY DEF TInv, TableTypeOK
<1>5. PICK c, chains, nodes : c = capacity /\ chains = array /\ nodes = all_nodes
  OBVIOUS
<1>6. Spread(h, n, c, nodes, chains)
  BY <1>1, <1>2, <1>3, <1>4, <1>5 DEF Spread
<1>7. /\ Reaches(chains, c, k) => n > 0 /\ hash(k) % c = h[k] % n
      /\ n > 0 /\ c = n => Reaches(chains, c, k)
  BY <1>6, Reached
<1>8. ASSUME Reaches(chains, c, k)
      PROVE  Found(chains[hash(k) % c], k) = {e \in nodes : e.key = k}
  BY <1>6, <1>7, <1>8, ChainOf DEF Spread
<1>9. memory_lasts => c = n
  BY <1>4, <1>5 DEF TInv, SizesAgree
<1>10. n > 0 => n \in Nat \ {0}
  OBVIOUS
<1> QED
  BY <1>2, <1>4, <1>5, <1>7, <1>8, <1>9, <1>10

LEMMA LookupPreserves ==
  ASSUME TInv, ~aborted, memory_lasts' = memory_lasts,
         NEW k \in Key, table_lookup(k)
  PROVE  TInv'
<1>1. CASE UNCHANGED <<table, blocks, aborted>>
  BY <1>1, AnswerChanges
<1>2. CASE ~is_null /\ ~Reaches(array, capacity, k) /\ Abort
  BY <1>2, Bucket, NothingChanges DEF Abort
<1> QED
  BY <1>1, <1>2 DEF table_lookup

DeleteEffect(k) ==
    \/ UNCHANGED table
    \/ /\ UNCHANGED is_null /\ ~is_null /\ answer' = <<0>>
       /\ \E e \in all_nodes : e.key = k /\ all_nodes' = all_nodes \ {e}

LEMMA DeletePreserves ==
  ASSUME TInv, ~aborted, memory_lasts' = memory_lasts,
         NEW k \in Key, table_delete(k)
  PROVE  TInv' /\ DeleteEffect(k)
<1>1. CASE UNCHANGED <<table, blocks, aborted>>
  BY <1>1, AnswerChanges DEF DeleteEffect
<1>2. CASE ~is_null /\ ~Reaches(array, capacity, k) /\ Abort
  BY <1>2, Bucket, NothingChanges DEF Abort, DeleteEffect
<1>3. ASSUME ~is_null, Reaches(array, capacity, k),
             NEW i, i = hash(k) % capacity, NEW e \in Found(array[i], k),
             array' = [array EXCEPT ![i] = @ \ {e}], load' = load - 1,
             blocks' = blocks - 4, answer' = << 0 >>,
             UNCHANGED <<is_null, capacity, fixed, aborted>>
      PROVE  TInv' /\ DeleteEffect(k)
  <2>0. PICK nodes : nodes = all_nodes
    OBVIOUS
  <2>1. PICK n \in Nat \ {0} : n = size /\ nodes = all_nodes
    BY <1>3, <2>0, Bucket
  <2>2. PICK h \in [Key -> Nat] : h = H
    BY <1>3, HashType DEF TInv
  <2>3. i = h[k] % n /\ e \in nodes /\ e.key = k
    BY <1>3, <2>1, <2>2, Bucket
  <2>4. array = ByHash(h, n, nodes)
    BY <2>1, <2>2 DEF TInv
  <2>5. array' = ByHash(H, n, nodes \ {e})
    <3>1. i \in 0..(n - 1)
      BY <2>3, Remainder
    <3> QED
      BY <1>3, <2>2, <2>3, <2>4, <3>1 DEF ByHash
  <2>6. /\ NodesOK(nodes) /\ load = Cardinality(nodes) /\ blocks = 2 + 4 * load
        /\ load \in Nat
    BY <1>3, <2>1 DEF TInv, TableTypeOK
  <2>7. NodesOK(nodes \ {e}) /\ Cardinality(nodes \ {e}) = load - 1
    BY <2>3, <2>6, NodeRemoved
  <2>8. PICK m \in Nat \ {0} : capacity = size * m /\ (memory_lasts => m = 1)
    <3>1. CASE memory_lasts
      <4>1. capacity = size * 1
        BY <2>1, <3>1 DEF TInv, SizesAgree
      <4> QED
        BY <4>1
    <3>2. CASE ~memory_lasts
      BY <3>2 DEF TInv, CapacityOK
    <3> QED
      BY <3>1, <3>2
  <2>9. memory_lasts => Roomy(nodes \ {e})
    BY <2>1 DEF TInv, SizesAgree, Roomy
  <2>10. PICK new : new = nodes \ {e}
    OBVIOUS
  <2>11. /\ TInv /\ ~is_null /\ ~aborted
         /\ UNCHANGED <<is_null, fixed, memory_lasts, aborted>>
         /\ n \in Nat /\ m \in Nat \ {0} /\ n # 0 /\ capacity' = n * m
         /\ array' = ByHash(H, n, new) /\ NodesOK(new)
         /\ load' = Cardinality(new) /\ blocks' = 2 + 4 * load'
         /\ memory_lasts => m = 1
         /\ memory_lasts => Roomy(new)
    <3>1. capacity' = n * m /\ n # 0 /\ array' = ByHash(H, n, new) /\ NodesOK(new)
      BY <1>3, <2>1, <2>5, <2>7, <2>8, <2>10
    <3>2. load' = Cardinality(new) /\ blocks' = 2 + 4 * load'
      BY <1>3, <2>6, <2>7, <2>10
    <3>3. UNCHANGED <<is_null, fixed, memory_lasts, aborted>>
      BY <1>3
    <3> QED
      BY <1>3, <2>8, <2>9, <2>10, <3>1, <3>2, <3>3
  <2>12. TInv' /\ all_nodes' = new
    BY ONLY <2>11, NodesChange
  <2> QED
    BY <1>3, <2>1, <2>3, <2>10, <2>12 DEF DeleteEffect
<1> QED
  BY <1>1, <1>2, <1>3 DEF table_delete

LEMMA CleanupPreserves ==
  ASSUME TInv, ~aborted, memory_lasts' = memory_lasts, table_cleanup
  PROVE  TInv'
<1>1. CASE is_null /\ UNCHANGED <<table, blocks, answer, aborted>>
  BY <1>1, AnswerChanges
<1>2. CASE capacity > size /\ Abort
  <2>1. ~memory_lasts
    BY <1>2 DEF TInv, TableTypeOK, SizesAgree
  <2> QED
    BY <1>2, <2>1, NothingChanges DEF Abort
<1>3. CASE /\ is_null' = TRUE /\ array' = Chains(0) /\ capacity' = 0 /\ load' = 0
           /\ max_load_factor' = <<0, 1>>
           /\ blocks' = blocks - 4 * Cardinality(all_nodes) - 2
           /\ UNCHANGED <<answer, aborted>> /\ ~is_null
  <2>1. array' = ByHash(H', 0, {})
    BY <1>3 DEF Chains, ByHash
  <2>2. DOMAIN array' = {} /\ size' = 0 /\ all_nodes' = {}
    <3>1. DOMAIN array' = {}
      BY <1>3 DEF Chains
    <3> QED
      BY <3>1, FS_EmptySet DEF size, all_nodes
  <2>3. NodesOK({}) /\ Cardinality({}) = 0
    BY FS_EmptySet DEF NodesOK
  <2>4. TableTypeOK'
    <3>1. max_load_factor' \in Nat \X (Nat \ {0})
      BY <1>3
    <3>2. /\ is_null' \in BOOLEAN /\ aborted' \in BOOLEAN /\ memory_lasts' \in BOOLEAN
          /\ size' \in Nat /\ capacity' \in Nat /\ load' \in Nat
      BY <1>3, <2>2 DEF TInv, TableTypeOK
    <3> QED
      BY <1>3, <2>2, <3>1, <3>2 DEF TableTypeOK
  <2>5. CapacityOK'
    <3>1. capacity' = size' * 1
      BY <1>3, <2>2
    <3> QED
      BY <3>1 DEF CapacityOK
  <2>6. SizesAgree'
    BY <1>3, <2>2 DEF SizesAgree
  <2>7. blocks' = 0
    BY <1>3 DEF TInv, TableTypeOK
  <2> QED
    BY <1>3, <2>1, <2>2, <2>3, <2>4, <2>5, <2>6, <2>7 DEF TInv
<1> QED
  BY <1>1, <1>2, <1>3 DEF table_cleanup

-----------------------------------------------------------------------------
(* A client of hash_table.h *)

LEMMA TableInitially == TableInit => TInv
<1> SUFFICES ASSUME TableInit PROVE TInv
  OBVIOUS
<1>1. DOMAIN array = {} /\ size = 0 /\ all_nodes = {}
  <2>1. DOMAIN array = {}
    BY DEF TableInit, Chains
  <2> QED
    BY <2>1, FS_EmptySet DEF size, all_nodes
<1>2. array = ByHash(H, 0, {})
  BY DEF TableInit, Chains, ByHash
<1>3. NodesOK({}) /\ Cardinality({}) = 0
  BY FS_EmptySet DEF NodesOK
<1>4. TableTypeOK
  <2>1. max_load_factor \in Nat \X (Nat \ {0})
    BY DEF TableInit
  <2> QED
    BY <1>1, <2>1 DEF TableInit, TableTypeOK
<1>5. CapacityOK
  <2>1. capacity = size * 1
    BY <1>1 DEF TableInit
  <2> QED
    BY <2>1 DEF CapacityOK
<1>6. SizesAgree
  BY <1>1 DEF TableInit, SizesAgree
<1> QED
  BY <1>1, <1>2, <1>3, <1>4, <1>5, <1>6 DEF TableInit, TInv

LEMMA CallPreserves ==
  ASSUME TInv, ~aborted, memory_lasts' = memory_lasts, Call
  PROVE  TInv'
<1>1. ASSUME NEW c \in Capacities, NEW m \in MAX_LOADS, NEW h \in HASHES,
             table_init(c, m, h)
      PROVE  TInv'
  <2>1. c \in Nat /\ m \in Nat \X (Nat \ {0}) /\ h \in DOMAIN HASH
    BY TableAssumption
  <2> QED
    BY <1>1, <2>1, InitPreserves
<1>2. ASSUME table_load_factor PROVE TInv'
  BY <1>2, AnswerChanges DEF table_load_factor
<1> QED
  BY <1>1, <1>2, InsertPreserves, LookupPreserves, DeletePreserves,
     CleanupPreserves DEF Call

LEMMA TableStep == TInv /\ [TableNext]_table_vars => TInv'
<1> SUFFICES ASSUME TInv, [TableNext]_table_vars PROVE TInv'
  OBVIOUS
<1>1. CASE TableNext
  BY <1>1, CallPreserves DEF TableNext
<1>2. CASE UNCHANGED table_vars
  BY <1>2, AnswerChanges DEF table_vars
<1> QED
  BY <1>1, <1>2

\* The invariant of the table, whatever calls of hash_table.h a client makes.
THEOREM TableInvariant == TableSpec => []TInv
BY TableInitially, TableStep, PTL DEF TableSpec

LEMMA SoundIndex == TInv => IndexSound
<1> SUFFICES ASSUME TInv PROVE IndexSound
  OBVIOUS
<1>1. \A i \in DOMAIN array : \A e \in array[i] : i = hash(e.key) % size
  BY DEF TInv, ByHash, hash, H
<1> QED
  BY <1>1 DEF TInv, NodesOK, IndexSound

-----------------------------------------------------------------------------
(* The load factor *)

\* What is left of the load factor's bound when the table is full: one node.
BelowLoad ==
    \/ capacity = 0
    \/ /\ (load - 1) * max_load_factor[2] < max_load_factor[1] * capacity
       /\ max_load_factor[1] * capacity >= max_load_factor[2]

RoomForOne == \A c \in Capacities \ {0} : max_load_factor[1] * c >= max_load_factor[2]

LEMMA Products ==
  ASSUME NEW l \in Nat, NEW p \in Nat, NEW d \in Nat, NEW c \in Nat
  PROVE  /\ l * d \in Nat /\ p * c \in Nat
         /\ (l - 1) * d = l * d - d
         /\ ((l + 1) - 1) * d = l * d
         /\ ((l - 1) - 1) * d = (l * d - d) - d
         /\ p * (c * 2) = (p * c) * 2
OBVIOUS

LEMMA StoreLoad ==
  ASSUME NEW k, NEW v, NEW chains, NEW c, Store(k, v, chains, c)
  PROVE  \/ UNCHANGED table
         \/ capacity' = c /\ load' \in {load, load + 1} /\ UNCHANGED fixed
BY DEF Store, Abort

LEMMA LoadStep ==
  ASSUME TInv, RoomForOne => BelowLoad, TableNext, RoomForOne'
  PROVE  BelowLoad'
<1>1. /\ load \in Nat /\ capacity \in Nat /\ max_load_factor \in Nat \X (Nat \ {0})
  BY DEF TInv, TableTypeOK
<1>2. PICK p \in Nat, d \in Nat \ {0} : max_load_factor = <<p, d>>
  BY <1>1
<1>3. PICK x \in Nat, y \in Nat : x = load * d /\ y = p * capacity
  BY <1>1, Products
<1>4. /\ (load - 1) * d = x - d /\ ((load + 1) - 1) * d = x
      /\ ((load - 1) - 1) * d = (x - d) - d /\ p * (capacity * 2) = y * 2
  BY <1>1, <1>3, Products
<1>5. BelowLoad <=> (capacity = 0 \/ (x - d < y /\ y >= d))
  BY <1>2, <1>3, <1>4 DEF BelowLoad
<1>6. UNCHANGED max_load_factor => BelowLoad
  BY DEF RoomForOne
<1>7. CASE UNCHANGED table
  BY <1>6, <1>7 DEF table, BelowLoad
<1>8. ASSUME NEW c \in Capacities, NEW m \in MAX_LOADS, NEW h \in HASHES,
             table_init(c, m, h)
      PROVE  BelowLoad'
  <2>1. CASE capacity' = c /\ load' = 0 /\ max_load_factor' = m
    <3>1. c \in Nat /\ m \in Nat \X (Nat \ {0})
      BY TableAssumption
    <3>2. PICK q \in Nat, e \in Nat \ {0} : m = <<q, e>>
      BY <3>1
    <3>3. c # 0 => q * c >= e
      BY <2>1, <3>2 DEF RoomForOne
    <3>4. q * c \in Nat /\ (0 - 1) * e < 0
      BY <3>1, <3>2
    <3> QED
      BY <2>1, <3>2, <3>3, <3>4 DEF BelowLoad
  <2> QED
    BY <1>7, <1>8, <2>1 DEF table_init
<1>9. ASSUME NEW k \in Key, NEW v \in Value, table_insert(k, v)
      PROVE  BelowLoad'
  <2>1. CASE ~must_resize /\ capacity' = capacity /\ load' \in {load, load + 1}
             /\ UNCHANGED fixed
    <3>1. capacity = 0 \/ x < y
      BY <1>1, <1>2, <1>3, <2>1 DEF must_resize
    <3>2. BelowLoad
      BY <1>6, <2>1 DEF fixed
    <3>3. max_load_factor' = <<p, d>>
      BY <1>2, <2>1 DEF fixed
    <3>4. p * capacity' = y /\ ((load' - 1) * d = x - d \/ (load' - 1) * d = x)
      BY <1>3, <1>4, <2>1
    <3> QED
      BY <1>5, <2>1, <3>1, <3>2, <3>3, <3>4 DEF BelowLoad
  <2>2. CASE must_resize /\ capacity' = capacity * 2 /\ load' \in {load, load + 1}
             /\ UNCHANGED fixed
    <3>1. BelowLoad
      BY <1>6, <2>2 DEF fixed
    <3>2. max_load_factor' = <<p, d>>
      BY <1>2, <2>2 DEF fixed
    <3>3. /\ p * capacity' = y * 2
          /\ (load' - 1) * d = x - d \/ (load' - 1) * d = x
      BY <1>4, <2>2
    <3>4. capacity # 0
      BY <2>2 DEF must_resize
    <3> QED
      BY <1>5, <3>1, <3>2, <3>3, <3>4 DEF BelowLoad
  <2>3. \/ UNCHANGED table
        \/ ~must_resize /\ capacity' = capacity /\ load' \in {load, load + 1}
           /\ UNCHANGED fixed
        \/ must_resize /\ capacity' = capacity * 2 /\ load' \in {load, load + 1}
           /\ UNCHANGED fixed
    BY <1>9, StoreLoad DEF table_insert, Abort
  <2> QED
    BY <1>7, <2>1, <2>2, <2>3
<1>10. ASSUME NEW k \in Key, table_delete(k)
       PROVE  BelowLoad'
  <2>1. CASE load' = load - 1 /\ UNCHANGED <<capacity, fixed>>
    <3>1. BelowLoad
      BY <1>6, <2>1 DEF fixed
    <3>2. max_load_factor' = <<p, d>>
      BY <1>2, <2>1 DEF fixed
    <3>3. p * capacity' = y /\ (load' - 1) * d = (x - d) - d
      BY <1>3, <1>4, <2>1
    <3> QED
      BY <1>5, <2>1, <3>1, <3>2, <3>3 DEF BelowLoad
  <2> QED
    BY <1>7, <1>10, <2>1 DEF table_delete, Abort
<1>11. CASE table_cleanup
  BY <1>7, <1>11 DEF table_cleanup, Abort, BelowLoad
<1>12. ASSUME NEW k \in Key, table_lookup(k)
       PROVE  BelowLoad'
  BY <1>7, <1>12 DEF table_lookup, Abort
<1> QED
  BY <1>7, <1>8, <1>9, <1>10, <1>11, <1>12 DEF TableNext, Call, table_load_factor

\* Whatever the calls, the load factor exceeds its maximum by less than one
\* node: table_insert looks before it adds, and one doubling is enough.
THEOREM LoadIsBounded == TableSpec => []LoadBounded
<1>1. TableInit => (RoomForOne => BelowLoad)
  BY DEF TableInit, BelowLoad
<1>2. TInv /\ (RoomForOne => BelowLoad) /\ [TableNext]_table_vars
         => (RoomForOne => BelowLoad)'
  <2>1. CASE TableNext
    BY <2>1, LoadStep
  <2>2. CASE UNCHANGED table_vars
    BY <2>2 DEF table_vars, table, RoomForOne, BelowLoad
  <2> QED
    BY <2>1, <2>2
<1>3. (RoomForOne => BelowLoad) => LoadBounded
  BY DEF RoomForOne, BelowLoad, LoadBounded
<1> QED
  BY <1>1, <1>2, <1>3, TableInvariant, PTL DEF TableSpec

-----------------------------------------------------------------------------
(* The main of the word index *)

rounds == Len(start_sizes) * Len(max_loads) * Len(hash_funcs)

InputOK ==
    /\ user \in {"client", "lookup", "benchmark"}
    /\ read \in Seq(Line) /\ Len(read) <= MAX_LINES
    /\ rest \in Seq(Key)
    /\ stage = "insert" => rest # <<>> /\ read # <<>>

RoundOK ==
    /\ round \in Nat
    /\ user = "benchmark" /\ stage # "success" /\ ~aborted => round < rounds

\* What main holds when a table is made or done with, and when it ends.
HeldOK ==
    /\ stage \in {"open", "created", "success", "failure"} => held = {}
    /\ stage \in {"success", "failure"} => is_null \/ aborted
    /\ user = "client" => stage = "open"

IInv == TInv /\ InputOK /\ RoundOK /\ HeldOK

LEMMA QuotientBelow ==
  ASSUME NEW x \in Nat, NEW a \in Nat, NEW b \in Nat \ {0}, x < a * b
  PROVE  x \div b \in Nat /\ x \div b < a
<1>0. x \div b \in Nat /\ x % b \in 0..(b - 1)
  OBVIOUS
<1>1. PICK q \in Nat, r \in Nat : q = x \div b /\ r = x % b /\ r < b
  BY <1>0
<1>2. x = q * b + r
  <2>1. /\ x \in Int /\ b \in Int /\ b > 0 /\ q \in Int /\ q = x \div b
        /\ r \in Int /\ r = x % b
    BY <1>1
  <2> QED
    BY ONLY <2>1, Quotient
<1>3. CASE q >= a
  <2>1. PICK d \in Nat : q = a + d
    BY <1>3
  <2>2. q * b = a * b + d * b /\ d * b \in Nat
    BY <2>1
  <2> QED
    BY <1>1, <1>2, <2>2
<1> QED
  BY <1>1, <1>3

\* Every round of the benchmark has its parameters.
LEMMA ParametersOK ==
  ASSUME InputOK, RoundOK, user # "client", stage = "table", ~aborted
  PROVE  /\ parameters[1] \in Nat
         /\ parameters[2] \in Nat \X (Nat \ {0})
         /\ parameters[3] \in DOMAIN HASH
<1>1. CASE user = "lookup"
  BY <1>1, IndexAssumption DEF parameters
<1>2. CASE user = "benchmark"
  <2>1. PICK a \in Nat, b \in Nat \ {0}, c \in Nat \ {0} :
           a = Len(start_sizes) /\ b = Len(max_loads) /\ c = Len(hash_funcs)
    BY IndexAssumption
  <2>2. round \in Nat /\ round < (a * b) * c /\ a * b \in Nat
    BY <1>2, <2>1 DEF RoundOK, rounds
  <2>3. PICK p \in Nat : p = round \div c /\ p < a * b
    BY <2>2, QuotientBelow
  <2>4. p \div b \in Nat /\ p \div b < a
    BY <2>3, QuotientBelow
  <2>5. (p \div b) + 1 \in 1..Len(start_sizes)
    BY <2>1, <2>4
  <2>6. (p % b) + 1 \in 1..Len(max_loads)
    <3>1. p % b \in 0..(b - 1)
      BY Remainder
    <3> QED
      BY <2>1, <3>1
  <2>7. (round % c) + 1 \in 1..Len(hash_funcs)
    <3>1. round % c \in 0..(c - 1)
      BY <2>2, Remainder
    <3> QED
      BY <2>1, <3>1
  <2>8. start_sizes[(p \div b) + 1] \in Nat
    BY <2>5, IndexAssumption
  <2>9. max_loads[(p % b) + 1] \in Nat \X (Nat \ {0})
    BY <2>6, IndexAssumption
  <2>10. hash_funcs[(round % c) + 1] \in DOMAIN HASH
    BY <2>7, IndexAssumption
  <2> QED
    BY <1>2, <2>1, <2>3, <2>8, <2>9, <2>10 DEF parameters
<1> QED
  BY <1>1, <1>2 DEF InputOK

LEMMA LineType ==
  ASSUME NEW l \in Line
  PROVE  l \in Seq(Key)
BY DEF Line, BoundedSeq, SeqOf

LEMMA Cleaned ==
  ASSUME is_null \in BOOLEAN, table_cleanup
  PROVE  is_null' \/ aborted'
BY DEF table_cleanup, Abort, table

LEMMA InitOK == Init => IInv
<1> SUFFICES ASSUME Init PROVE IInv
  OBVIOUS
<1>1. TInv
  BY TableInitially DEF Init
<1>2. InputOK
  BY IndexAssumption DEF Init, InputOK
<1>3. 0 < rounds
  <2>1. PICK a \in Nat \ {0}, b \in Nat \ {0}, c \in Nat \ {0} :
           a = Len(start_sizes) /\ b = Len(max_loads) /\ c = Len(hash_funcs)
    BY IndexAssumption
  <2>2. a * b \in Nat \ {0}
    OBVIOUS
  <2>3. (a * b) * c \in Nat \ {0}
    BY <2>2
  <2> QED
    BY <2>1, <2>3 DEF rounds
<1>4. RoundOK /\ HeldOK
  BY <1>3 DEF Init, RoundOK, HeldOK
<1> QED
  BY <1>1, <1>2, <1>4 DEF IInv

\* A step of main that calls nothing of the table.
LEMMA MainPreserves ==
  ASSUME IInv, ~aborted, memory_lasts' = memory_lasts, TableUnchanged
  PROVE  TInv'
BY AnswerChanges DEF IInv, TableUnchanged

LEMMA InputStays ==
  ASSUME InputOK, InputUnchanged, UNCHANGED user, stage' # "insert"
  PROVE  InputOK'
BY DEF InputOK, InputUnchanged

\* The steps that leave the input alone.
LEMMA BlockSteps ==
  ASSUME IInv, ~aborted, memory_lasts' = memory_lasts, user # "client",
         InputUnchanged, UNCHANGED <<user, round>>,
         OpenFails \/ Open \/ MakeTable \/ NoTable \/ LookupFails \/ StartLookup
           \/ EndOfFile \/ EndOfInput
  PROVE  IInv'
<1>0. TInv /\ InputOK /\ RoundOK /\ HeldOK
  BY DEF IInv
<1>1. CASE OpenFails
  <2>1. InputOK' /\ RoundOK' /\ HeldOK'
    BY <1>0, <1>1, InputStays
       DEF OpenFails, Goto, TableUnchanged, RoundOK, HeldOK
  <2> QED
    BY <1>1, <2>1, MainPreserves DEF OpenFails, IInv
<1>2. CASE Open
  <2>1. InputOK' /\ RoundOK' /\ HeldOK'
    BY <1>0, <1>2, InputStays
       DEF Open, Goto, TableUnchanged, RoundOK, HeldOK
  <2> QED
    BY <1>2, <2>1, MainPreserves DEF Open, IInv
<1>3. CASE MakeTable
  <2>1. TInv'
    <3>1. stage = "table" /\ table_init(parameters[1], parameters[2], parameters[3])
      BY <1>3 DEF MakeTable, Goto
    <3> QED
      BY <1>0, <3>1, ParametersOK, InitPreserves
  <2>2. InputOK' /\ RoundOK' /\ HeldOK'
    BY <1>0, <1>3, InputStays DEF MakeTable, Goto, RoundOK, HeldOK
  <2> QED
    BY <2>1, <2>2 DEF IInv
<1>4. CASE NoTable
  <2>1. InputOK' /\ RoundOK' /\ HeldOK'
    BY <1>0, <1>4, InputStays
       DEF NoTable, Goto, TableUnchanged, table, RoundOK, HeldOK
  <2> QED
    BY <1>4, <2>1, MainPreserves DEF NoTable, IInv
<1>5. CASE LookupFails
  <2>1. TInv' /\ (is_null' \/ aborted')
    BY <1>0, <1>5, CleanupPreserves, Cleaned DEF LookupFails, TInv, TableTypeOK
  <2>2. InputOK' /\ RoundOK' /\ HeldOK'
    BY <1>0, <1>5, <2>1, InputStays DEF LookupFails, Goto, RoundOK, HeldOK
  <2> QED
    BY <2>1, <2>2 DEF IInv
<1>6. CASE StartLookup
  <2>1. InputOK' /\ RoundOK' /\ HeldOK'
    BY <1>0, <1>6, InputStays
       DEF StartLookup, Goto, TableUnchanged, RoundOK, HeldOK
  <2> QED
    BY <1>6, <2>1, MainPreserves DEF StartLookup, IInv
<1>7. CASE EndOfFile
  <2>1. InputOK' /\ RoundOK' /\ HeldOK'
    BY <1>0, <1>7, InputStays
       DEF EndOfFile, Goto, TableUnchanged, RoundOK, HeldOK
  <2> QED
    BY <1>7, <2>1, MainPreserves DEF EndOfFile, IInv
<1>8. CASE EndOfInput
  <2>1. TInv' /\ (is_null' \/ aborted')
    BY <1>0, <1>8, CleanupPreserves, Cleaned DEF EndOfInput, TInv, TableTypeOK
  <2>2. InputOK' /\ RoundOK' /\ HeldOK'
    BY <1>0, <1>8, <2>1, InputStays DEF EndOfInput, Goto, RoundOK, HeldOK
  <2> QED
    BY <2>1, <2>2 DEF IInv
<1> QED
  BY <1>1, <1>2, <1>3, <1>4, <1>5, <1>6, <1>7, <1>8

LEMMA ReadLineStep ==
  ASSUME IInv, ~aborted, memory_lasts' = memory_lasts, user # "client",
         NEW l \in Line, ReadLine(l)
  PROVE  IInv'
<1>1. TInv'
  BY MainPreserves DEF ReadLine
<1>2. InputOK'
  <2>1. l \in Seq(Key) /\ Append(read, l) \in Seq(Line)
        /\ Len(Append(read, l)) = Len(read) + 1 /\ Append(read, l) # <<>>
        /\ Len(read) \in Nat
    <3>1. read \in Seq(Line)
      BY DEF IInv, InputOK
    <3> QED
      BY <3>1, LineType
  <2>2. CASE stage' = "crashed" /\ UNCHANGED <<read, rest, user>>
    BY <2>2 DEF IInv, InputOK
  <2>3. CASE /\ read' = Append(read, l) /\ rest' = l /\ UNCHANGED user
             /\ stage' = IF l = <<>> THEN "fgets" ELSE "insert"
    BY <2>1, <2>3, IndexAssumption DEF IInv, InputOK, ReadLine
  <2> QED
    BY <2>2, <2>3 DEF ReadLine
<1>3. RoundOK' /\ HeldOK'
  BY DEF IInv, RoundOK, HeldOK, ReadLine, TableUnchanged
<1> QED
  BY <1>1, <1>2, <1>3 DEF IInv

LEMMA InsertWordStep ==
  ASSUME IInv, ~aborted, memory_lasts' = memory_lasts, user # "client",
         InsertWord
  PROVE  IInv'
<1>1. /\ rest \in Seq(Key) /\ rest # <<>> /\ read \in Seq(Line) /\ read # <<>>
      /\ Len(read) <= MAX_LINES
  BY DEF IInv, InputOK, InsertWord
<1>2. /\ Head(rest) \in Key /\ Tail(rest) \in Seq(Key)
      /\ Len(read) \in 1..MAX_LINES
  BY <1>1, IndexAssumption
<1>6. Len(rest) # 1 => Tail(rest) # <<>>
  <2>1. Len(rest) # 0 /\ Len(Tail(rest)) = Len(rest) - 1
    BY <1>1
  <2> QED
    BY <2>1
<1>3. TInv'
  <2>1. line_number \in Value
    BY <1>2, IndexAssumption DEF line_number
  <2> QED
    BY <1>2, <2>1, InsertPreserves DEF IInv, InsertWord
<1>4. InputOK'
  BY <1>2, <1>6 DEF IInv, InputOK, InsertWord
<1>5. RoundOK' /\ HeldOK'
  BY DEF IInv, RoundOK, HeldOK, InsertWord
<1> QED
  BY <1>3, <1>4, <1>5 DEF IInv

LEMMA QueryStep ==
  ASSUME IInv, ~aborted, memory_lasts' = memory_lasts, user # "client",
         NEW l \in Line, Query(l)
  PROVE  IInv'
<1>1. TInv'
  <2>1. CASE TableUnchanged
    BY <2>1, MainPreserves
  <2>2. CASE l # <<>> /\ table_lookup(Head(l))
    <3>1. Head(l) \in Key
      BY <2>2, LineType
    <3> QED
      BY <2>2, <3>1, LookupPreserves DEF IInv
  <2> QED
    BY <2>1, <2>2 DEF Query
<1>2. InputOK' /\ RoundOK' /\ HeldOK'
  BY DEF IInv, InputOK, RoundOK, HeldOK, Query
<1> QED
  BY <1>1, <1>2 DEF IInv

LEMMA PrintSteps ==
  ASSUME IInv, ~aborted, memory_lasts' = memory_lasts, user # "client",
         PrintNumber \/ EndOfWord
  PROVE  IInv'
<1>1. TInv'
  BY MainPreserves DEF PrintNumber, EndOfWord
<1>2. InputOK' /\ RoundOK' /\ HeldOK'
  BY DEF IInv, InputOK, RoundOK, HeldOK, PrintNumber, EndOfWord, Goto
<1> QED
  BY <1>1, <1>2 DEF IInv

LEMMA TimedStep ==
  ASSUME IInv, ~aborted, memory_lasts' = memory_lasts, user # "client",
         Timed
  PROVE  IInv'
<1>1. TInv' /\ (is_null' \/ aborted')
  BY CleanupPreserves, Cleaned DEF IInv, TInv, TableTypeOK, Timed
<1>2. InputOK'
  BY IndexAssumption DEF IInv, InputOK, Timed
<1>3. RoundOK' /\ HeldOK'
  BY <1>1 DEF IInv, RoundOK, HeldOK, Timed, rounds
<1> QED
  BY <1>1, <1>2, <1>3 DEF IInv

LEMMA ClientStep ==
  ASSUME IInv, ~aborted, memory_lasts' = memory_lasts, user = "client",
         Call, UNCHANGED main_vars
  PROVE  IInv'
<1>1. TInv'
  BY CallPreserves DEF IInv
<1>2. UNCHANGED <<user, stage, held, round, read, rest>>
  BY DEF main_vars
<1>3. InputOK' /\ RoundOK'
  BY <1>2 DEF IInv, InputOK, RoundOK
<1> QED
  BY <1>1, <1>2, <1>3 DEF IInv, HeldOK

LEMMA NextOK == IInv /\ [Next]_vars => IInv'
<1> SUFFICES ASSUME IInv, [Next]_vars PROVE IInv'
  OBVIOUS
<1>1. CASE Next
  <2>1. ~aborted /\ memory_lasts' = memory_lasts
    BY <1>1 DEF Next
  <2>2. CASE user = "client" /\ Call /\ UNCHANGED main_vars
    BY <2>1, <2>2, ClientStep
  <2>3. CASE user # "client" /\ Main
    BY <2>1, <2>3, BlockSteps, ReadLineStep, InsertWordStep, QueryStep, PrintSteps,
       TimedStep DEF Main, Work
  <2> QED
    BY <1>1, <2>2, <2>3 DEF Next
<1>2. CASE UNCHANGED vars
  <2>1. UNCHANGED table_vars /\ UNCHANGED main_vars
    BY <1>2 DEF vars
  <2>2. UNCHANGED <<user, stage, held, round, read, rest, aborted, is_null>>
    BY <2>1 DEF main_vars, table_vars, table
  <2>3. TInv'
    BY <2>1, AnswerChanges DEF table_vars, IInv
  <2> QED
    BY <2>2, <2>3 DEF IInv, InputOK, RoundOK, HeldOK
<1> QED
  BY <1>1, <1>2

\* The same for the program of main.c, with what its stages say of its state.
THEOREM MainInvariant == Spec => []IInv
BY InitOK, NextOK, PTL DEF Spec

\* No call of hash_table.h, and no way of main.c through it, loses a node,
\* leaves one in a wrong chain, gives a key two, or loses count of the blocks.
THEOREM IndexIsSound == Spec => []IndexSound
<1>1. IInv => IndexSound
  BY SoundIndex DEF IInv
<1> QED
  BY <1>1, MainInvariant, PTL

\* Capacities and blocks part only when there is no memory for a bigger block.
THEOREM SizesStayEqual == Spec => []SizesAgree
<1>1. IInv => SizesAgree
  BY DEF IInv, TInv
<1> QED
  BY <1>1, MainInvariant, PTL

\* Every way out of main.c leaves nothing on the heap and no file open.
THEOREM MainEndsClean == Spec => []MainFreesAll
<1>1. IInv => MainFreesAll
  BY DEF IInv, TInv, HeldOK, MainFreesAll
<1> QED
  BY <1>1, MainInvariant, PTL

-----------------------------------------------------------------------------
(* The dictionary *)

\* The values that a set of nodes holds for a key.
Data(nodes, k) ==
    IF \E e \in nodes : e.key = k
    THEN (CHOOSE e \in nodes : e.key = k).value.data
    ELSE <<>>

LEMMA DataOf ==
  ASSUME NEW nodes, NodesOK(nodes)
  PROVE  /\ \A e \in nodes : Data(nodes, e.key) = e.value.data
         /\ \A e \in nodes : e.value.data # <<>>
         /\ \A k : (\A e \in nodes : e.key # k) => Data(nodes, k) = <<>>
         /\ \A k : Data(nodes, k) # <<>> => \E e \in nodes : e.key = k
<1>1. ASSUME NEW e \in nodes
      PROVE  Data(nodes, e.key) = e.value.data /\ e.value.data # <<>>
  <2>1. PICK f : f = CHOOSE x \in nodes : x.key = e.key
    OBVIOUS
  <2>2. f \in nodes /\ f.key = e.key
    BY <2>1
  <2>3. f = e
    BY <2>2 DEF NodesOK
  <2>4. NodeOK(e)
    BY DEF NodesOK
  <2> QED
    BY <2>1, <2>3, <2>4 DEF Data, NodeOK
<1>2. ASSUME NEW k
      PROVE  /\ (\A e \in nodes : e.key # k) => Data(nodes, k) = <<>>
             /\ Data(nodes, k) # <<>> => \E e \in nodes : e.key = k
  BY DEF Data
<1> QED
  BY <1>1, <1>2

LEMMA DataReplaced ==
  ASSUME NEW nodes, NodesOK(nodes), NEW e \in nodes, NEW f, NodeOK(f), f.key = e.key,
         NEW k
  PROVE  Data((nodes \ {e}) \cup {f}, k)
            = IF k = e.key THEN f.value.data ELSE Data(nodes, k)
<1>1. PICK new : new = (nodes \ {e}) \cup {f}
  OBVIOUS
<1>2. NodesOK(new) /\ f \in new
  BY <1>1, NodeReplaced
<1>3. CASE k = e.key
  BY <1>1, <1>2, <1>3, DataOf
<1>4. CASE k # e.key /\ \E x \in nodes : x.key = k
  <2>1. PICK x \in nodes : x.key = k
    BY <1>4
  <2>2. x \in new
    BY <1>1, <1>4, <2>1
  <2>3. Data(new, k) = x.value.data /\ Data(nodes, k) = x.value.data
    BY <1>2, <2>1, <2>2, DataOf
  <2> QED
    BY <1>1, <1>4, <2>3
<1>5. CASE k # e.key /\ \A x \in nodes : x.key # k
  <2>1. \A x \in new : x.key # k
    BY <1>1, <1>5
  <2> QED
    BY <1>1, <1>2, <1>5, <2>1, DataOf
<1> QED
  BY <1>3, <1>4, <1>5

LEMMA DataAdded ==
  ASSUME NEW nodes, NodesOK(nodes), NEW f, NodeOK(f), \A e \in nodes : e.key # f.key,
         NEW k
  PROVE  Data(nodes \cup {f}, k)
            = IF k = f.key THEN f.value.data ELSE Data(nodes, k)
<1>1. PICK new : new = nodes \cup {f}
  OBVIOUS
<1>2. NodesOK(new) /\ f \in new
  BY <1>1, NodeAdded
<1>3. CASE k = f.key
  BY <1>1, <1>2, <1>3, DataOf
<1>4. CASE k # f.key /\ \E x \in nodes : x.key = k
  <2>1. PICK x \in nodes : x.key = k
    BY <1>4
  <2>2. x \in new
    BY <1>1, <2>1
  <2>3. Data(new, k) = x.value.data /\ Data(nodes, k) = x.value.data
    BY <1>2, <2>1, <2>2, DataOf
  <2> QED
    BY <1>1, <1>4, <2>3
<1>5. CASE k # f.key /\ \A x \in nodes : x.key # k
  <2>1. \A x \in new : x.key # k
    BY <1>1, <1>5
  <2> QED
    BY <1>1, <1>2, <1>5, <2>1, DataOf
<1> QED
  BY <1>3, <1>4, <1>5

LEMMA DataRemoved ==
  ASSUME NEW nodes, NodesOK(nodes), NEW e \in nodes, NEW k
  PROVE  Data(nodes \ {e}, k) = IF k = e.key THEN <<>> ELSE Data(nodes, k)
<1>1. PICK new : new = nodes \ {e}
  OBVIOUS
<1>2. NodesOK(new) /\ \A x \in new : x.key # e.key
  BY <1>1, NodeRemoved
<1>3. CASE k = e.key
  BY <1>1, <1>2, <1>3, DataOf
<1>4. CASE k # e.key /\ \E x \in nodes : x.key = k
  <2>1. PICK x \in nodes : x.key = k
    BY <1>4
  <2>2. x \in new
    BY <1>1, <1>4, <2>1
  <2>3. Data(new, k) = x.value.data /\ Data(nodes, k) = x.value.data
    BY <1>2, <2>1, <2>2, DataOf
  <2> QED
    BY <1>1, <1>4, <2>3
<1>5. CASE k # e.key /\ \A x \in nodes : x.key # k
  <2>1. \A x \in new : x.key # k
    BY <1>1, <1>5
  <2> QED
    BY <1>1, <1>2, <1>5, <2>1, DataOf
<1> QED
  BY <1>3, <1>4, <1>5

\* A key is present when it has a node; so there are as many of either.
LEMMA PresentKeys ==
  ASSUME NEW nodes, NodesOK(nodes)
  PROVE  Cardinality({k \in Key : Data(nodes, k) # <<>>}) = Cardinality(nodes)
<1> DEFINE present == {k \in Key : Data(nodes, k) # <<>>}
           f == [e \in nodes |-> e.key]
<1>1. \A e \in nodes : e.key \in present
  <2>1. \A e \in nodes : e.key \in Key
    BY DEF NodesOK, NodeOK, Node
  <2> QED
    BY <2>1, DataOf
<1>2. \A k \in present : \E e \in nodes : f[e] = k
  BY DataOf
<1>3. f \in [nodes -> present]
  BY <1>1
<1>4. f \in Bijection(nodes, present)
  <2>1. \A a, b \in nodes : f[a] = f[b] => a = b
    BY DEF NodesOK
  <2> QED
    BY <1>2, <1>3, <2>1, Fun_IsBij
<1> QED
  BY <1>4, FS_Bijection DEF ExistsBijection, NodesOK

\* What the walk of a chain finds is what the nodes hold.
StoredAsNodes == \A k \in Key : stored(k) = Data(all_nodes, k)

LEMMA StoredNodes == TInv => StoredAsNodes
<1> SUFFICES ASSUME TInv, NEW k \in Key
             PROVE  stored(k) = Data(all_nodes, k)
  BY DEF StoredAsNodes
<1>1. NodesOK(all_nodes) /\ size \in Nat
  BY DEF TInv, TableTypeOK
<1>2. CASE size = 0
  BY <1>1, <1>2, NoBuckets, DataOf DEF stored
<1>3. CASE size # 0
  <2>0. PICK nodes : nodes = all_nodes
    OBVIOUS
  <2>1. PICK n \in Nat \ {0} : n = size /\ nodes = all_nodes
    BY <1>1, <1>3, <2>0
  <2>2. ~is_null
    BY <1>3 DEF TInv, TableTypeOK
  <2>3. PICK h \in [Key -> Nat] : h = H
    BY <2>2, HashType DEF TInv
  <2>4. array = ByHash(h, n, nodes) /\ hash(k) = h[k]
    BY <2>1, <2>3 DEF TInv, hash, H
  <2>5. Found(array[hash(k) % size], k) = {e \in nodes : e.key = k}
    BY <2>1, <2>4, ChainOf
  <2>6. CASE \E e \in nodes : e.key = k
    <3>1. PICK e \in nodes : e.key = k
      BY <2>6
    <3>2. {x \in nodes : x.key = k} = {e}
      BY <1>1, <2>1, <3>1 DEF NodesOK
    <3>3. stored(k) = (CHOOSE x \in {e} : TRUE).value.data
      BY <1>3, <2>5, <3>2 DEF stored
    <3>4. stored(k) = e.value.data
      BY <3>3
    <3> QED
      BY <1>1, <2>1, <3>1, <3>4, DataOf
  <2>7. CASE \A e \in nodes : e.key # k
    <3>1. {x \in nodes : x.key = k} = {}
      BY <2>7
    <3>2. stored(k) = <<>>
      BY <1>3, <2>5, <3>1 DEF stored
    <3> QED
      BY <1>1, <2>1, <2>7, <3>2, DataOf
  <2> QED
    BY <2>6, <2>7
<1> QED
  BY <1>2, <1>3

entries == [k \in Key |-> stored(k)]
nodes_data == [k \in Key |-> Data(all_nodes, k)]

EntriesAreData == entries = nodes_data

LEMMA EntriesOfNodes == TInv => EntriesAreData
BY StoredNodes DEF StoredAsNodes, EntriesAreData, entries, nodes_data

LEMMA EntriesKept ==
  ASSUME EntriesAreData, EntriesAreData', UNCHANGED all_nodes
  PROVE  UNCHANGED entries
BY DEF EntriesAreData, nodes_data

\* What an insertion is to the dictionary.
Inserted(k, v) ==
    \/ UNCHANGED <<is_null, entries, answer>> /\ aborted'
    \/ D!Refuse(k) /\ UNCHANGED <<is_null, entries>> /\ (~memory_lasts \/ is_null)
    \/ D!Put(k, v) /\ UNCHANGED is_null

LEMMA AbstractInsert ==
  ASSUME EntriesAreData, EntriesAreData', NodesOK(all_nodes), memory_lasts \in BOOLEAN,
         NEW k \in Key, NEW v \in Value, InsertEffect(k, v)
  PROVE  Inserted(k, v)
<1>1. CASE UNCHANGED <<is_null, all_nodes, answer>> /\ aborted'
  BY <1>1, EntriesKept DEF Inserted
<1>2. CASE UNCHANGED <<is_null, all_nodes>> /\ answer' = <<1>>
           /\ (~memory_lasts \/ is_null)
  <2>1. UNCHANGED entries
    BY <1>2, EntriesKept
  <2>2. D!Refuse(k)
    BY <1>2 DEF D!Refuse
  <2> QED
    BY <1>2, <2>1, <2>2 DEF Inserted
<1>3. ASSUME UNCHANGED is_null, ~is_null, answer' = << 0 >>,
             NEW e \in all_nodes, NEW a \in array_append(e.value, v), e.key = k,
             all_nodes' = (all_nodes \ {e}) \cup {[key |-> k, value |-> a]}
      PROVE  Inserted(k, v)
  <2>1. PICK f : f = [key |-> k, value |-> a]
    OBVIOUS
  <2>2. NodeOK(e)
    BY DEF NodesOK
  <2>3. /\ NodeOK(f) /\ f.key = e.key /\ f.value = a
        /\ \/ a.data = Append(e.value.data, v)
           \/ a.data = e.value.data /\ ~memory_lasts
    BY <1>3, <2>1, <2>2, AppendToNode
  <2>4. ASSUME NEW x \in Key
        PROVE  entries'[x] = IF x = k THEN a.data ELSE entries[x]
    <3>1. Data((all_nodes \ {e}) \cup {f}, x)
             = IF x = k THEN a.data ELSE Data(all_nodes, x)
      BY <1>3, <2>3, DataReplaced
    <3>2. entries'[x] = Data(all_nodes', x) /\ entries[x] = Data(all_nodes, x)
      BY DEF EntriesAreData, nodes_data
    <3> QED
      BY <1>3, <2>1, <3>1, <3>2
  <2>5. entries[k] = e.value.data /\ entries[k] # <<>>
    BY <1>3, DataOf DEF EntriesAreData, nodes_data
  <2>6. entries = [x \in Key |-> entries[x]] /\ entries' = [x \in Key |-> entries'[x]]
    BY DEF entries
  <2>7. CASE a.data = Append(e.value.data, v)
    <3>1. entries' = [entries EXCEPT ![k] = Append(@, v)]
      BY <2>4, <2>5, <2>6, <2>7
    <3>2. D!Put(k, v)
      BY <1>3, <3>1 DEF D!Put, entries
    <3> QED
      BY <1>3, <3>2 DEF Inserted
  <2>8. CASE a.data = e.value.data /\ ~memory_lasts
    <3>1. UNCHANGED entries
      BY <2>4, <2>5, <2>6, <2>8
    <3>2. k \in D!present
      BY <2>5 DEF D!present, entries
    <3>3. D!Refuse(k)
      BY <1>3, <3>2 DEF D!Refuse
    <3> QED
      BY <1>3, <2>8, <3>1, <3>3 DEF Inserted
  <2> QED
    BY <2>3, <2>7, <2>8
<1>4. ASSUME UNCHANGED is_null, ~is_null, answer' = << 0 >>, \A e \in all_nodes : e.key # k,
             NEW a \in array_append(array_init(ARRAY_START), v),
             all_nodes' = all_nodes \cup {[key |-> k, value |-> a]}
      PROVE  Inserted(k, v)
  <2>1. PICK f : f = [key |-> k, value |-> a]
    OBVIOUS
  <2>2. NodeOK(f) /\ f.key = k /\ f.value.data = <<v>>
    BY <2>1, NewNode
  <2>3. ASSUME NEW x \in Key
        PROVE  entries'[x] = IF x = k THEN <<v>> ELSE entries[x]
    <3>1. Data(all_nodes \cup {f}, x) = IF x = k THEN <<v>> ELSE Data(all_nodes, x)
      BY <1>4, <2>2, DataAdded
    <3>2. entries'[x] = Data(all_nodes', x) /\ entries[x] = Data(all_nodes, x)
      BY DEF EntriesAreData, nodes_data
    <3> QED
      BY <1>4, <2>1, <3>1, <3>2
  <2>4. entries[k] = <<>>
    BY <1>4, DataOf DEF EntriesAreData, nodes_data
  <2>5. entries = [x \in Key |-> entries[x]] /\ entries' = [x \in Key |-> entries'[x]]
    BY DEF entries
  <2>6. Append(<<>>, v) = <<v>>
    OBVIOUS
  <2>7. entries' = [entries EXCEPT ![k] = Append(@, v)]
    BY <2>3, <2>4, <2>5, <2>6
  <2>8. D!Put(k, v)
    BY <1>4, <2>7 DEF D!Put, entries
  <2> QED
    BY <1>4, <2>8 DEF Inserted
<1> QED
  BY <1>1, <1>2, <1>3, <1>4 DEF InsertEffect

LEMMA InsertedIsStep ==
  ASSUME NEW k \in Key, NEW v \in Value, Inserted(k, v)
  PROVE  D!Next \/ UNCHANGED <<is_null, entries, answer>>
BY DEF Inserted, D!Next, entries

LEMMA AbstractDelete ==
  ASSUME TInv, EntriesAreData, EntriesAreData', NEW k \in Key, table_delete(k),
         DeleteEffect(k)
  PROVE  D!Next \/ UNCHANGED <<is_null, entries, answer>>
<1>0. NodesOK(all_nodes) /\ load \in Nat
  BY DEF TInv, TableTypeOK
<1>1. ASSUME UNCHANGED table
      PROVE  UNCHANGED <<is_null, entries>>
  BY <1>1, EntriesKept DEF table, all_nodes
<1>2. CASE is_null /\ answer' = <<-1>> /\ UNCHANGED table
  <2>1. D!DeleteNothing(k)
    BY <1>2 DEF D!DeleteNothing
  <2> QED
    BY <1>1, <1>2, <2>1 DEF D!Next, entries
<1>3. CASE Abort
  BY <1>1, <1>3 DEF Abort
<1>4. CASE /\ ~is_null /\ Reaches(array, capacity, k)
           /\ Found(array[hash(k) % capacity], k) = {}
           /\ answer' = <<1>> /\ UNCHANGED table
  <2>1. {e \in all_nodes : e.key = k} = {}
    BY <1>4, Bucket
  <2>2. entries[k] = <<>>
    BY <1>0, <2>1, DataOf DEF EntriesAreData, nodes_data
  <2>3. D!DeleteNothing(k)
    BY <1>4, <2>2 DEF D!DeleteNothing, D!present, entries
  <2> QED
    BY <1>1, <1>4, <2>3 DEF D!Next, entries
<1>5. CASE load' = load - 1
  <2>1. ~(UNCHANGED table)
    BY <1>0, <1>5 DEF table
  <2>2. PICK e \in all_nodes : e.key = k /\ all_nodes' = all_nodes \ {e}
    BY <2>1 DEF DeleteEffect
  <2>3. UNCHANGED is_null /\ ~is_null /\ answer' = <<0>>
    BY <2>1 DEF DeleteEffect
  <2>4. ASSUME NEW x \in Key
        PROVE  entries'[x] = IF x = k THEN <<>> ELSE entries[x]
    <3>1. Data(all_nodes \ {e}, x) = IF x = k THEN <<>> ELSE Data(all_nodes, x)
      BY <1>0, <2>2, DataRemoved
    <3>2. entries'[x] = Data(all_nodes', x) /\ entries[x] = Data(all_nodes, x)
      BY DEF EntriesAreData, nodes_data
    <3> QED
      BY <2>2, <3>1, <3>2
  <2>5. entries = [x \in Key |-> entries[x]] /\ entries' = [x \in Key |-> entries'[x]]
    BY DEF entries
  <2>6. entries' = [entries EXCEPT ![k] = <<>>]
    BY <2>4, <2>5
  <2>7. entries[k] # <<>>
    BY <1>0, <2>2, DataOf DEF EntriesAreData, nodes_data
  <2>8. D!Delete(k)
    BY <2>3, <2>6, <2>7 DEF D!Delete, D!present, entries
  <2> QED
    BY <2>8 DEF D!Next
<1> QED
  BY <1>2, <1>3, <1>4, <1>5 DEF table_delete

LEMMA LookedUp ==
  ASSUME TInv, EntriesAreData, EntriesAreData', NEW k \in Key, table_lookup(k)
  PROVE  /\ UNCHANGED <<is_null, entries>>
         /\ answer' = entries[k] \/ (aborted' /\ UNCHANGED answer)
<1>0. NodesOK(all_nodes)
  BY DEF TInv
<1>1. UNCHANGED <<is_null, entries>>
  <2>1. UNCHANGED table
    BY DEF table_lookup, Abort
  <2> QED
    BY <2>1, EntriesKept DEF table, all_nodes
<1>2. CASE is_null /\ answer' = <<>>
  <2>1. all_nodes = {}
    BY <1>2, NoBuckets DEF TInv, TableTypeOK
  <2>2. entries[k] = <<>>
    BY <1>0, <2>1, DataOf DEF EntriesAreData, nodes_data
  <2> QED
    BY <1>1, <1>2, <2>2
<1>3. CASE Abort
  BY <1>1, <1>3 DEF Abort
<1>4. CASE /\ ~is_null /\ Reaches(array, capacity, k)
           /\ LET found == Found(array[hash(k) % capacity], k)
              IN  \/ found = {} /\ answer' = <<>>
                  \/ \E e \in found : answer' = e.value.data
  <2>1. Found(array[hash(k) % capacity], k) = {e \in all_nodes : e.key = k}
    BY <1>4, Bucket
  <2>2. \/ (\A e \in all_nodes : e.key # k) /\ answer' = <<>>
        \/ \E e \in all_nodes : e.key = k /\ answer' = e.value.data
    BY <1>4, <2>1
  <2>3. answer' = entries[k]
    BY <1>0, <2>2, DataOf DEF EntriesAreData, nodes_data
  <2> QED
    BY <1>1, <2>3
<1> QED
  BY <1>2, <1>3, <1>4 DEF table_lookup

LEMMA AbstractLookup ==
  ASSUME TInv, EntriesAreData, EntriesAreData', NEW k \in Key, table_lookup(k)
  PROVE  D!Next \/ UNCHANGED <<is_null, entries, answer>>
<1>1. CASE answer' = entries[k]
  <2>1. D!Lookup(k)
    BY <1>1 DEF D!Lookup, entries
  <2> QED
    BY <2>1, LookedUp DEF D!Next, entries
<1> QED
  BY <1>1, LookedUp

LEMMA AbstractLoadFactor ==
  ASSUME TInv, EntriesAreData, EntriesAreData', table_load_factor
  PROVE  D!Next
<1>1. UNCHANGED <<is_null, entries>>
  BY EntriesKept DEF table_load_factor, table, all_nodes
<1>2. D!present = {k \in Key : Data(all_nodes, k) # <<>>}
  BY DEF D!present, EntriesAreData, entries, nodes_data
<1>3. Cardinality(D!present) = load
  BY <1>2, PresentKeys DEF TInv
<1>4. D!LoadFactor
  <2>1. CASE is_null \/ capacity = 0
    BY <2>1 DEF table_load_factor, D!LoadFactor
  <2>2. CASE ~(is_null \/ capacity = 0)
    <3>1. answer' = <<load, capacity>>
      BY <2>2 DEF table_load_factor
    <3>2. Len(answer') = 2 /\ answer'[1] = load
      BY <3>1
    <3>3. ~is_null
      BY <2>2
    <3> QED
      BY <1>3, <3>2, <3>3 DEF D!LoadFactor, D!Cardinality, Cardinality
  <2> QED
    BY <2>1, <2>2
<1> QED
  BY <1>1, <1>4 DEF D!Next, entries

LEMMA NoEntries ==
  ASSUME EntriesAreData, all_nodes = {}
  PROVE  entries = D!Empty
BY DEF EntriesAreData, nodes_data, Data, D!Empty

LEMMA AbstractCreate ==
  ASSUME TInv, TInv', EntriesAreData, EntriesAreData', NEW c \in Nat, NEW m, NEW h,
         table_init(c, m, h)
  PROVE  /\ UNCHANGED <<entries, answer>>
         /\ D!Next \/ UNCHANGED is_null
<1>1. CASE UNCHANGED <<table, answer>>
  BY <1>1, EntriesKept DEF table, all_nodes
<1>2. CASE is_null' = FALSE /\ array' = Chains(c) /\ UNCHANGED answer
  <2>1. is_null /\ all_nodes = {}
    BY NoBuckets DEF table_init, TInv, TableTypeOK
  <2>2. all_nodes' = {}
    BY <1>2 DEF Chains, all_nodes
  <2>3. UNCHANGED entries
    BY <2>1, <2>2, EntriesKept
  <2>4. D!Create
    BY <1>2, <2>1, <2>3 DEF D!Create, entries
  <2> QED
    BY <1>2, <2>3, <2>4 DEF D!Next
<1> QED
  BY <1>1, <1>2 DEF table_init

LEMMA AbstractClose ==
  ASSUME EntriesAreData, EntriesAreData', table_cleanup
  PROVE  D!Next \/ UNCHANGED <<is_null, entries, answer>>
<1>1. CASE UNCHANGED <<table, answer>>
  BY <1>1, EntriesKept DEF table, all_nodes
<1>2. CASE is_null' = TRUE /\ array' = Chains(0) /\ UNCHANGED answer
  <2>1. DOMAIN array' = {}
    BY <1>2 DEF Chains
  <2>2. all_nodes' = {}
    BY <2>1 DEF all_nodes
  <2>3. entries' = D!Empty
    BY <2>2 DEF EntriesAreData, nodes_data, Data, D!Empty
  <2>4. D!Close
    BY <1>2, <2>3 DEF D!Close, entries
  <2> QED
    BY <2>4 DEF D!Next
<1> QED
  BY <1>1, <1>2 DEF table_cleanup, Abort

LEMMA AbstractInit == Init => D!Init
<1> SUFFICES ASSUME Init PROVE D!Init
  OBVIOUS
<1>1. all_nodes = {}
  <2>1. DOMAIN array = {}
    BY DEF Init, TableInit, Chains
  <2> QED
    BY <2>1 DEF all_nodes
<1>2. entries = D!Empty
  BY <1>1, TableInitially, EntriesOfNodes, NoEntries DEF Init
<1> QED
  BY <1>2 DEF D!Init, entries, Init, TableInit

LEMMA AbstractCall ==
  ASSUME TInv, TInv', EntriesAreData, EntriesAreData', ~aborted,
         memory_lasts' = memory_lasts, Call
  PROVE  D!Next \/ UNCHANGED <<is_null, entries, answer>>
<1>1. ASSUME NEW c \in Capacities, NEW m \in MAX_LOADS, NEW h \in HASHES,
             table_init(c, m, h)
      PROVE  D!Next \/ UNCHANGED <<is_null, entries, answer>>
  BY <1>1, TableAssumption, AbstractCreate
<1>2. ASSUME NEW k \in Key, NEW v \in Value, table_insert(k, v)
      PROVE  D!Next \/ UNCHANGED <<is_null, entries, answer>>
  BY <1>2, InsertPreserves, AbstractInsert, InsertedIsStep DEF TInv, TableTypeOK
<1>3. ASSUME NEW k \in Key, table_delete(k)
      PROVE  D!Next \/ UNCHANGED <<is_null, entries, answer>>
  BY <1>3, DeletePreserves, AbstractDelete
<1> QED
  BY <1>1, <1>2, <1>3, AbstractLookup, AbstractLoadFactor, AbstractClose DEF Call

LEMMA AbstractMain ==
  ASSUME IInv, TInv', EntriesAreData, EntriesAreData', ~aborted,
         memory_lasts' = memory_lasts, user # "client", Main
  PROVE  D!Next \/ UNCHANGED <<is_null, entries, answer>>
<1>0. TInv /\ InputOK /\ RoundOK
  BY DEF IInv
<1>1. ASSUME TableUnchanged
      PROVE  UNCHANGED <<is_null, entries, answer>>
  BY <1>1, EntriesKept DEF TableUnchanged, table, all_nodes
<1>2. CASE MakeTable
  <2>1. /\ table_init(parameters[1], parameters[2], parameters[3])
        /\ parameters[1] \in Nat
    BY <1>0, <1>2, ParametersOK DEF MakeTable, Goto
  <2> QED
    BY <1>0, <2>1, AbstractCreate
<1>3. CASE InsertWord
  <2>1. rest \in Seq(Key) /\ rest # <<>> /\ Len(read) \in 1..MAX_LINES
    <3>1. read \in Seq(Line) /\ read # <<>> /\ Len(read) <= MAX_LINES
      BY <1>0, <1>3 DEF InputOK, InsertWord
    <3> QED
      BY <1>0, <1>3, <3>1, IndexAssumption DEF InputOK, InsertWord
  <2>2. Head(rest) \in Key /\ line_number \in Value
    BY <2>1, IndexAssumption DEF line_number
  <2>3. table_insert(Head(rest), line_number)
    BY <1>3 DEF InsertWord
  <2>4. InsertEffect(Head(rest), line_number)
    BY <1>0, <2>2, <2>3, InsertPreserves
  <2> QED
    BY <1>0, <2>2, <2>4, AbstractInsert, InsertedIsStep DEF TInv, TableTypeOK
<1>4. ASSUME NEW l \in Line, Query(l)
      PROVE  D!Next \/ UNCHANGED <<is_null, entries, answer>>
  <2>1. TableUnchanged \/ (l # <<>> /\ table_lookup(Head(l)))
    BY <1>4 DEF Query
  <2>2. l # <<>> => Head(l) \in Key
    BY LineType
  <2> QED
    BY <1>0, <1>1, <2>1, <2>2, AbstractLookup
<1>5. ASSUME table_cleanup
      PROVE  D!Next \/ UNCHANGED <<is_null, entries, answer>>
  BY <1>5, AbstractClose
<1>6. CASE LookupFails \/ EndOfInput \/ Timed
  BY <1>5, <1>6 DEF LookupFails, EndOfInput, Timed
<1>7. CASE OpenFails \/ Open \/ NoTable \/ StartLookup \/ EndOfFile
           \/ PrintNumber \/ EndOfWord
  BY <1>1, <1>7 DEF OpenFails, Open, NoTable, StartLookup, EndOfFile, PrintNumber,
                    EndOfWord
<1>8. ASSUME NEW l \in Line, ReadLine(l)
      PROVE  UNCHANGED <<is_null, entries, answer>>
  BY <1>1, <1>8 DEF ReadLine
<1> QED
  BY <1>2, <1>3, <1>4, <1>6, <1>7, <1>8 DEF Main, Work

LEMMA AbstractStep ==
  ASSUME IInv, TInv', EntriesAreData, EntriesAreData', [Next]_vars
  PROVE  [D!Next]_<<~is_null, entries, answer>>
<1>1. CASE Next
  <2>1. D!Next \/ UNCHANGED <<is_null, entries, answer>>
    BY <1>1, AbstractCall, AbstractMain DEF Next, IInv
  <2> QED
    BY <2>1
<1>2. CASE UNCHANGED vars
  <2>1. UNCHANGED <<is_null, all_nodes, answer>>
    BY <1>2 DEF vars, table_vars, table, all_nodes
  <2> QED
    BY <2>1, EntriesKept
<1> QED
  BY <1>1, <1>2

\* The table is the dictionary of hash_table.h for every hash function,
\* capacity and load factor, whoever uses it and whatever memory lacks: a resize
\* neither loses nor reorders a value, a refused insertion changes none.
THEOREM TableImplementsDictionary == Spec => ImplementsDictionary
<1>1. Init => D!Init
  BY AbstractInit
<1>2. /\ IInv => EntriesAreData
      /\ IInv => TInv
  BY EntriesOfNodes DEF IInv
<1>3. IInv /\ TInv' /\ EntriesAreData /\ EntriesAreData' /\ [Next]_vars
         => [D!Next]_<<~is_null, entries, answer>>
  BY AbstractStep
<1> QED
  BY <1>1, <1>2, <1>3, MainInvariant, PTL DEF Spec, ImplementsDictionary, D!Spec, entries

-----------------------------------------------------------------------------
(* How often a word occurs *)

LEMMA TimesType ==
  ASSUME NEW S, NEW s \in Seq(S), NEW x
  PROVE  /\ IsFiniteSet({p \in DOMAIN s : s[p] = x})
         /\ Times(s, x) \in Nat
         /\ (\A p \in DOMAIN s : s[p] # x) => Times(s, x) = 0
<1>1. {p \in DOMAIN s : s[p] = x} \subseteq 1..Len(s)
  OBVIOUS
<1>2. IsFiniteSet(1..Len(s))
  BY FS_Interval
<1>3. IsFiniteSet({p \in DOMAIN s : s[p] = x})
  BY <1>1, <1>2, FS_Subset
<1>4. ASSUME \A p \in DOMAIN s : s[p] # x
      PROVE  Times(s, x) = 0
  <2>1. {p \in DOMAIN s : s[p] = x} = {}
    BY <1>4
  <2> QED
    BY <2>1, FS_EmptySet DEF Times
<1> QED
  BY <1>3, <1>4, FS_CardinalityType DEF Times

LEMMA TimesAppend ==
  ASSUME NEW S, NEW s \in Seq(S), NEW y \in S, NEW x
  PROVE  /\ x = y => Times(Append(s, y), x) = Times(s, x) + 1
         /\ x # y => Times(Append(s, y), x) = Times(s, x)
<1>0. Append(s, y) \in Seq(S)
  OBVIOUS
<1>1. PICK t \in Seq(S) : t = Append(s, y)
  BY <1>0
<1>2. PICK n \in Nat : n = Len(s)
  OBVIOUS
<1>3. /\ DOMAIN s = 1..n /\ DOMAIN t = 1..(n + 1) /\ t[n + 1] = y
      /\ \A p \in 1..n : t[p] = s[p]
  BY <1>1, <1>2
<1>4. PICK before, after : /\ before = {p \in DOMAIN s : s[p] = x}
                           /\ after = {p \in DOMAIN t : t[p] = x}
  OBVIOUS
<1>5. IsFiniteSet(before) /\ n + 1 \notin before
  <2>1. IsFiniteSet({p \in DOMAIN s : s[p] = x})
    BY TimesType
  <2>2. n + 1 \notin DOMAIN s
    BY <1>3
  <2> QED
    BY <1>4, <2>1, <2>2
<1>6. CASE x = y
  <2>1. after = before \cup {n + 1}
    BY <1>3, <1>4, <1>6
  <2>2. Cardinality(after) = Cardinality(before) + 1
    BY <1>5, <2>1, FS_AddElement
  <2> QED
    BY <1>1, <1>4, <1>6, <2>2 DEF Times
<1>7. CASE x # y
  <2>1. after = before
    BY <1>3, <1>4, <1>7
  <2> QED
    <3>1. Times(s, x) = Cardinality(before) /\ Times(t, x) = Cardinality(after)
      BY <1>4 DEF Times
    <3>2. Cardinality(before) \in Nat
      BY <1>5, FS_CardinalityType
    <3> QED
      BY <1>1, <1>7, <2>1, <3>1, <3>2
<1> QED
  BY <1>6, <1>7

LEMMA TimesTail ==
  ASSUME NEW S, NEW s \in Seq(S), s # <<>>, NEW x
  PROVE  Times(s, x) = Times(Tail(s), x) + (IF x = Head(s) THEN 1 ELSE 0)
<1>0. Tail(s) \in Seq(S)
  OBVIOUS
<1>1. PICK t \in Seq(S) : t = Tail(s)
  BY <1>0
<1>2. PICK n \in Nat : n = Len(t)
  OBVIOUS
<1>3. /\ DOMAIN t = 1..n /\ DOMAIN s = 1..(n + 1)
      /\ \A p \in 1..n : t[p] = s[p + 1]
      /\ Head(s) = s[1]
  BY <1>1, <1>2
<1>4. PICK all, later, shifted :
         /\ all = {p \in DOMAIN s : s[p] = x}
         /\ later = {p \in DOMAIN t : t[p] = x}
         /\ shifted = {p \in 2..(n + 1) : s[p] = x}
  OBVIOUS
<1>5. IsFiniteSet(later) /\ IsFiniteSet(all)
  BY <1>4, TimesType
<1>6. IsFiniteSet(shifted) /\ Cardinality(shifted) = Cardinality(later)
  <2> DEFINE f == [p \in later |-> p + 1]
  <2>1. f \in [later -> shifted]
    BY <1>3, <1>4
  <2>2. \A q \in shifted : \E p \in later : f[p] = q
    <3>1. ASSUME NEW q \in shifted
          PROVE  \E p \in later : f[p] = q
      <4>1. q - 1 \in later /\ f[q - 1] = q
        BY <1>3, <1>4
      <4> QED
        BY <4>1
    <3> QED
      BY <3>1
  <2>3. \A p, q \in later : f[p] = f[q] => p = q
    BY <1>3, <1>4
  <2>4. f \in Bijection(later, shifted)
    BY <2>1, <2>2, <2>3, Fun_IsBij
  <2> QED
    BY <1>5, <2>4, FS_Bijection DEF ExistsBijection
<1>7. CASE x = Head(s)
  <2>1. all = shifted \cup {1} /\ 1 \notin shifted
    BY <1>3, <1>4, <1>7
  <2>2. Cardinality(all) = Cardinality(shifted) + 1
    BY <1>6, <2>1, FS_AddElement
  <2> QED
    BY <1>1, <1>4, <1>6, <1>7, <2>2 DEF Times
<1>8. CASE x # Head(s)
  <2>1. all = shifted
    BY <1>3, <1>4, <1>8
  <2> QED
    <3>1. Times(s, x) = Cardinality(all) /\ Times(t, x) = Cardinality(later)
      BY <1>4 DEF Times
    <3>2. Cardinality(later) \in Nat
      BY <1>5, FS_CardinalityType
    <3> QED
      BY <1>1, <1>6, <1>8, <2>1, <3>1, <3>2
<1> QED
  BY <1>7, <1>8

-----------------------------------------------------------------------------
(* The index lists the words of the lines that were read *)

\* What the index holds for a word, while the last line still has the words
\* of rest to come.
Listed(w, values) ==
    /\ values \in Seq(Int)
    /\ \A j \in DOMAIN values : values[j] \in LinesWith(w)
    /\ memory_lasts =>
          /\ \A i, j \in DOMAIN values : i < j => values[i] <= values[j]
          /\ \A n \in 1..Len(read) :
                Times(values, n) + (IF n = Len(read) THEN Times(rest, w) ELSE 0)
                   = Times(read[n], w)

Indexing == user # "client" /\ ~aborted /\ stage \notin {"success", "failure"}

IndexOK ==
    /\ \A w \in Key : Listed(w, entries[w])
    /\ \A i \in DOMAIN rest : Len(read) \in LinesWith(rest[i])
    /\ memory_lasts /\ stage \in {"fgets", "insert"} => ~is_null
    /\ stage # "insert" => rest = <<>>

\* What is printed for a word are the numbers that the index holds for it.
PrintOK ==
    /\ stage # "print" => word = NO_WORD /\ output = <<>>
    /\ stage = "print" =>
          /\ word = NO_WORD \/ (word \in Key /\ answer = entries[word])
          /\ output \in Seq(Int)
          /\ Len(output) <= array_size(word_array)
          /\ \A j \in DOMAIN output :
                output[j] = IF word_array = <<>> THEN -1 ELSE word_array[j]

ListInv == Indexing => IndexOK /\ PrintOK

LEMMA ListedPrints ==
  ASSUME IInv, ListInv
  PROVE  PrintsOccurrences
<1> SUFFICES ASSUME stage = "print", ~aborted
             PROVE  /\ \A j \in DOMAIN word_array : word_array[j] \in LinesWith(word)
                    /\ memory_lasts =>
                          /\ \A i, j \in DOMAIN word_array :
                                i < j => word_array[i] <= word_array[j]
                          /\ \A n \in 1..Len(read) :
                                Times(word_array, n) = Times(read[n], word)
                    /\ \A j \in DOMAIN output :
                          output[j] = IF word_array = <<>> THEN -1 ELSE word_array[j]
  BY DEF PrintsOccurrences
<1>1. user # "client"
  BY DEF IInv, HeldOK
<1>2. IndexOK /\ PrintOK
  BY <1>1 DEF ListInv, Indexing
<1>3. rest = <<>> /\ read \in Seq(Line)
  BY <1>2 DEF IndexOK, IInv, InputOK
<1>4. \A n \in 1..Len(read) : read[n] \in Seq(Key)
  BY <1>3, LineType
<1>5. CASE word = NO_WORD
  <2>1. word_array = <<>>
    BY <1>5 DEF word_array
  <2>2. ASSUME NEW n \in 1..Len(read)
        PROVE  Times(word_array, n) = Times(read[n], word)
    <3>1. \A p \in DOMAIN read[n] : read[n][p] # word
      BY <1>4, <1>5, IndexAssumption
    <3>2. Times(read[n], word) = 0
      BY <1>4, <3>1, TimesType
    <3>3. word_array \in Seq(Key) /\ DOMAIN word_array = {}
      BY <2>1
    <3> QED
      BY <3>2, <3>3, TimesType
  <2> QED
    BY <1>2, <2>1, <2>2 DEF PrintOK
<1>6. CASE word \in Key /\ answer = entries[word]
  <2>1. word_array = entries[word]
    BY <1>6, IndexAssumption DEF word_array
  <2>2. Listed(word, entries[word])
    BY <1>2, <1>6 DEF IndexOK
  <2>3. Times(rest, word) = 0
    <3>1. rest \in Seq(Key) /\ DOMAIN rest = {}
      BY <1>3
    <3> QED
      BY <3>1, TimesType
  <2>4. ASSUME memory_lasts, NEW n \in 1..Len(read)
        PROVE  Times(entries[word], n) = Times(read[n], word)
    <3>1. Times(entries[word], n) \in Nat
      BY <2>2, TimesType DEF Listed
    <3> QED
      BY <2>2, <2>3, <2>4, <3>1 DEF Listed
  <2> QED
    BY <1>2, <2>1, <2>2, <2>4 DEF PrintOK, Listed
<1> QED
  BY <1>2, <1>5, <1>6 DEF PrintOK

LEMMA EntriesStay ==
  ASSUME EntriesAreData, EntriesAreData', TableUnchanged
  PROVE  UNCHANGED <<is_null, entries, answer, aborted>>
BY EntriesKept DEF TableUnchanged, table, all_nodes

LEMMA IndexStays ==
  ASSUME IndexOK, UNCHANGED <<entries, read, rest>>, memory_lasts' = memory_lasts,
         memory_lasts /\ stage' \in {"fgets", "insert"} => ~is_null',
         stage' # "insert" => stage # "insert"
  PROVE  IndexOK'
BY DEF IndexOK, Listed, LinesWith

LEMMA ListBlockSteps ==
  ASSUME ListInv, EntriesAreData, EntriesAreData', ~aborted, TInv, TInv', IInv,
         memory_lasts' = memory_lasts, user # "client",
         InputUnchanged, UNCHANGED <<user, round>>,
         OpenFails \/ Open \/ MakeTable \/ NoTable \/ LookupFails \/ StartLookup
           \/ EndOfFile \/ EndOfInput
  PROVE  ListInv'
<1>1. CASE NoTable \/ LookupFails \/ EndOfInput
  BY <1>1 DEF ListInv, Indexing, NoTable, LookupFails, EndOfInput, Goto
<1>2. CASE OpenFails \/ Open \/ StartLookup \/ EndOfFile
  <2>1. /\ UNCHANGED <<entries, is_null>>
        /\ stage \notin {"success", "failure", "insert", "print"}
        /\ stage' \notin {"fgets", "insert", "print"}
    BY <1>2, EntriesStay DEF OpenFails, Open, StartLookup, EndOfFile, Goto
  <2>2. IndexOK /\ PrintOK
    BY <2>1 DEF ListInv, Indexing
  <2>3. IndexOK'
    BY <2>1, <2>2, IndexStays DEF InputUnchanged
  <2>4. PrintOK'
    BY <2>1, <2>2 DEF PrintOK, InputUnchanged
  <2> QED
    BY <2>3, <2>4 DEF ListInv
<1>3. CASE MakeTable
  <2>1. /\ table_init(parameters[1], parameters[2], parameters[3])
        /\ stage = "table" /\ stage' = "fgets"
        /\ parameters[1] \in Nat
    BY <1>3, ParametersOK DEF MakeTable, Goto, IInv
  <2>2. UNCHANGED entries
    BY <2>1, AbstractCreate
  <2>3. memory_lasts => ~is_null'
    BY <2>1 DEF table_init
  <2>4. IndexOK /\ PrintOK
    BY <2>1 DEF ListInv, Indexing
  <2>5. IndexOK'
    BY <2>1, <2>2, <2>3, <2>4, IndexStays DEF InputUnchanged
  <2>6. PrintOK'
    BY <2>1, <2>4 DEF PrintOK, InputUnchanged
  <2> QED
    BY <2>5, <2>6 DEF ListInv
<1> QED
  BY <1>1, <1>2, <1>3

LEMMA ListReadLine ==
  ASSUME ListInv, IInv, EntriesAreData, EntriesAreData', ~aborted,
         memory_lasts' = memory_lasts, user # "client", NEW l \in Line, ReadLine(l)
  PROVE  ListInv'
<1>1. /\ IndexOK /\ PrintOK /\ stage = "fgets"
      /\ UNCHANGED <<entries, is_null>>
      /\ stage' # "print" /\ word' = word /\ output' = output
  BY EntriesStay DEF ListInv, Indexing, ReadLine
<1>2. PrintOK'
  BY <1>1 DEF PrintOK
<1>3. CASE UNCHANGED <<read, rest>> /\ stage' = "crashed"
  BY <1>1, <1>2, <1>3, IndexStays DEF ListInv
<1>4. CASE /\ read' = Append(read, l) /\ rest' = l
           /\ stage' = IF l = <<>> THEN "fgets" ELSE "insert"
  <2>1. PICK n \in Nat : n = Len(read)
    BY DEF IInv, InputOK
  <2>2. /\ Len(read') = n + 1 /\ read'[n + 1] = l
        /\ \A i \in 1..n : read'[i] = read[i]
    <3>1. read \in Seq(Line)
      BY DEF IInv, InputOK
    <3> QED
      BY <1>4, <2>1, <3>1
  <2>3. rest = <<>> /\ rest \in Seq(Key) /\ l \in Seq(Key)
    BY <1>1, LineType DEF IndexOK, IInv, InputOK
  <2>4. \A w : LinesWith(w) \subseteq LinesWith(w)'
    BY <2>1, <2>2 DEF LinesWith
  <2>5. ASSUME NEW w \in Key
        PROVE  Listed(w, entries[w])'
    <3>1. Listed(w, entries[w]) /\ entries'[w] = entries[w]
      BY <1>1 DEF IndexOK
    <3>2. PICK values \in Seq(Int) : values = entries[w]
      BY <3>1 DEF Listed
    <3>3. \A j \in DOMAIN values : values[j] \in LinesWith(w)'
      BY <2>4, <3>1, <3>2 DEF Listed
    <3>4. ASSUME memory_lasts, NEW m \in 1..(n + 1)
          PROVE  Times(values, m) + (IF m = n + 1 THEN Times(l, w) ELSE 0)
                    = Times(read'[m], w)
      <4>1. CASE m = n + 1
        <5>1. \A j \in DOMAIN values : values[j] # m
          BY <2>1, <3>1, <3>2, <4>1 DEF Listed, LinesWith
        <5>2. Times(values, m) = 0 /\ Times(l, w) \in Nat
          BY <2>3, <5>1, TimesType
        <5> QED
          BY <2>2, <4>1, <5>2
      <4>2. CASE m \in 1..n
        <5>1. DOMAIN rest = {}
          BY <2>3
        <5>2. Times(rest, w) = 0 /\ Times(values, m) \in Nat
          BY <2>3, <5>1, TimesType
        <5>3. Times(values, m) + (IF m = n THEN Times(rest, w) ELSE 0)
                 = Times(read[m], w)
          BY <2>1, <3>1, <3>2, <3>4, <4>2 DEF Listed
        <5>4. Times(values, m) = Times(read[m], w)
          BY <5>2, <5>3
        <5> QED
          BY <2>2, <4>2, <5>2, <5>4
      <4> QED
        BY <4>1, <4>2
    <3>5. memory_lasts => \A i, j \in DOMAIN values : i < j => values[i] <= values[j]
      BY <3>1, <3>2 DEF Listed
    <3> QED
      BY <1>4, <2>2, <3>1, <3>2, <3>3, <3>4, <3>5 DEF Listed
  <2>6. \A i \in DOMAIN rest' : Len(read') \in LinesWith(rest[i])'
    BY <1>4, <2>1, <2>2 DEF LinesWith
  <2>7. memory_lasts => ~is_null'
    BY <1>1 DEF IndexOK
  <2>8. IndexOK'
    BY <1>4, <2>5, <2>6, <2>7 DEF IndexOK
  <2> QED
    BY <1>2, <2>8 DEF ListInv
<1> QED
  BY <1>3, <1>4 DEF ReadLine

LEMMA ListInsertWord ==
  ASSUME ListInv, IInv, EntriesAreData, EntriesAreData', ~aborted,
         memory_lasts' = memory_lasts, user # "client", InsertWord
  PROVE  ListInv'
<1>1. /\ IndexOK /\ PrintOK /\ stage = "insert" /\ stage' \in {"fgets", "insert"}
      /\ UNCHANGED <<read, word, output>> /\ rest' = Tail(rest)
      /\ stage' # "insert" => Len(rest) = 1
  BY DEF ListInv, Indexing, InsertWord
<1>2. PrintOK'
  BY <1>1 DEF PrintOK
<1>3. /\ rest \in Seq(Key) /\ rest # <<>> /\ read \in Seq(Line) /\ read # <<>>
      /\ Len(read) <= MAX_LINES
  BY <1>1 DEF IInv, InputOK
<1>4. /\ Head(rest) \in Key /\ Tail(rest) \in Seq(Key)
      /\ Len(read) \in 1..MAX_LINES
  BY <1>3, IndexAssumption
<1>5. PICK k \in Key, v \in Value : k = Head(rest) /\ v = Len(read) /\ v \in Nat
  <2>1. Len(read) \in Value /\ Len(read) \in Nat
    BY <1>4, IndexAssumption
  <2> QED
    BY <1>4, <2>1
<1>6. Inserted(k, v)
  <2>1. table_insert(k, v)
    BY <1>5 DEF InsertWord, line_number
  <2>2. InsertEffect(k, v)
    BY <2>1, InsertPreserves DEF IInv
  <2> QED
    BY <2>2, AbstractInsert DEF IInv, TInv, TableTypeOK
<1>7. stage' # "insert" => rest' = <<>>
  <2>1. Len(rest) = 1 => Tail(rest) = <<>>
    <3>1. Tail(rest) \in Seq(Key) /\ Len(Tail(rest)) = Len(rest) - 1
      BY <1>3
    <3>2. PICK t \in Seq(Key) : t = Tail(rest)
      BY <3>1
    <3>3. Len(t) = 0 => t = <<>>
      OBVIOUS
    <3>4. Len(rest) \in Nat
      BY <1>3
    <3> QED
      BY <3>1, <3>2, <3>3, <3>4
  <2> QED
    BY <1>1, <2>1
<1>8. \A i \in DOMAIN rest' : Len(read') \in LinesWith(rest[i])'
  <2>1. ASSUME NEW i \in DOMAIN rest'
        PROVE  Len(read) \in LinesWith(rest'[i])
    <3>1. i + 1 \in DOMAIN rest /\ rest'[i] = rest[i + 1]
      BY <1>1, <1>3
    <3> QED
      BY <1>1, <3>1 DEF IndexOK
  <2>2. \A w : LinesWith(w)' = LinesWith(w)
    BY <1>1 DEF LinesWith
  <2> QED
    BY <1>1, <2>1, <2>2
<1>9. Len(read) \in LinesWith(k)
  <2>1. 1 \in DOMAIN rest /\ rest[1] = k
    BY <1>3, <1>5
  <2> QED
    BY <1>1, <2>1 DEF IndexOK
<1>10. \A w \in Key : /\ Times(rest', w) \in Nat
                      /\ Times(rest, w) = Times(rest', w) + (IF w = k THEN 1 ELSE 0)
  BY <1>1, <1>3, <1>4, <1>5, TimesTail, TimesType
<1>11. ASSUME UNCHANGED <<is_null, entries>>, aborted' \/ ~memory_lasts \/ is_null
       PROVE  ListInv'
  <2>1. CASE aborted'
    BY <2>1 DEF ListInv, Indexing
  <2>2. CASE ~memory_lasts
    <3>1. \A w \in Key : Listed(w, entries[w])'
      BY <1>1, <1>11, <2>2 DEF IndexOK, Listed, LinesWith
    <3> QED
      BY <1>2, <1>7, <1>8, <2>2, <3>1 DEF IndexOK, ListInv
  <2>3. CASE memory_lasts /\ is_null
    BY <1>1, <2>3 DEF IndexOK
  <2> QED
    BY <1>11, <2>1, <2>2, <2>3
<1>12. ASSUME D!Put(k, v), UNCHANGED is_null
       PROVE  ListInv'
  <2>1. entries' = [entries EXCEPT ![k] = Append(@, v)]
    BY <1>12 DEF D!Put, entries
  <2>2. DOMAIN entries = Key
    BY DEF entries
  <2>3. ASSUME NEW w \in Key
        PROVE  Listed(w, entries[w])'
    <3>1. Listed(w, entries[w])
      BY <1>1 DEF IndexOK
    <3>2. CASE w # k
      <4>1. entries'[w] = entries[w]
        BY <2>1, <2>2, <3>2
      <4>2. Times(rest', w) = Times(rest, w)
        BY <1>10, <3>2
      <4> QED
        BY <1>1, <3>1, <4>1, <4>2 DEF Listed, LinesWith
    <3>3. CASE w = k
      <4>1. PICK values \in Seq(Int) : values = entries[w]
        BY <3>1 DEF Listed
      <4>2. Append(values, v) \in Seq(Int)
        BY <1>5, <4>1
      <4>3. PICK new \in Seq(Int) : new = Append(values, v)
        BY <4>2
      <4>4. entries'[w] = new
        BY <2>1, <2>2, <3>3, <4>1, <4>3
      <4>5. PICK n \in Nat : n = Len(values)
        OBVIOUS
      <4>6. /\ DOMAIN new = 1..(n + 1) /\ DOMAIN values = 1..n /\ new[n + 1] = v
            /\ \A j \in 1..n : new[j] = values[j]
        BY <1>5, <4>3, <4>5
      <4>7. \A j \in DOMAIN values : values[j] \in LinesWith(w) /\ values[j] <= v
        BY <1>5, <3>1, <4>1 DEF Listed, LinesWith
      <4>8. \A j \in DOMAIN new : new[j] \in LinesWith(w)
        BY <1>5, <1>9, <3>3, <4>6, <4>7
      <4>9. ASSUME memory_lasts, NEW i \in DOMAIN new, NEW j \in DOMAIN new, i < j
            PROVE  new[i] <= new[j]
        <5>1. CASE j = n + 1
          <6>1. i \in 1..n
            BY <4>6, <4>9, <5>1
          <6> QED
            BY <4>6, <4>7, <5>1, <6>1
        <5>2. CASE j \in 1..n
          <6>1. i \in 1..n
            BY <4>6, <4>9, <5>2
          <6>2. values[i] <= values[j]
            BY <3>1, <4>1, <4>6, <4>9, <5>2, <6>1 DEF Listed
          <6> QED
            BY <4>6, <5>2, <6>1, <6>2
        <5> QED
          BY <4>6, <5>1, <5>2
      <4>10. ASSUME memory_lasts, NEW m \in 1..Len(read)
             PROVE  Times(new, m) + (IF m = Len(read) THEN Times(rest', w) ELSE 0)
                       = Times(read[m], w)
        <5>1. Times(values, m) + (IF m = Len(read) THEN Times(rest, w) ELSE 0)
                 = Times(read[m], w)
          BY <3>1, <4>1, <4>10 DEF Listed
        <5>2. /\ Times(new, m) = Times(values, m) + (IF m = v THEN 1 ELSE 0)
              /\ Times(values, m) \in Nat
          <6>1. v \in Int /\ values \in Seq(Int)
            BY <1>5
          <6>2. /\ m = v => Times(Append(values, v), m) = Times(values, m) + 1
                /\ m # v => Times(Append(values, v), m) = Times(values, m)
            BY <6>1, TimesAppend
          <6>3. Times(values, m) \in Nat
            BY <6>1, TimesType
          <6> QED
            BY <4>3, <6>2, <6>3
        <5>3. Times(rest, w) = Times(rest', w) + 1 /\ Times(rest', w) \in Nat
          BY <1>10, <3>3
        <5>4. CASE m = v
          BY <1>5, <5>1, <5>2, <5>3, <5>4
        <5>5. CASE m # v
          BY <1>5, <5>1, <5>2, <5>5
        <5> QED
          BY <5>4, <5>5
      <4>11. LinesWith(w)' = LinesWith(w)
        BY <1>1 DEF LinesWith
      <4> QED
        BY <1>1, <4>4, <4>8, <4>9, <4>10, <4>11 DEF Listed
    <3> QED
      BY <3>2, <3>3
  <2>4. memory_lasts => ~is_null'
    BY <1>1, <1>12 DEF IndexOK
  <2>5. IndexOK'
    BY <1>7, <1>8, <2>3, <2>4 DEF IndexOK
  <2> QED
    BY <1>2, <2>5 DEF ListInv
<1> QED
  BY <1>6, <1>11, <1>12 DEF Inserted

LEMMA ListQuery ==
  ASSUME ListInv, IInv, EntriesAreData, EntriesAreData', ~aborted,
         memory_lasts' = memory_lasts, user # "client", NEW l \in Line, Query(l)
  PROVE  ListInv'
<1>1. /\ IndexOK /\ PrintOK /\ stage = "query" /\ word = NO_WORD /\ output = <<>>
      /\ UNCHANGED <<read, rest, output>>
      /\ stage' \in {"crashed", "print"}
  BY DEF ListInv, Indexing, Query, PrintOK
<1>2. CASE TableUnchanged /\ UNCHANGED word
  <2>1. UNCHANGED <<is_null, entries, answer>>
    BY <1>2, EntriesStay
  <2>2. IndexOK'
    BY <1>1, <2>1, IndexStays
  <2>3. word_array' = <<>> /\ array_size(word_array)' = ULONG_MAX
    BY <1>1, <1>2 DEF word_array, array_size
  <2>4. PrintOK'
    BY <1>1, <1>2, <2>3, IndexAssumption DEF PrintOK
  <2> QED
    BY <2>2, <2>4 DEF ListInv
<1>3. CASE l # <<>> /\ word' = Head(l) /\ table_lookup(Head(l)) /\ stage' = "print"
  <2>1. Head(l) \in Key
    BY <1>3, LineType
  <2>2. /\ UNCHANGED <<is_null, entries>>
        /\ answer' = entries[Head(l)] \/ aborted'
    BY <1>3, <2>1, LookedUp DEF IInv
  <2>3. IndexOK'
    BY <1>1, <2>2, IndexStays
  <2>4. CASE aborted'
    BY <2>4 DEF ListInv, Indexing
  <2>5. CASE answer' = entries[Head(l)]
    <3>1. answer' = entries'[word'] /\ word' \in Key
      BY <1>3, <2>1, <2>2, <2>5
    <3>2. answer' \in Seq(Int)
      BY <2>3, <3>1 DEF IndexOK, Listed
    <3>3. word_array' = answer'
      BY <3>1, IndexAssumption DEF word_array
    <3>4. array_size(word_array)' \in Nat
      BY <3>2, <3>3, IndexAssumption DEF array_size
    <3>5. PrintOK'
      BY <1>1, <1>3, <3>1, <3>4 DEF PrintOK
    <3> QED
      BY <2>3, <3>5 DEF ListInv
  <2> QED
    BY <2>2, <2>4, <2>5
<1> QED
  BY <1>2, <1>3 DEF Query

LEMMA ListPrintNumber ==
  ASSUME ListInv, IInv, EntriesAreData, EntriesAreData', ~aborted,
         memory_lasts' = memory_lasts, user # "client", PrintNumber
  PROVE  ListInv'
<1>1. /\ IndexOK /\ PrintOK /\ stage = "print" /\ stage' = "print"
      /\ UNCHANGED <<is_null, entries, answer, read, rest, word>>
      /\ output' = Printed /\ Len(output) < array_size(word_array)
  BY EntriesStay DEF ListInv, Indexing, PrintNumber
<1>2. IndexOK'
  BY <1>1, IndexStays
<1>3. /\ output \in Seq(Int)
      /\ \A j \in DOMAIN output : output[j] = IF word_array = <<>> THEN -1 ELSE word_array[j]
      /\ word = NO_WORD \/ (word \in Key /\ answer = entries[word])
  BY <1>1 DEF PrintOK
<1>4. word_array' = word_array /\ word_array \in Seq(Int)
  <2>1. CASE word = NO_WORD
    BY <1>1, <2>1 DEF word_array
  <2>2. CASE word # NO_WORD
    BY <1>1, <1>3, <2>2 DEF word_array, IndexOK, Listed
  <2> QED
    BY <2>1, <2>2
<1>0. PICK x : x = array_get(word_array, Len(output))
  OBVIOUS
<1>5. PICK n \in Nat : n = Len(output) /\ x = array_get(word_array, n)
  BY <1>0, <1>3
<1>6. x \in Int /\ x = IF word_array = <<>> THEN -1 ELSE word_array[n + 1]
  <2>1. CASE word_array = <<>>
    BY <1>5, <2>1 DEF array_get
  <2>2. CASE word_array # <<>>
    <3>1. n < Len(word_array) /\ n + 1 \in 1..Len(word_array)
      BY <1>1, <1>4, <1>5, <2>2 DEF array_size
    <3> QED
      BY <1>4, <1>5, <2>2, <3>1 DEF array_get
  <2> QED
    BY <2>1, <2>2
<1>7. /\ output' = Append(output, x) /\ output' \in Seq(Int) /\ Len(output') = n + 1
      /\ output'[n + 1] = x /\ \A j \in 1..n : output'[j] = output[j]
  <2>1. output' = Append(output, x)
    BY <1>1, <1>5 DEF Printed
  <2> QED
    BY <1>3, <1>5, <1>6, <2>1
<1>8. \A j \in DOMAIN output' :
         output'[j] = IF word_array = <<>> THEN -1 ELSE word_array[j]
  BY <1>3, <1>5, <1>6, <1>7
<1>9. Len(output') <= array_size(word_array)
  <2>1. array_size(word_array) \in Nat
    BY <1>4, IndexAssumption DEF array_size
  <2> QED
    BY <1>1, <1>5, <1>7, <2>1
<1>10. array_size(word_array)' = array_size(word_array)
  BY <1>4 DEF array_size
<1>11. PrintOK'
  BY <1>1, <1>3, <1>4, <1>7, <1>8, <1>9, <1>10 DEF PrintOK
<1> QED
  BY <1>2, <1>11 DEF ListInv

LEMMA ListEndOfWord ==
  ASSUME ListInv, IInv, EntriesAreData, EntriesAreData', ~aborted,
         memory_lasts' = memory_lasts, user # "client", EndOfWord
  PROVE  ListInv'
<1>1. /\ IndexOK /\ stage = "print" /\ stage' = "query"
      /\ UNCHANGED <<is_null, entries, answer, read, rest>>
      /\ word' = NO_WORD /\ output' = <<>>
  BY EntriesStay DEF ListInv, Indexing, EndOfWord, Goto
<1>2. IndexOK'
  BY <1>1, IndexStays
<1>3. PrintOK'
  BY <1>1 DEF PrintOK
<1> QED
  BY <1>2, <1>3 DEF ListInv

\* Between two rounds of the benchmark there is no table, and nothing read.
LEMMA ListTimed ==
  ASSUME ListInv, IInv, IInv', EntriesAreData', ~aborted,
         memory_lasts' = memory_lasts, user # "client", Timed
  PROVE  ListInv'
<1>1. /\ IndexOK /\ PrintOK /\ stage = "created" /\ stage' \in {"open", "success"}
      /\ UNCHANGED <<rest, word, output>> /\ read' = <<>> /\ table_cleanup
  BY DEF ListInv, Indexing, Timed
<1>2. CASE aborted'
  BY <1>2 DEF ListInv, Indexing
<1>3. CASE is_null'
  <2>1. size' = 0 /\ TInv'
    BY <1>3 DEF IInv, TInv, TableTypeOK
  <2>2. all_nodes' = {}
    <3>1. DOMAIN array' = {}
      BY <2>1 DEF TInv, ByHash
    <3> QED
      BY <3>1 DEF all_nodes
  <2>3. entries' = [k \in Key |-> <<>>]
    BY <2>2 DEF EntriesAreData, nodes_data, Data
  <2>4. rest' = <<>>
    BY <1>1 DEF IndexOK
  <2>5. ASSUME NEW w \in Key
        PROVE  Listed(w, entries[w])'
    <3>1. <<>> \in Seq(Int) /\ DOMAIN <<>> = {} /\ 1..Len(read') = {}
      BY <1>1
    <3> QED
      BY <2>3, <3>1 DEF Listed
  <2>6. IndexOK'
    BY <1>1, <2>4, <2>5 DEF IndexOK
  <2>7. PrintOK'
    BY <1>1 DEF PrintOK
  <2> QED
    BY <2>6, <2>7 DEF ListInv
<1> QED
  BY <1>1, <1>2, <1>3, Cleaned DEF IInv, TInv, TableTypeOK

LEMMA ListNext ==
  ASSUME ListInv, IInv, IInv', EntriesAreData, EntriesAreData', [Next]_vars
  PROVE  ListInv'
<1>1. CASE Next
  <2>1. ~aborted /\ memory_lasts' = memory_lasts /\ TInv /\ TInv'
    BY <1>1 DEF Next, IInv
  <2>2. CASE user = "client" /\ Call /\ UNCHANGED main_vars
    BY <2>2 DEF main_vars, ListInv, Indexing
  <2>3. CASE user # "client" /\ Main
    BY <2>1, <2>3, ListBlockSteps, ListReadLine, ListInsertWord, ListQuery,
       ListPrintNumber, ListEndOfWord, ListTimed DEF Main, Work
  <2> QED
    BY <1>1, <2>2, <2>3 DEF Next
<1>2. CASE UNCHANGED vars
  <2>1. UNCHANGED <<is_null, all_nodes, answer, aborted, memory_lasts, main_vars>>
    BY <1>2 DEF vars, table_vars, table, all_nodes
  <2>2. UNCHANGED <<user, stage, read, rest, word, output, entries>>
    BY <2>1, EntriesKept DEF main_vars
  <2>3. word_array' = word_array /\ array_size(word_array)' = array_size(word_array)
    BY <2>1, <2>2 DEF word_array, array_size
  <2>4. PrintOK => PrintOK'
    BY <2>1, <2>2, <2>3 DEF PrintOK
  <2>5. ASSUME IndexOK PROVE IndexOK'
    <3>1. memory_lasts /\ stage' \in {"fgets", "insert"} => ~is_null'
      BY <2>1, <2>2, <2>5 DEF IndexOK
    <3> QED
      BY <2>1, <2>2, <2>5, <3>1, IndexStays
  <2>6. Indexing' => Indexing
    BY <2>1, <2>2 DEF Indexing
  <2> QED
    BY <2>4, <2>5, <2>6 DEF ListInv
<1> QED
  BY <1>1, <1>2

LEMMA ListInit == Init => ListInv
<1> SUFFICES ASSUME Init PROVE IndexOK /\ PrintOK
  BY DEF ListInv
<1>1. DOMAIN array = {} /\ all_nodes = {}
  <2>1. DOMAIN array = {}
    BY DEF Init, TableInit, Chains
  <2> QED
    BY <2>1 DEF all_nodes
<1>2. entries = [k \in Key |-> <<>>]
  BY <1>1, TableInitially, EntriesOfNodes DEF Init, EntriesAreData, nodes_data, Data
<1>3. ASSUME NEW w \in Key
      PROVE  Listed(w, entries[w])
  <2>1. <<>> \in Seq(Int) /\ DOMAIN <<>> = {} /\ 1..Len(read) = {}
    BY DEF Init
  <2> QED
    BY <1>2, <2>1 DEF Listed
<1>4. IndexOK
  BY <1>3 DEF Init, IndexOK
<1>5. PrintOK
  BY DEF Init, PrintOK
<1> QED
  BY <1>4, <1>5

\* main.c prints for a word the lines that it occurs in, whatever the hash
\* function makes of the words, and however often table and arrays had to grow:
\* all of them, in order and as often, while memory lasts, and otherwise still
\* none that the word is not in.
THEOREM LookupPrintsOccurrences == Spec => []PrintsOccurrences
<1>1. IInv => EntriesAreData
  BY EntriesOfNodes DEF IInv
<1>2. ListInv /\ IInv /\ IInv' /\ EntriesAreData /\ EntriesAreData' /\ [Next]_vars
         => ListInv'
  BY ListNext
<1>3. IInv /\ ListInv => PrintsOccurrences
  BY ListedPrints
<1> QED
  BY <1>1, <1>2, <1>3, ListInit, MainInvariant, PTL DEF Spec
=============================================================================
