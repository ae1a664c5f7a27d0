-------------------------- MODULE LRUCache_proofs --------------------------
(***************************************************************************)
(* Proofs about the metadata cache, for any number of threads, keys and     *)
(* slots and any hash function: the table and the list always hold the same *)
(* nodes, and the table is a map until a removal cuts a node off. The        *)
(* invariant is about probe chains: a node's slot is reached from its key's  *)
(* hash without an empty slot between, no key has two nodes, and a probing   *)
(* has looked at every slot between the hash and where it is.                *)
(***************************************************************************)
EXTENDS LRUCache, FiniteSetTheorems, SequenceTheorems, TLAPS

Busy == {"probing", "placing"}

TypeInv ==
    /\ table \in [Slots -> Node \cup {NoNode}]
    /\ order \in Seq(Slots)
    /\ size \in Nat
    /\ lock \in Threads \cup {NoThread}
    /\ pc \in [Threads -> {"idle", "waiting"} \cup Busy]
    /\ call \in [Threads -> Calls \cup {NoCall}]
    /\ at \in Slots
    /\ reply \in [Threads -> Values \cup {Absent}]
    /\ broken \in BOOLEAN
    /\ \A t \in Threads : lock = t <=> pc[t] \in Busy
    /\ \A t \in Threads : call[t] = NoCall <=> pc[t] = "idle"
    /\ \A t \in Threads : pc[t] = "placing" => call[t].op = "put"

\* No node has an empty slot before it that its key's probing crosses, and no key has two.
ChainsWhole ==
    \A s \in Slots : Occupied(s) =>
        /\ \A r \in Before(table[s].key, s) : Occupied(r)
        /\ \A r \in Slots : Occupied(r) /\ table[r].key = table[s].key => r = s

\* Every slot before the one a thread looks at is taken, by other keys. Who looks for an
\* empty slot has not found the key anywhere.
ProbedSlots ==
    \A t \in Threads :
        /\ pc[t] \in Busy => \A r \in Before(call[t].key, at) : Occupied(r) /\ table[r].key # call[t].key
        /\ pc[t] = "placing" => \A r \in Slots : Occupied(r) => table[r].key # call[t].key

CacheInv ==
    /\ TypeInv
    /\ ListMatchesTable
    /\ ~broken => ChainsWhole /\ ProbedSlots
-----------------------------------------------------------------------------
(* Slots in the order in which a key is probed for *)

LEMMA NextSlotIs ==
    ASSUME NEW s \in Slots
    PROVE  NextSlot(s) = IF s + 1 = Capacity THEN 0 ELSE s + 1
<1>1. Capacity \in Nat \ {0} /\ s \in 0 .. Capacity - 1
  BY CapacityAssumption DEF Slots
<1> QED
  BY <1>1 DEF NextSlot

LEMMA ProbeOrder ==
    ASSUME NEW k \in Keys, NEW s \in Slots
    PROVE  /\ Hash[k] \in Slots
           /\ NextSlot(s) \in Slots
           /\ Before(k, Hash[k]) = {}
           /\ NextSlot(s) # Hash[k] => Before(k, NextSlot(s)) = Before(k, s) \cup {s}
           /\ NextSlot(s) = Hash[k] => Slots = Before(k, s) \cup {s}
           /\ \A r \in Slots : r = s \/ r \in Before(k, s) \/ s \in Before(k, r)
           /\ s \notin Before(k, s)
           /\ \A r \in Before(k, s) : r \in Slots
<1>1. /\ Capacity \in Nat \ {0} /\ s \in 0 .. Capacity - 1
      /\ Hash[k] \in 0 .. Capacity - 1
      /\ Slots = 0 .. Capacity - 1
  BY CapacityAssumption, HashAssumption DEF Slots
<1>2. NextSlot(s) = IF s + 1 = Capacity THEN 0 ELSE s + 1
  BY NextSlotIs
<1>3. /\ \A r \in Slots : Distance(k, r) \in 0 .. Capacity - 1
      /\ \A q, r \in Slots : Distance(k, q) = Distance(k, r) => q = r
      /\ Distance(k, Hash[k]) = 0
  BY <1>1 DEF Distance
<1>4. NextSlot(s) \in Slots
  BY <1>1, <1>2
<1>5. NextSlot(s) # Hash[k] => Distance(k, NextSlot(s)) = Distance(k, s) + 1
  BY <1>1, <1>2 DEF Distance
<1>6. NextSlot(s) = Hash[k] => Distance(k, s) = Capacity - 1
  BY <1>1, <1>2 DEF Distance
<1>7. NextSlot(s) # Hash[k] => Before(k, NextSlot(s)) = Before(k, s) \cup {s}
  <2> SUFFICES ASSUME NextSlot(s) # Hash[k], NEW r \in Slots
               PROVE  Distance(k, r) < Distance(k, s) + 1 <=> Distance(k, r) < Distance(k, s) \/ r = s
    BY <1>5 DEF Before
  <2>1. Distance(k, r) \in Int /\ Distance(k, s) \in Int
    BY <1>1, <1>3
  <2>2. Distance(k, r) = Distance(k, s) <=> r = s
    BY <1>3
  <2> QED BY <2>1, <2>2
<1>8. ASSUME NextSlot(s) = Hash[k], NEW r \in Slots, r # s PROVE r \in Before(k, s)
  <2>1. Distance(k, r) \in 0 .. Capacity - 1 /\ Distance(k, s) = Capacity - 1
    BY <1>3, <1>6, <1>8
  <2>2. Distance(k, r) # Distance(k, s)
    BY <1>3, <1>8
  <2>3. Distance(k, r) < Distance(k, s)
    BY <1>1, <2>1, <2>2
  <2> QED BY <2>3 DEF Before
<1>9. Before(k, Hash[k]) = {}
  BY <1>1, <1>3 DEF Before
<1>10. \A r \in Slots : r = s \/ r \in Before(k, s) \/ s \in Before(k, r)
  BY <1>1, <1>3 DEF Before
<1>11. s \notin Before(k, s) /\ \A r \in Before(k, s) : r \in Slots
  BY <1>1, <1>3 DEF Before
<1> QED
  BY <1>1, <1>4, <1>7, <1>8, <1>9, <1>10, <1>11

-----------------------------------------------------------------------------
(* The list *)

\* Sequence rest is seq without its i-th element; new is seq with x ahead.
IsRest(seq, i, rest) ==
    /\ Len(rest) = Len(seq) - 1
    /\ \A n \in 1 .. Len(seq) - 1 : rest[n] = IF n < i THEN seq[n] ELSE seq[n + 1]

IsAhead(x, seq, new) ==
    /\ Len(new) = Len(seq) + 1
    /\ \A n \in 1 .. Len(seq) + 1 : new[n] = IF n = 1 THEN x ELSE seq[n - 1]

LEMMA Removed ==
    ASSUME NEW S, NEW seq \in Seq(S), NEW i \in 1 .. Len(seq)
    PROVE  RemoveAt(seq, i) \in Seq(S) /\ IsRest(seq, i, RemoveAt(seq, i))
<1> DEFINE front == SubSeq(seq, 1, i - 1)
           back  == SubSeq(seq, i + 1, Len(seq))
<1>0. i \in 1 .. Len(seq) /\ Len(seq) \in Nat
  OBVIOUS
<1>1. front \in Seq(S) /\ Len(front) = i - 1 /\ \A n \in 1 .. i - 1 : front[n] = seq[n]
  BY <1>0
<1>2. /\ back \in Seq(S) /\ Len(back) = Len(seq) - i
      /\ \A n \in 1 .. Len(seq) - i : back[n] = seq[n + i]
  BY <1>0
<1>3. RemoveAt(seq, i) = front \o back
  BY DEF RemoveAt
<1> HIDE DEF front, back
<1>4. /\ front \o back \in Seq(S) /\ Len(front \o back) = Len(front) + Len(back)
      /\ \A n \in 1 .. Len(front) + Len(back) :
            (front \o back)[n] = IF n <= Len(front) THEN front[n] ELSE back[n - Len(front)]
  BY <1>1, <1>2, ConcatProperties
<1>5. ASSUME NEW n \in 1 .. Len(seq) - 1, n >= i
      PROVE  back[n - (i - 1)] = seq[n + 1]
  <2>1. n - (i - 1) \in 1 .. Len(seq) - i /\ (n - (i - 1)) + i = n + 1
    BY <1>0, <1>5
  <2> QED BY <1>2, <2>1
<1>6. \A n \in 1 .. Len(seq) - 1 : n < i => front[n] = seq[n]
  BY <1>0, <1>1
<1>7. ASSUME NEW n \in 1 .. Len(seq) - 1
      PROVE  (front \o back)[n] = IF n < i THEN seq[n] ELSE seq[n + 1]
  <2>1. /\ n \in 1 .. Len(front) + Len(back) /\ Len(front) = i - 1
        /\ n <= Len(front) <=> n < i
    BY <1>0, <1>1, <1>2
  <2> QED BY <1>0, <1>4, <1>5, <1>6, <2>1
<1>8. Len(front) + Len(back) = Len(seq) - 1
  BY <1>0, <1>1, <1>2
<1> QED BY <1>3, <1>4, <1>7, <1>8 DEF IsRest

LEMMA PutAhead ==
    ASSUME NEW S, NEW seq \in Seq(S), NEW x \in S
    PROVE  <<x>> \o seq \in Seq(S) /\ IsAhead(x, seq, <<x>> \o seq)
<1> DEFINE one == <<x>>
<1>1. one \in Seq(S) /\ Len(one) = 1 /\ one[1] = x /\ Len(seq) \in Nat
  OBVIOUS
<1> HIDE DEF one
<1>2. /\ one \o seq \in Seq(S) /\ Len(one \o seq) = Len(one) + Len(seq)
      /\ \A n \in 1 .. Len(one) + Len(seq) :
            (one \o seq)[n] = IF n <= Len(one) THEN one[n] ELSE seq[n - Len(one)]
  BY <1>1, ConcatProperties
<1>3. ASSUME NEW n \in 1 .. Len(seq) + 1
      PROVE  (one \o seq)[n] = IF n = 1 THEN x ELSE seq[n - 1]
  <2>1. n \in 1 .. Len(one) + Len(seq) /\ (n <= Len(one) <=> n = 1)
    BY <1>1
  <2>2. (one \o seq)[n] = IF n = 1 THEN one[n] ELSE seq[n - Len(one)]
    BY <1>2, <2>1
  <2> QED BY <1>1, <2>2
<1>4. Len(one \o seq) = Len(seq) + 1
  BY <1>1, <1>2
<1>5. IsAhead(x, seq, one \o seq)
  BY <1>3, <1>4 DEF IsAhead
<1> QED
  BY <1>2, <1>5 DEF one

\* The elements of a sequence, each there once.
Once(seq) == \A m, n \in DOMAIN seq : seq[m] = seq[n] => m = n

Elements(seq) == {seq[n] : n \in DOMAIN seq}

\* What remains when an element is taken out of a sequence that has it once.
LEMMA OthersRemain ==
    ASSUME NEW S, NEW seq \in Seq(S), Once(seq), NEW i \in 1 .. Len(seq),
           NEW rest \in Seq(S), IsRest(seq, i, rest)
    PROVE  Once(rest) /\ Elements(rest) = Elements(seq) \ {seq[i]}
<1>1. /\ DOMAIN rest = 1 .. Len(seq) - 1 /\ DOMAIN seq = 1 .. Len(seq) /\ Len(seq) \in Nat
      /\ \A n \in 1 .. Len(seq) - 1 : rest[n] = IF n < i THEN seq[n] ELSE seq[n + 1]
  BY DEF IsRest
<1>2. Once(rest)
  BY <1>1 DEF Once
<1>3. ASSUME NEW n \in DOMAIN rest PROVE rest[n] \in Elements(seq) \ {seq[i]}
  <2>1. PICK m \in DOMAIN seq : rest[n] = seq[m] /\ m # i
    <3>1. CASE n < i
      BY <1>1, <3>1
    <3>2. CASE ~(n < i)
      <4>1. n + 1 \in DOMAIN seq /\ n + 1 # i
        BY <1>1, <3>2
      <4> QED BY <1>1, <3>2, <4>1
    <3> QED BY <3>1, <3>2
  <2>2. seq[m] # seq[i]
    BY <1>1, <2>1 DEF Once
  <2> QED BY <2>1, <2>2 DEF Elements
<1>4. ASSUME NEW m \in DOMAIN seq, m # i PROVE \E n \in DOMAIN rest : rest[n] = seq[m]
  <2>1. CASE m < i
    BY <1>1, <2>1
  <2>2. CASE m > i
    <3>1. m - 1 \in DOMAIN rest /\ rest[m - 1] = seq[m]
      BY <1>1, <2>2
    <3> QED BY <3>1
  <2> QED BY <1>1, <1>4, <2>1, <2>2
<1> QED
  BY <1>2, <1>3, <1>4 DEF Elements

\* An element is put ahead of a sequence that does not have it.
LEMMA OneMore ==
    ASSUME NEW S, NEW seq \in Seq(S), Once(seq), NEW x \in S, x \notin Elements(seq),
           NEW new \in Seq(S), IsAhead(x, seq, new)
    PROVE  Once(new) /\ Elements(new) = Elements(seq) \cup {x}
<1>1. /\ DOMAIN new = 1 .. Len(seq) + 1 /\ DOMAIN seq = 1 .. Len(seq) /\ Len(seq) \in Nat
      /\ \A n \in 1 .. Len(seq) + 1 : new[n] = IF n = 1 THEN x ELSE seq[n - 1]
  BY DEF IsAhead
<1>2. ASSUME NEW m \in DOMAIN new, NEW n \in DOMAIN new, new[m] = new[n] PROVE m = n
  <2>1. ASSUME NEW j \in DOMAIN new, j # 1 PROVE new[j] # x
    <3>1. j - 1 \in DOMAIN seq /\ new[j] = seq[j - 1]
      BY <1>1, <2>1
    <3> QED BY <3>1 DEF Elements
  <2>2. CASE m # 1 /\ n # 1
    <3>1. m - 1 \in DOMAIN seq /\ n - 1 \in DOMAIN seq /\ seq[m - 1] = seq[n - 1]
      BY <1>1, <1>2, <2>2
    <3>2. m - 1 = n - 1
      BY <3>1 DEF Once
    <3> QED BY <1>1, <3>2
  <2> QED BY <1>1, <1>2, <2>1, <2>2
<1>3. ASSUME NEW n \in DOMAIN new PROVE new[n] \in Elements(seq) \cup {x}
  BY <1>1 DEF Elements
<1>4. ASSUME NEW m \in DOMAIN seq PROVE \E n \in DOMAIN new : new[n] = seq[m]
  <2>1. m + 1 \in DOMAIN new /\ new[m + 1] = seq[m]
    BY <1>1
  <2> QED BY <2>1
<1>5. 1 \in DOMAIN new /\ new[1] = x
  BY <1>1
<1> QED
  BY <1>2, <1>3, <1>4, <1>5 DEF Once, Elements

ListInv == order \in Seq(Slots) /\ ListMatchesTable

\* A node's slot can be taken out of the list, and put back at its head.
LEMMA InTheList ==
    ASSUME ListInv, NEW s \in Slots, Occupied(s)
    PROVE  /\ Without(s) \in Seq(Slots) /\ Len(Without(s)) = Len(order) - 1
           /\ Once(Without(s)) /\ Elements(Without(s)) = Elements(order) \ {s}
           /\ Len(order) \in Nat /\ Len(order) > 0
<1>1. order \in Seq(Slots) /\ Once(order) /\ s \in Elements(order)
  BY DEF ListInv, ListMatchesTable, Once, Elements
<1>2. PICK i \in 1 .. Len(order) : order[i] = s
  BY <1>1 DEF Elements
<1>3. (CHOOSE n \in DOMAIN order : order[n] = s) = i
  BY <1>1, <1>2 DEF Once
<1>4. Without(s) = RemoveAt(order, i)
  BY <1>3 DEF Without
<1> DEFINE rest == RemoveAt(order, i)
<1>5. rest \in Seq(Slots) /\ IsRest(order, i, rest)
  BY <1>1, Removed
<1> HIDE DEF rest
<1>6. Once(rest) /\ Elements(rest) = Elements(order) \ {order[i]}
  BY ZenonT(60), <1>1, <1>5, OthersRemain
<1>7. Without(s) = rest /\ Len(rest) = Len(order) - 1
  BY <1>4, <1>5 DEF rest, IsRest
<1>8. Len(order) \in Nat /\ Len(order) > 0
  BY <1>1
<1> QED
  BY Zenon, <1>2, <1>5, <1>6, <1>7, <1>8

LEMMA AtTheHead ==
    ASSUME NEW seq \in Seq(Slots), Once(seq), NEW s \in Slots, s \notin Elements(seq)
    PROVE  /\ <<s>> \o seq \in Seq(Slots) /\ Len(<<s>> \o seq) = Len(seq) + 1
           /\ Once(<<s>> \o seq) /\ Elements(<<s>> \o seq) = Elements(seq) \cup {s}
<1> DEFINE new == <<s>> \o seq
<1>1. new \in Seq(Slots) /\ IsAhead(s, seq, new)
  BY PutAhead
<1> HIDE DEF new
<1>2. Once(new) /\ Elements(new) = Elements(seq) \cup {s}
  BY <1>1, OneMore
<1>3. Len(new) = Len(seq) + 1
  BY <1>1 DEF IsAhead
<1> QED
  BY Zenon, <1>1, <1>2, <1>3 DEF new

\* While a slot is free, there are fewer nodes than slots.
LEMMA RoomIsLeft ==
    ASSUME ListInv, NEW s \in Slots, ~Occupied(s)
    PROVE  size \in Nat /\ size + 1 <= Capacity
<1> DEFINE others == Slots \ {s}
<1>1. Capacity \in Nat \ {0} /\ Slots = 0 .. Capacity - 1
  BY CapacityAssumption DEF Slots
<1>2. IsFiniteSet(others) /\ Cardinality(others) = Capacity - 1
  <2>1. IsFiniteSet(Slots) /\ Cardinality(Slots) = Capacity
    BY <1>1, FS_Interval
  <2> QED BY <2>1, FS_RemoveElement
<1>3. /\ size = Len(order) /\ Len(order) \in Nat /\ DOMAIN order = 1 .. Len(order)
      /\ \A n \in DOMAIN order : order[n] \in Slots /\ Occupied(order[n])
      /\ \A m, n \in DOMAIN order : order[m] = order[n] => m = n
  BY DEF ListInv, ListMatchesTable
<1>4. order \in Injection(1 .. Len(order), others)
  <2>1. order \in [1 .. Len(order) -> others]
    BY <1>3 DEF ListInv
  <2> QED BY <1>3, <2>1 DEF Injection, IsInjective
<1>5. Cardinality(1 .. Len(order)) <= Capacity - 1
  BY <1>2, <1>4, FS_Injection
<1>6. Cardinality(1 .. Len(order)) = Len(order)
  <2> DEFINE n == Len(order)
  <2>1. n \in Nat
    BY <1>3
  <2> HIDE DEF n
  <2>2. Cardinality(1 .. n) = IF 1 > n THEN 0 ELSE n - 1 + 1
    BY <2>1, FS_Interval
  <2>3. Cardinality(1 .. n) = n
    BY <2>1, <2>2
  <2> QED BY <2>3 DEF n
<1> QED
  BY <1>1, <1>3, <1>5, <1>6

\* A thread that works has a call of its own.
LEMMA PutCalls ==
    ASSUME TypeInv, NEW t \in Threads
    PROVE  /\ pc[t] \in Busy \cup {"waiting"} => call[t].key \in Keys /\ call[t] # NoCall
           /\ call[t].op = "put" => call[t].key \in Keys /\ call[t].value \in Values
<1>1. call[t] \in Calls \cup {NoCall} /\ (call[t] = NoCall <=> pc[t] = "idle")
  BY DEF TypeInv
<1>2. NoCall.op = "none"
  BY DEF NoCall
<1> QED
  BY <1>1, <1>2 DEF Calls, Busy

\* Every operation leaves a list that holds what the table holds.
LEMMA ListSteps ==
    ASSUME TypeInv, ListInv, NEW t \in Threads, Work(t) \/ \E c \in Calls : Call(t, c)
    PROVE  ListInv'
<1>type. table \in [Slots -> Node \cup {NoNode}] /\ at \in Slots
  BY DEF TypeInv
<1>list. /\ order \in Seq(Slots) /\ Once(order) /\ size = Len(order)
         /\ Elements(order) = {s \in Slots : Occupied(s)}
  BY DEF ListInv, ListMatchesTable, Once, Elements
<1>goal. ASSUME order' \in Seq(Slots), Once(order'), size' = Len(order'),
                Elements(order') = {s \in Slots : Occupied(s)'}
         PROVE  ListInv'
  BY <1>goal DEF ListInv, ListMatchesTable, Once, Elements
<1>head. Occupied(at) => /\ MoveToHead \in Seq(Slots) /\ Once(MoveToHead)
                         /\ Len(MoveToHead) = Len(order)
                         /\ Elements(MoveToHead) = Elements(order)
  <2> SUFFICES ASSUME Occupied(at)
               PROVE  /\ MoveToHead \in Seq(Slots) /\ Once(MoveToHead)
                      /\ Len(MoveToHead) = Len(order)
                      /\ Elements(MoveToHead) = Elements(order)
    OBVIOUS
  <2>1. /\ Without(at) \in Seq(Slots) /\ Once(Without(at)) /\ Len(Without(at)) = Len(order) - 1
        /\ Elements(Without(at)) = Elements(order) \ {at} /\ Len(order) \in Nat
    BY <1>type, InTheList
  <2>2. /\ MoveToHead \in Seq(Slots) /\ Once(MoveToHead)
        /\ Len(MoveToHead) = Len(Without(at)) + 1
        /\ Elements(MoveToHead) = Elements(Without(at)) \cup {at}
    BY <1>type, <2>1, AtTheHead DEF MoveToHead
  <2>3. at \in Elements(order)
    BY <1>list, <1>type
  <2> QED BY <2>1, <2>2, <2>3
<1>1. ASSUME UNCHANGED <<table, order, size>> PROVE ListInv'
  BY <1>list, <1>goal, <1>1 DEF Occupied
<1>2. CASE GetHit(t)
  BY <1>list, <1>goal, <1>head, <1>2 DEF GetHit, Finds, Occupied
<1>3. CASE PutHit(t)
  <2>1. ASSUME NEW s \in Slots PROVE Occupied(s)' <=> Occupied(s)
    <3>1. /\ table' = [table EXCEPT ![at] = [table[at] EXCEPT !.value = call[t].value]]
          /\ table[at] # NoNode
      BY <1>3 DEF PutHit, Finds, Occupied
    <3>2. [table[at] EXCEPT !.value = call[t].value] # NoNode
      BY <1>type, <1>3, <3>1, PutCalls, NamesAssumption DEF PutHit, Finds, Node
    <3> QED BY <1>type, <3>1, <3>2 DEF Occupied
  <2> QED BY <1>list, <1>goal, <1>head, <1>3, <2>1 DEF PutHit, Finds
<1>4. CASE RemoveHit(t)
  <2>1. Occupied(at) /\ order' = Without(at) /\ size' = size - 1
    BY <1>4 DEF RemoveHit, Finds
  <2>2. \A s \in Slots : Occupied(s)' <=> Occupied(s) /\ s # at
    BY <1>type, <1>4 DEF RemoveHit, Finds, Occupied
  <2> QED BY <1>list, <1>type, <1>goal, <2>1, <2>2, InTheList
<1>5. CASE Place(t)
  <2>1. ~Occupied(at) /\ size \in Nat /\ ~(size + 1 > Capacity)
    BY <1>type, <1>5, RoomIsLeft, CapacityAssumption DEF Place
  <2>2. /\ order' = <<at>> \o order /\ size' = size + 1
        /\ table' = [s \in Slots |-> IF s = at THEN [key |-> call[t].key, value |-> call[t].value]
                                     ELSE table[s]]
    BY <1>5, <2>1 DEF Place
  <2>3. [key |-> call[t].key, value |-> call[t].value] # NoNode
    BY <1>5, PutCalls, NamesAssumption DEF Place, Node, TypeInv
  <2>4. \A s \in Slots : Occupied(s)' <=> Occupied(s) \/ s = at
    <3> TAKE s \in Slots
    <3>1. CASE s = at
      <4>1. table'[s] # NoNode
        BY <2>2, <2>3, <3>1
      <4> QED
        BY <3>1, <4>1 DEF Occupied
    <3>2. CASE s # at
      <4>1. table'[s] = table[s]
        BY <2>2, <3>2
      <4> QED
        BY <3>2, <4>1 DEF Occupied
    <3> QED
      BY <3>1, <3>2
  <2>5. at \notin Elements(order)
    BY <1>list, <2>1
  <2> QED BY <1>list, <1>type, <1>goal, <2>1, <2>2, <2>4, <2>5, AtTheHead
<1> QED
  BY <1>1, <1>2, <1>3, <1>4, <1>5 DEF Work, Call, Acquire, Miss, Advance, StartPlacing, SkipTaken

-----------------------------------------------------------------------------
(* Types, and who holds the lock *)

LEMMA InitInv ==
    ASSUME Init
    PROVE  CacheInv
<1>1. TypeInv
  <2>1. Capacity \in Nat \ {0} /\ 0 \in Slots
    BY CapacityAssumption DEF Slots
  <2>2. /\ table = [s \in Slots |-> NoNode] /\ order = <<>> /\ size = 0 /\ lock = NoThread
        /\ pc = [t \in Threads |-> "idle"] /\ call = [t \in Threads |-> NoCall] /\ at = 0
        /\ reply = [t \in Threads |-> Absent] /\ broken = FALSE
    BY DEF Init
  <2>3. /\ table \in [Slots -> Node \cup {NoNode}] /\ order \in Seq(Slots) /\ size \in Nat
        /\ lock \in Threads \cup {NoThread} /\ at \in Slots /\ broken \in BOOLEAN
    <3>1. table \in [Slots -> Node \cup {NoNode}]
      BY <2>2
    <3>2. order \in Seq(Slots) /\ size \in Nat
      BY <2>2
    <3> QED
      BY <2>1, <2>2, <3>1, <3>2
  <2>4. /\ pc \in [Threads -> {"idle", "waiting"} \cup Busy]
        /\ call \in [Threads -> Calls \cup {NoCall}]
        /\ reply \in [Threads -> Values \cup {Absent}]
    BY <2>2
  <2>5. /\ \A t \in Threads : lock = t <=> pc[t] \in Busy
        /\ \A t \in Threads : call[t] = NoCall <=> pc[t] = "idle"
        /\ \A t \in Threads : pc[t] = "placing" => call[t].op = "put"
    BY <2>2, NamesAssumption DEF Busy
  <2> QED BY <2>3, <2>4, <2>5 DEF TypeInv
<1>2. \A s \in Slots : ~Occupied(s)
  BY DEF Init, Occupied
<1>3. ListMatchesTable
  <2>1. order = <<>> /\ size = 0 /\ DOMAIN order = {} /\ Len(order) = 0
    BY DEF Init
  <2> QED BY <1>2, <2>1 DEF ListMatchesTable
<1>4. ChainsWhole
  BY <1>2 DEF ChainsWhole
<1>5. ProbedSlots
  BY DEF Init, ProbedSlots, Busy
<1> QED
  BY <1>1, <1>3, <1>4, <1>5 DEF CacheInv

\* Who probes or places holds the lock, and is alone with it.
LEMMA Alone ==
    ASSUME TypeInv, NEW t \in Threads, pc[t] \in Busy
    PROVE  lock = t /\ \A u \in Threads : pc[u] \in Busy => u = t
  BY DEF TypeInv

LEMMA TypeSteps ==
    ASSUME TypeInv, ListInv, NEW t \in Threads, Work(t) \/ \E c \in Calls : Call(t, c)
    PROVE  TypeInv'
<1>type. /\ table \in [Slots -> Node \cup {NoNode}]
         /\ lock \in Threads \cup {NoThread}
         /\ pc \in [Threads -> {"idle", "waiting"} \cup Busy]
         /\ call \in [Threads -> Calls \cup {NoCall}]
         /\ at \in Slots
         /\ reply \in [Threads -> Values \cup {Absent}]
         /\ broken \in BOOLEAN
         /\ \A u \in Threads : lock = u <=> pc[u] \in Busy
         /\ \A u \in Threads : call[u] = NoCall <=> pc[u] = "idle"
         /\ \A u \in Threads : pc[u] = "placing" => call[u].op = "put"
  BY DEF TypeInv
<1>list. order' \in Seq(Slots) /\ size' \in Nat
  BY ListSteps DEF ListInv, ListMatchesTable
<1>none. NoCall.op = "none" /\ \A c \in Calls : c # NoCall /\ c.key \in Keys
  BY DEF NoCall, Calls
<1>mine. /\ pc[t] \in Busy \cup {"waiting"} => call[t].key \in Keys
         /\ call[t].op = "put" => call[t].key \in Keys /\ call[t].value \in Values
  BY PutCalls
<1>ret. ASSUME NEW answer \in Values \cup {Absent}, Return(t, answer), pc[t] \in Busy,
               table' \in [Slots -> Node \cup {NoNode}], broken' \in BOOLEAN
        PROVE  TypeInv'
  <2>1. /\ lock' = NoThread
        /\ pc' = [pc EXCEPT ![t] = "idle"]
        /\ call' = [call EXCEPT ![t] = NoCall]
        /\ reply' = [reply EXCEPT ![t] = answer]
        /\ at' = at
    BY <1>ret DEF Return
  <2>2. \A u \in Threads : pc[u] \in Busy => u = t
    BY <1>ret, Alone
  <2>3. \A u \in Threads : lock' = u <=> pc'[u] \in Busy
    BY <1>type, <2>1, <2>2, NamesAssumption DEF Busy
  <2>4. /\ \A u \in Threads : call'[u] = NoCall <=> pc'[u] = "idle"
        /\ \A u \in Threads : pc'[u] = "placing" => call'[u].op = "put"
    BY <1>type, <2>1
  <2> QED BY <1>type, <1>list, <1>ret, <2>1, <2>3, <2>4 DEF TypeInv
<1>1. ASSUME NEW c \in Calls, Call(t, c) PROVE TypeInv'
  <2>1. /\ pc[t] = "idle" /\ call' = [call EXCEPT ![t] = c] /\ pc' = [pc EXCEPT ![t] = "waiting"]
        /\ reply' = [reply EXCEPT ![t] = Absent]
        /\ UNCHANGED <<table, order, size, lock, at, broken>>
    BY <1>1 DEF Call
  <2>2. /\ \A u \in Threads : lock' = u <=> pc'[u] \in Busy
        /\ \A u \in Threads : call'[u] = NoCall <=> pc'[u] = "idle"
        /\ \A u \in Threads : pc'[u] = "placing" => call'[u].op = "put"
    BY <1>type, <1>none, <2>1 DEF Busy
  <2> QED BY <1>type, <1>list, <2>1, <2>2 DEF TypeInv
<1>2. CASE Acquire(t)
  <2>1. /\ pc[t] = "waiting" /\ lock = NoThread /\ lock' = t /\ at' = Hash[call[t].key]
        /\ pc' = [pc EXCEPT ![t] = "probing"]
        /\ UNCHANGED <<table, order, size, call, reply, broken>>
    BY <1>2 DEF Acquire
  <2>2. /\ \A u \in Threads : lock' = u <=> pc'[u] \in Busy
        /\ \A u \in Threads : call'[u] = NoCall <=> pc'[u] = "idle"
        /\ \A u \in Threads : pc'[u] = "placing" => call'[u].op = "put"
    BY <1>type, <2>1, NamesAssumption DEF Busy
  <2>3. at' \in Slots
    BY <1>mine, <2>1, HashAssumption
  <2> QED BY <1>type, <1>list, <2>1, <2>2, <2>3 DEF TypeInv, Busy
<1>3. CASE GetHit(t)
  <2>1. table[at].value \in Values
    BY <1>type, <1>3 DEF GetHit, Finds, Occupied, Node
  <2> QED BY <1>type, <1>ret, <1>3, <2>1 DEF GetHit, Finds, Busy
<1>4. CASE PutHit(t)
  <2>1. table' \in [Slots -> Node \cup {NoNode}]
    BY <1>type, <1>mine, <1>4 DEF PutHit, Finds, Occupied, Node
  <2> QED BY <1>type, <1>ret, <1>4, <2>1 DEF PutHit, Finds, Busy
<1>5. CASE RemoveHit(t)
  <2>1. table' \in [Slots -> Node \cup {NoNode}] /\ broken' \in BOOLEAN
    BY <1>type, <1>5 DEF RemoveHit, CutsOff
  <2> QED BY <1>ret, <1>5, <2>1 DEF RemoveHit, Finds, Busy
<1>6. CASE Miss(t)
  BY <1>type, <1>ret, <1>6 DEF Miss, Busy
<1>7. ASSUME pc[t] \in Busy, pc' = [pc EXCEPT ![t] = pc'[t]], pc'[t] \in Busy,
             pc'[t] = "placing" => call[t].op = "put", at' \in Slots,
             UNCHANGED <<table, order, size, lock, call, reply, broken>>
      PROVE  TypeInv'
  <2>1. \A u \in Threads : lock' = u <=> pc'[u] \in Busy
    BY <1>type, <1>7
  <2>2. /\ \A u \in Threads : call'[u] = NoCall <=> pc'[u] = "idle"
        /\ \A u \in Threads : pc'[u] = "placing" => call'[u].op = "put"
    BY <1>type, <1>7 DEF Busy
  <2> QED BY <1>type, <1>list, <1>7, <2>1, <2>2 DEF TypeInv
<1>8. CASE Advance(t)
  <2>1. at' \in Slots
    BY <1>type, <1>mine, <1>8, ProbeOrder DEF Advance, Busy
  <2> QED BY <1>type, <1>7, <1>8, <2>1 DEF Advance, Busy
<1>9. CASE StartPlacing(t)
  <2>1. at' \in Slots
    BY <1>mine, <1>9, HashAssumption DEF StartPlacing
  <2> QED BY <1>type, <1>7, <1>9, <2>1 DEF StartPlacing, Busy
<1>10. CASE SkipTaken(t)
  <2>1. at' \in Slots
    BY <1>type, <1>mine, <1>10, ProbeOrder DEF SkipTaken, Busy
  <2> QED BY <1>type, <1>7, <1>10, <2>1 DEF SkipTaken, Busy
<1>11. CASE Place(t)
  <2>1. table' \in [Slots -> Node \cup {NoNode}]
    BY <1>type, <1>mine, <1>11 DEF Place, Node
  <2> QED BY <1>type, <1>ret, <1>11, <2>1 DEF Place, Busy
<1> QED
  BY <1>1, <1>2, <1>3, <1>4, <1>5, <1>6, <1>8, <1>9, <1>10, <1>11 DEF Work

-----------------------------------------------------------------------------
(* Probe chains *)

\* A probing that meets an empty slot, or comes full circle, has not missed the key.
LEMMA NotFound ==
    ASSUME TypeInv, ChainsWhole, ProbedSlots, NEW t \in Threads, pc[t] = "probing",
           \/ ~Occupied(at)
           \/ table[at].key # call[t].key /\ NextSlot(at) = Hash[call[t].key]
    PROVE  \A r \in Slots : Occupied(r) => table[r].key # call[t].key
<1> DEFINE k == call[t].key
<1>1. k \in Keys /\ at \in Slots
  BY PutCalls DEF TypeInv, Busy
<1>2. \A r \in Before(k, at) : Occupied(r) /\ table[r].key # k
  BY DEF ProbedSlots, Busy
<1>3. ASSUME NEW r \in Slots, Occupied(r), table[r].key = k PROVE FALSE
  <2>1. r \notin Before(k, at)
    BY <1>2, <1>3
  <2>2. CASE ~Occupied(at)
    <3>1. r # at
      BY <1>3, <2>2
    <3>2. at \in Before(k, r)
      BY <1>1, <2>1, <3>1, ProbeOrder
    <3> QED BY <1>3, <2>2, <3>2 DEF ChainsWhole
  <2>3. CASE table[at].key # k /\ NextSlot(at) = Hash[k]
    <3>1. Slots = Before(k, at) \cup {at}
      BY <1>1, <2>3, ProbeOrder
    <3> QED BY <1>3, <2>1, <2>3, <3>1
  <2> QED BY <2>2, <2>3
<1> QED BY <1>3

\* As long as no removal cuts a node off, the chains stay whole.
LEMMA ChainSteps ==
    ASSUME TypeInv, ListInv, ChainsWhole, ProbedSlots, NEW t \in Threads,
           Work(t) \/ \E c \in Calls : Call(t, c), ~broken'
    PROVE  ChainsWhole'
<1>type. table \in [Slots -> Node \cup {NoNode}] /\ at \in Slots
  BY DEF TypeInv
<1>same. ASSUME \A s \in Slots : /\ Occupied(s)' <=> Occupied(s)
                                 /\ Occupied(s) => table'[s].key = table[s].key
         PROVE  ChainsWhole'
  <2>1. ASSUME NEW s \in Slots, Occupied(s)'
        PROVE  /\ \A r \in Before(table[s].key, s) : Occupied(r)'
               /\ \A r \in Slots : Occupied(r)' /\ table'[r].key = table[s].key => r = s
    <3>1. Occupied(s) /\ \A r \in Before(table[s].key, s) : r \in Slots /\ Occupied(r)
      BY <1>same, <2>1 DEF ChainsWhole, Before
    <3> QED BY <1>same, <2>1, <3>1 DEF ChainsWhole
  <2>2. ASSUME NEW s \in Slots, Occupied(s)' PROVE table'[s].key = table[s].key
    BY <1>same, <2>2
  <2> QED BY <2>1, <2>2 DEF ChainsWhole, Before, Distance
<1>1. ASSUME UNCHANGED table PROVE ChainsWhole'
  BY <1>same, <1>1 DEF Occupied
<1>2. CASE PutHit(t)
  <2>1. /\ table' = [table EXCEPT ![at] = [table[at] EXCEPT !.value = call[t].value]]
        /\ table[at] # NoNode /\ call[t].value \in Values
    BY <1>2, PutCalls DEF PutHit, Finds, Occupied
  <2>2. /\ [table[at] EXCEPT !.value = call[t].value] \in Node
        /\ [table[at] EXCEPT !.value = call[t].value].key = table[at].key
    BY <1>type, <2>1 DEF Node
  <2> QED BY <1>type, <1>same, <2>1, <2>2, NamesAssumption DEF Occupied
<1>3. CASE RemoveHit(t)
  <2>1. table' = [table EXCEPT ![at] = NoNode] /\ ~CutsOff(at)
    BY <1>3 DEF RemoveHit
  <2>2. \A s \in Slots : /\ Occupied(s)' <=> Occupied(s) /\ s # at
                         /\ s # at => table'[s] = table[s]
    BY <1>type, <2>1 DEF Occupied
  <2>3. ASSUME NEW s \in Slots, Occupied(s)'
        PROVE  /\ \A r \in Before(table[s].key, s) : Occupied(r)'
               /\ \A r \in Slots : Occupied(r)' /\ table'[r].key = table[s].key => r = s
    <3>1. Occupied(s) /\ s # at
      BY <2>2, <2>3
    <3>2. at \notin Before(table[s].key, s)
      BY <2>1, <3>1 DEF CutsOff
    <3>3. \A r \in Before(table[s].key, s) : r \in Slots /\ Occupied(r) /\ r # at
      BY <3>1, <3>2 DEF ChainsWhole, Before
    <3>4. \A r \in Slots : Occupied(r) /\ table[r].key = table[s].key => r = s
      BY <3>1 DEF ChainsWhole
    <3> QED BY <2>2, <3>3, <3>4
  <2> QED BY <2>2, <2>3 DEF ChainsWhole, Before, Distance
<1>4. CASE Place(t)
  <2> DEFINE k == call[t].key
  <2>1. ~Occupied(at) /\ ~(size + 1 > Capacity) /\ pc[t] = "placing"
    BY <1>type, <1>4, RoomIsLeft, CapacityAssumption DEF Place
  <2>2. table' = [s \in Slots |-> IF s = at THEN [key |-> k, value |-> call[t].value]
                                  ELSE table[s]]
    BY <1>4, <2>1 DEF Place
  <2>3. [key |-> k, value |-> call[t].value] # NoNode /\ k \in Keys
    BY <1>4, PutCalls, NamesAssumption DEF Place, Node, TypeInv
  <2>4. /\ table'[at].key = k
        /\ \A s \in Slots : /\ Occupied(s)' <=> Occupied(s) \/ s = at
                            /\ s # at => table'[s] = table[s]
    BY <1>type, <2>2, <2>3 DEF Occupied
  <2>5. /\ \A r \in Before(k, at) : r \in Slots /\ Occupied(r)
        /\ \A r \in Slots : Occupied(r) => table[r].key # k
    BY <2>1 DEF ProbedSlots, Before, Busy
  <2>6. ASSUME NEW s \in Slots, Occupied(s)', s # at
        PROVE  /\ \A r \in Before(table[s].key, s) : Occupied(r)'
               /\ \A r \in Slots : Occupied(r)' /\ table'[r].key = table[s].key => r = s
               /\ table'[s].key = table[s].key
    <3>1. Occupied(s) /\ \A r \in Before(table[s].key, s) : r \in Slots /\ Occupied(r)
      BY <2>4, <2>6 DEF ChainsWhole, Before
    <3>2. \A r \in Slots : Occupied(r) /\ table[r].key = table[s].key => r = s
      BY <3>1 DEF ChainsWhole
    <3>3. table[s].key # k
      BY <2>5, <3>1
    <3> QED BY <2>4, <2>6, <3>1, <3>2, <3>3
  <2>7. /\ \A r \in Before(k, at) : Occupied(r)'
        /\ \A r \in Slots : Occupied(r)' /\ table'[r].key = k => r = at
    BY <2>4, <2>5
  <2>8. ASSUME NEW s \in Slots, Occupied(s)'
        PROVE  /\ \A r \in Before(table'[s].key, s) : Occupied(r)'
               /\ \A r \in Slots : Occupied(r)' /\ table'[r].key = table'[s].key => r = s
    <3>1. CASE s = at
      BY <2>4, <2>7, <3>1
    <3>2. CASE s # at
      BY <2>6, <2>8, <3>2
    <3> QED BY <3>1, <3>2
  <2> QED BY <2>8 DEF ChainsWhole, Before, Distance
<1> QED
  BY <1>1, <1>2, <1>3, <1>4
     DEF Work, Call, Acquire, GetHit, Miss, Advance, StartPlacing, SkipTaken

\* A probing goes on from what it has looked at, and ends with its call.
LEMMA ProbeSteps ==
    ASSUME TypeInv, ChainsWhole, ProbedSlots, NEW t \in Threads,
           Work(t) \/ \E c \in Calls : Call(t, c)
    PROVE  ProbedSlots'
<1>type. /\ pc \in [Threads -> {"idle", "waiting"} \cup Busy]
         /\ call \in [Threads -> Calls \cup {NoCall}] /\ at \in Slots
         /\ \A u \in Threads : lock = u <=> pc[u] \in Busy
  BY DEF TypeInv
<1>key. pc[t] \in Busy \cup {"waiting"} => call[t].key \in Keys
  BY PutCalls
<1>none. ASSUME \A u \in Threads : pc'[u] \notin Busy PROVE ProbedSlots'
  BY <1>none DEF ProbedSlots, Busy
<1>mine. ASSUME \A u \in Threads : pc'[u] \in Busy => u = t,
                \A r \in Before(call'[t].key, at') : Occupied(r)' /\ table'[r].key # call'[t].key,
                pc'[t] = "placing" => \A r \in Slots : Occupied(r)' => table'[r].key # call'[t].key
         PROVE  ProbedSlots'
  <2>1. ASSUME NEW u \in Threads, pc'[u] \in Busy
        PROVE  /\ \A r \in Before(call'[u].key, at') : Occupied(r)' /\ table'[r].key # call'[u].key
               /\ pc'[u] = "placing" => \A r \in Slots : Occupied(r)' => table'[r].key # call'[u].key
    BY <1>mine, <2>1
  <2>2. "placing" \in Busy
    BY DEF Busy
  <2> QED BY <2>1, <2>2 DEF ProbedSlots, Before, Distance
<1>ret. ASSUME NEW answer, Return(t, answer), pc[t] \in Busy PROVE ProbedSlots'
  BY <1>type, <1>none, <1>ret, Alone DEF Return, Busy
<1>1. ASSUME NEW c \in Calls, Call(t, c) PROVE ProbedSlots'
  <2>1. /\ call' = [call EXCEPT ![t] = c] /\ pc' = [pc EXCEPT ![t] = "waiting"]
        /\ table' = table /\ at' = at
    BY <1>1 DEF Call
  <2>2. ASSUME NEW u \in Threads
        PROVE  pc'[u] \in Busy => u # t /\ pc'[u] = pc[u] /\ call'[u] = call[u]
    BY <1>type, <2>1 DEF Busy
  <2>3. ASSUME NEW u \in Threads, pc'[u] \in Busy
        PROVE  /\ \A r \in Before(call'[u].key, at') : Occupied(r)' /\ table'[r].key # call'[u].key
               /\ pc'[u] = "placing" => \A r \in Slots : Occupied(r)' => table'[r].key # call'[u].key
    <3>1. pc[u] \in Busy /\ pc'[u] = pc[u] /\ call'[u] = call[u]
      BY <2>2, <2>3
    <3> QED BY <2>1, <3>1 DEF ProbedSlots, Occupied
  <2>4. "placing" \in Busy
    BY DEF Busy
  <2> QED BY <2>3, <2>4 DEF ProbedSlots, Before, Distance
<1>2. CASE Acquire(t)
  <2>1. /\ pc[t] = "waiting" /\ lock = NoThread /\ pc' = [pc EXCEPT ![t] = "probing"]
        /\ at' = Hash[call[t].key] /\ call' = call
    BY <1>2 DEF Acquire
  <2>2. \A u \in Threads : pc'[u] \in Busy => u = t
    BY <1>type, <2>1, NamesAssumption
  <2>3. Before(call'[t].key, at') = {} /\ pc'[t] # "placing"
    BY <1>type, <1>key, <2>1, ProbeOrder
  <2> QED BY <1>mine, <2>2, <2>3
<1>3. CASE GetHit(t)
  BY <1>ret, <1>3 DEF GetHit, Finds, Busy
<1>4. CASE PutHit(t)
  BY <1>ret, <1>4 DEF PutHit, Finds, Busy
<1>5. CASE RemoveHit(t)
  BY <1>ret, <1>5 DEF RemoveHit, Finds, Busy
<1>6. CASE Miss(t)
  BY <1>ret, <1>6 DEF Miss, Busy
<1>7. CASE Place(t)
  BY <1>ret, <1>7 DEF Place, Busy
<1>8. ASSUME pc[t] \in Busy, \A u \in Threads : u # t => pc'[u] = pc[u],
             table' = table, call' = call,
             \A r \in Before(call[t].key, at') : Occupied(r) /\ table[r].key # call[t].key,
             pc'[t] = "placing" => \A r \in Slots : Occupied(r) => table[r].key # call[t].key
      PROVE  ProbedSlots'
  <2>1. \A u \in Threads : pc'[u] \in Busy => u = t
    BY <1>8, Alone
  <2>2. \A r : Occupied(r)' <=> Occupied(r)
    BY <1>8 DEF Occupied
  <2> QED BY <1>mine, <1>8, <2>1, <2>2
<1>next. ASSUME pc[t] \in Busy, Occupied(at), table[at].key # call[t].key
         PROVE  \A r \in Before(call[t].key, NextSlot(at)) : Occupied(r) /\ table[r].key # call[t].key
  <2>1. \A r \in Before(call[t].key, at) : Occupied(r) /\ table[r].key # call[t].key
    BY <1>next DEF ProbedSlots
  <2>2. \/ Before(call[t].key, NextSlot(at)) = {}
        \/ Before(call[t].key, NextSlot(at)) = Before(call[t].key, at) \cup {at}
    BY <1>type, <1>key, <1>next, ProbeOrder
  <2> QED BY <1>next, <2>1, <2>2
<1>9. CASE Advance(t)
  <2>1. pc[t] = "probing" /\ at' = NextSlot(at) /\ pc' = pc /\ table' = table /\ call' = call
    BY <1>9 DEF Advance
  <2>2. pc[t] \in Busy /\ Occupied(at) /\ table[at].key # call[t].key
    BY <1>9 DEF Advance, Busy
  <2> QED BY <1>8, <1>next, <2>1, <2>2
<1>10. CASE StartPlacing(t)
  <2>1. /\ pc[t] = "probing" /\ at' = Hash[call[t].key] /\ pc' = [pc EXCEPT ![t] = "placing"]
        /\ table' = table /\ call' = call
    BY <1>10 DEF StartPlacing
  <2>2. \A r \in Slots : Occupied(r) => table[r].key # call[t].key
    BY <1>10, NotFound DEF StartPlacing
  <2>3. pc[t] \in Busy
    BY <2>1 DEF Busy
  <2>4. Before(call[t].key, at') = {}
    BY <1>type, <1>key, <2>1, <2>3, ProbeOrder
  <2> QED BY <1>type, <1>8, <2>1, <2>2, <2>3, <2>4
<1>11. CASE SkipTaken(t)
  <2>1. pc[t] = "placing" /\ Occupied(at) /\ at' = NextSlot(at) /\ pc' = pc /\ table' = table /\ call' = call
    BY <1>11 DEF SkipTaken
  <2>2. pc[t] \in Busy /\ \A r \in Slots : Occupied(r) => table[r].key # call[t].key
    BY <2>1 DEF ProbedSlots, Busy
  <2>3. table[at].key # call[t].key
    BY <1>type, <2>1, <2>2
  <2> QED BY <1>8, <1>next, <2>1, <2>2, <2>3
<1> QED
  BY <1>1, <1>2, <1>3, <1>4, <1>5, <1>6, <1>7, <1>9, <1>10, <1>11 DEF Work

LEMMA CacheSteps ==
    ASSUME CacheInv, [Next]_vars
    PROVE  CacheInv'
<1>1. CASE UNCHANGED vars
  BY <1>1 DEF CacheInv, TypeInv, ListMatchesTable, ChainsWhole, ProbedSlots, Occupied, vars
<1>2. ASSUME NEW t \in Threads, Work(t) \/ \E c \in Calls : Call(t, c) PROVE CacheInv'
  <2>1. TypeInv /\ ListInv /\ (~broken => ChainsWhole /\ ProbedSlots)
    BY DEF CacheInv, TypeInv, ListInv
  <2>2. TypeInv' /\ ListInv'
    BY <1>2, <2>1, TypeSteps, ListSteps
  <2>3. ~broken' => ~broken
    BY <1>2 DEF Work, Call, Acquire, GetHit, PutHit, RemoveHit, Miss, Advance, StartPlacing,
                SkipTaken, Place
  <2>4. ~broken' => ChainsWhole' /\ ProbedSlots'
    BY <1>2, <2>1, <2>3, ChainSteps, ProbeSteps
  <2> QED BY <2>2, <2>4 DEF CacheInv, ListInv
<1> QED
  BY <1>1, <1>2 DEF Next

\* The list of use and the table hold the same nodes, each once, and size counts them,
\* whatever was put, evicted and removed, and even when a removal has cut nodes off
\* (cache.c: move_to_head, remove_node and the assignments to hash_table).
THEOREM SpecListMatchesTable == Spec => []ListMatchesTable
<1>1. CacheInv => ListMatchesTable
  BY DEF CacheInv
<1> QED
  BY <1>1, InitInv, CacheSteps, PTL DEF Spec

-----------------------------------------------------------------------------
(* The table is a map *)

\* What cache_get answers is what the node with the key says, wherever it is.
MapInv ==
    \A k \in Keys :
        /\ \A s \in Slots : Occupied(s) /\ table[s].key = k => Lookup(k) = table[s].value
        /\ (\A s \in Slots : Occupied(s) => table[s].key # k) => Lookup(k) = Absent

LEMMA Mapped == TypeInv /\ ChainsWhole => MapInv
<1> SUFFICES ASSUME TypeInv, ChainsWhole PROVE MapInv
  OBVIOUS
<1> DEFINE found(k) == {s \in Slots : Occupied(s) /\ table[s].key = k /\ Reachable(s)}
<1>type. table \in [Slots -> Node \cup {NoNode}]
  BY DEF TypeInv
<1>1. ASSUME NEW k \in Keys, NEW s \in Slots, Occupied(s), table[s].key = k
      PROVE  Lookup(k) = table[s].value
  <2>1. s \notin Before(k, s) /\ \A r \in Before(k, s) : r \in Slots
    BY ProbeOrder
  <2>2. \A r \in Before(k, s) : Occupied(r) /\ table[r].key # k
    BY <1>1, <2>1 DEF ChainsWhole
  <2>3. Reachable(s)
    BY <1>1, <2>2 DEF Reachable
  <2>4. \A r \in Slots : Occupied(r) /\ table[r].key = k => r = s
    BY <1>1 DEF ChainsWhole
  <2>5. found(k) = {s}
    BY <1>1, <2>3, <2>4
  <2>6. Lookup(k) = table[CHOOSE r \in found(k) : TRUE].value /\ found(k) # {}
    BY <2>5 DEF Lookup
  <2>7. (CHOOSE r \in found(k) : TRUE) = s
    BY <2>5
  <2> QED BY <2>6, <2>7
<1>2. ASSUME NEW k \in Keys, \A s \in Slots : Occupied(s) => table[s].key # k
      PROVE  Lookup(k) = Absent
  <2>1. found(k) = {}
    BY <1>2
  <2> QED BY <2>1 DEF Lookup
<1> QED
  BY <1>1, <1>2 DEF MapInv

LEMMA MappedNext == (TypeInv /\ ChainsWhole => MapInv)'
  BY Mapped, PTL

Contents == [k \in Keys |-> Lookup(k)]

\* Each operation takes effect on the map at the step that returns.
LEMMA MapSteps ==
    ASSUME TypeInv, ListInv, ChainsWhole, ProbedSlots, NEW t \in Threads,
           Work(t) \/ \E c \in Calls : Call(t, c), ~broken'
    PROVE  Cache!Next \/ UNCHANGED Cache!vars
<1> USE DEF Contents
<1>type. /\ table \in [Slots -> Node \cup {NoNode}] /\ at \in Slots
         /\ call \in [Threads -> Calls \cup {NoCall}]
         /\ \A u \in Threads : call[u] = NoCall <=> pc[u] = "idle"
  BY DEF TypeInv
<1>map. MapInv /\ MapInv'
  <2>1. TypeInv' /\ ChainsWhole'
    BY TypeSteps, ChainSteps
  <2> QED BY <2>1, Mapped, MappedNext
<1>key. pc[t] \in Busy => call[t].key \in Keys
  BY PutCalls
<1>keep. ASSUME UNCHANGED table PROVE Contents' = Contents
  <2>1. \A k \in Keys : Lookup(k)' = Lookup(k)
    BY <1>keep DEF Lookup, Occupied, Reachable, Before, Distance
  <2> QED BY <2>1
<1>ret. ASSUME NEW answer, Return(t, answer) PROVE Cache!Answer(t, answer)
  BY <1>ret DEF Return, Cache!Answer
<1>1. ASSUME NEW c \in Calls, Call(t, c) PROVE Cache!Next
  <2>1. Cache!Call(t, c)
    BY <1>type, <1>keep, <1>1 DEF Call, Cache!Call
  <2> QED BY <2>1 DEF Cache!Next
<1>2. CASE GetHit(t)
  <2>1. /\ pc[t] \in Busy /\ call[t].op = "get" /\ Occupied(at) /\ table[at].key = call[t].key
        /\ Return(t, table[at].value) /\ table' = table
    BY <1>2 DEF GetHit, Finds, Busy
  <2>2. Contents[call[t].key] = table[at].value
    BY <1>type, <1>map, <1>key, <2>1 DEF MapInv
  <2>3. Cache!Get(t)
    BY <1>keep, <1>ret, <2>1, <2>2 DEF Cache!Get
  <2> QED BY <2>3 DEF Cache!Next
<1>3. CASE Miss(t)
  <2>1. /\ pc[t] = "probing" /\ call[t].op \in {"get", "remove"} /\ ~Occupied(at)
        /\ Return(t, Absent) /\ table' = table /\ call[t].key \in Keys
    BY <1>key, <1>3 DEF Miss, Busy
  <2>2. \A r \in Slots : Occupied(r) => table[r].key # call[t].key
    BY <2>1, NotFound
  <2>3. Contents[call[t].key] = Absent
    BY <1>map, <2>1, <2>2 DEF MapInv
  <2>4. Contents' = [Contents EXCEPT ![call[t].key] = Absent]
    BY <1>keep, <2>1, <2>3
  <2>5. CASE call[t].op = "get"
    <3>1. Cache!Get(t)
      BY <1>keep, <1>ret, <2>1, <2>3, <2>5 DEF Cache!Get
    <3> QED BY <3>1 DEF Cache!Next
  <2>6. CASE call[t].op = "remove"
    <3>1. Cache!Remove(t)
      BY <1>ret, <2>1, <2>4, <2>6 DEF Cache!Remove
    <3> QED BY <3>1 DEF Cache!Next
  <2> QED BY <2>1, <2>5, <2>6
<1>others. ASSUME NEW k \in Keys, NEW j \in Keys, j # k,
                  \A s \in Slots : Occupied(s)' /\ table'[s].key = j <=> Occupied(s) /\ table[s].key = j,
                  \A s \in Slots : Occupied(s) /\ table[s].key = j => table'[s].value = table[s].value
           PROVE  Lookup(j)' = Lookup(j)
  <2>1. CASE \E s \in Slots : Occupied(s) /\ table[s].key = j
    BY <1>map, <1>others, <2>1 DEF MapInv
  <2>2. CASE \A s \in Slots : Occupied(s) => table[s].key # j
    BY <1>map, <1>others, <2>2 DEF MapInv
  <2> QED BY <2>1, <2>2
<1>4. CASE PutHit(t)
  <2>0. PICK k \in Keys : k = call[t].key
    BY <1>key, <1>4 DEF PutHit, Finds, Busy
  <2>1. /\ pc[t] \in Busy /\ call[t].op = "put" /\ Occupied(at) /\ table[at].key = k
        /\ Return(t, Absent) /\ k \in Keys /\ call[t].value \in Values
        /\ table' = [table EXCEPT ![at] = [table[at] EXCEPT !.value = call[t].value]]
    BY <2>0, <1>4, PutCalls DEF PutHit, Finds, Busy
  <2>2. table'[at] \in Node /\ table'[at].key = k /\ table'[at].value = call[t].value
    BY <1>type, <2>1 DEF Occupied, Node
  <2>3. Lookup(k)' = call[t].value
    BY <1>type, <1>map, <2>1, <2>2, NamesAssumption DEF MapInv, Occupied
  <2>4. ASSUME NEW j \in Keys, j # k PROVE Lookup(j)' = Lookup(j)
    <3>1. \A s \in Slots : s # at => table'[s] = table[s]
      BY <1>type, <2>1
    <3> QED BY <1>type, <1>others, <2>1, <2>2, <2>4, <3>1 DEF Occupied
  <2>5. Contents' = [Contents EXCEPT ![k] = call[t].value]
    BY <2>1, <2>3, <2>4
  <2>6. Cache!Put(t)
    BY <1>ret, <2>0, <2>1, <2>5 DEF Cache!Put
  <2> QED BY <2>6 DEF Cache!Next
<1>5. CASE RemoveHit(t)
  <2>0. PICK k \in Keys : k = call[t].key
    BY <1>key, <1>5 DEF RemoveHit, Finds, Busy
  <2>1. /\ pc[t] \in Busy /\ call[t].op = "remove" /\ Occupied(at) /\ table[at].key = k
        /\ Return(t, Absent) /\ k \in Keys /\ table' = [table EXCEPT ![at] = NoNode]
    BY <2>0, <1>5 DEF RemoveHit, Finds, Busy
  <2>2. \A s \in Slots : /\ Occupied(s)' <=> Occupied(s) /\ s # at
                         /\ s # at => table'[s] = table[s]
    BY <1>type, <2>1 DEF Occupied
  <2>3. \A r \in Slots : Occupied(r) /\ table[r].key = k => r = at
    BY <1>type, <2>1 DEF ChainsWhole
  <2>4. Lookup(k)' = Absent
    BY <1>map, <2>1, <2>2, <2>3 DEF MapInv
  <2>5. ASSUME NEW j \in Keys, j # k PROVE Lookup(j)' = Lookup(j)
    BY <1>others, <2>1, <2>2, <2>5
  <2>6. Contents' = [Contents EXCEPT ![k] = Absent]
    BY <2>1, <2>4, <2>5
  <2>7. Cache!Remove(t)
    BY <1>ret, <2>0, <2>1, <2>6 DEF Cache!Remove
  <2> QED BY <2>7 DEF Cache!Next
<1>6. CASE Place(t)
  <2>0. PICK k \in Keys : k = call[t].key
    BY <1>key, <1>6 DEF Place, Busy
  <2>1. ~Occupied(at) /\ ~(size + 1 > Capacity) /\ pc[t] = "placing" /\ pc[t] \in Busy
    BY <1>type, <1>6, RoomIsLeft, CapacityAssumption DEF Place, Busy
  <2>2. /\ table' = [s \in Slots |-> IF s = at THEN [key |-> k, value |-> call[t].value]
                                     ELSE table[s]]
        /\ Return(t, Absent) /\ call[t].op = "put" /\ k \in Keys /\ call[t].value \in Values
    BY <2>0, <1>6, <2>1, PutCalls DEF Place, TypeInv
  <2>3. /\ table'[at] # NoNode /\ table'[at].key = k /\ table'[at].value = call[t].value
        /\ \A s \in Slots : s # at => table'[s] = table[s]
    BY <1>type, <2>2, NamesAssumption DEF Node
  <2>4. Lookup(k)' = call[t].value
    BY <1>type, <1>map, <2>2, <2>3 DEF MapInv, Occupied
  <2>5. ASSUME NEW j \in Keys, j # k PROVE Lookup(j)' = Lookup(j)
    BY <1>others, <2>1, <2>2, <2>3, <2>5 DEF Occupied
  <2>6. Contents' = [Contents EXCEPT ![k] = call[t].value]
    BY <2>2, <2>4, <2>5
  <2>7. Cache!Put(t)
    BY <1>ret, <2>0, <2>2, <2>6 DEF Cache!Put
  <2> QED BY <2>7 DEF Cache!Next
<1>7. ASSUME UNCHANGED <<table, call, reply>> PROVE UNCHANGED Cache!vars
  BY <1>keep, <1>7 DEF Cache!vars
<1> QED
  BY <1>1, <1>2, <1>3, <1>4, <1>5, <1>6, <1>7 DEF Work, Acquire, Advance, StartPlacing, SkipTaken

\* As long as no removal has cut a node off, the table with its probings, one slot at a time,
\* is a map on which the calls of the name server's threads take effect one at a time: no
\* cache_get answers with the metadata of a removed file, or with any but the latest put.
THEOREM SpecImplementsMap == Spec => ImplementsMap
<1>1. Init => Cache!Init
  <2> SUFFICES ASSUME Init PROVE Cache!Init
    OBVIOUS
  <2>1. \A s \in Slots : ~Occupied(s)
    BY DEF Init, Occupied
  <2>2. \A k \in Keys : Lookup(k) = Absent
    BY <2>1 DEF Lookup
  <2> QED BY <2>2 DEF Init, Cache!Init
<1>2. CacheInv /\ [Next]_vars => [broken' \/ Cache!Next]_(Cache!vars)
  <2> SUFFICES ASSUME CacheInv, [Next]_vars, ~broken' PROVE Cache!Next \/ UNCHANGED Cache!vars
    OBVIOUS
  <2>1. CASE UNCHANGED vars
    <3>1. \A k \in Keys : Lookup(k)' = Lookup(k)
      BY <2>1 DEF vars, Lookup, Occupied, Reachable, Before, Distance
    <3> QED BY <2>1, <3>1 DEF vars, Cache!vars
  <2>2. ASSUME NEW t \in Threads, Work(t) \/ \E c \in Calls : Call(t, c)
        PROVE  Cache!Next \/ UNCHANGED Cache!vars
    <3>1. ~broken
      BY <2>2 DEF Work, Call, Acquire, GetHit, PutHit, RemoveHit, Miss, Advance, StartPlacing,
                  SkipTaken, Place
    <3>2. TypeInv /\ ListInv /\ ChainsWhole /\ ProbedSlots
      BY <3>1 DEF CacheInv, TypeInv, ListInv
    <3> QED BY <2>2, <3>2, MapSteps
  <2> QED BY <2>1, <2>2 DEF Next
<1> QED
  BY <1>1, <1>2, InitInv, CacheSteps, PTL DEF Spec, ImplementsMap
=============================================================================
