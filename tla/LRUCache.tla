------------------------------ MODULE LRUCache ------------------------------
(***************************************************************************)
(* The name server's metadata cache (cache.c): a hash table with linear     *)
(* probing whose nodes are also linked in order of use. Every operation     *)
(* runs under cache->lock from end to end; the loops over the table are     *)
(* modelled one slot a step, so that a loop that never ends is seen.        *)
(*                                                                          *)
(* A node stays in its slot from its creation to its removal, so the linked *)
(* list is a sequence of slots, the latest used first.                      *)
(***************************************************************************)
EXTENDS Naturals, Integers, Sequences, FiniteSets, SequencesExt

CONSTANTS
    Threads,    \* the name server's threads that use the cache
    Keys,       \* file names
    Values,     \* metadata
    Capacity,   \* CACHE_SIZE
    Hash,       \* hash_string, for each key
    NoThread,   \* nobody holds the lock
    NoNode,     \* an empty slot of the table
    Absent      \* the answer of cache_get for a key that is not cached

Slots == 0 .. Capacity - 1

ASSUME CapacityAssumption == Capacity \in Nat \ {0}
ASSUME HashAssumption     == Hash \in [Keys -> Slots]

Node == [key : Keys, value : Values]

ASSUME NamesAssumption == NoThread \notin Threads /\ NoNode \notin Node

VARIABLES
    table,      \* hash_table: the node in each slot
    order,      \* the list from head to tail
    size,       \* the counter of nodes
    lock,       \* the thread that holds cache->lock
    pc,         \* what each thread does next
    call,       \* the call of each thread that is in one
    at,         \* the slot the lock's holder looks at
    reply,      \* what a thread's latest call returned
    \* History, read by no operation
    broken      \* a removal has emptied a slot that another key's probing crosses

vars == <<table, order, size, lock, pc, call, at, reply, broken>>

\* No call.
NoCall == [op |-> "none", key |-> CHOOSE k \in Keys : TRUE, value |-> Absent]

Calls ==      [op : {"get", "remove"}, key : Keys, value : {Absent}]
         \cup [op : {"put"}, key : Keys, value : Values]

-----------------------------------------------------------------------------
(* The table *)

Occupied(s) == table[s] # NoNode

NextSlot(s) == (s + 1) % Capacity

\* How far the probing for key k goes before it looks at slot s.
Distance(k, s) == IF s >= Hash[k] THEN s - Hash[k] ELSE s - Hash[k] + Capacity

Before(k, s) == {r \in Slots : Distance(k, r) < Distance(k, s)}

\* The node in slot s is what a probing for its key ends at.
Reachable(s) ==
    LET k == table[s].key
    IN  \A r \in Before(k, s) : Occupied(r) /\ table[r].key # k

\* What cache_get answers for key k.
Lookup(k) ==
    LET found == {s \in Slots : Occupied(s) /\ table[s].key = k /\ Reachable(s)}
    IN  IF found = {} THEN Absent ELSE table[CHOOSE s \in found : TRUE].value

\* Emptying slot s cuts off a node behind it.
CutsOff(s) ==
    \E r \in Slots \ {s} : Occupied(r) /\ s \in Before(table[r].key, r)

\* The order of use with the node in slot s taken out (remove_node).
Without(s) == RemoveAt(order, CHOOSE n \in DOMAIN order : order[n] = s)

-----------------------------------------------------------------------------
(* The operations *)

\* A thread calls cache_get, cache_put or cache_remove.
Call(t, c) ==
    /\ pc[t] = "idle"
    /\ call' = [call EXCEPT ![t] = c]
    /\ pc' = [pc EXCEPT ![t] = "waiting"]
    /\ reply' = [reply EXCEPT ![t] = Absent]
    /\ UNCHANGED <<table, order, size, lock, at, broken>>

\* It takes the lock and hashes the key.
Acquire(t) ==
    /\ pc[t] = "waiting"
    /\ lock = NoThread
    /\ lock' = t
    /\ at' = Hash[call[t].key]
    /\ pc' = [pc EXCEPT ![t] = "probing"]
    /\ UNCHANGED <<table, order, size, call, reply, broken>>

\* Thread t returns with the given answer.
Return(t, answer) ==
    /\ lock' = NoThread
    /\ pc' = [pc EXCEPT ![t] = "idle"]
    /\ call' = [call EXCEPT ![t] = NoCall]
    /\ reply' = [reply EXCEPT ![t] = answer]
    /\ UNCHANGED at

\* MUTANT: the key is not compared.
FindsAny(t, op) ==
    /\ pc[t] = "probing"
    /\ call[t].op = op
    /\ Occupied(at)

Finds(t, op) ==
    /\ pc[t] = "probing"
    /\ call[t].op = op
    /\ Occupied(at)
    /\ table[at].key = call[t].key

\* move_to_head of the node found.
MoveToHead == <<at>> \o Without(at)

\* cache_get finds the key: a copy of its metadata is returned.
GetHit(t) ==
    /\ Finds(t, "get")
    /\ order' = MoveToHead
    /\ Return(t, table[at].value)
    /\ UNCHANGED <<table, size, broken>>

\* cache_put finds the key: its metadata is overwritten.
PutHit(t) ==
    /\ Finds(t, "put")
    /\ table' = [table EXCEPT ![at].value = call[t].value]
    /\ order' = MoveToHead
    /\ Return(t, Absent)
    /\ UNCHANGED <<size, broken>>

\* MUTANT: a removed node stays in the list.
RemoveHitStays(t) ==
    /\ Finds(t, "remove")
    /\ table' = [table EXCEPT ![at] = NoNode]
    /\ UNCHANGED order
    /\ size' = size - 1
    /\ broken' = (broken \/ CutsOff(at))
    /\ Return(t, Absent)

\* cache_remove finds the key: its slot is emptied, and nothing behind it moves.
RemoveHit(t) ==
    /\ Finds(t, "remove")
    /\ table' = [table EXCEPT ![at] = NoNode]
    /\ order' = Without(at)
    /\ size' = size - 1
    /\ broken' = (broken \/ CutsOff(at))
    /\ Return(t, Absent)

\* An empty slot: the key is not cached.
Miss(t) ==
    /\ pc[t] = "probing"
    /\ call[t].op \in {"get", "remove"}
    /\ ~Occupied(at)
    /\ Return(t, Absent)
    /\ UNCHANGED <<table, order, size, broken>>

\* MUTANT: the loop never moves on.
AdvanceInPlace(t) ==
    /\ pc[t] = "probing"
    /\ Occupied(at)
    /\ table[at].key # call[t].key
    /\ call[t].op = "put" => NextSlot(at) # Hash[call[t].key]
    /\ UNCHANGED vars

\* Another key: on to the next slot. Only cache_put stops after a full circle.
Advance(t) ==
    /\ pc[t] = "probing"
    /\ Occupied(at)
    /\ table[at].key # call[t].key
    /\ call[t].op = "put" => NextSlot(at) # Hash[call[t].key]
    /\ at' = NextSlot(at)
    /\ UNCHANGED <<table, order, size, lock, pc, call, reply, broken>>

\* cache_put has not found the key: it looks for an empty slot from the start.
StartPlacing(t) ==
    /\ pc[t] = "probing"
    /\ call[t].op = "put"
    /\ \/ ~Occupied(at)
       \/ /\ Occupied(at)
          /\ table[at].key # call[t].key
          /\ NextSlot(at) = Hash[call[t].key]
    /\ at' = Hash[call[t].key]
    /\ pc' = [pc EXCEPT ![t] = "placing"]
    /\ UNCHANGED <<table, order, size, lock, call, reply, broken>>

\* The slot is taken: on to the next one, however often.
SkipTaken(t) ==
    /\ pc[t] = "placing"
    /\ Occupied(at)
    /\ at' = NextSlot(at)
    /\ UNCHANGED <<table, order, size, lock, pc, call, reply, broken>>

\* The slot of the list's last node, which an eviction empties.
LastUsed == order[Len(order)]

\* The slot is free: a node is put there and at the head of the list. The
\* eviction that follows when the cache is over its capacity comes too late to
\* find it so: a node is placed only if a slot was free.
Place(t) ==
    LET node == [key |-> call[t].key, value |-> call[t].value]
        evicts == size + 1 > Capacity
    IN
    /\ pc[t] = "placing"
    /\ ~Occupied(at)
    /\ table' = [s \in Slots |-> IF s = at THEN node
                                 ELSE IF evicts /\ s = LastUsed THEN NoNode ELSE table[s]]
    /\ order' = <<at>> \o (IF evicts THEN Without(LastUsed) ELSE order)
    /\ size' = IF evicts THEN size ELSE size + 1
    /\ Return(t, Absent)
    /\ UNCHANGED broken

-----------------------------------------------------------------------------

Init ==
    /\ table = [s \in Slots |-> NoNode]
    /\ order = <<>>
    /\ size = 0
    /\ lock = NoThread
    /\ pc = [t \in Threads |-> "idle"]
    /\ call = [t \in Threads |-> NoCall]
    /\ at = 0
    /\ reply = [t \in Threads |-> Absent]
    /\ broken = FALSE

\* What a call does once it is made.
Work(t) ==
    \/ Acquire(t)
    \/ GetHit(t) \/ PutHit(t) \/ RemoveHit(t) \/ Miss(t) \/ Advance(t)
    \/ StartPlacing(t) \/ SkipTaken(t) \/ Place(t)

Next == \E t \in Threads : Work(t) \/ \E c \in Calls : Call(t, c)

Spec == Init /\ [][Next]_vars

\* A thread whose call can go on is scheduled eventually.
FairSpec == Spec /\ \A t \in Threads : WF_vars(Work(t))

-----------------------------------------------------------------------------
(* Properties *)

\* The table and the list hold the same nodes, each once, and the counter counts
\* them: no operation leaves a node in one of the two that is freed in the other.
ListMatchesTable ==
    /\ {order[n] : n \in DOMAIN order} = {s \in Slots : Occupied(s)}
    /\ \A m, n \in DOMAIN order : order[m] = order[n] => m = n
    /\ size = Len(order)

Cache == INSTANCE MetadataCache WITH contents <- [k \in Keys |-> Lookup(k)]

\* As long as no removal has cut a node off, the table is a map: cache_get
\* answers the latest metadata put, and never that of a removed file.
ImplementsMap == Cache!Init /\ [][broken' \/ Cache!Next]_(Cache!vars)

\* Every cache operation that has taken the cache's lock gives it up again ("O(1)",
\* README.md) as long as no removal has cut a node off, if there are no more keys than
\* slots.
UnbrokenOperationsEnd == \A t \in Threads : lock = t ~> lock # t \/ broken
=============================================================================
