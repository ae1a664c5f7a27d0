------------------------- MODULE FileMetadata_proofs -------------------------
(***************************************************************************)
(* Proofs about the metadata of a file, for any number of users, servers    *)
(* and requests: acknowledged access decisions persist, every variable keeps *)
(* its type, entries and files correspond, and requests go to the server     *)
(* that has the file. The invariants that carry this are about the copies    *)
(* the handlers hold: one that will be written to the trie differs from the  *)
(* entry by the handler's own change at most, or a copy has been outdated.   *)
(***************************************************************************)
EXTENDS FileMetadata, FiniteSetTheorems, SequenceTheorems, TLAPS

\* A function of the users, and an entry whose ACL is one.
OfUsers(f) == f = [u \in Users |-> f[u]]

Entry(m) ==
    /\ m = [owner |-> m.owner, ss_id |-> m.ss_id,
            folder_path |-> m.folder_path, acl |-> m.acl]
    /\ OfUsers(m.acl)

\* The owner's decisions once thread u has written its copy to the trie.
Decided(u) ==
    IF type[u] \in {"access", "approve"}
    THEN [granted EXCEPT ![msg[u].target_user] = msg[u].access] ELSE granted

ShapeInv ==
    /\ OfUsers(pc) /\ OfUsers(type) /\ OfUsers(msg) /\ OfUsers(meta) /\ OfUsers(granted)
    /\ file_trie # NoMeta => Entry(file_trie)
    /\ \A u \in Users : WillUpdate(u) => Entry(meta[u])
    /\ \A u \in Users : pc[u] \in {"create", "insert"} => Entry(meta[u]) /\ meta[u].acl = NoAcl
    /\ \A u \in Users : pc[u] = "reread" => type[u] = "read"

CopyInv ==
    Undisturbed({"lost", "full"}) /\ file_trie # NoMeta =>
        /\ file_trie.acl = granted
        /\ \A u \in Users : WillUpdate(u) => meta[u].acl = Decided(u)

GrantInv == ShapeInv /\ CopyInv

-----------------------------------------------------------------------------

\* The server has just started: nothing has been granted, and no copy is held.
LEMMA InitGrantInv == Init => GrantInv
  BY DEF Init, GrantInv, ShapeInv, CopyInv, OfUsers, WillUpdate, NoAcl

\* The copies of other threads, when the entry becomes m and the decisions stay.
\* Either the entry stays, too, or nobody is left who will write one back.
LEMMA OutdatesOthers ==
  ASSUME NEW u \in Users, NEW m, Note(Outdates(u, m)), Undisturbed({"lost", "full"})',
         m # file_trie
  PROVE  \A v \in Users \ {u} : ~WillUpdate(v)
  BY DEF Note, Outdates, Undisturbed

\* Thread u alone has changed its own variables.
ByAlone(u) ==
    /\ OfUsers(pc)' /\ OfUsers(type)' /\ OfUsers(msg)' /\ OfUsers(meta)'
    /\ \A v \in Users \ {u} : /\ pc'[v] = pc[v]
                              /\ type'[v] = type[v]
                              /\ msg'[v] = msg[v]
                              /\ meta'[v] = meta[v]

\* What thread u's own copy must be like after its step.
OwnCopy(u) ==
    /\ WillUpdate(u) => Entry(meta[u])
    /\ pc[u] \in {"create", "insert"} => Entry(meta[u]) /\ meta[u].acl = NoAcl
    /\ pc[u] = "reread" => type[u] = "read"
    /\ Undisturbed({"lost", "full"}) /\ file_trie # NoMeta /\ WillUpdate(u) =>
          meta[u].acl = Decided(u)

\* A step that leaves the entry and the decisions alone.
LEMMA EntryStays ==
  ASSUME GrantInv, NEW u \in Users, ByAlone(u), OwnCopy(u)',
         UNCHANGED <<file_trie, granted>>, races \subseteq races'
  PROVE  GrantInv'
<1>1. ShapeInv'
  BY DEF GrantInv, ShapeInv, ByAlone, OwnCopy, WillUpdate, Entry, OfUsers
<1>2. CopyInv'
  <2> SUFFICES ASSUME Undisturbed({"lost", "full"})', file_trie # NoMeta
               PROVE  /\ file_trie.acl = granted
                      /\ \A v \in Users : WillUpdate(v)' => meta'[v].acl = Decided(v)'
    BY DEF CopyInv
  <2>1. Undisturbed({"lost", "full"})
    BY DEF Undisturbed
  <2>2. ASSUME NEW v \in Users \ {u}, WillUpdate(v)' PROVE meta'[v].acl = Decided(v)'
    BY <2>1, <2>2 DEF GrantInv, CopyInv, ByAlone, WillUpdate, Decided
  <2> QED BY <2>1, <2>2 DEF GrantInv, CopyInv, OwnCopy
<1> QED BY <1>1, <1>2 DEF GrantInv

\* The steps of a handler that holds no copy for the trie afterwards.
LEMMA CopylessSteps ==
  ASSUME GrantInv, NEW u \in Users,
         \/ DeleteRequest(u) \/ DeleteAtSS(u) \/ CacheRemove(u)
         \/ \E a \in Access : RequestAccess(u, a)
         \/ AskForAccess(u)
         \/ \E n \in 1 .. MaxQueue : DenyRequest(u, n)
         \/ \E required \in {"read", "write"} : ReadRequest(u, required)
         \/ InfoRequest(u) \/ FindCached(u) \/ FindInTrie(u) \/ FillCache(u)
         \/ CachePut(u)
  PROVE  GrantInv'
<1> USE DEF GrantInv, ShapeInv, ByAlone, OwnCopy, WillUpdate, OfUsers, Goto, Begin,
            shared, mutexes, own, history
<1>1. CASE DeleteRequest(u)
  BY <1>1, EntryStays DEF DeleteRequest
<1>2. CASE DeleteAtSS(u)
  BY <1>2, EntryStays DEF DeleteAtSS
<1>3. CASE CacheRemove(u)
  BY <1>3, EntryStays DEF CacheRemove
<1>4. ASSUME NEW a \in Access, RequestAccess(u, a) PROVE GrantInv'
  BY <1>4, EntryStays DEF RequestAccess
<1>5. CASE AskForAccess(u)
  BY <1>5, EntryStays DEF AskForAccess
<1>6. ASSUME NEW n \in 1 .. MaxQueue, DenyRequest(u, n) PROVE GrantInv'
  BY <1>6, EntryStays DEF DenyRequest
<1>7. ASSUME NEW required \in {"read", "write"}, ReadRequest(u, required) PROVE GrantInv'
  BY <1>7, EntryStays DEF ReadRequest
<1>8. CASE InfoRequest(u)
  BY <1>8, EntryStays DEF InfoRequest
<1>9. CASE FindCached(u)
  BY <1>9, EntryStays DEF FindCached, AfterFind
<1>10. CASE FindInTrie(u)
  BY <1>10, EntryStays DEF FindInTrie
<1>11. CASE FillCache(u)
  BY <1>11, EntryStays DEF FillCache, AfterFind
<1>12. CASE CachePut(u)
  BY <1>12, EntryStays DEF CachePut
<1> QED BY <1>1, <1>2, <1>3, <1>4, <1>5, <1>6, <1>7, <1>8, <1>9, <1>10, <1>11, <1>12

\* The steps that make, keep or complete a copy for the trie.
LEMMA CopySteps ==
  ASSUME GrantInv, NEW u \in Users,
         \/ \E s \in Servers : CreateRequest(u, s)
         \/ CreateAtSS(u)
         \/ Reread(u) \/ ViewRequest(u) \/ ViewInfo(u)
         \/ MoveRequest(u) \/ \E place \in Places : MoveAtSS(u, place)
  PROVE  GrantInv'
<1> USE DEF GrantInv, ShapeInv, CopyInv, ByAlone, OwnCopy, WillUpdate, OfUsers, Goto, Begin,
            Entry, Decided, Undisturbed, shared, mutexes, own, history
<1>1. ASSUME NEW s \in Servers, CreateRequest(u, s) PROVE GrantInv'
  BY <1>1, EntryStays DEF CreateRequest, NewMeta, NoAcl
<1>2. CASE CreateAtSS(u)
  BY <1>2, EntryStays, ZenonT(30) DEF CreateAtSS, Note
<1>3. CASE Reread(u)
  BY <1>3, EntryStays DEF Reread
<1>4. CASE ViewRequest(u)
  BY <1>4, EntryStays DEF ViewRequest
<1>5. CASE ViewInfo(u)
  <2>1. /\ pc[u] = "info" /\ pc' \in {[pc EXCEPT ![u] = "update"], [pc EXCEPT ![u] = "idle"]}
        /\ UNCHANGED <<file_trie, type, msg, meta, granted, races>>
    BY <1>5 DEF ViewInfo
  <2>2. ByAlone(u) /\ OwnCopy(u)'
    BY <2>1
  <2> QED BY <2>1, <2>2, EntryStays
<1>6. CASE MoveRequest(u)
  BY <1>6, EntryStays DEF MoveRequest, check_access
<1>7. ASSUME NEW place \in Places, MoveAtSS(u, place) PROVE GrantInv'
  <2>1. /\ pc[u] = "move" /\ pc' \in {[pc EXCEPT ![u] = "update"], [pc EXCEPT ![u] = "idle"]}
        /\ meta' \in {meta, [meta EXCEPT ![u].folder_path = place]}
        /\ UNCHANGED <<file_trie, type, msg, granted, races>>
    BY <1>7 DEF MoveAtSS
  <2>2. Entry(meta'[u]) /\ meta'[u].acl = meta[u].acl
    <3>1. Entry(meta[u])
      BY <2>1
    <3> QED BY <2>1, <3>1
  <2>3. ByAlone(u) /\ OwnCopy(u)'
    BY <2>1, <2>2
  <2> QED BY <2>1, <2>3, EntryStays
<1> QED BY <1>1, <1>2, <1>3, <1>4, <1>5, <1>6, <1>7

\* A change of the ACL to a copy of the entry. If it does not fit, "full" is noted.
LEMMA AclSteps ==
  ASSUME GrantInv, NEW u \in Users,
         \/ \E v \in Users, a \in Access : AccessRequest(u, v, a)
         \/ \E n \in 1 .. MaxQueue : ApproveRequest(u, n)
  PROVE  GrantInv'
<1>1. ASSUME NEW v, NEW a, Entry(file_trie)
      PROVE  /\ Entry([file_trie EXCEPT !.acl[v] = a])
             /\ [file_trie EXCEPT !.acl[v] = a].acl = [file_trie.acl EXCEPT ![v] = a]
             /\ Entry(Grant(file_trie, v, a))
             /\ FitsAcl(file_trie.acl, v) =>
                   Grant(file_trie, v, a).acl = [file_trie.acl EXCEPT ![v] = a]
  BY <1>1 DEF Entry, OfUsers, Grant
<1>2. ASSUME NEW v, NEW a, NEW t \in {"access", "approve"}, NEW m,
             pc' = [pc EXCEPT ![u] = "update"], type' = [type EXCEPT ![u] = t],
             msg' = [msg EXCEPT ![u] = m], m.target_user = v, m.access = a,
             UNCHANGED <<file_trie, granted>>, races \subseteq races',
             file_trie # NoMeta, OfUsers(meta'), Entry(meta'[u]),
             \A w \in Users \ {u} : meta'[w] = meta[w],
             Undisturbed({"lost", "full"})' =>
                meta'[u].acl = [file_trie.acl EXCEPT ![v] = a]
      PROVE  GrantInv'
  <2>1. ByAlone(u)
    BY <1>2 DEF ByAlone, GrantInv, ShapeInv, OfUsers
  <2>2. Undisturbed({"lost", "full"})' => Undisturbed({"lost", "full"})
    BY <1>2 DEF Undisturbed
  <2>3. type'[u] = t /\ msg'[u] = m /\ pc'[u] = "update"
    BY <1>2 DEF GrantInv, ShapeInv, OfUsers
  <2>4. OwnCopy(u)'
    BY <1>2, <2>2, <2>3 DEF OwnCopy, Decided, GrantInv, CopyInv
  <2> QED BY <1>2, <2>1, <2>4, EntryStays
<1>3. ASSUME NEW v \in Users, NEW a \in Access, AccessRequest(u, v, a) PROVE GrantInv'
  <2> DEFINE m == [target_user |-> v, access |-> a]
  <2>1. file_trie # NoMeta /\ Entry(file_trie)
    BY <1>3 DEF AccessRequest, GrantInv, ShapeInv
  <2>2. /\ pc' = [pc EXCEPT ![u] = "update"] /\ type' = [type EXCEPT ![u] = "access"]
        /\ msg' = [msg EXCEPT ![u] = m]
        /\ meta' = [meta EXCEPT ![u] = IF a = "none" THEN [file_trie EXCEPT !.acl[v] = a]
                                                 ELSE Grant(file_trie, v, a)]
        /\ UNCHANGED <<file_trie, granted>> /\ races \subseteq races'
        /\ races' = races \cup IF a # "none" /\ ~FitsAcl(file_trie.acl, v) THEN {"full"} ELSE {}
    BY <1>3 DEF AccessRequest, Begin, Goto, shared, Note
  <2>3. Undisturbed({"lost", "full"})' => a = "none" \/ FitsAcl(file_trie.acl, v)
    BY <2>2 DEF Undisturbed
  <2>4. /\ OfUsers(meta') /\ \A w \in Users \ {u} : meta'[w] = meta[w]
        /\ Entry(meta'[u])
        /\ Undisturbed({"lost", "full"})' => meta'[u].acl = [file_trie.acl EXCEPT ![v] = a]
    BY <2>1, <2>2, <2>3, <1>1 DEF GrantInv, ShapeInv, OfUsers
  <2>5. races \subseteq races' /\ m.target_user = v /\ m.access = a
    BY <2>2
  <2>6. /\ pc' = [pc EXCEPT ![u] = "update"] /\ type' = [type EXCEPT ![u] = "access"]
        /\ msg' = [msg EXCEPT ![u] = m] /\ UNCHANGED <<file_trie, granted>>
    BY <2>2
  <2> HIDE DEF m
  <2> QED BY <1>2, <2>1, <2>4, <2>5, <2>6
<1>4. ASSUME NEW n \in 1 .. MaxQueue, ApproveRequest(u, n) PROVE GrantInv'
  <2> DEFINE r == access_requests[n]
  <2>1. file_trie # NoMeta /\ Entry(file_trie)
    BY <1>4 DEF ApproveRequest, GrantInv, ShapeInv
  <2>2. /\ pc' = [pc EXCEPT ![u] = "update"] /\ type' = [type EXCEPT ![u] = "approve"]
        /\ msg' = [msg EXCEPT ![u] = r]
        /\ meta' = [meta EXCEPT ![u] = Grant(file_trie, r.target_user, r.access)]
        /\ UNCHANGED <<file_trie, granted>> /\ races \subseteq races'
        /\ Undisturbed({"lost", "full"})' => FitsAcl(file_trie.acl, r.target_user)
    BY <1>4 DEF ApproveRequest, Begin, Goto, Note, Undisturbed
  <2>3. /\ OfUsers(meta') /\ \A w \in Users \ {u} : meta'[w] = meta[w]
        /\ Entry(meta'[u])
        /\ Undisturbed({"lost", "full"})' =>
              meta'[u].acl = [file_trie.acl EXCEPT ![r.target_user] = r.access]
    BY <2>1, <2>2, <1>1 DEF GrantInv, ShapeInv, OfUsers
  <2> HIDE DEF r
  <2> QED BY <1>2, <2>1, <2>2, <2>3
<1> QED BY <1>3, <1>4

\* The steps that change the entry: what other threads hold is outdated, or the
\* entry is what it was.
LEMMA EntrySteps ==
  ASSUME GrantInv, NEW u \in Users, Insert(u) \/ TrieDelete(u) \/ Update(u)
  PROVE  GrantInv'
<1>1. /\ UNCHANGED <<type, msg, meta>>
      /\ \E label \in {"cacheput", "cacheremove"} : pc' = [pc EXCEPT ![u] = label]
      /\ races \subseteq races'
  BY DEF Insert, TrieDelete, Update, Goto, Note, own
<1>2. ~WillUpdate(u)' /\ \A v \in Users \ {u} : WillUpdate(v)' => WillUpdate(v)
  BY <1>1 DEF WillUpdate, GrantInv, ShapeInv, OfUsers
<1>3. /\ file_trie' # NoMeta => Entry(file_trie')
      /\ OfUsers(granted')
  BY DEF Insert, TrieDelete, Update, GrantInv, ShapeInv, OfUsers, NoAcl, WillUpdate
<1>4. ShapeInv'
  BY <1>1, <1>2, <1>3 DEF GrantInv, ShapeInv, OfUsers
<1>5. ASSUME Undisturbed({"lost", "full"})', file_trie' # NoMeta
      PROVE  /\ file_trie'.acl = granted'
             /\ \A v \in Users : WillUpdate(v)' => meta'[v].acl = Decided(v)'
  <2>1. Undisturbed({"lost", "full"})
    BY <1>1, <1>5 DEF Undisturbed
  <2>2. CASE file_trie' = file_trie
    <3>1. /\ file_trie.acl = granted
          /\ \A v \in Users : WillUpdate(v) => meta[v].acl = Decided(v)
      BY <2>1, <2>2, <1>5 DEF GrantInv, CopyInv
    <3>2. granted' = granted
      <4>1. CASE Insert(u)
        BY <4>1, <2>2, <3>1 DEF Insert, GrantInv, ShapeInv
      <4>2. CASE TrieDelete(u)
        BY <4>2 DEF TrieDelete
      <4>3. CASE Update(u)
        BY <4>3, <2>2, <3>1 DEF Update, Decided, WillUpdate
      <4> QED BY <4>1, <4>2, <4>3
    <3> QED BY <1>1, <1>2, <2>2, <3>1, <3>2 DEF Decided
  <2>3. CASE file_trie' # file_trie
    <3>1. Note(Outdates(u, file_trie')) \/ "lost" \in races' \/ ~\E v \in Users \ {u} : WillUpdate(v)
      BY <2>3 DEF Insert, TrieDelete, Update, Note, Outdates
    <3>2. \A v \in Users \ {u} : ~WillUpdate(v)
      BY <1>5, <2>3, <3>1, OutdatesOthers DEF Undisturbed
    <3>3. file_trie'.acl = granted'
      <4>1. CASE Insert(u)
        BY <4>1 DEF Insert, GrantInv, ShapeInv
      <4>2. CASE TrieDelete(u)
        BY <4>2, <1>5 DEF TrieDelete
      <4>3. CASE Update(u)
        BY <4>3, <2>1, <2>3 DEF Update, Updates, Decided, WillUpdate, GrantInv, CopyInv
      <4> QED BY <4>1, <4>2, <4>3
    <3> QED BY <1>2, <3>2, <3>3
  <2> QED BY <2>2, <2>3
<1> QED BY <1>4, <1>5 DEF GrantInv, CopyInv

LEMMA NextGrantInv == GrantInv /\ [Next]_vars => GrantInv'
<1> SUFFICES ASSUME GrantInv, [Next]_vars PROVE GrantInv'
  OBVIOUS
<1>1. CASE UNCHANGED vars
  BY <1>1 DEF vars, shared, own, history, GrantInv, ShapeInv, CopyInv, OfUsers, WillUpdate,
              Decided, Undisturbed
<1>2. ASSUME NEW u \in Users, Request(u) PROVE GrantInv'
  BY <1>2, CopylessSteps, CopySteps, AclSteps DEF Request
<1>3. ASSUME NEW u \in Users, Step(u) PROVE GrantInv'
  BY <1>3, CopylessSteps, CopySteps, EntrySteps DEF Step
<1> QED BY <1>1, <1>2, <1>3 DEF Next

\* Whatever requests overlap, in any number: as long as none of them has outdated a
\* copy on its way to the trie, and the ACL had room, the entry's ACL is what the
\* owner's acknowledged decisions add up to.
THEOREM GrantsPersist == Spec => []UndisturbedGrantsPersist
<1>1. GrantInv => UndisturbedGrantsPersist
  BY DEF GrantInv, CopyInv, UndisturbedGrantsPersist
<1> QED BY <1>1, InitGrantInv, NextGrantInv, PTL DEF Spec

-----------------------------------------------------------------------------
(***************************************************************************)
(* Types. An entry is copied and changed by one user at a time, and none of *)
(* the changes lets its ACL grow beyond the array.                          *)
(***************************************************************************)

\* The users an ACL has an entry for.
InAcl(acl) == {u \in Users : acl[u] # "none"}

\* The entries whose ACL fits in its array.
FitMeta == {m \in Meta : IsFiniteSet(InAcl(m.acl)) /\ Cardinality(InAcl(m.acl)) <= MaxAcl}

Messages == [target_user : Users, access : Access \ {"none"}]

\* Where a thread holds a copy of the entry.
HoldsCopy == {"create", "insert", "delete", "triedelete", "fill", "info", "move", "update", "cacheput"}

TypeInv ==
    /\ file_trie \in FitMeta \cup {NoMeta} /\ cache \in FitMeta \cup {NoMeta}
    /\ meta \in [Users -> FitMeta \cup {NoMeta}]
    /\ msg \in [Users -> [target_user : Users \cup {NoUser}, access : Access]]
    /\ stored \in [Servers -> SUBSET Places]
    /\ access_requests \in Seq(Messages) /\ Len(access_requests) <= MaxQueue
    /\ pc \in [Users -> Labels]
    /\ request_mutex \in Users \cup {NoUser} /\ ss_sock_mutex \in [Servers -> Users \cup {NoUser}]
    /\ \A u \in Users : request_mutex = u => pc[u] \in {"update", "cacheput"}
    /\ \A u \in Users, s \in Servers : ss_sock_mutex[s] = u => pc[u] \in {"update", "cacheput"}
    /\ \A u \in Users : pc[u] \in HoldsCopy => meta[u] # NoMeta
    /\ \A u \in Users : pc[u] = "ask" => msg[u] \in Messages
    /\ races \subseteq RaceKinds

\* One more access, or another, in an ACL that has room for it; or one less.
LEMMA AclStaysBounded ==
  ASSUME NEW acl \in [Users -> Access], NEW v \in Users, NEW a \in Access,
         IsFiniteSet(InAcl(acl)), Cardinality(InAcl(acl)) <= MaxAcl,
         a = "none" \/ FitsAcl(acl, v)
  PROVE  LET new == [acl EXCEPT ![v] = a] IN
         IsFiniteSet(InAcl(new)) /\ Cardinality(InAcl(new)) <= MaxAcl
<1> DEFINE new == [acl EXCEPT ![v] = a]
<1>1. Cardinality(InAcl(acl)) \in Nat /\ MaxAcl \in Nat
  BY FS_CardinalityType, BoundsAssumption
<1>2. CASE a = "none" \/ acl[v] # "none"
  <2>1. InAcl(new) \subseteq InAcl(acl)
    BY <1>2 DEF InAcl
  <2>2. /\ IsFiniteSet(InAcl(new)) /\ Cardinality(InAcl(new)) <= Cardinality(InAcl(acl))
        /\ Cardinality(InAcl(new)) \in Nat
    BY <2>1, FS_Subset, FS_CardinalityType
  <2> QED
    BY <1>1, <2>2
<1>3. CASE a # "none" /\ acl[v] = "none"
  <2>1. InAcl(new) = InAcl(acl) \cup {v} /\ v \notin InAcl(acl)
    BY <1>3 DEF InAcl
  <2>2. Cardinality(InAcl(acl)) < MaxAcl
    BY <1>3 DEF FitsAcl, InAcl
  <2>3. IsFiniteSet(InAcl(acl) \cup {v}) /\ Cardinality(InAcl(acl) \cup {v}) = Cardinality(InAcl(acl)) + 1
    BY <2>1, FS_AddElement
  <2>4. Cardinality(InAcl(acl) \cup {v}) <= MaxAcl
    BY <1>1, <2>2, <2>3
  <2> QED
    BY <2>1, <2>3, <2>4, Zenon
<1> QED
  BY <1>2, <1>3

LEMMA AclChangeFits ==
  ASSUME NEW m \in FitMeta, NEW v \in Users, NEW a \in Access
  PROVE  [m EXCEPT !.acl[v] = "none"] \in FitMeta /\ Grant(m, v, a) \in FitMeta
<1>1. m \in Meta /\ IsFiniteSet(InAcl(m.acl)) /\ Cardinality(InAcl(m.acl)) <= MaxAcl
  BY DEF FitMeta
<1>2. ASSUME NEW b \in Access, b = "none" \/ FitsAcl(m.acl, v) PROVE [m EXCEPT !.acl[v] = b] \in FitMeta
  <2> DEFINE new == [m.acl EXCEPT ![v] = b]
  <2>1. m.acl \in [Users -> Access]
    BY <1>1 DEF Meta
  <2>2. IsFiniteSet(InAcl(new)) /\ Cardinality(InAcl(new)) <= MaxAcl
    BY <1>1, <1>2, <2>1, AclStaysBounded
  <2>3. [m EXCEPT !.acl[v] = b] \in Meta /\ [m EXCEPT !.acl[v] = b].acl = new
    BY <1>1 DEF Meta
  <2> HIDE DEF new
  <2> QED
    BY <2>2, <2>3 DEF FitMeta
<1> QED
  BY <1>2 DEF Grant, Access

\* A new entry, and one whose file has been moved.
LEMMA NewAndMovedFit ==
  /\ \A u \in Users, s \in Servers : NewMeta(u, s) \in FitMeta
  /\ \A m \in FitMeta, place \in Places : [m EXCEPT !.folder_path = place] \in FitMeta
<1>1. ASSUME NEW u \in Users, NEW s \in Servers PROVE NewMeta(u, s) \in FitMeta
  <2>1. NewMeta(u, s) \in Meta /\ NewMeta(u, s).acl = NoAcl
    BY DEF NewMeta, NoAcl, Meta, Places, Access
  <2>2. InAcl(NoAcl) = {}
    BY DEF InAcl, NoAcl
  <2>3. IsFiniteSet({}) /\ Cardinality({}) <= MaxAcl
    BY FS_EmptySet, BoundsAssumption
  <2> QED
    BY <2>1, <2>2, <2>3 DEF FitMeta
<1>2. ASSUME NEW m \in FitMeta, NEW place \in Places
      PROVE  [m EXCEPT !.folder_path = place] \in FitMeta
  BY DEF FitMeta, Meta
<1> QED
  BY <1>1, <1>2

LEMMA RemoveAtFits ==
  ASSUME NEW S, NEW q \in Seq(S), NEW n \in DOMAIN q
  PROVE  RemoveAt(q, n) \in Seq(S) /\ Len(RemoveAt(q, n)) = Len(q) - 1
<1> DEFINE before == SubSeq(q, 1, n - 1)
           after == SubSeq(q, n + 1, Len(q))
<1>1. n \in 1 .. Len(q) /\ Len(q) \in Nat
  OBVIOUS
<1>2. before \in Seq(S) /\ Len(before) = n - 1
  BY <1>1, SubSeqProperties
<1>3. after \in Seq(S) /\ Len(after) = Len(q) - n
  BY <1>1, SubSeqProperties
<1>4. RemoveAt(q, n) = before \o after
  BY DEF RemoveAt
<1> HIDE DEF before, after
<1> QED
  BY <1>1, <1>2, <1>3, <1>4, ConcatProperties

\* Requests: what a thread does first.
LEMMA RequestTypes ==
  ASSUME TypeInv, NEW u \in Users, Request(u)
  PROVE  TypeInv'
<1> USE DEF TypeInv, Labels, HoldsCopy, Begin, Goto, shared, mutexes, history
<1>1. NoUser \notin Users
  BY NamesAssumption
<1>2. ASSUME NEW s \in Servers, CreateRequest(u, s) PROVE TypeInv'
  <2>1. NewMeta(u, s) \in FitMeta /\ NewMeta(u, s) # NoMeta
    BY NewAndMovedFit, NamesAssumption DEF FitMeta
  <2> QED
    BY <1>2, <2>1 DEF CreateRequest
<1>3. CASE DeleteRequest(u) \/ ViewRequest(u) \/ MoveRequest(u)
  BY <1>3 DEF DeleteRequest, ViewRequest, MoveRequest, check_access
<1>4. CASE InfoRequest(u) \/ \E required \in {"read", "write"} : ReadRequest(u, required)
  BY <1>4 DEF InfoRequest, ReadRequest
<1>5. ASSUME NEW a \in Access \ {"none"}, RequestAccess(u, a) PROVE TypeInv'
  BY <1>5 DEF RequestAccess, Messages
<1>6. ASSUME NEW v \in Users, NEW a \in Access, AccessRequest(u, v, a) PROVE TypeInv'
  <2>1. PICK m \in FitMeta : meta' = [meta EXCEPT ![u] = m]
    BY <1>6, AclChangeFits DEF AccessRequest
  <2>2. m # NoMeta
    BY NamesAssumption DEF FitMeta
  <2>3. races' \subseteq RaceKinds
    BY <1>6 DEF AccessRequest, Note, RaceKinds
  <2>4. msg' = [msg EXCEPT ![u] = [target_user |-> v, access |-> a]]
    BY <1>6 DEF AccessRequest
  <2>5. /\ pc[u] = "idle" /\ pc' = [pc EXCEPT ![u] = "update"]
        /\ UNCHANGED <<file_trie, cache, stored, access_requests, request_mutex, ss_sock_mutex>>
    BY <1>6 DEF AccessRequest
  <2> QED
    BY <2>1, <2>2, <2>3, <2>4, <2>5
<1>7. ASSUME NEW n \in 1 .. MaxQueue, ApproveRequest(u, n) PROVE TypeInv'
  <2>1. n \in DOMAIN access_requests /\ file_trie \in FitMeta
    BY <1>7 DEF ApproveRequest
  <2>2. access_requests[n] \in Messages
    BY <2>1
  <2>3. PICK m \in FitMeta : meta' = [meta EXCEPT ![u] = m]
    BY <1>7, <2>1, <2>2, AclChangeFits DEF ApproveRequest, Messages
  <2>4. m # NoMeta
    BY NamesAssumption DEF FitMeta
  <2>5. races' \subseteq RaceKinds
    BY <1>7 DEF ApproveRequest, Note, RaceKinds
  <2>6. access_requests' \in Seq(Messages) /\ Len(access_requests') <= MaxQueue
    BY <1>7, <2>1, RemoveAtFits, BoundsAssumption DEF ApproveRequest
  <2> QED
    BY <1>7, <2>2, <2>3, <2>4, <2>5, <2>6 DEF ApproveRequest, Messages
<1>8. ASSUME NEW n \in 1 .. MaxQueue, DenyRequest(u, n) PROVE TypeInv'
  <2>1. access_requests' \in Seq(Messages) /\ Len(access_requests') <= MaxQueue
    BY <1>8, RemoveAtFits, BoundsAssumption DEF DenyRequest
  <2> QED
    BY <1>8, <2>1 DEF DenyRequest, own
<1> QED
  BY <1>2, <1>3, <1>4, <1>5, <1>6, <1>7, <1>8 DEF Request

\* What a thread goes on to do.
LEMMA StepTypes ==
  ASSUME TypeInv, NEW u \in Users, Step(u)
  PROVE  TypeInv'
<1> USE DEF TypeInv, Labels, HoldsCopy, Goto, shared, mutexes, own, history
<1>1. NoUser \notin Users
  BY NamesAssumption
<1>2. ASSUME pc[u] \in HoldsCopy
      PROVE  meta[u] \in FitMeta /\ meta[u].ss_id \in Servers
  BY <1>2 DEF FitMeta, Meta
<1>3. CASE CreateAtSS(u)
  <2>1. races' \subseteq RaceKinds
    BY <1>3 DEF CreateAtSS, Note, RaceKinds
  <2>2. stored' \in [Servers -> SUBSET Places]
    BY <1>3 DEF CreateAtSS, Places
  <2> QED
    BY <1>3, <2>1, <2>2 DEF CreateAtSS
<1>4. CASE Insert(u) \/ TrieDelete(u) \/ Update(u)
  <2>1. races' \subseteq RaceKinds
    BY <1>4 DEF Insert, TrieDelete, Update, Note, Outdates, RaceKinds
  <2>2. file_trie' \in FitMeta \cup {NoMeta}
    BY <1>4 DEF Insert, TrieDelete, Update
  <2> QED
    BY <1>4, <2>1, <2>2 DEF Insert, TrieDelete, Update
<1>5. CASE DeleteAtSS(u)
  <2>1. stored' \in [Servers -> SUBSET Places]
    BY <1>5 DEF DeleteAtSS
  <2> QED
    BY <1>5, <2>1 DEF DeleteAtSS
<1>6. CASE CacheRemove(u)
  BY <1>6 DEF CacheRemove
<1>7. CASE AskForAccess(u)
  <2>1. access_requests' \in Seq(Messages) /\ Len(access_requests') <= MaxQueue
    BY <1>7, BoundsAssumption DEF AskForAccess
  <2> QED
    BY <1>7, <2>1 DEF AskForAccess
<1>8. CASE FindCached(u) \/ FindInTrie(u) \/ FillCache(u) \/ Reread(u)
  BY <1>8 DEF FindCached, FindInTrie, FillCache, Reread, AfterFind
<1>9. CASE ViewInfo(u)
  <2>1. meta[u].ss_id \in Servers
    BY <1>2, <1>9 DEF ViewInfo
  <2> QED
    BY <1>9, <2>1 DEF ViewInfo
<1>10. ASSUME NEW place \in Places, MoveAtSS(u, place) PROVE TypeInv'
  <2>1. stored' \in [Servers -> SUBSET Places]
    BY <1>10 DEF MoveAtSS
  <2>2. [meta[u] EXCEPT !.folder_path = place] \in FitMeta
    BY <1>2, <1>10, NewAndMovedFit DEF MoveAtSS
  <2>3. [meta[u] EXCEPT !.folder_path = place] # NoMeta
    BY <2>2, NamesAssumption DEF FitMeta
  <2> QED
    BY <1>10, <2>1, <2>2, <2>3, SMTT(30) DEF MoveAtSS
<1>11. CASE CachePut(u)
  BY <1>1, <1>11 DEF CachePut
<1> QED
  BY <1>3, <1>4, <1>5, <1>6, <1>7, <1>8, <1>9, <1>10, <1>11 DEF Step

LEMMA InitTypeInv == Init => TypeInv
  BY NamesAssumption, BoundsAssumption
  DEF Init, TypeInv, NoMessage, Labels, HoldsCopy, Messages, Access, Places

LEMMA NextTypeInv == TypeInv /\ [Next]_vars => TypeInv'
<1> SUFFICES ASSUME TypeInv, [Next]_vars PROVE TypeInv'
  OBVIOUS
<1>1. CASE UNCHANGED vars
  BY <1>1 DEF vars, shared, mutexes, own, history, TypeInv
<1> QED
  BY <1>1, RequestTypes, StepTypes DEF Next

\* Every variable holds a value of its kind, no copy of an entry has an ACL beyond its
\* array, and a mutex is held only by a thread on its way to release it.
THEOREM Types == Spec => []TypeOK
<1>2. TypeInv => TypeOK
  <2> SUFFICES ASSUME TypeInv PROVE TypeOK
    OBVIOUS
  <2>1. IsMeta(file_trie) /\ IsMeta(cache) /\ \A u \in Users : IsMeta(meta[u])
    BY DEF TypeInv, FitMeta, IsMeta, InAcl
  <2>2. \A n \in DOMAIN access_requests : access_requests[n] \in Messages
    BY DEF TypeInv
  <2> QED
    BY <2>1, <2>2, NamesAssumption DEF TypeInv, TypeOK, Messages
<1> QED
  BY <1>2, InitTypeInv, NextTypeInv, PTL DEF Spec

-----------------------------------------------------------------------------
(***************************************************************************)
(* A file and its entry. While no copy is outdated and no two creations     *)
(* meet, a copy on its way to the trie names the entry's server, and only   *)
(* the owner's thread takes the entry away. So what the servers store is    *)
(* what the entry and the unfinished creations, deletion and move make of   *)
(* it, and nothing is left of them when all threads are idle.               *)
(***************************************************************************)

\* A copy on its way to the trie agrees with the entry, but for what the thread itself
\* has changed.
CopiesAgree ==
    \A u \in Users : WillUpdate(u) =>
        /\ file_trie # NoMeta
        /\ meta[u].ss_id = file_trie.ss_id /\ meta[u].owner = file_trie.owner
        /\ pc[u] # "update" => meta[u].folder_path = file_trie.folder_path

\* Only the owner's thread deletes the entry.
OwnersDelete ==
    \A u \in Users : pc[u] \in {"delete", "triedelete"} =>
        file_trie # NoMeta /\ file_trie.owner = u /\ meta[u].ss_id = file_trie.ss_id

\* A file that a server has created and whose entry is yet to come is where no other file
\* of that name is.
CreatedApart ==
    /\ \A u \in Users : pc[u] \in {"create", "insert"} => meta[u].folder_path = "root"
    /\ \A u \in Users : pc[u] = "insert" =>
          /\ stored[meta[u].ss_id] = {"root"}
          /\ file_trie # NoMeta => file_trie.ss_id # meta[u].ss_id
          /\ \A v \in Users \ {u} : pc[v] = "insert" => meta[v].ss_id # meta[u].ss_id

\* A thread has moved the file at its server, and will write its place to the trie.
Moved(u) == pc[u] = "update" /\ meta[u].folder_path # file_trie.folder_path

\* The entry's file is where the entry says, or where it has just been moved to; it is gone
\* when the entry is about to be deleted.
EntryStored ==
    file_trie # NoMeta =>
        /\ \A u \in Users : pc[u] = "triedelete" => stored[file_trie.ss_id] = {}
        /\ (\A u \in Users : pc[u] # "triedelete") =>
              /\ \A u \in Users : Moved(u) => stored[file_trie.ss_id] = {meta[u].folder_path}
              /\ (\A u \in Users : ~Moved(u)) =>
                    stored[file_trie.ss_id] = {file_trie.folder_path}

NothingElseStored ==
    \A s \in Servers : stored[s] # {} =>
        \/ file_trie # NoMeta /\ file_trie.ss_id = s
        \/ \E u \in Users : pc[u] = "insert" /\ meta[u].ss_id = s

Files == CopiesAgree /\ OwnersDelete /\ CreatedApart /\ EntryStored /\ NothingElseStored

FilesInv == Undisturbed({"lost", "twice"}) => Files

\* A step that changes neither the entry nor what is stored: thread u goes on from a label
\* at which it owed nothing, and what it takes up agrees with the entry.
LEMMA FilesStay ==
  ASSUME Files, NEW u \in Users, UNCHANGED <<file_trie, stored>>,
         \A v \in Users \ {u} : pc'[v] = pc[v] /\ meta'[v] = meta[v],
         pc[u] \notin {"insert", "triedelete", "update"},
         pc'[u] \notin {"insert", "triedelete"},
         pc'[u] = "create" => meta'[u].folder_path = "root",
         pc'[u] \in {"move", "info", "update"} =>
             /\ file_trie # NoMeta
             /\ meta'[u].ss_id = file_trie.ss_id /\ meta'[u].owner = file_trie.owner
             /\ meta'[u].folder_path = file_trie.folder_path,
         pc'[u] = "delete" =>
             file_trie # NoMeta /\ file_trie.owner = u /\ meta'[u].ss_id = file_trie.ss_id
  PROVE  Files'
<1>1. CopiesAgree' /\ OwnersDelete'
  BY DEF Files, CopiesAgree, OwnersDelete, WillUpdate
<1>2. CreatedApart'
  BY DEF Files, CreatedApart
<1>3. \A v \in Users : Moved(v)' <=> Moved(v)
  BY DEF Moved
<1>4. \A v \in Users : (pc'[v] = "triedelete" <=> pc[v] = "triedelete") /\ (Moved(v) => v # u)
  BY DEF Moved
<1>5. EntryStored'
  BY <1>3, <1>4 DEF Files, EntryStored
<1>6. NothingElseStored'
  BY DEF Files, NothingElseStored
<1> QED
  BY <1>1, <1>2, <1>5, <1>6 DEF Files

\* What a change of an ACL leaves alone.
LEMMA AclOnly ==
  ASSUME NEW m \in FitMeta, NEW v \in Users, NEW a \in Access
  PROVE  \A c \in {[m EXCEPT !.acl[v] = "none"], Grant(m, v, a)} :
             c.ss_id = m.ss_id /\ c.owner = m.owner /\ c.folder_path = m.folder_path
<1>1. m \in Meta
  BY DEF FitMeta
<1>2. ASSUME NEW b
      PROVE  /\ [m EXCEPT !.acl[v] = b].ss_id = m.ss_id /\ [m EXCEPT !.acl[v] = b].owner = m.owner
             /\ [m EXCEPT !.acl[v] = b].folder_path = m.folder_path
  BY <1>1 DEF Meta
<1> QED
  BY <1>1, <1>2 DEF Grant

LEMMA RequestFiles ==
  ASSUME TypeInv, Files, NEW u \in Users, Request(u)
  PROVE  Files'
<1> USE DEF Begin, Goto, shared, mutexes, history
<1>0. pc = [v \in Users |-> pc[v]] /\ meta = [v \in Users |-> meta[v]] /\ pc[u] = "idle"
  BY DEF TypeInv, Request, CreateRequest, DeleteRequest, AccessRequest, RequestAccess, ApproveRequest,
     DenyRequest, ReadRequest, InfoRequest, ViewRequest, MoveRequest
<1>1. ASSUME NEW s \in Servers, CreateRequest(u, s) PROVE Files'
  BY <1>0, <1>1, FilesStay DEF CreateRequest, NewMeta
<1>2. CASE DeleteRequest(u)
  BY <1>0, <1>2, FilesStay DEF DeleteRequest
<1>3. CASE ViewRequest(u)
  BY <1>0, <1>3, FilesStay DEF ViewRequest
<1>4. CASE MoveRequest(u)
  BY <1>0, <1>4, FilesStay DEF MoveRequest, check_access
<1>5. CASE InfoRequest(u)
  BY <1>0, <1>5, FilesStay DEF InfoRequest
<1>6. ASSUME NEW required \in {"read", "write"}, ReadRequest(u, required) PROVE Files'
  BY <1>0, <1>6, FilesStay DEF ReadRequest
<1>7. ASSUME NEW a \in Access, RequestAccess(u, a) PROVE Files'
  BY <1>0, <1>7, FilesStay DEF RequestAccess
<1>8. ASSUME NEW v \in Users, NEW a \in Access, AccessRequest(u, v, a) PROVE Files'
  <2>1. file_trie # NoMeta /\ file_trie \in FitMeta
    BY <1>8 DEF AccessRequest, TypeInv
  <2>2. PICK m \in {[file_trie EXCEPT !.acl[v] = "none"], Grant(file_trie, v, a)} :
            meta' = [meta EXCEPT ![u] = m]
    BY <1>8 DEF AccessRequest
  <2>3. m.ss_id = file_trie.ss_id /\ m.owner = file_trie.owner /\ m.folder_path = file_trie.folder_path
    BY <2>1, AclOnly
  <2>4. pc' = [pc EXCEPT ![u] = "update"] /\ UNCHANGED <<file_trie, stored>>
    BY <1>8 DEF AccessRequest
  <2> QED
    BY <1>0, <2>1, <2>2, <2>3, <2>4, FilesStay
<1>9. ASSUME NEW n \in 1 .. MaxQueue, ApproveRequest(u, n) PROVE Files'
  <2> DEFINE r == access_requests[n]
             m == Grant(file_trie, r.target_user, r.access)
  <2>1. file_trie # NoMeta /\ file_trie \in FitMeta
    BY <1>9 DEF ApproveRequest, TypeInv
  <2>2. r.target_user \in Users /\ r.access \in Access
    <3>1. n \in DOMAIN access_requests /\ access_requests \in Seq(Messages)
      BY <1>9 DEF ApproveRequest, TypeInv
    <3>2. r \in Messages
      BY <3>1
    <3> QED
      BY <3>2 DEF Messages
  <2>3. m.ss_id = file_trie.ss_id /\ m.owner = file_trie.owner /\ m.folder_path = file_trie.folder_path
    BY <2>1, <2>2, AclOnly
  <2>4. pc' = [pc EXCEPT ![u] = "update"] /\ meta' = [meta EXCEPT ![u] = m] /\ UNCHANGED <<file_trie, stored>>
    BY <1>9 DEF ApproveRequest
  <2> HIDE DEF m
  <2> QED
    BY <1>0, <2>1, <2>3, <2>4, FilesStay
<1>10. ASSUME NEW n \in 1 .. MaxQueue, DenyRequest(u, n) PROVE Files'
  BY <1>0, <1>10, FilesStay DEF DenyRequest, own
<1> QED
  BY <1>1, <1>2, <1>3, <1>4, <1>5, <1>6, <1>7, <1>8, <1>9, <1>10 DEF Request

\* The steps that change nothing but the cache, a mutex or the thread's copy.
LEMMA QuietStepFiles ==
  ASSUME TypeInv, Files, NEW u \in Users,
         \/ CacheRemove(u) \/ AskForAccess(u) \/ FindCached(u) \/ FindInTrie(u) \/ FillCache(u)
         \/ Reread(u) \/ ViewInfo(u) \/ CachePut(u)
  PROVE  Files'
<1> USE DEF Goto, shared, mutexes, own, history
<1>0. pc = [v \in Users |-> pc[v]] /\ meta = [v \in Users |-> meta[v]]
  BY DEF TypeInv
<1>1. CASE CacheRemove(u) \/ AskForAccess(u) \/ CachePut(u)
  BY <1>0, <1>1, FilesStay DEF CacheRemove, AskForAccess, CachePut
<1>2. CASE FindCached(u) \/ FindInTrie(u) \/ FillCache(u)
  BY <1>0, <1>2, FilesStay DEF FindCached, FindInTrie, FillCache, AfterFind
<1>3. CASE Reread(u)
  BY <1>0, <1>3, FilesStay DEF Reread
<1>4. CASE ViewInfo(u)
  <2>1. /\ file_trie # NoMeta /\ meta[u].ss_id = file_trie.ss_id /\ meta[u].owner = file_trie.owner
        /\ meta[u].folder_path = file_trie.folder_path
    BY <1>4 DEF ViewInfo, Files, CopiesAgree, WillUpdate
  <2>2. /\ pc[u] = "info" /\ pc' \in {[pc EXCEPT ![u] = "update"], [pc EXCEPT ![u] = "idle"]}
        /\ UNCHANGED <<file_trie, stored, meta>>
    BY <1>4 DEF ViewInfo
  <2> QED
    BY <1>0, <2>1, <2>2, FilesStay
<1> QED
  BY <1>1, <1>2, <1>3, <1>4

LEMMA ServerStepFiles ==
  ASSUME TypeInv, Files, NEW u \in Users, (races \cap {"lost", "twice"})' = {},
         CreateAtSS(u) \/ DeleteAtSS(u) \/ \E place \in Places : MoveAtSS(u, place)
  PROVE  Files'
<1> DEFINE s == meta[u].ss_id
<1>0. pc = [v \in Users |-> pc[v]] /\ meta = [v \in Users |-> meta[v]] /\ stored \in [Servers -> SUBSET Places]
  BY DEF TypeInv
<1>1. UNCHANGED file_trie /\ s \in Servers /\ \A v \in Users : meta[v] # NoMeta => meta[v].ss_id \in Servers
  BY DEF CreateAtSS, DeleteAtSS, MoveAtSS, TypeInv, HoldsCopy, FitMeta, Meta
<1>2. CASE CreateAtSS(u) /\ "root" \notin stored[s]
  <2>1. /\ pc[u] = "create" /\ pc' = [pc EXCEPT ![u] = "insert"] /\ UNCHANGED meta
        /\ stored' = [stored EXCEPT ![s] = @ \cup {"root"}] /\ file_trie = NoMeta
    BY <1>2 DEF CreateAtSS, Goto, Note, own
  <2>2. \A v \in Users : pc[v] = "insert" => meta[v].ss_id # s
    BY <1>2 DEF Files, CreatedApart
  <2>3. stored[s] = {}
    BY <1>1, <2>1, <2>2 DEF Files, NothingElseStored
  <2>4. stored'[s] = {"root"} /\ \A t \in Servers \ {s} : stored'[t] = stored[t]
    BY <1>0, <1>1, <2>1, <2>3
  <2>5. pc'[u] = "insert" /\ \A v \in Users \ {u} : pc'[v] = pc[v]
    BY <1>0, <2>1
  <2>6. CopiesAgree' /\ OwnersDelete' /\ EntryStored'
    BY <1>1, <2>1, <2>5 DEF Files, CopiesAgree, OwnersDelete, EntryStored, WillUpdate
  <2>7. CreatedApart'
    <3>1. \A v \in Users : pc[v] = "insert" => meta[v].ss_id \in Servers
      BY <1>1 DEF TypeInv, HoldsCopy
    <3> QED
      BY <1>1, <2>1, <2>2, <2>4, <2>5, <3>1 DEF Files, CreatedApart
  <2>8. NothingElseStored'
    BY <1>1, <2>1, <2>4, <2>5 DEF Files, NothingElseStored
  <2> QED
    BY <2>6, <2>7, <2>8 DEF Files
<1>3. CASE DeleteAtSS(u) /\ stored' # stored
  <2>1. /\ pc[u] = "delete" /\ pc' = [pc EXCEPT ![u] = "triedelete"] /\ UNCHANGED meta
        /\ stored' = [stored EXCEPT ![s] = @ \ {"root"}] /\ "root" \in stored[s]
    BY <1>3 DEF DeleteAtSS, Goto, own
  <2>2. file_trie # NoMeta /\ file_trie.owner = u /\ s = file_trie.ss_id
    BY <2>1 DEF Files, OwnersDelete
  <2>3. \A v \in Users : pc[v] # "triedelete"
    BY <2>1, <2>2 DEF Files, OwnersDelete
  <2>4. stored[s] = {"root"}
    BY <2>1, <2>2, <2>3 DEF Files, EntryStored
  <2>5. stored'[s] = {} /\ \A t \in Servers \ {s} : stored'[t] = stored[t]
    BY <1>0, <1>1, <2>1, <2>4
  <2>6. pc'[u] = "triedelete" /\ \A v \in Users \ {u} : pc'[v] = pc[v]
    BY <1>0, <2>1
  <2>7. CopiesAgree' /\ OwnersDelete' /\ EntryStored'
    BY <1>1, <2>1, <2>2, <2>5, <2>6 DEF Files, CopiesAgree, OwnersDelete, EntryStored, WillUpdate
  <2>8. CreatedApart'
    BY <1>1, <2>1, <2>2, <2>5, <2>6 DEF Files, CreatedApart, TypeInv, HoldsCopy
  <2>9. NothingElseStored'
    BY <1>1, <2>1, <2>2, <2>5, <2>6 DEF Files, NothingElseStored
  <2> QED
    BY <2>7, <2>8, <2>9 DEF Files
<1>4. CASE stored' # stored /\ \E place \in Places : MoveAtSS(u, place)
  <2> DEFINE old == meta[u].folder_path
  <2>1. PICK place \in Places :
            /\ pc[u] = "move" /\ pc' = [pc EXCEPT ![u] = "update"] /\ old \in stored[s]
            /\ stored' = [stored EXCEPT ![s] = (@ \ {old}) \cup {place}]
            /\ meta' = [meta EXCEPT ![u].folder_path = place]
    BY <1>4 DEF MoveAtSS, Goto
  <2>2. /\ file_trie # NoMeta /\ s = file_trie.ss_id /\ meta[u].owner = file_trie.owner
        /\ old = file_trie.folder_path
    BY <2>1 DEF Files, CopiesAgree, WillUpdate
  <2>3. \A v \in Users : pc[v] # "triedelete" /\ ~Moved(v)
    BY <2>1, <2>2 DEF Files, EntryStored, Moved
  <2>4. stored[s] = {old}
    BY <2>2, <2>3 DEF Files, EntryStored
  <2>5. stored'[s] = {place} /\ \A t \in Servers \ {s} : stored'[t] = stored[t]
    BY <1>0, <1>1, <2>1, <2>4
  <2>6. /\ pc'[u] = "update" /\ \A v \in Users \ {u} : pc'[v] = pc[v] /\ meta'[v] = meta[v]
        /\ meta'[u] = [meta[u] EXCEPT !.folder_path = place]
    BY <1>0, <2>1
  <2>7. meta'[u].ss_id = s /\ meta'[u].owner = file_trie.owner /\ meta'[u].folder_path = place
    <3>1. meta[u] \in Meta
      BY <2>1 DEF TypeInv, HoldsCopy, FitMeta
    <3> QED
      BY <2>2, <2>6, <3>1 DEF Meta
  <2>8. CopiesAgree' /\ OwnersDelete'
    <3>1. ASSUME NEW v \in Users, WillUpdate(v)'
          PROVE  /\ file_trie' # NoMeta
                 /\ meta'[v].ss_id = file_trie'.ss_id /\ meta'[v].owner = file_trie'.owner
                 /\ pc'[v] # "update" => meta'[v].folder_path = file_trie'.folder_path
      <4>1. CASE v = u
        BY <1>1, <2>2, <2>6, <2>7, <4>1
      <4>2. CASE v # u
        BY <1>1, <2>6, <3>1, <4>2 DEF Files, CopiesAgree, WillUpdate
      <4> QED
        BY <4>1, <4>2
    <3>2. OwnersDelete'
      BY <1>1, <2>6 DEF Files, OwnersDelete
    <3> QED
      BY <3>1, <3>2 DEF CopiesAgree
  <2>9. CreatedApart'
    <3>1. \A v \in Users : pc'[v] \in {"create", "insert"} => v # u /\ pc[v] = pc'[v] /\ meta'[v] = meta[v]
      BY <2>6
    <3>2. \A v \in Users : pc[v] = "insert" => meta[v].ss_id \in Servers \ {s}
      BY <1>1, <2>2 DEF Files, CreatedApart, TypeInv, HoldsCopy
    <3> QED
      BY <1>1, <2>5, <3>1, <3>2 DEF Files, CreatedApart
  <2>10. EntryStored'
    <3>1. \A v \in Users : pc'[v] # "triedelete" /\ (v # u => ~Moved(v)')
      BY <1>1, <2>3, <2>6 DEF Moved
    <3> QED
      BY <1>1, <2>2, <2>5, <2>6, <2>7, <3>1 DEF EntryStored, Moved
  <2>11. NothingElseStored'
    BY <1>1, <2>1, <2>2, <2>5, <2>6 DEF Files, NothingElseStored
  <2> QED
    BY <2>8, <2>9, <2>10, <2>11 DEF Files
<1>5. CASE stored' = stored /\ ~(CreateAtSS(u) /\ "root" \notin stored[s])
  <2>1. CASE CreateAtSS(u)
    BY <1>0, <1>5, <2>1, FilesStay DEF CreateAtSS, Goto, own
  <2>2. CASE DeleteAtSS(u)
    <3>1. pc[u] = "delete" /\ pc' = [pc EXCEPT ![u] = "idle"] /\ UNCHANGED meta
      BY <1>0, <1>1, <1>5, <2>2 DEF DeleteAtSS, Goto, own
    <3> QED
      BY <1>0, <1>1, <1>5, <3>1, FilesStay
  <2>3. ASSUME NEW place \in Places, MoveAtSS(u, place) PROVE Files'
    <3>1. /\ file_trie # NoMeta /\ s = file_trie.ss_id /\ meta[u].owner = file_trie.owner
          /\ meta[u].folder_path = file_trie.folder_path
      BY <2>3 DEF MoveAtSS, Files, CopiesAgree, WillUpdate
    <3>2. pc[u] = "move" /\ pc' \in {[pc EXCEPT ![u] = "update"], [pc EXCEPT ![u] = "idle"]}
      BY <2>3 DEF MoveAtSS, Goto
    <3>3. /\ meta'[u].ss_id = s /\ meta'[u].owner = file_trie.owner
          /\ meta'[u].folder_path = file_trie.folder_path
          /\ \A v \in Users \ {u} : meta'[v] = meta[v]
      <4>1. CASE meta' = meta
        BY <3>1, <4>1
      <4>2. CASE meta' # meta
        <5>1. /\ stored' = [stored EXCEPT ![s] = (@ \ {meta[u].folder_path}) \cup {place}]
              /\ meta' = [meta EXCEPT ![u].folder_path = place] /\ meta[u].folder_path \in stored[s]
          BY <2>3, <4>2 DEF MoveAtSS
        <5>2. meta[u] \in Meta
          BY <3>2 DEF TypeInv, HoldsCopy, FitMeta
        <5>3. \A v \in Users : pc[v] # "triedelete" /\ ~Moved(v)
          BY <3>1, <5>1 DEF Files, EntryStored, Moved
        <5>4. stored[s] = {meta[u].folder_path}
          BY <3>1, <5>3 DEF Files, EntryStored
        <5>5. place = meta[u].folder_path
          BY <1>0, <1>1, <1>5, <5>1, <5>4
        <5> QED
          BY <1>0, <3>1, <5>1, <5>2, <5>5 DEF Meta
      <4> QED
        BY <4>1, <4>2
    <3> QED
      BY <1>0, <1>1, <1>5, <3>1, <3>2, <3>3, FilesStay
  <2> QED
    BY <2>1, <2>2, <2>3
<1> QED
  BY <1>2, <1>3, <1>4, <1>5 DEF CreateAtSS

\* The steps that change the entry. A copy that would be outdated has been noted.
LEMMA EntryStepFiles ==
  ASSUME TypeInv, Files, NEW u \in Users, (races \cap {"lost", "twice"})' = {},
         Insert(u) \/ TrieDelete(u) \/ Update(u)
  PROVE  Files'
<1> DEFINE s == meta[u].ss_id
<1>1. pc = [v \in Users |-> pc[v]] /\ UNCHANGED <<stored, meta>> /\ meta[u] # NoMeta
  BY DEF Insert, TrieDelete, Update, own, TypeInv, HoldsCopy
\* Thread v is left with nothing to write to an entry that has changed.
<1>2. ASSUME NEW v \in Users \ {u}, file_trie' # file_trie, file_trie' # NoMeta \/ file_trie # NoMeta
      PROVE  ~WillUpdate(v)
  <2>1. CASE Insert(u)
    BY <1>2, <2>1 DEF Insert, Note, Outdates
  <2>2. CASE TrieDelete(u)
    BY <1>2, <2>2 DEF TrieDelete, Note, Outdates
  <2>3. CASE Update(u)
    BY <1>2, <2>3 DEF Update, Note, Outdates
  <2> QED
    BY <2>1, <2>2, <2>3
<1>3. CASE Insert(u)
  <2>1. /\ pc[u] = "insert" /\ pc' = [pc EXCEPT ![u] = "cacheput"] /\ file_trie' = meta[u]
        /\ file_trie = NoMeta
    BY <1>3 DEF Insert, Goto, Note
  <2>2. pc'[u] = "cacheput" /\ \A v \in Users \ {u} : pc'[v] = pc[v] /\ ~WillUpdate(v)
    BY <1>1, <1>2, <2>1
  <2>3. \A v \in Users : pc'[v] \notin {"move", "info", "update", "delete", "triedelete"}
    BY <2>1, <2>2 DEF WillUpdate, Files, OwnersDelete
  <2>4. CopiesAgree' /\ OwnersDelete'
    BY <2>3 DEF CopiesAgree, OwnersDelete, WillUpdate
  <2>5. CreatedApart'
    BY <1>1, <2>1, <2>2 DEF Files, CreatedApart
  <2>6. EntryStored'
    BY <1>1, <2>1, <2>3 DEF Files, CreatedApart, EntryStored, Moved
  <2>7. NothingElseStored'
    BY <1>1, <2>1, <2>2 DEF Files, NothingElseStored
  <2> QED
    BY <2>4, <2>5, <2>6, <2>7 DEF Files
<1>4. CASE TrieDelete(u)
  <2>1. pc[u] = "triedelete" /\ pc' = [pc EXCEPT ![u] = "cacheremove"] /\ file_trie' = NoMeta
    BY <1>4 DEF TrieDelete, Goto
  <2>2. file_trie # NoMeta /\ file_trie.owner = u /\ stored[file_trie.ss_id] = {}
    BY <2>1 DEF Files, OwnersDelete, EntryStored
  <2>3. pc'[u] = "cacheremove" /\ \A v \in Users \ {u} : pc'[v] = pc[v] /\ ~WillUpdate(v)
    BY <1>1, <1>2, <2>1, <2>2
  <2>4. \A v \in Users : pc'[v] \notin {"move", "info", "update", "delete", "triedelete"}
    BY <2>2, <2>3 DEF WillUpdate, Files, OwnersDelete
  <2>5. CopiesAgree' /\ OwnersDelete' /\ EntryStored'
    BY <2>1, <2>4 DEF CopiesAgree, OwnersDelete, EntryStored, WillUpdate
  <2>6. CreatedApart'
    BY <1>1, <2>1, <2>3 DEF Files, CreatedApart
  <2>7. NothingElseStored'
    BY <1>1, <2>1, <2>2, <2>3 DEF Files, NothingElseStored
  <2> QED
    BY <2>5, <2>6, <2>7 DEF Files
<1>5. CASE Update(u)
  <2>1. /\ pc[u] = "update" /\ pc' = [pc EXCEPT ![u] = "cacheput"]
        /\ file_trie # NoMeta /\ s = file_trie.ss_id /\ meta[u].owner = file_trie.owner
        /\ file_trie' = meta[u]
    BY <1>5 DEF Update, Updates, Goto, Files, CopiesAgree, WillUpdate
  <2>2. pc'[u] = "cacheput" /\ \A v \in Users \ {u} : pc'[v] = pc[v]
    BY <1>1, <2>1
  <2>3. file_trie' # NoMeta /\ file_trie'.ss_id = file_trie.ss_id /\ file_trie'.owner = file_trie.owner
    BY <1>1, <2>1
  <2>4. CopiesAgree' /\ OwnersDelete'
    <3>1. ASSUME NEW v \in Users, WillUpdate(v)' PROVE v # u /\ WillUpdate(v) /\ file_trie' = file_trie
      BY <1>2, <2>1, <2>2, <3>1 DEF WillUpdate
    <3>2. CopiesAgree'
      BY <1>1, <2>2, <3>1 DEF Files, CopiesAgree, WillUpdate
    <3> QED
      BY <1>1, <2>2, <2>3, <3>2 DEF Files, OwnersDelete
  <2>5. CreatedApart'
    BY <1>1, <2>1, <2>2, <2>3 DEF Files, CreatedApart
  <2>6. NothingElseStored'
    BY <1>1, <2>1, <2>2, <2>3 DEF Files, NothingElseStored
  <2>7. EntryStored'
    <3>1. \A v \in Users : pc'[v] = "triedelete" <=> pc[v] = "triedelete"
      BY <2>1, <2>2
    <3>2. CASE file_trie' = file_trie
      <4>1. ~Moved(u) /\ \A v \in Users : Moved(v)' <=> Moved(v)
        BY <1>1, <2>1, <2>2, <3>2 DEF Moved
      <4> QED
        BY <1>1, <3>1, <3>2, <4>1 DEF Files, EntryStored
    <3>3. CASE file_trie' # file_trie
      <4>1. \A v \in Users : v # u => ~Moved(v) /\ ~Moved(v)'
        BY <1>2, <2>1, <2>2, <3>3 DEF Moved, WillUpdate
      <4>2. ~Moved(u)'
        BY <2>2 DEF Moved
      <4>3. (\A v \in Users : pc[v] # "triedelete") => stored[file_trie.ss_id] = {meta[u].folder_path}
        BY <2>1, <4>1 DEF Files, EntryStored, Moved
      <4> QED
        BY <1>1, <2>1, <2>3, <3>1, <4>1, <4>2, <4>3 DEF Files, EntryStored
    <3> QED
      BY <3>2, <3>3
  <2> QED
    BY <2>4, <2>5, <2>6, <2>7 DEF Files
<1> QED
  BY <1>3, <1>4, <1>5

LEMMA NextFilesInv == TypeInv /\ FilesInv /\ [Next]_vars => FilesInv'
<1> SUFFICES ASSUME TypeInv, FilesInv, [Next]_vars, (races \cap {"lost", "twice"})' = {}
             PROVE  Files'
  BY DEF FilesInv, Undisturbed
<1>1. races \subseteq races'
  BY DEF Next, Request, Step, CreateRequest, DeleteRequest, AccessRequest, RequestAccess,
     ApproveRequest, DenyRequest, ReadRequest, InfoRequest, ViewRequest, MoveRequest, CreateAtSS,
     Insert, DeleteAtSS, TrieDelete, CacheRemove, AskForAccess, FindCached, FindInTrie, FillCache,
     Reread, ViewInfo, MoveAtSS, Update, CachePut, Note, history, vars
<1>2. Files
  BY <1>1 DEF FilesInv, Undisturbed
<1>3. CASE UNCHANGED vars
  BY <1>2, <1>3 DEF vars, shared, own, Files, CopiesAgree, OwnersDelete, CreatedApart, EntryStored,
     NothingElseStored, Moved, WillUpdate
<1> QED
  BY <1>2, <1>3, RequestFiles, QuietStepFiles, ServerStepFiles, EntryStepFiles DEF Next, Step

\* When no request is being served, a file has an entry exactly if a server stores
\* it, and is where the entry says: no creation, deletion or move, failed or refused ones
\* included, leaves a file nobody can name, or a name without a file, as long as no
\* outdated copy of the entry has been written back (lost) and no two creations have
\* overlapped (twice: on two servers, they leave one of the files without an entry).
THEOREM EntriesHaveFiles == Spec => []UndisturbedEntryHasFile
<1>1. Init => TypeInv /\ FilesInv
  BY InitTypeInv DEF Init, FilesInv, Files, CopiesAgree, OwnersDelete, CreatedApart, EntryStored,
     NothingElseStored, WillUpdate
<1>2. ASSUME TypeInv, FilesInv PROVE UndisturbedEntryHasFile
  <2> SUFFICES ASSUME Quiet, Files
               PROVE  stored = [s \in Servers |-> IF file_trie # NoMeta /\ file_trie.ss_id = s
                                                  THEN {file_trie.folder_path} ELSE {}]
    BY <1>2 DEF FilesInv, UndisturbedEntryHasFile
  <2>1. file_trie # NoMeta => stored[file_trie.ss_id] = {file_trie.folder_path}
    BY DEF Quiet, Files, EntryStored, Moved
  <2>2. \A s \in Servers : stored[s] # {} => file_trie # NoMeta /\ file_trie.ss_id = s
    BY DEF Quiet, Files, NothingElseStored
  <2>3. stored = [s \in Servers |-> stored[s]]
    BY <1>2 DEF TypeInv
  <2> QED
    BY <2>1, <2>2, <2>3
<1> QED
  BY <1>1, <1>2, NextTypeInv, NextFilesInv, PTL DEF Spec

-----------------------------------------------------------------------------
(***************************************************************************)
(* Where requests are sent. A copy on its way to the cache names the        *)
(* entry's server, and so does what is in the cache; after a deletion the   *)
(* deleting thread has still to empty it.                                   *)
(***************************************************************************)

Routing ==
    /\ \A u \in Users : WillCache(u) => file_trie # NoMeta /\ meta[u].ss_id = file_trie.ss_id
    /\ cache # NoMeta => IF file_trie # NoMeta THEN cache.ss_id = file_trie.ss_id
                         ELSE \E u \in Users : pc[u] = "cacheremove"

RoutingInv == Undisturbed({"lost", "cached", "twice", "recreated"}) => Routing

\* A step that changes neither the entry nor the cache.
LEMMA RoutingStays ==
  ASSUME Routing, NEW u \in Users, UNCHANGED <<file_trie, cache>>,
         \A v \in Users \ {u} : pc'[v] = pc[v] /\ meta'[v] = meta[v],
         pc[u] # "cacheremove",
         pc'[u] \in {"fill", "cacheput"} => file_trie # NoMeta /\ meta'[u].ss_id = file_trie.ss_id
  PROVE  Routing'
  BY DEF Routing, WillCache

LEMMA NextRoutingInv == TypeInv /\ FilesInv /\ RoutingInv /\ [Next]_vars => RoutingInv'
<1> SUFFICES ASSUME TypeInv, FilesInv, RoutingInv, [Next]_vars,
                    (races \cap {"lost", "cached", "twice", "recreated"})' = {}
             PROVE  Routing'
  BY DEF RoutingInv, Undisturbed
<1>1. races \subseteq races'
  BY DEF Next, Request, Step, CreateRequest, DeleteRequest, AccessRequest, RequestAccess,
     ApproveRequest, DenyRequest, ReadRequest, InfoRequest, ViewRequest, MoveRequest, CreateAtSS,
     Insert, DeleteAtSS, TrieDelete, CacheRemove, AskForAccess, FindCached, FindInTrie, FillCache,
     Reread, ViewInfo, MoveAtSS, Update, CachePut, Note, history, vars
<1>2. Files /\ Routing
  BY <1>1 DEF FilesInv, RoutingInv, Undisturbed
<1>3. pc = [v \in Users |-> pc[v]] /\ meta = [v \in Users |-> meta[v]]
  BY DEF TypeInv
<1>4. CASE UNCHANGED vars
  BY <1>2, <1>4 DEF vars, shared, own, Routing, WillCache
<1>5. ASSUME NEW u \in Users, Request(u) PROVE Routing'
  <2>1. /\ UNCHANGED <<file_trie, cache>> /\ pc[u] = "idle"
        /\ \/ pc' = pc
           \/ \E label \in {"create", "delete", "update", "ask", "find", "info", "move"} :
                 pc' = [pc EXCEPT ![u] = label]
    BY <1>5 DEF Request, CreateRequest, DeleteRequest, AccessRequest, RequestAccess,
       ApproveRequest, DenyRequest, ReadRequest, InfoRequest, ViewRequest, MoveRequest, Begin, Goto, shared
  <2>2. \A v \in Users \ {u} : meta'[v] = meta[v]
    BY <1>3, <1>5 DEF Request, CreateRequest, DeleteRequest, AccessRequest, RequestAccess,
       ApproveRequest, DenyRequest, ReadRequest, InfoRequest, ViewRequest, MoveRequest, own
  <2> QED
    BY <1>2, <1>3, <2>1, <2>2, RoutingStays
<1>6. ASSUME NEW u \in Users,
             \/ CreateAtSS(u) \/ DeleteAtSS(u) \/ AskForAccess(u) \/ FindCached(u) \/ FindInTrie(u)
             \/ Reread(u) \/ ViewInfo(u) \/ \E place \in Places : MoveAtSS(u, place)
      PROVE  Routing'
  <2>1. /\ UNCHANGED <<file_trie, cache>> /\ pc[u] # "cacheremove"
        /\ \/ \E label \in {"idle", "insert", "triedelete", "reread", "search", "update"} :
                 pc' = [pc EXCEPT ![u] = label]
           \/ pc' = [pc EXCEPT ![u] = "fill"] /\ file_trie # NoMeta /\ meta' = [meta EXCEPT ![u] = file_trie]
    BY <1>6 DEF CreateAtSS, DeleteAtSS, AskForAccess, FindCached, FindInTrie, Reread, ViewInfo, MoveAtSS,
       AfterFind, Goto, shared
  <2>2. \A v \in Users \ {u} : meta'[v] = meta[v]
    BY <1>3, <1>6 DEF CreateAtSS, DeleteAtSS, AskForAccess, FindCached, FindInTrie, Reread, ViewInfo,
       MoveAtSS, own
  <2> QED
    BY <1>2, <1>3, <2>1, <2>2, RoutingStays
<1>7. ASSUME NEW u \in Users, Insert(u) PROVE Routing'
  <2>1. /\ pc' = [pc EXCEPT ![u] = "cacheput"] /\ file_trie' = meta[u] /\ UNCHANGED <<cache, meta>>
        /\ file_trie = NoMeta /\ \A v \in Users : pc[v] # "cacheremove"
        /\ pc[u] = "insert"
    BY <1>7 DEF Insert, Goto, Note, own
  <2>2. meta[u] # NoMeta
    BY <2>1 DEF TypeInv, HoldsCopy
  <2> QED
    BY <1>2, <1>3, <2>1, <2>2 DEF Routing, WillCache
<1>8. ASSUME NEW u \in Users, TrieDelete(u) PROVE Routing'
  <2>1. /\ pc' = [pc EXCEPT ![u] = "cacheremove"] /\ file_trie' = NoMeta /\ pc[u] = "triedelete"
        /\ NoMeta # file_trie => \A v \in Users \ {u} : ~WillCache(v)
    BY <1>8 DEF TrieDelete, Goto, Note, Outdates
  <2>2. file_trie # NoMeta
    BY <1>2, <2>1 DEF Files, OwnersDelete
  <2> QED
    BY <1>2, <1>3, <2>1, <2>2 DEF Routing, WillCache
<1>9. ASSUME NEW u \in Users, Update(u) PROVE Routing'
  <2>1. /\ pc' = [pc EXCEPT ![u] = "cacheput"] /\ pc[u] = "update" /\ UNCHANGED <<cache, meta>>
        /\ file_trie # NoMeta /\ file_trie' = meta[u]
    BY <1>9 DEF Update, Updates, Goto, Note, own
  <2>2. meta[u].ss_id = file_trie.ss_id /\ meta[u] # NoMeta
    BY <1>2, <2>1 DEF Files, CopiesAgree, WillUpdate, TypeInv, HoldsCopy
  <2> QED
    BY <1>2, <1>3, <2>1, <2>2 DEF Routing, WillCache
<1>10. ASSUME NEW u \in Users, CacheRemove(u) PROVE Routing'
  BY <1>2, <1>3, <1>10 DEF CacheRemove, Goto, own, Routing, WillCache
<1>11. ASSUME NEW u \in Users, FillCache(u) \/ CachePut(u) PROVE Routing'
  <2>1. /\ pc[u] \in {"fill", "cacheput"} /\ UNCHANGED <<file_trie, meta>> /\ cache' = meta[u]
        /\ \E label \in {"reread", "idle"} : pc' = [pc EXCEPT ![u] = label]
    BY <1>11 DEF FillCache, CachePut, AfterFind, Goto, own
  <2> QED
    BY <1>2, <1>3, <2>1 DEF Routing, WillCache
<1> QED
  BY <1>4, <1>5, <1>6, <1>7, <1>8, <1>9, <1>10, <1>11 DEF Next, Step

\* A request that finds the entry in the cache is sent to the server the trie names,
\* also while the file is being deleted and created elsewhere, as long as it is
\* not before the deleted entry has left the cache, no creation overlapped
\* another, and no outdated copy has been written back, to the trie or the cache.
THEOREM RequestsReachTheServer == Spec => UndisturbedRouting
<1> DEFINE Routed == \A u \in Users :
              pc[u] = "find" /\ pc'[u] \in {"reread", "idle"}
              /\ file_trie # NoMeta /\ Undisturbed({"lost", "cached", "twice", "recreated"}) =>
                  cache.ss_id = file_trie.ss_id
<1>1. Init => TypeInv /\ FilesInv /\ RoutingInv
  BY InitTypeInv DEF Init, RoutingInv, Routing, WillCache, FilesInv, Files, CopiesAgree, OwnersDelete,
     CreatedApart, EntryStored, NothingElseStored, WillUpdate
<1>2. ASSUME TypeInv, RoutingInv, [Next]_vars PROVE Routed
  <2> SUFFICES ASSUME NEW u \in Users, pc[u] = "find", pc'[u] \in {"reread", "idle"},
                      file_trie # NoMeta, Routing
               PROVE  cache.ss_id = file_trie.ss_id
    BY <1>2 DEF RoutingInv
  <2>1. cache # NoMeta
    <3>1. pc \in [Users -> Labels] /\ pc'[u] # pc[u]
      BY <1>2 DEF TypeInv
    <3>2. Next
      BY <1>2, <3>1 DEF vars
    <3>3. PICK v \in Users : Request(v) \/ Step(v)
      BY <3>2 DEF Next
    <3>4. v = u
      BY <3>1, <3>3 DEF Request, Step, CreateRequest, DeleteRequest, AccessRequest, RequestAccess,
         ApproveRequest, DenyRequest, ReadRequest, InfoRequest, ViewRequest, MoveRequest, CreateAtSS,
         Insert, DeleteAtSS, TrieDelete, CacheRemove, AskForAccess, FindCached, FindInTrie, FillCache,
         Reread, ViewInfo, MoveAtSS, Update, CachePut, Begin, Goto
    <3>5. FindCached(u)
      BY <3>3, <3>4 DEF Request, Step, CreateRequest, DeleteRequest, AccessRequest, RequestAccess,
         ApproveRequest, DenyRequest, ReadRequest, InfoRequest, ViewRequest, MoveRequest, CreateAtSS,
         Insert, DeleteAtSS, TrieDelete, CacheRemove, AskForAccess, FindCached, FindInTrie, FillCache,
         Reread, ViewInfo, MoveAtSS, Update, CachePut, Begin
    <3> QED
      BY <3>1, <3>5 DEF FindCached, Goto
  <2> QED
    BY <2>1 DEF Routing
<1> QED
  BY <1>1, <1>2, NextTypeInv, NextFilesInv, NextRoutingInv, PTL DEF Spec, UndisturbedRouting
=============================================================================
