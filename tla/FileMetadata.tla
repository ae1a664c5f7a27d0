---------------------------- MODULE FileMetadata ----------------------------
(***************************************************************************)
(* What the name server knows of one file name: its entry in the file trie, *)
(* the copy of it in the metadata cache, the requests for access to it, and *)
(* which storage servers hold such a file, at their root or in a folder.    *)
(*                                                                          *)
(* Every connected user has a thread, which serves one request at a time    *)
(* (nm.c: handle_client_connection). The trie and the cache each have a     *)
(* lock of their own, so a step is one operation on one of them, or one     *)
(* exchange with a storage server. A handler works on a private copy of     *)
(* the entry in between, and writes all of it back: of its fields, the      *)
(* times and sizes, which nothing depends on, are left out.                 *)
(***************************************************************************)
EXTENDS Naturals, Sequences, FiniteSets, SequencesExt

CONSTANTS
    Users,
    Servers,        \* the registered storage servers, all of them active
    NoMeta,         \* no entry
    NoUser,         \* the holder of a mutex that is free
    Requests,       \* the kinds of request in use
    MaxAcl,         \* MAX_ACL_ENTRIES
    MaxQueue,       \* MAX_FILES * 10, the size of access_requests
    MaxRequests     \* bound: requests that may change the entry

VARIABLES
    file_trie,      \* the file's entry in the trie
    cache,          \* its entry in the cache
    stored,         \* where each server holds a file of that name
    access_requests,
    request_mutex,
    ss_sock_mutex,  \* of each server: who exchanges messages with it
    pc,             \* what each thread does next
    type,           \* the type of its request
    msg,            \* its target_user and access
    meta,           \* its copy of the entry
    budget,         \* the requests still to come: budget of the model
    \* History, read by no guard
    granted,        \* the access each user was granted by the latest change to it
    races           \* the kinds of interference that have happened

shared  == <<file_trie, cache, stored, access_requests>>
mutexes == <<request_mutex, ss_sock_mutex>>
own     == <<type, msg, meta>>
history == <<granted, races>>
vars    == <<shared, mutexes, pc, own, budget, history>>

Places == {"root", "folder"}

\* What a user may have: no entry in the ACL, ACCESS_READ, ACCESS_READWRITE.
Access == {"none", "read", "readwrite"}

NoAcl == [u \in Users |-> "none"]

Meta == [owner : Users, ss_id : Servers, folder_path : Places, acl : [Users -> Access]]

ASSUME NamesAssumption == NoUser \notin Users /\ NoMeta \notin Meta
ASSUME BoundsAssumption == MaxAcl \in Nat /\ MaxQueue \in Nat

-----------------------------------------------------------------------------
(* Access *)

\* check_access of user u on the entry m; an access of ACCESS_READWRITE is asked
\* for by REQUESTACCESS alone, and satisfied by ownership alone.
check_access(m, u, required) ==
    /\ m # NoMeta
    /\ \/ m.owner = u
       \/ required = "read" /\ m.acl[u] \in {"read", "readwrite"}
       \/ required = "write" /\ m.acl[u] = "readwrite"

\* MUTANT: the ACL is not taken to be bounded.
FitsAclAlways(acl, u) == TRUE

\* The ACL has an entry for the user, or room for one.
FitsAcl(acl, u) ==
    acl[u] # "none" \/ Cardinality({v \in Users : acl[v] # "none"}) < MaxAcl

\* MUTANT: a user who has an entry keeps it as it is.
GrantOnce(m, u, a) ==
    IF m.acl[u] = "none" /\ FitsAcl(m.acl, u) THEN [m EXCEPT !.acl[u] = a] ELSE m

\* Entry m with access a for user u; a full ACL stays as it is.
Grant(m, u, a) == IF FitsAcl(m.acl, u) THEN [m EXCEPT !.acl[u] = a] ELSE m

\* The entry of a file that user u has just created on server s.
NewMeta(u, s) == [owner |-> u, ss_id |-> s, folder_path |-> "root", acl |-> NoAcl]

-----------------------------------------------------------------------------
(* Interference *)

\* Thread v has a copy that it will write back to the trie; to the cache only.
WillUpdate(v) == pc[v] \in {"move", "info", "update"}
WillCache(v)  == pc[v] \in {"fill", "cacheput"}

\* The kinds of interference when thread u makes the entry m: another thread's
\* copy of the entry, about to be written to the trie or the cache, is out of date.
Outdates(u, m) ==
    IF m = file_trie THEN {}
    ELSE   (IF \E v \in Users \ {u} : WillUpdate(v) THEN {"lost"} ELSE {})
      \cup (IF \E v \in Users \ {u} : WillCache(v) THEN {"cached"} ELSE {})

Note(kinds) == races' = races \cup kinds

Goto(u, label) == pc' = [pc EXCEPT ![u] = label]

\* A request of the given type arrives: its first step leads to a label.
Begin(u, t, label) ==
    /\ t \in Requests
    /\ pc[u] = "idle"
    /\ budget > 0
    /\ budget' = budget - 1
    /\ type' = [type EXCEPT ![u] = t]
    /\ Goto(u, label)

\* A mutex that the thread needs is free.
SockFree(u) == ss_sock_mutex[meta[u].ss_id] = NoUser

-----------------------------------------------------------------------------
(* CREATE and DELETE *)

\* The file has no entry; the next server is picked, in turn or because another
\* file has been created in between. An existing file is answered ERR_FILE_EXISTS.
CreateRequest(u, s) ==
    /\ Begin(u, "create", "create")
    /\ file_trie = NoMeta
    /\ meta' = [meta EXCEPT ![u] = NewMeta(u, s)]
    /\ UNCHANGED <<shared, mutexes, msg, history>>

\* The server creates the file unless it has one: ERR_FILE_EXISTS then.
CreateAtSS(u) ==
    LET s == meta[u].ss_id IN
    /\ pc[u] = "create"
    /\ SockFree(u)
    /\ IF "root" \in stored[s]
       THEN /\ Goto(u, "idle")
            /\ UNCHANGED stored
       ELSE /\ stored' = [stored EXCEPT ![s] = @ \cup {"root"}]
            /\ Goto(u, "insert")
    /\ Note(IF file_trie # NoMeta /\ "root" \notin stored[s] THEN {"twice"} ELSE {})
    /\ UNCHANGED <<file_trie, cache, access_requests, mutexes, own, budget, granted>>

\* trie_insert, which overwrites an entry that is there.
Insert(u) ==
    /\ pc[u] = "insert"
    /\ file_trie' = meta[u]
    /\ granted' = NoAcl
    /\ Goto(u, "cacheput")
    /\ Note(     Outdates(u, meta[u])
            \cup (IF file_trie # NoMeta THEN {"twice"} ELSE {})
            \cup (IF \E v \in Users : pc[v] = "cacheremove" THEN {"recreated"} ELSE {}))
    /\ UNCHANGED <<cache, stored, access_requests, mutexes, own, budget>>

\* The owner asks to delete the file.
DeleteRequest(u) ==
    /\ Begin(u, "delete", "delete")
    /\ file_trie # NoMeta
    /\ file_trie.owner = u
    /\ meta' = [meta EXCEPT ![u] = file_trie]
    /\ UNCHANGED <<shared, mutexes, msg, history>>

\* MUTANT: the server's answer is not looked at.
DeleteAtSSAnyhow(u) ==
    LET s == meta[u].ss_id IN
    /\ pc[u] = "delete"
    /\ SockFree(u)
    /\ stored' \in {stored, [stored EXCEPT ![s] = @ \ {"root"}]}
    /\ Goto(u, "triedelete")
    /\ UNCHANGED <<file_trie, cache, access_requests, mutexes, own, budget, history>>

\* CHECK_LOCKS and DELETE at the server, in one hold of its mutex. The request
\* fails if a sentence is locked or the file is not at the server's root.
DeleteAtSS(u) ==
    LET s == meta[u].ss_id IN
    /\ pc[u] = "delete"
    /\ SockFree(u)
    /\ \/ /\ "root" \in stored[s]
          /\ stored' = [stored EXCEPT ![s] = @ \ {"root"}]
          /\ Goto(u, "triedelete")
       \/ /\ Goto(u, "idle")
          /\ UNCHANGED stored
    /\ UNCHANGED <<file_trie, cache, access_requests, mutexes, own, budget, history>>

TrieDelete(u) ==
    /\ pc[u] = "triedelete"
    /\ file_trie' = NoMeta
    /\ Goto(u, "cacheremove")
    /\ Note(Outdates(u, NoMeta))
    /\ UNCHANGED <<cache, stored, access_requests, mutexes, own, budget, granted>>

\* MUTANT: the entry stays in the cache.
CacheRemoveForgets(u) ==
    /\ pc[u] = "cacheremove"
    /\ Goto(u, "idle")
    /\ UNCHANGED <<shared, mutexes, own, budget, history>>

CacheRemove(u) ==
    /\ pc[u] = "cacheremove"
    /\ cache' = NoMeta
    /\ Goto(u, "idle")
    /\ UNCHANGED <<file_trie, stored, access_requests, mutexes, own, budget, history>>

-----------------------------------------------------------------------------
(* ADDACCESS and REMACCESS *)

\* The owner's change for user v, made to a copy of the entry: an access other than
\* the owner's own is added, or an entry is removed.
AccessRequest(u, v, a) ==
    /\ Begin(u, "access", "update")
    /\ file_trie # NoMeta
    /\ file_trie.owner = u
    /\ a # "none" => v # u
    /\ msg' = [msg EXCEPT ![u] = [target_user |-> v, access |-> a]]
    /\ meta' = [meta EXCEPT ![u] = IF a = "none" THEN [file_trie EXCEPT !.acl[v] = a]
                                                 ELSE Grant(file_trie, v, a)]
    /\ Note(IF a # "none" /\ ~FitsAcl(file_trie.acl, v) THEN {"full"} ELSE {})
    /\ UNCHANGED <<shared, mutexes, granted>>

-----------------------------------------------------------------------------
(* REQUESTACCESS, APPROVEREQUEST, DENYREQUEST *)

\* User u, who has not got access a, asks for it.
RequestAccess(u, a) ==
    /\ Begin(u, "request", "ask")
    /\ file_trie # NoMeta
    /\ ~check_access(file_trie, u, a)
    /\ msg' = [msg EXCEPT ![u] = [target_user |-> u, access |-> a]]
    /\ UNCHANGED <<shared, mutexes, meta, history>>

\* The array holds the request.
IsPending(request) == \E n \in DOMAIN access_requests : access_requests[n] = request

\* The request is queued unless it is pending or the array is full.
AskForAccess(u) ==
    /\ pc[u] = "ask"
    /\ request_mutex = NoUser
    /\ access_requests' = IF IsPending(msg[u]) \/ Len(access_requests) = MaxQueue
                          THEN access_requests ELSE Append(access_requests, msg[u])
    /\ Goto(u, "idle")
    /\ UNCHANGED <<file_trie, cache, stored, mutexes, own, budget, history>>

\* The owner approves the n-th request, under request_mutex. It leaves the array
\* when the mutex is released; nobody else looks at it before.
ApproveRequest(u, n) ==
    /\ Begin(u, "approve", "update")
    /\ request_mutex = NoUser
    /\ request_mutex' = u
    /\ n \in DOMAIN access_requests
    /\ file_trie # NoMeta
    /\ file_trie.owner = u
    /\ msg' = [msg EXCEPT ![u] = access_requests[n]]
    /\ meta' = [meta EXCEPT ![u] =
          Grant(file_trie, access_requests[n].target_user, access_requests[n].access)]
    /\ access_requests' = RemoveAt(access_requests, n)
    /\ Note(IF ~FitsAcl(file_trie.acl, access_requests[n].target_user) THEN {"full"} ELSE {})
    /\ UNCHANGED <<file_trie, cache, stored, ss_sock_mutex, granted>>

\* The owner denies the n-th request.
DenyRequest(u, n) ==
    /\ "approve" \in Requests
    /\ pc[u] = "idle"
    /\ request_mutex = NoUser
    /\ n \in DOMAIN access_requests
    /\ file_trie # NoMeta
    /\ file_trie.owner = u
    /\ access_requests' = RemoveAt(access_requests, n)
    /\ UNCHANGED <<file_trie, cache, stored, mutexes, pc, own, budget, history>>

-----------------------------------------------------------------------------
(* READ, WRITE, STREAM, UNDO; INFO and the checkpoint commands *)

\* READ or WRITE by a user who has the access it takes.
ReadRequest(u, required) ==
    /\ Begin(u, "read", "find")
    /\ check_access(file_trie, u, required)
    /\ UNCHANGED <<shared, mutexes, msg, meta, history>>

\* INFO by any user, or a checkpoint command: the server is looked up, too.
InfoRequest(u) ==
    /\ Begin(u, "look", "find")
    /\ file_trie # NoMeta
    /\ UNCHANGED <<shared, mutexes, msg, meta, history>>

\* What follows find_ss_for_file.
AfterFind(u) == IF type[u] = "read" THEN "reread" ELSE "idle"

\* find_ss_for_file finds the entry in the cache, or turns to the trie.
FindCached(u) ==
    /\ pc[u] = "find"
    /\ Goto(u, IF cache # NoMeta THEN AfterFind(u) ELSE "search")
    /\ UNCHANGED <<shared, mutexes, own, budget, history>>

FindInTrie(u) ==
    /\ pc[u] = "search"
    /\ meta' = [meta EXCEPT ![u] = file_trie]
    /\ Goto(u, IF file_trie # NoMeta THEN "fill" ELSE "idle")
    /\ UNCHANGED <<shared, mutexes, type, msg, budget, history>>

FillCache(u) ==
    /\ pc[u] = "fill"
    /\ cache' = meta[u]
    /\ Goto(u, AfterFind(u))
    /\ UNCHANGED <<file_trie, stored, access_requests, mutexes, own, budget, history>>

\* The entry is read once more, for its time of access to be written back.
Reread(u) ==
    /\ pc[u] = "reread"
    /\ meta' = [meta EXCEPT ![u] = file_trie]
    /\ Goto(u, IF file_trie # NoMeta THEN "update" ELSE "idle")
    /\ UNCHANGED <<shared, mutexes, type, msg, budget, history>>

-----------------------------------------------------------------------------
(* VIEW -l *)

\* The entry is copied from the trie with all others.
ViewRequest(u) ==
    /\ Begin(u, "view", "info")
    /\ file_trie # NoMeta
    /\ meta' = [meta EXCEPT ![u] = file_trie]
    /\ UNCHANGED <<shared, mutexes, msg, history>>

\* The server is asked for sizes and times; its mutex is kept until they have been
\* written back. It answers for a file at its root only.
ViewInfo(u) ==
    LET s == meta[u].ss_id IN
    /\ pc[u] = "info"
    /\ SockFree(u)
    /\ IF "root" \in stored[s]
       THEN /\ ss_sock_mutex' = [ss_sock_mutex EXCEPT ![s] = u]
            /\ Goto(u, "update")
       ELSE /\ Goto(u, "idle")
            /\ UNCHANGED ss_sock_mutex
    /\ UNCHANGED <<shared, request_mutex, own, budget, history>>

-----------------------------------------------------------------------------
(* MOVE *)

MoveRequest(u) ==
    /\ Begin(u, "move", "move")
    /\ check_access(file_trie, u, "write")
    /\ meta' = [meta EXCEPT ![u] = file_trie]
    /\ UNCHANGED <<shared, mutexes, msg, history>>

\* The server renames the file, over another of its name, unless it has none where
\* the copy says or lacks the folder: ERR_SERVER_ERROR then.
MoveAtSS(u, place) ==
    LET s == meta[u].ss_id
        old == meta[u].folder_path
    IN
    /\ pc[u] = "move"
    /\ SockFree(u)
    /\ \/ /\ old \in stored[s]
          /\ stored' = [stored EXCEPT ![s] = (@ \ {old}) \cup {place}]
          /\ meta' = [meta EXCEPT ![u].folder_path = place]
          /\ Goto(u, "update")
       \/ /\ old \notin stored[s] \/ place = "folder"
          /\ Goto(u, "idle")
          /\ UNCHANGED <<stored, meta>>
    /\ UNCHANGED <<file_trie, cache, access_requests, mutexes, type, msg, budget, history>>

-----------------------------------------------------------------------------
(* Writing a copy back *)

\* The entry trie_update looks for exists.
Updates == file_trie # NoMeta

\* trie_update with the thread's copy, which changes nothing if there is no entry.
Update(u) ==
    /\ pc[u] = "update"
    /\ file_trie' = IF Updates THEN meta[u] ELSE file_trie
    /\ granted' = IF Updates /\ type[u] \in {"access", "approve"}
                  THEN [granted EXCEPT ![msg[u].target_user] = msg[u].access] ELSE granted
    /\ Goto(u, "cacheput")
    /\ Note(IF Updates THEN Outdates(u, meta[u]) ELSE {"cached"})
    /\ UNCHANGED <<cache, stored, access_requests, mutexes, own, budget>>

\* cache_put with the same copy; the mutexes the handler holds are released.
CachePut(u) ==
    /\ pc[u] = "cacheput"
    /\ cache' = meta[u]
    /\ request_mutex' = IF request_mutex = u THEN NoUser ELSE request_mutex
    /\ ss_sock_mutex' = [s \in Servers |-> IF ss_sock_mutex[s] = u THEN NoUser
                                                                   ELSE ss_sock_mutex[s]]
    /\ Goto(u, "idle")
    /\ UNCHANGED <<file_trie, stored, access_requests, own, budget, history>>

-----------------------------------------------------------------------------

NoMessage == [target_user |-> NoUser, access |-> "none"]

Init ==
    /\ file_trie = NoMeta
    /\ cache = NoMeta
    /\ stored = [s \in Servers |-> {}]
    /\ access_requests = <<>>
    /\ request_mutex = NoUser
    /\ ss_sock_mutex = [s \in Servers |-> NoUser]
    /\ pc = [u \in Users |-> "idle"]
    /\ type = [u \in Users |-> "none"]
    /\ msg = [u \in Users |-> NoMessage]
    /\ meta = [u \in Users |-> NoMeta]
    /\ budget = MaxRequests
    /\ granted = NoAcl
    /\ races = {}

Request(u) ==
    \/ \E s \in Servers : CreateRequest(u, s)
    \/ DeleteRequest(u)
    \/ \E v \in Users, a \in Access : AccessRequest(u, v, a)
    \/ \E a \in Access \ {"none"} : RequestAccess(u, a)
    \/ \E n \in 1 .. MaxQueue : ApproveRequest(u, n) \/ DenyRequest(u, n)
    \/ \E required \in {"read", "write"} : ReadRequest(u, required)
    \/ InfoRequest(u) \/ ViewRequest(u) \/ MoveRequest(u)

Step(u) ==
    \/ CreateAtSS(u) \/ Insert(u)
    \/ DeleteAtSS(u) \/ TrieDelete(u) \/ CacheRemove(u)
    \/ AskForAccess(u)
    \/ FindCached(u) \/ FindInTrie(u) \/ FillCache(u) \/ Reread(u)
    \/ ViewInfo(u)
    \/ \E place \in Places : MoveAtSS(u, place)
    \/ Update(u) \/ CachePut(u)

Next == \E u \in Users : Request(u) \/ Step(u)

Spec == Init /\ [][Next]_vars

-----------------------------------------------------------------------------
(* Properties *)

RaceKinds == {"lost",       \* the entry changed under a copy that was written back to the trie
              "cached",     \* the entry changed under a copy that was put in the cache
              "twice",      \* a creation overlapped another and met its entry
              "recreated",  \* a file was created while a deleted one was still cached
              "full"}       \* an access did not fit in the ACL

Undisturbed(kinds) == races \cap kinds = {}

Labels == {"idle", "create", "insert", "delete", "triedelete", "cacheremove", "ask", "find",
           "search", "fill", "reread", "info", "move", "update", "cacheput"}

\* No request is being served.
Quiet == \A u \in Users : pc[u] = "idle"

IsMeta(m) ==
    \/ m = NoMeta
    \/ m \in Meta /\ Cardinality({u \in Users : m.acl[u] # "none"}) <= MaxAcl

\* Every variable holds a value of its kind, no copy of an entry has an ACL beyond its
\* array, and a mutex is held only by a thread on its way to release it.
TypeOK ==
    /\ IsMeta(file_trie) /\ IsMeta(cache)
    /\ \A u \in Users : IsMeta(meta[u])
    /\ stored \in [Servers -> SUBSET Places]
    /\ Len(access_requests) <= MaxQueue
    /\ \A n \in DOMAIN access_requests :
          access_requests[n] \in [target_user : Users, access : Access \ {"none"}]
    /\ pc \in [Users -> Labels]
    /\ \A u \in Users : u \in {request_mutex} \cup {ss_sock_mutex[s] : s \in Servers} =>
          pc[u] \in {"update", "cacheput"}
    /\ races \subseteq RaceKinds

\* The entry's ACL is what its owner's acknowledged decisions add up to (ADDACCESS,
\* REMACCESS and approvals, the latest for each user), whatever other requests
\* write the entry back, as long as no copy of it was outdated on its way to the
\* trie and no access was granted beyond the ACL's size.
UndisturbedGrantsPersist ==
    Undisturbed({"lost", "full"}) /\ file_trie # NoMeta => file_trie.acl = granted

\* A request that finds the entry in the cache is sent to the server the trie names,
\* also while the file is being deleted and created elsewhere, as long as it is
\* not before the deleted entry has left the cache, no creation overlapped
\* another, and no outdated copy has been written back, to the trie or the cache.
UndisturbedRouting ==
    [][\A u \in Users : pc[u] = "find" /\ pc'[u] \in {"reread", "idle"}
            /\ file_trie # NoMeta /\ Undisturbed({"lost", "cached", "twice", "recreated"}) =>
          cache.ss_id = file_trie.ss_id]_vars

\* When no request is being served, a file has an entry exactly if a server stores
\* it, and is where the entry says: no creation, deletion or move, failed or refused ones
\* included, leaves a file nobody can name, or a name without a file, as long as no
\* outdated copy of the entry has been written back (lost) and no two creations have
\* overlapped (twice: on two servers, they leave one of the files without an entry).
UndisturbedEntryHasFile ==
    Quiet /\ Undisturbed({"lost", "twice"}) =>
        stored = [s \in Servers |-> IF file_trie # NoMeta /\ file_trie.ss_id = s
                                    THEN {file_trie.folder_path} ELSE {}]
=============================================================================
