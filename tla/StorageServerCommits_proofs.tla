-------------------- MODULE StorageServerCommits_proofs --------------------
(***************************************************************************)
(* Proofs about what becomes of the commits of a storage server: that each  *)
(* carries its own session's text, and that merging it loses nothing.       *)
(***************************************************************************)
EXTENDS StorageServer_proofs

-----------------------------------------------------------------------------
(* Queued commits *)

\* The phases of UNLOCK_SENTENCE between enqueueing a commit and its merge.
CommitLabels == {"close", "acquire", "process", "truncate", "flush"}

\* The user of a queued commit is still in the UNLOCK_SENTENCE that queued it.
EntriesOwned ==
    \A n \in DOMAIN queue : /\ queue[n].temp = <<queue[n].user, queue[n].idx>>
                            /\ temp[queue[n].temp] # NoFile
                            /\ pc[queue[n].user] \in CommitLabels
                            /\ sent_idx[queue[n].user] = queue[n].idx

OnePerUser == \A m, n \in DOMAIN queue : queue[m].user = queue[n].user => m = n

\* A session has its temp file, unless it is just being opened or closed.
SessionsHaveText ==
    \A u \in Users, i \in Index : HasSession(u, i) =>
        temp[<<u, i>>] # NoFile \/ (pc[u] \in {"copy", "close"} /\ sent_idx[u] = i)

QueueInv == EntriesOwned /\ OnePerUser /\ SessionsHaveText

EntryInv ==
    /\ PointerInv
    /\ UndisturbedLockInv
    /\ Undisturbed({"pointer", "realloc", "failed"}) => QueueInv

LEMMA EntryTyped ==
    ASSUME CommitTypeOK
    PROVE  /\ queue \in Seq(CommitEntry)
           /\ \A n \in DOMAIN queue : /\ queue[n] \in CommitEntry
                                      /\ queue[n].user \in Users
                                      /\ queue[n].idx \in Index
                                      /\ queue[n].count \in Nat
                                      /\ queue[n].temp \in Keys
<1>1. queue \in Seq(CommitEntry)
  BY DEF CommitTypeOK
<1>2. \A n \in DOMAIN queue : queue[n] \in CommitEntry
  BY <1>1
<1> QED
  BY <1>1, <1>2 DEF CommitEntry

LEMMA InitEntryInv == Init => EntryInv
<1> SUFFICES ASSUME Init PROVE EntryInv
  OBVIOUS
<1>1. QueueInv
  BY DEF Init, QueueInv, EntriesOwned, OnePerUser, SessionsHaveText, HasSession, SlotsOf, Active
<1> QED
  BY <1>1, InitPointerInv, InitUndisturbedLockInv DEF EntryInv

\* A step of thread t that leaves the queue and the other users' temp files alone.
LEMMA KeepStep ==
    ASSUME QueueInv, ControlTypeOK, CommitTypeOK, NEW t \in Threads, UNCHANGED queue,
           \A v \in Users \ {t} : pc'[v] = pc[v] /\ sent_idx'[v] = sent_idx[v],
           \A v \in Users, i \in Index : temp[<<v, i>>] # NoFile =>
              \/ temp'[<<v, i>>] # NoFile
              \/ v = t /\ pc[t] \notin CommitLabels /\ ~HasSession(v, i)',
           \A v \in Users, i \in Index : HasSession(v, i)' =>
              HasSession(v, i) \/ (v = t /\ pc'[t] = "copy" /\ sent_idx'[t] = i),
           t \in Users /\ pc[t] \in CommitLabels =>
              (pc'[t] \in CommitLabels /\ sent_idx'[t] = sent_idx[t]) \/ queue = <<>>,
           \A i \in Index : t \in Users /\ HasSession(t, i)' /\ pc[t] \in {"copy", "close"}
                                        /\ sent_idx[t] = i =>
              temp'[<<t, i>>] # NoFile \/ (pc'[t] \in {"copy", "close"} /\ sent_idx'[t] = i)
    PROVE  QueueInv'
<1>1. EntriesOwned'
  <2> SUFFICES ASSUME NEW n \in DOMAIN queue
               PROVE  /\ queue[n].temp = <<queue[n].user, queue[n].idx>>
                      /\ temp'[queue[n].temp] # NoFile
                      /\ pc'[queue[n].user] \in CommitLabels
                      /\ sent_idx'[queue[n].user] = queue[n].idx
    BY DEF EntriesOwned
  <2>1. /\ queue[n].temp = <<queue[n].user, queue[n].idx>>
        /\ temp[queue[n].temp] # NoFile
        /\ pc[queue[n].user] \in CommitLabels
        /\ sent_idx[queue[n].user] = queue[n].idx
    BY DEF QueueInv, EntriesOwned
  <2>2. queue[n].user \in Users /\ queue[n].idx \in Index /\ queue # <<>>
    BY EntryTyped
  <2> QED
    BY <2>1, <2>2
<1>2. OnePerUser'
  BY DEF QueueInv, OnePerUser
<1>3. SessionsHaveText'
  <2> SUFFICES ASSUME NEW v \in Users, NEW i \in Index, HasSession(v, i)'
               PROVE  temp'[<<v, i>>] # NoFile \/ (pc'[v] \in {"copy", "close"} /\ sent_idx'[v] = i)
    BY DEF SessionsHaveText
  <2>1. HasSession(v, i) =>
           temp[<<v, i>>] # NoFile \/ (pc[v] \in {"copy", "close"} /\ sent_idx[v] = i)
    BY DEF QueueInv, SessionsHaveText
  <2> QED
    BY <2>1
<1> QED
  BY <1>1, <1>2, <1>3 DEF QueueInv

\* The head of the queue leaves it, with its temp file.
LEMMA DequeueStep ==
    ASSUME QueueInv, ClosedBeforeRelease, ControlTypeOK, CommitTypeOK, TextTypeOK, NEW u \in Users,
           queue # <<>>, queue' = Tail(queue), temp' = [temp EXCEPT ![Head(queue).temp] = NoFile],
           UNCHANGED <<sessions, sent_idx>>, pc[u] \in QueueLabels, Goto(u, "process")
    PROVE  QueueInv'
<1> DEFINE e == Head(queue)
<1>q. /\ queue \in Seq(CommitEntry) /\ DOMAIN temp = Keys
      /\ pc \in [Threads -> Labels \cup {"delete", "revert"}]
      /\ u \in Threads
  BY DEF CommitTypeOK, TextTypeOK, ControlTypeOK, ThreadTypeOK, Threads
<1>e. /\ e = queue[1] /\ 1 \in DOMAIN queue
      /\ e.user \in Users /\ e.idx \in Index
  BY <1>q, EntryTyped
<1>1. e.temp = <<e.user, e.idx>> /\ pc[e.user] \in CommitLabels /\ sent_idx[e.user] = e.idx
  BY <1>e DEF QueueInv, EntriesOwned
<1>2. \A n \in DOMAIN queue' : /\ n + 1 \in DOMAIN queue /\ n + 1 # 1
                               /\ queue'[n] = queue[n + 1]
  BY <1>q
<1> HIDE DEF e
<1>3. \A v \in Users : pc[v] \in CommitLabels => pc'[v] \in CommitLabels
  BY <1>q DEF Goto, CommitLabels
<1>4. EntriesOwned'
  <2> SUFFICES ASSUME NEW n \in DOMAIN queue'
               PROVE  /\ queue'[n].temp = <<queue'[n].user, queue'[n].idx>>
                      /\ temp'[queue'[n].temp] # NoFile
                      /\ pc'[queue'[n].user] \in CommitLabels
                      /\ sent_idx'[queue'[n].user] = queue'[n].idx
    BY DEF EntriesOwned
  <2> DEFINE f == queue[n + 1]
  <2>1. f.user \in Users /\ f.idx \in Index
    BY <1>2, EntryTyped
  <2>2. /\ f.temp = <<f.user, f.idx>> /\ temp[f.temp] # NoFile
        /\ pc[f.user] \in CommitLabels /\ sent_idx[f.user] = f.idx
    BY <1>2 DEF QueueInv, EntriesOwned
  <2>3. f.user # e.user
    BY <1>2, <1>e DEF QueueInv, OnePerUser
  <2>4. temp'[f.temp] = temp[f.temp]
    BY <1>1, <1>q, <2>1, <2>2, <2>3 DEF e
  <2> QED
    BY <1>2, <1>3, <2>1, <2>2, <2>4
<1>5. OnePerUser'
  <2> SUFFICES ASSUME NEW m \in DOMAIN queue', NEW n \in DOMAIN queue',
                      queue'[m].user = queue'[n].user
               PROVE  m = n
    BY DEF OnePerUser
  <2>1. m + 1 = n + 1
    BY <1>2 DEF QueueInv, OnePerUser
  <2> QED
    BY <2>1, <1>q
<1>6. SessionsHaveText'
  <2> SUFFICES ASSUME NEW v \in Users, NEW i \in Index, HasSession(v, i)
               PROVE  temp'[<<v, i>>] # NoFile \/ (pc'[v] \in {"copy", "close"} /\ sent_idx[v] = i)
    BY DEF SessionsHaveText, HasSession, SlotsOf, Active, sessions
  <2>1. temp[<<v, i>>] # NoFile \/ (pc[v] \in {"copy", "close"} /\ sent_idx[v] = i)
    BY DEF QueueInv, SessionsHaveText
  <2>2. pc[v] \in {"copy", "close"} => pc'[v] = pc[v]
    BY <1>q DEF Goto, QueueLabels
  <2>3. CASE <<v, i>> = e.temp
    <3>1. v = e.user /\ i = e.idx
      BY <1>1, <2>3
    <3>2. pc[v] = "close"
      BY <1>1, <3>1 DEF ClosedBeforeRelease, ClosedLabels, CommitLabels
    <3> QED
      BY <1>1, <2>2, <3>1, <3>2
  <2>4. CASE <<v, i>> # e.temp
    <3>1. temp'[<<v, i>>] = temp[<<v, i>>]
      BY <1>q, <2>4 DEF Keys, e
    <3> QED
      BY <2>1, <2>2, <3>1
  <2> QED
    BY <2>3, <2>4
<1> QED
  BY <1>4, <1>5, <1>6 DEF QueueInv

\* Removing a slot opens no session.
LEMMA CompactOpensNone ==
    ASSUME SessionTypeOK, NEW u \in Users, NEW k \in Active, CompactSessions(u, k),
           NEW v, NEW i, HasSession(v, i)'
    PROVE  HasSession(v, i)
<1>1. PICK j \in Active' : write_sessions'[j].user = v /\ write_sessions'[j].idx = i
  BY DEF HasSession, SlotsOf
<1> DEFINE m == IF j >= k THEN j + 1 ELSE j
<1>2. m \in Active /\ write_sessions[m] = write_sessions'[j]
  BY <1>1, CompactSlots
<1> QED
  BY <1>1, <1>2 DEF HasSession, SlotsOf

\* A text that is read or written is a file.
LEMMA ParsedIsText == \A text : IsParsed(text) => text # NoFile
  BY FilesAssumption DEF IsParsed

LEMMA WrittenIsText ==
    ASSUME TypeInv, NEW path \in Keys, NEW i \in Index, NEW u \in Users, NEW kind \in WriteKinds,
           i <= Len(ContentOf(temp[path])) \/ (ContentOf(temp[path]) = <<>> /\ i = 1)
    PROVE  InsertWord(ContentOf(temp[path]), i, u, kind) # NoFile
<1>1. IsParsed(ContentOf(temp[path]))
  BY ContentTyped DEF TypeInv, TypeOK, TextTypeOK
<1>2. i \in Nat /\ kind \in EditKinds
  BY BoundsAssumption DEF Index
<1> QED
  BY <1>1, <1>2, InsertTyped, ParsedIsText

\* What a user's thread does on its own.
LEMMA StepQueueInv ==
    ASSUME PointerInv, PointersLead, LockInv, LockInv', QueueInv, NEW u \in Users, Step(u),
           Undisturbed({"failed"})'
    PROVE  QueueInv'
<1> DEFINE i == sent_idx[u]
<1>type. /\ TypeInv /\ ControlTypeOK /\ CommitTypeOK /\ TextTypeOK /\ SessionTypeOK
         /\ ClosedBeforeRelease /\ ClosedBeforeRelease'
         /\ QueueOwnership
  BY DEF PointerInv, TypeInv, TypeOK, LockInv, ControlTypeOK
<1>pc. /\ pc \in [Threads -> Labels \cup {"delete", "revert"}]
       /\ sent_idx \in [Users -> Index]
       /\ u \in Threads
       /\ i \in Index
       /\ DOMAIN temp = Keys
       /\ \A v \in Users, j \in Index : <<v, j>> \in Keys
  BY <1>type DEF ControlTypeOK, ThreadTypeOK, TextTypeOK, Threads, Keys
<1>same. UNCHANGED sessions => \A v \in Users, j \in Index : HasSession(v, j)' => HasSession(v, j)
  BY DEF HasSession, SlotsOf, Active, sessions
<1>lead. pc[u] \in PointerLabels => TempPath(session[u]) = <<u, i>> /\ HasSession(u, i)
  BY DEF PointersLead, SlotsOf, TempPath, HasSession
<1> USE <1>type, <1>pc, <1>same
<1>1. CASE \/ GetLock(u) \/ TakeLock(u) \/ TakeFreedLock(u) \/ AcquireQueue(u) \/ MergeHead(u)
           \/ UnlockLookup(u) \/ Release(u) \/ RestoreFlush(u) \/ ReleaseQueue(u) \/ Truncate(u)
  <2>1. UNCHANGED <<queue, temp, sent_idx>> /\ UNCHANGED sessions
    BY <1>1 DEF GetLock, TakeLock, TakeFreedLock, AcquireQueue, MergeHead, UnlockLookup, Release,
       RestoreFlush, ReleaseQueue, Truncate, disk, commits
  <2>2. \E l \in Labels : Goto(u, l) /\ (pc[u] \in CommitLabels => l \in CommitLabels \/ queue = <<>>)
                                     /\ pc[u] \notin {"copy", "close"}
    <3>1. CASE \/ GetLock(u) \/ TakeLock(u) \/ TakeFreedLock(u) \/ UnlockLookup(u) \/ Release(u)
               \/ RestoreFlush(u)
      BY <3>1 DEF GetLock, TakeLock, TakeFreedLock, UnlockLookup, Release, RestoreFlush, Labels,
         CommitLabels
    <3>2. CASE AcquireQueue(u) \/ MergeHead(u) \/ ReleaseQueue(u)
      BY <3>2 DEF AcquireQueue, MergeHead, ReleaseQueue, Labels, CommitLabels
    <3>3. CASE Truncate(u)
      <4>1. pc'[u] = "unlock" => "failed" \in races'
        BY <3>3 DEF Truncate, Note
      <4>2. Goto(u, "flush")
        BY <3>3, <4>1 DEF Truncate, Goto, Undisturbed
      <4> QED
        BY <3>3, <4>2 DEF Truncate, Labels, CommitLabels
    <3> QED
      BY <1>1, <3>1, <3>2, <3>3
  <2>3. \A v \in Users \ {u} : pc'[v] = pc[v]
    BY <2>2 DEF Goto
  <2>4. pc[u] \in CommitLabels => pc'[u] \in CommitLabels \/ queue = <<>>
    BY <2>2 DEF Goto
  <2> QED
    BY <2>1, <2>2, <2>3, <2>4, KeepStep
<1>2. CASE StartSession(u)
  <2>1. UNCHANGED <<queue, temp, sent_idx>> /\ pc[u] = "start" /\ \A v \in Users \ {u} : pc'[v] = pc[v]
    BY <1>2 DEF StartSession, Goto, disk, commits, Threads
  <2>2. \A v \in Users, j \in Index : HasSession(v, j)' =>
           HasSession(v, j) \/ (v = u /\ pc'[u] = "copy" /\ sent_idx'[u] = j)
    <3>1. CASE UNCHANGED sessions
      BY <3>1
    <3>2. CASE /\ write_session_count < MaxSessions
               /\ write_session_count' = write_session_count + 1
               /\ write_sessions' = [write_sessions EXCEPT ![write_session_count + 1] = Reused(@, u, i)]
               /\ Goto(u, "copy")
      <4> DEFINE n == write_session_count + 1
      <4>1. /\ Active' = Active \cup {n}
            /\ \A k \in Active : write_sessions'[k] = write_sessions[k]
            /\ write_sessions'[n].user = u
            /\ write_sessions'[n].idx = i
        BY <3>2, BoundsAssumption DEF SessionTypeOK, Reused, Active
      <4> HIDE DEF n
      <4>2. pc'[u] = "copy" /\ sent_idx'[u] = i
        BY <2>1, <3>2 DEF Goto
      <4> QED
        BY <4>1, <4>2 DEF HasSession, SlotsOf
    <3> QED
      BY <1>2, <3>1, <3>2 DEF StartSession
  <2> QED
    BY <2>1, <2>2, KeepStep DEF CommitLabels
<1>3. CASE CopyToTemp(u)
  <2>1. /\ UNCHANGED <<queue, sent_idx>> /\ pc[u] = "copy"
        /\ \A v \in Users \ {u} : pc'[v] = pc[v]
        /\ temp' = [temp EXCEPT ![<<u, i>>] = ContentOf(file)]
    BY <1>3, <1>lead DEF CopyToTemp, Goto, commits, PointerLabels, Threads
  <2>2. ContentOf(file) # NoFile
    BY ContentTyped, ParsedIsText DEF TextTypeOK
  <2>3. \A v \in Users, j \in Index : HasSession(v, j)' => HasSession(v, j)
    BY <1>3 DEF CopyToTemp, Active, Stamped, SessionTypeOK, HasSession, SlotsOf
  <2>4. \A v \in Users, j \in Index : temp[<<v, j>>] # NoFile => temp'[<<v, j>>] # NoFile
    BY <2>1, <2>2
  <2>5. temp'[<<u, i>>] # NoFile
    BY <2>1, <2>2
  <2> QED
    BY <2>1, <2>3, <2>4, <2>5, KeepStep DEF CommitLabels
<1>4. CASE \E kind \in WriteKinds : WriteTemp(u, kind)
  <2>1. /\ UNCHANGED <<queue, sent_idx>> /\ UNCHANGED sessions /\ pc[u] = "write"
        /\ \A v \in Users \ {u} : pc'[v] = pc[v]
    BY <1>4 DEF WriteTemp, Goto, commits
  <2>2. \A v \in Users, j \in Index : temp[<<v, j>>] # NoFile => temp'[<<v, j>>] # NoFile
    <3>1. CASE UNCHANGED temp
      BY <3>1
    <3>2. CASE \E text : text # NoFile /\ temp' = [temp EXCEPT ![<<u, i>>] = text]
      BY <3>2
    <3> QED
      BY <1>4, <1>lead, <2>1, <3>1, <3>2, WrittenIsText DEF WriteTemp, PointerLabels
  <2> QED
    BY <2>1, <2>2, KeepStep DEF CommitLabels
<1>5. CASE Enqueue(u)
  <2>1. UNCHANGED sent_idx /\ pc[u] = "enqueue" /\ \A v \in Users \ {u} : pc'[v] = pc[v]
    BY <1>5 DEF Enqueue, Goto, Threads
  <2>lead. TempPath(session[u]) = <<u, i>> /\ HasSession(u, i)
    BY <1>lead, <2>1 DEF PointerLabels
  <2>2. CASE Goto(u, "unlock")
    <3>1. UNCHANGED queue /\ \E k \in SlotsOf(u, i) : /\ CompactSessions(u, k)
                                                     /\ temp' = [temp EXCEPT ![TempPath(k)] = NoFile]
      BY <1>5, <2>2 DEF Enqueue, Goto
    <3>2. \A v \in Users, j \in Index : HasSession(v, j)' => HasSession(v, j)
      BY <3>1, CompactOpensNone DEF SlotsOf
    <3>3. ~HasSession(u, i)'
      BY <2>1, <2>2 DEF ClosedBeforeRelease, ClosedLabels, Goto
    <3>4. temp' = [temp EXCEPT ![<<u, i>>] = NoFile]
      BY <3>1 DEF SlotsOf, TempPath
    <3>5. \A v \in Users, j \in Index : temp[<<v, j>>] # NoFile =>
             temp'[<<v, j>>] # NoFile \/ (v = u /\ pc[u] \notin CommitLabels /\ ~HasSession(v, j)')
      BY <2>1, <3>3, <3>4 DEF CommitLabels
    <3> QED
      BY <2>1, <3>1, <3>2, <3>5, KeepStep DEF CommitLabels
  <2>3. CASE Goto(u, "close")
    <3> DEFINE e == [user |-> u, idx |-> i, count |-> write_sessions[session[u]].count,
                     temp |-> <<u, i>>]
               m == Len(queue) + 1
    <3>1. /\ queue' = Append(queue, e) /\ UNCHANGED temp /\ UNCHANGED sessions
          /\ pc'[u] = "close"
      BY <1>5, <2>lead, <2>3 DEF Enqueue, Goto
    <3>2. /\ DOMAIN queue' = DOMAIN queue \cup {m} /\ m \notin DOMAIN queue
          /\ queue'[m] = e
          /\ \A n \in DOMAIN queue : queue'[n] = queue[n]
      BY <3>1, EntryTyped
    <3>3. /\ e.user = u /\ e.idx = i /\ e.temp = <<u, i>>
      OBVIOUS
    <3> HIDE DEF e, m
    <3>4. temp[<<u, i>>] # NoFile
      BY <2>1, <2>lead DEF QueueInv, SessionsHaveText
    <3>5. \A n \in DOMAIN queue : queue[n].user \in Users \ {u}
      BY <2>1, EntryTyped DEF QueueInv, EntriesOwned, CommitLabels
    <3>6. EntriesOwned'
      <4>1. ASSUME NEW n \in DOMAIN queue
            PROVE  /\ queue[n].temp = <<queue[n].user, queue[n].idx>>
                   /\ temp'[queue[n].temp] # NoFile
                   /\ pc'[queue[n].user] \in CommitLabels
                   /\ sent_idx'[queue[n].user] = queue[n].idx
        BY <2>1, <3>1, <3>5 DEF QueueInv, EntriesOwned
      <4> QED
        BY <2>1, <3>1, <3>2, <3>3, <3>4, <4>1 DEF EntriesOwned, CommitLabels
    <3>7. OnePerUser'
      BY <3>2, <3>3, <3>5 DEF QueueInv, OnePerUser
    <3>8. SessionsHaveText'
      BY <2>1, <3>1, <3>4 DEF QueueInv, SessionsHaveText
    <3> QED
      BY <3>6, <3>7, <3>8 DEF QueueInv
  <2> QED
    BY <1>5, <2>2, <2>3 DEF Enqueue
<1>6. CASE CloseSession(u)
  <2>1. /\ UNCHANGED <<queue, temp, sent_idx>> /\ pc[u] = "close" /\ pc'[u] = "acquire"
        /\ \A v \in Users \ {u} : pc'[v] = pc[v]
        /\ \E k \in Active : CompactSessions(u, k)
    BY <1>6 DEF CloseSession, Goto, disk, commits, SlotsOf
  <2>2. ~HasSession(u, i)'
    BY <2>1 DEF ClosedBeforeRelease, ClosedLabels
  <2>3. \A v \in Users, j \in Index : HasSession(v, j)' => HasSession(v, j)
    BY <2>1, CompactOpensNone
  <2> QED
    BY <2>1, <2>2, <2>3, KeepStep DEF CommitLabels
<1>7. CASE SkipCommit(u)
  <2>1. Goto(u, "process")
    BY <1>7 DEF SkipCommit, Goto
  <2> QED
    BY <1>7, <2>1, DequeueStep DEF SkipCommit, QueueLabels
<1>8. CASE Flush(u)
  <2>1. queue # <<>>
    BY <1>8 DEF Flush, QueueOwnership
  <2> QED
    BY <1>8, <2>1, DequeueStep DEF Flush, QueueLabels
<1> QED
  BY <1>1, <1>2, <1>3, <1>4, <1>5, <1>6, <1>7, <1>8 DEF Step

\* The arrival of a request.
LEMMA RequestQueueInv ==
    ASSUME TypeInv, LockInv, LockInv', QueueInv, NEW u \in Users, Request(u)
    PROVE  QueueInv'
<1>type. /\ ControlTypeOK /\ CommitTypeOK /\ TextTypeOK /\ SessionTypeOK /\ ClosedBeforeRelease'
  BY DEF TypeInv, TypeOK, LockInv, ControlTypeOK
<1>pc. /\ pc \in [Threads -> Labels \cup {"delete", "revert"}]
       /\ sent_idx \in [Users -> Index]
       /\ u \in Threads
       /\ DOMAIN temp = Keys
       /\ \A v \in Users, j \in Index : <<v, j>> \in Keys
  BY <1>type DEF ControlTypeOK, ThreadTypeOK, TextTypeOK, Threads, Keys
<1>same. UNCHANGED sessions => \A v \in Users, j \in Index : HasSession(v, j)' => HasSession(v, j)
  BY DEF HasSession, SlotsOf, Active, sessions
<1> USE <1>type, <1>pc, <1>same
<1>1. ASSUME NEW i \in Index, CancelWrite(u, i), ~UNCHANGED sessions
      PROVE  QueueInv'
  <2>1. /\ UNCHANGED queue /\ pc[u] = "idle" /\ pc'[u] = "unlock" /\ sent_idx'[u] = i
        /\ \A v \in Users \ {u} : pc'[v] = pc[v] /\ sent_idx'[v] = sent_idx[v]
        /\ \E k \in SlotsOf(u, i) : /\ CompactSessions(u, k)
                                    /\ temp' = [temp EXCEPT ![TempPath(k)] = NoFile]
    BY <1>1 DEF CancelWrite, Goto, commits, Threads
  <2>2. ~HasSession(u, i)'
    BY <2>1 DEF ClosedBeforeRelease, ClosedLabels
  <2>3. \A v \in Users, j \in Index : HasSession(v, j)' => HasSession(v, j)
    BY <2>1, CompactOpensNone DEF SlotsOf
  <2>4. temp' = [temp EXCEPT ![<<u, i>>] = NoFile]
    BY <2>1 DEF SlotsOf, TempPath
  <2>5. \A v \in Users, j \in Index : temp[<<v, j>>] # NoFile =>
           temp'[<<v, j>>] # NoFile \/ (v = u /\ pc[u] \notin CommitLabels /\ ~HasSession(v, j)')
    BY <2>1, <2>2, <2>4 DEF CommitLabels
  <2> QED
    BY <2>1, <2>3, <2>5, KeepStep DEF CommitLabels
<1>2. CASE UNCHANGED sessions
  <2>1. /\ UNCHANGED <<queue, temp>> /\ pc[u] = "idle"
        /\ \A v \in Users \ {u} : pc'[v] = pc[v] /\ sent_idx'[v] = sent_idx[v]
    <3>1. ASSUME NEW i \in Index, CancelWrite(u, i) PROVE UNCHANGED temp
      <4>1. \A k \in Active : ~CompactSessions(u, k)
        BY <1>2 DEF CompactSessions, SessionTypeOK, sessions
      <4> QED
        BY <3>1, <4>1 DEF CancelWrite, SlotsOf
    <3> QED
      BY <1>2, <3>1 DEF Request, LockValidate, WriteLookup, CommitLookup, CancelWrite, Undo, Goto,
         disk, commits, Threads
  <2> QED
    BY <1>2, <2>1, KeepStep DEF CommitLabels
<1> QED
  BY <1>1, <1>2 DEF Request, LockValidate, WriteLookup, CommitLookup, Undo

LEMMA NextEntryInv == EntryInv /\ [Next]_vars => EntryInv'
<1> SUFFICES ASSUME EntryInv, [Next]_vars, Undisturbed({"pointer", "realloc", "failed"})'
             PROVE  QueueInv'
  BY NextPointerInv, NextUndisturbedLockInv DEF EntryInv
<1>1. /\ Undisturbed({"pointer", "realloc", "failed"})
      /\ Undisturbed({"pointer"}) /\ Undisturbed({"realloc"})
      /\ Undisturbed({"realloc"})' /\ Undisturbed({"failed"})'
  BY RacesGrow DEF Undisturbed
<1>2. PointerInv /\ PointersLead /\ TypeInv /\ LockInv /\ QueueInv
  BY <1>1 DEF EntryInv, PointerInv, UndisturbedLockInv
<1>3. LockInv'
  BY <1>1, NextUndisturbedLockInv DEF EntryInv, UndisturbedLockInv
<1>4. ASSUME NEW u \in Users, Step(u) PROVE QueueInv'
  BY <1>1, <1>2, <1>3, <1>4, StepQueueInv
<1>5. ASSUME NEW u \in Users, Request(u) PROVE QueueInv'
  BY <1>2, <1>3, <1>5, RequestQueueInv
<1>6. CASE NMStep \/ UNCHANGED vars
  <2>1. UNCHANGED <<queue, temp, sent_idx>> /\ UNCHANGED sessions
    BY <1>6 DEF NMStep, CheckLocks, Delete, Create, Checkpoint, Revert, RevertFlush, vars, disk, commits
  <2>2. UNCHANGED pc \/ \E l : Goto(NM, l)
    BY <1>6 DEF NMStep, CheckLocks, Delete, Create, Checkpoint, Revert, RevertFlush, vars
  <2>3. \A v \in Users : pc'[v] = pc[v]
    BY <1>2, <2>2, NamesAssumption DEF Goto, Threads, LockInv, ControlTypeOK, ThreadTypeOK
  <2>4. \A v \in Users, j \in Index : HasSession(v, j)' => HasSession(v, j)
    BY <2>1 DEF HasSession, SlotsOf, Active, sessions
  <2> QED
    BY <1>2, <2>1, <2>3, <2>4, EntryTyped
       DEF QueueInv, EntriesOwned, OnePerUser, SessionsHaveText, TypeInv, TypeOK
<1>7. CASE Restart
  BY <1>7 DEF Restart, QueueInv, EntriesOwned, OnePerUser, SessionsHaveText, HasSession, SlotsOf, Active
<1> QED
  BY <1>4, <1>5, <1>6, <1>7 DEF Next

\* As long as no pointer has gone astray and no commit has failed to be written, a commit is
\* merged from its own session's text, which nothing has removed, and no sentence has two
\* commits queued: the user of each is still waiting for its UNLOCK_SENTENCE, and
\* so still holds the sentence's lock.
THEOREM EntriesStayOwn == Spec => []EntriesAreOwn
<1>1. EntryInv => EntriesAreOwn
  <2> SUFFICES ASSUME EntryInv, Undisturbed({"pointer", "realloc", "failed"})
               PROVE  /\ \A n \in DOMAIN queue : /\ queue[n].temp = <<queue[n].user, queue[n].idx>>
                                                 /\ temp[queue[n].temp] # NoFile
                      /\ \A m, n \in DOMAIN queue : queue[m].idx = queue[n].idx => m = n
    BY DEF EntriesAreOwn
  <2>1. QueueInv /\ LockGuardsSession /\ CommitTypeOK
    BY DEF EntryInv, PointerInv, TypeInv, TypeOK, UndisturbedLockInv, LockInv, Undisturbed
  <2>2. \A n \in DOMAIN queue : locked_by[queue[n].idx] = queue[n].user
    BY <2>1, EntryTyped DEF QueueInv, EntriesOwned, LockGuardsSession, HoldingLabels, CommitLabels
  <2> QED
    BY <2>1, <2>2 DEF QueueInv, EntriesOwned, OnePerUser
<1> QED
  BY <1>1, InitEntryInv, NextEntryInv, PTL DEF Spec

-----------------------------------------------------------------------------
(* Where the pieces of a text go *)

\* A sequence put together from two.
LEMMA ConcatParts ==
    ASSUME NEW s \in Seq(Sentence), NEW t \in Seq(Sentence)
    PROVE  /\ s \o t \in Seq(Sentence)
           /\ Len(s \o t) = Len(s) + Len(t)
           /\ \A n \in 1 .. Len(s) : (s \o t)[n] = s[n]
           /\ \A n \in 1 .. Len(t) : (s \o t)[Len(s) + n] = t[n]
<1>1. /\ s \o t \in Seq(Sentence) /\ Len(s \o t) = Len(s) + Len(t)
      /\ Len(s) \in Nat /\ Len(t) \in Nat
      /\ \A i \in 1 .. Len(s) + Len(t) :
            (s \o t)[i] = IF i <= Len(s) THEN s[i] ELSE t[i - Len(s)]
  BY ConcatProperties, LenProperties
<1>2. ASSUME NEW n \in 1 .. Len(t) PROVE (s \o t)[Len(s) + n] = t[n]
  <2>1. Len(s) + n \in 1 .. Len(s) + Len(t) /\ ~(Len(s) + n <= Len(s)) /\ (Len(s) + n) - Len(s) = n
    BY <1>1
  <2> QED
    BY <1>1, <2>1
<1> QED
  BY <1>1, <1>2

\* h says in which sentence of the parsed text each piece ends up: a sentence has what its
\* pieces have.
Places(h, pieces, text) ==
    /\ h \in [1 .. Len(pieces) -> Nat \ {0}]
    /\ Len(pieces) > 0 => h[1] = 1 /\ Len(text) = h[Len(pieces)]
    /\ \A n \in 1 .. Len(pieces) : /\ h[n] <= n /\ h[n] <= Len(text)
                                   /\ pieces[n].by \subseteq text[h[n]].by
                                   /\ pieces[n].src \subseteq text[h[n]].src
    /\ \A n \in 1 .. Len(pieces) - 1 :
          h[n + 1] = IF pieces[n].end = "delim" THEN h[n] + 1 ELSE h[n]
    /\ \A j \in 1 .. Len(text) :
          /\ \A x \in text[j].by : \E n \in 1 .. Len(pieces) : h[n] = j /\ x \in pieces[n].by
          /\ \A x \in text[j].src : \E n \in 1 .. Len(pieces) : h[n] = j /\ x \in pieces[n].src

\* One more piece goes into a new sentence behind a delimiter, otherwise into the last one.
Placed(text, piece, new) ==
    /\ Len(new) = IF text = <<>> \/ text[Len(text)].end = "delim" THEN Len(text) + 1 ELSE Len(text)
    /\ \A m \in 1 .. Len(text) : text[m].by \subseteq new[m].by /\ text[m].src \subseteq new[m].src
    /\ piece.by \subseteq new[Len(new)].by /\ piece.src \subseteq new[Len(new)].src
    /\ new[Len(new)].end = piece.end
    /\ \A m \in 1 .. Len(new) :
          /\ \A x \in new[m].by : \/ m <= Len(text) /\ x \in text[m].by
                                  \/ m = Len(new) /\ x \in piece.by
          /\ \A x \in new[m].src : \/ m <= Len(text) /\ x \in text[m].src
                                   \/ m = Len(new) /\ x \in piece.src

LEMMA PiecePlace ==
    ASSUME NEW text, IsParsed(text), NEW piece \in Sentence
    PROVE  Placed(text, piece, ParsePiece(text, piece))
<1> DEFINE n == Len(text)
<1>1. n \in Nat /\ text \in Seq(Sentence)
  BY DEF IsParsed
<1>2. CASE text # <<>> /\ text[n].end # "delim"
  <2>1. ParsePiece(text, piece) = [text EXCEPT ![n] = Fuse(text[n], piece)]
    BY <1>2 DEF ParsePiece
  <2>2. n > 0 /\ Len(ParsePiece(text, piece)) = n
    BY <1>1, <1>2, <2>1
  <2>3. /\ Fuse(text[n], piece).by = text[n].by \cup piece.by
        /\ Fuse(text[n], piece).src = text[n].src \cup piece.src
        /\ Fuse(text[n], piece).end = piece.end
    BY DEF Fuse
  <2>4. /\ ParsePiece(text, piece)[n] = Fuse(text[n], piece)
        /\ \A m \in 1 .. n : m # n => ParsePiece(text, piece)[m] = text[m]
    BY <1>1, <2>1, <2>2
  <2> QED
    BY <1>1, <1>2, <2>2, <2>3, <2>4 DEF Placed
<1>3. CASE text = <<>> \/ text[n].end = "delim"
  <2>1. ParsePiece(text, piece) = Append(text, piece)
    BY <1>3 DEF ParsePiece
  <2>2. /\ Len(ParsePiece(text, piece)) = n + 1
        /\ ParsePiece(text, piece)[n + 1] = piece
        /\ \A m \in 1 .. n : ParsePiece(text, piece)[m] = text[m]
    BY <1>1, <2>1
  <2> QED
    BY <1>1, <1>3, <2>2 DEF Placed
<1> QED
  BY <1>2, <1>3

LEMMA PlacesExist ==
    ASSUME NEW pieces \in Seq(Sentence)
    PROVE  \E h : Places(h, pieces, ParseFile(pieces))
<1> DEFINE last == Len(pieces)
<1>0. last \in Nat /\ \A n \in 1 .. last : pieces[n] \in Sentence
  OBVIOUS
<1>1. PICK g : ParsesTo(g, pieces, last) /\ ParseFile(pieces) = g[last]
  BY ParseFileUnfolds
<1>2. g[0] = <<>> /\ \A n \in 0 .. last - 1 : g[n + 1] = ParsePiece(g[n], pieces[n + 1])
  BY <1>0, <1>1 DEF ParsesTo
<1> DEFINE Found(n) ==
              /\ IsParsed(g[n]) /\ Len(g[n]) <= n
              /\ n > 0 => Len(g[n]) > 0 /\ g[n][Len(g[n])].end = pieces[n].end
              /\ \A m \in 1 .. n : /\ Len(g[m]) \in Nat \ {0} /\ Len(g[m]) <= Len(g[n])
                                   /\ pieces[m].by \subseteq g[n][Len(g[m])].by
                                   /\ pieces[m].src \subseteq g[n][Len(g[m])].src
              /\ n > 1 => Len(g[n]) = IF pieces[n - 1].end = "delim" THEN Len(g[n - 1]) + 1
                                                                     ELSE Len(g[n - 1])
              /\ \A j \in 1 .. Len(g[n]) :
                    /\ \A x \in g[n][j].by : \E m \in 1 .. n : Len(g[m]) = j /\ x \in pieces[m].by
                    /\ \A x \in g[n][j].src : \E m \in 1 .. n : Len(g[m]) = j /\ x \in pieces[m].src
           T == {n \in Nat : n <= last => Found(n)}
<1>3. 0 \in T
  BY <1>2, EmptyParsed
<1>4. ASSUME NEW n \in Nat, n \in T PROVE n + 1 \in T
  <2> HIDE DEF Found
  <2> SUFFICES ASSUME n + 1 <= last PROVE Found(n + 1)
    OBVIOUS
  <2> USE DEF Found
  <2> DEFINE text == g[n]
             piece == pieces[n + 1]
             new == g[n + 1]
  <2>1. Found(n) /\ new = ParsePiece(text, piece) /\ piece \in Sentence
    BY <1>0, <1>2, <1>4
  <2>2. text \in Seq(Sentence) /\ Len(text) \in Nat /\ IsParsed(text)
    BY <2>1 DEF IsParsed
  <2>3. Placed(text, piece, new)
    BY <2>1, <2>2, PiecePlace
  <2>4. IsParsed(new) /\ Len(new) \in Nat
    <3>1. IsParsed(new)
      BY <2>1, <2>2, PieceParsed
    <3> QED
      BY <3>1 DEF IsParsed
  <2>5. Len(new) <= n + 1 /\ Len(new) > 0 /\ Len(text) <= Len(new)
    BY <2>1, <2>2, <2>3 DEF Placed
  <2>6. n + 1 > 1 => Len(new) = IF pieces[n].end = "delim" THEN Len(text) + 1 ELSE Len(text)
    BY <2>1, <2>2, <2>3 DEF Placed
  <2>7. ASSUME NEW m \in 1 .. n
        PROVE  /\ Len(g[m]) \in Nat \ {0} /\ Len(g[m]) <= Len(new)
               /\ pieces[m].by \subseteq new[Len(g[m])].by
               /\ pieces[m].src \subseteq new[Len(g[m])].src
    <3>1. /\ Len(g[m]) \in Nat \ {0} /\ Len(g[m]) <= Len(text)
          /\ pieces[m].by \subseteq text[Len(g[m])].by
          /\ pieces[m].src \subseteq text[Len(g[m])].src
      BY <2>1
    <3>2. Len(g[m]) \in 1 .. Len(text)
      BY <2>2, <3>1
    <3>3. /\ text[Len(g[m])].by \subseteq new[Len(g[m])].by
          /\ text[Len(g[m])].src \subseteq new[Len(g[m])].src
      BY <2>3, <3>2 DEF Placed
    <3>4. Len(g[m]) <= Len(new)
      BY <2>2, <2>4, <2>5, <3>2
    <3> QED
      BY <3>1, <3>3, <3>4
  <2>10. ASSUME NEW j \in 1 .. Len(new)
         PROVE  /\ \A x \in new[j].by : \E m \in 1 .. n + 1 : Len(g[m]) = j /\ x \in pieces[m].by
                /\ \A x \in new[j].src : \E m \in 1 .. n + 1 : Len(g[m]) = j /\ x \in pieces[m].src
    <3>1. ASSUME j <= Len(text)
          PROVE  /\ \A x \in text[j].by : \E m \in 1 .. n + 1 : Len(g[m]) = j /\ x \in pieces[m].by
                 /\ \A x \in text[j].src : \E m \in 1 .. n + 1 : Len(g[m]) = j /\ x \in pieces[m].src
      <4>1. j \in 1 .. Len(g[n]) /\ \A m \in 1 .. n : m \in 1 .. n + 1
        BY <2>2, <2>4, <3>1
      <4>2. /\ \A x \in g[n][j].by : \E m \in 1 .. n : Len(g[m]) = j /\ x \in pieces[m].by
            /\ \A x \in g[n][j].src : \E m \in 1 .. n : Len(g[m]) = j /\ x \in pieces[m].src
        BY <2>1, <4>1
      <4> QED
        BY <4>1, <4>2
    <3>2. n + 1 \in 1 .. n + 1
      OBVIOUS
    <3> QED
      BY <2>3, <3>1, <3>2 DEF Placed
  <2> HIDE DEF text, piece, new
  <2>8. \A m \in 1 .. n + 1 : m \in 1 .. n \/ m = n + 1
    OBVIOUS
  <2>9. (n + 1) - 1 = n
    OBVIOUS
  <2>11. Len(g[n + 1]) > 0 /\ g[n + 1][Len(g[n + 1])].end = pieces[n + 1].end
    BY <2>3, <2>5 DEF new, piece, Placed
  <2>12. ASSUME NEW m \in 1 .. n + 1
         PROVE  /\ Len(g[m]) \in Nat \ {0} /\ Len(g[m]) <= Len(g[n + 1])
                /\ pieces[m].by \subseteq g[n + 1][Len(g[m])].by
                /\ pieces[m].src \subseteq g[n + 1][Len(g[m])].src
    <3>1. CASE m \in 1 .. n
      BY <2>7, <3>1 DEF new
    <3>2. CASE m = n + 1
      BY <2>3, <2>4, <2>5, <3>2 DEF new, piece, Placed
    <3> QED
      BY <2>8, <3>1, <3>2
  <2>13. n + 1 > 1 => Len(g[n + 1]) = IF pieces[n + 1 - 1].end = "delim" THEN Len(g[n + 1 - 1]) + 1
                                      ELSE Len(g[n + 1 - 1])
    BY <2>6, <2>9 DEF new, text
  <2>14. IsParsed(g[n + 1]) /\ Len(g[n + 1]) <= n + 1
    BY <2>4, <2>5 DEF new
  <2>15. ASSUME NEW j \in 1 .. Len(g[n + 1])
         PROVE  /\ \A x \in g[n + 1][j].by : \E m \in 1 .. n + 1 : Len(g[m]) = j /\ x \in pieces[m].by
                /\ \A x \in g[n + 1][j].src : \E m \in 1 .. n + 1 : Len(g[m]) = j /\ x \in pieces[m].src
    BY <2>10 DEF new
  <2> QED
    BY <2>11, <2>12, <2>13, <2>14, <2>15
<1> HIDE DEF T
<1>5. Nat \subseteq T
  BY <1>3, <1>4, SetInduction
<1>6. \A n \in 0 .. last : Found(n)
  <2> HIDE DEF Found, last
  <2>1. \A n \in 0 .. last : n \in T /\ n <= last
    BY <1>0, <1>5
  <2> QED
    BY <2>1 DEF T
<1> DEFINE h == [n \in 1 .. last |-> Len(g[n])]
<1>7. ASSUME NEW n \in 1 .. last
      PROVE  /\ h[n] \in Nat \ {0} /\ h[n] <= n /\ h[n] <= Len(ParseFile(pieces))
             /\ pieces[n].by \subseteq ParseFile(pieces)[h[n]].by
             /\ pieces[n].src \subseteq ParseFile(pieces)[h[n]].src
  <2>1. Found(last) /\ Found(n) /\ n \in 0 .. last
    <3>1. last \in 0 .. last /\ n \in 0 .. last
      BY <1>0
    <3> HIDE DEF Found, last
    <3> QED BY <1>6, <3>1
  <2> QED
    BY <1>1, <2>1
<1>8. ASSUME NEW n \in 1 .. last - 1
      PROVE  h[n + 1] = IF pieces[n].end = "delim" THEN h[n] + 1 ELSE h[n]
  <2>1. n + 1 \in 0 .. last /\ n + 1 > 1 /\ (n + 1) - 1 = n /\ n \in 1 .. last /\ n + 1 \in 1 .. last
    BY <1>0
  <2>2. Len(g[n + 1]) = IF pieces[n].end = "delim" THEN Len(g[n]) + 1 ELSE Len(g[n])
    <3>1. Found(n + 1)
      BY <1>6, <2>1
    <3> QED
      BY <2>1, <3>1
  <2> QED
    BY <2>1, <2>2
<1>9. last > 0 => h[1] = 1 /\ Len(ParseFile(pieces)) = h[last]
  <2>1. last > 0 => 1 \in 1 .. last /\ last \in 1 .. last
    BY <1>0
  <2>2. \A n \in 1 .. last : h[n] \in Nat \ {0} /\ h[n] <= n
    BY <1>7
  <2>3. last > 0 => h[1] \in Nat \ {0} /\ h[1] <= 1
    BY <2>1, <2>2
  <2>4. last > 0 => h[last] = Len(g[last])
    BY <2>1
  <2> HIDE DEF h
  <2> QED
    BY <1>1, <2>3, <2>4
<1>10. h \in [1 .. last -> Nat \ {0}]
  BY <1>7
<1>12. ASSUME NEW j \in 1 .. Len(ParseFile(pieces))
       PROVE  /\ \A x \in ParseFile(pieces)[j].by : \E n \in 1 .. last : h[n] = j /\ x \in pieces[n].by
              /\ \A x \in ParseFile(pieces)[j].src : \E n \in 1 .. last : h[n] = j /\ x \in pieces[n].src
  <2>1. Found(last) /\ j \in 1 .. Len(g[last])
    <3>1. last \in 0 .. last /\ j \in 1 .. Len(g[last])
      BY <1>0, <1>1
    <3> HIDE DEF Found, last
    <3> QED BY <1>6, <3>1
  <2>2. \A n \in 1 .. last : h[n] = Len(g[n])
    OBVIOUS
  <2>3. /\ \A x \in g[last][j].by : \E m \in 1 .. last : Len(g[m]) = j /\ x \in pieces[m].by
        /\ \A x \in g[last][j].src : \E m \in 1 .. last : Len(g[m]) = j /\ x \in pieces[m].src
    BY <2>1
  <2> HIDE DEF h
  <2> QED
    BY <1>1, <2>2, <2>3
<1> HIDE DEF h, Found
<1>11. Places(h, pieces, ParseFile(pieces))
  BY <1>7, <1>8, <1>9, <1>10, <1>12 DEF Places
<1> QED
  BY <1>11

\* Pieces stay in order, and each behind a delimiter has a sentence of its own.
LEMMA PlacesCount ==
    ASSUME NEW pieces, Len(pieces) \in Nat, NEW text, NEW h, Places(h, pieces, text),
           NEW m \in 1 .. Len(pieces), NEW n \in m .. Len(pieces)
    PROVE  /\ h[m] <= h[n]
           /\ (\A k \in m .. n - 1 : pieces[k].end = "delim") => h[n] = h[m] + (n - m)
<1> DEFINE Found(d) == /\ h[m] <= h[m + d]
                       /\ (\A k \in m .. m + d - 1 : pieces[k].end = "delim") => h[m + d] = h[m] + d
           T == {d \in Nat : m + d <= Len(pieces) => Found(d)}
<1>0. h \in [1 .. Len(pieces) -> Nat \ {0}]
  BY DEF Places
<1>1. 0 \in T
  BY <1>0
<1>2. ASSUME NEW d \in Nat, d \in T PROVE d + 1 \in T
  <2> SUFFICES ASSUME m + (d + 1) <= Len(pieces) PROVE Found(d + 1)
    OBVIOUS
  <2>1. Found(d) /\ m + d \in 1 .. Len(pieces) - 1 /\ (m + d) + 1 = m + (d + 1)
    BY <1>2
  <2>2. h[m + (d + 1)] = IF pieces[m + d].end = "delim" THEN h[m + d] + 1 ELSE h[m + d]
    BY <2>1 DEF Places
  <2>3. h[m + d] \in Nat /\ h[m] \in Nat
    BY <1>0, <2>1
  <2>4. (\A k \in m .. m + (d + 1) - 1 : pieces[k].end = "delim") =>
           pieces[m + d].end = "delim" /\ \A k \in m .. m + d - 1 : pieces[k].end = "delim"
    OBVIOUS
  <2>5. h[m] <= h[m + (d + 1)]
    BY <2>1, <2>2, <2>3
  <2>6. ASSUME \A k \in m .. m + (d + 1) - 1 : pieces[k].end = "delim"
        PROVE  h[m + (d + 1)] = h[m] + (d + 1)
    <3>1. pieces[m + d].end = "delim" /\ h[m + d] = h[m] + d
      BY <2>1, <2>4, <2>6
    <3> QED BY <2>2, <2>3, <3>1
  <2> QED
    BY <2>5, <2>6
<1> HIDE DEF T
<1>3. Nat \subseteq T
  BY <1>1, <1>2, SetInduction
<1>4. n - m \in T /\ m + (n - m) = n /\ n <= Len(pieces)
  BY <1>3
<1>5. Found(n - m)
  <2> HIDE DEF Found
  <2> QED
    BY <1>4 DEF T
<1> QED
  BY <1>4, <1>5

\* Pieces that share no source are parsed into sentences that share none.
LEMMA ParseApart ==
    ASSUME NEW pieces \in Seq(Sentence), SourcesApart(pieces)
    PROVE  SourcesApart(ParseFile(pieces))
<1> DEFINE text == ParseFile(pieces)
<1>1. PICK h : Places(h, pieces, text)
  BY PlacesExist
<1>2. text \in Seq(Sentence)
  BY ParsedFile DEF IsParsed
<1> HIDE DEF text
<1> SUFFICES ASSUME NEW j \in 1 .. Len(text), NEW k \in 1 .. Len(text), j # k,
                    NEW x \in text[j].src, x \in text[k].src
             PROVE  FALSE
  BY <1>2 DEF SourcesApart, text
<1>3. PICK m \in 1 .. Len(pieces) : h[m] = j /\ x \in pieces[m].src
  BY <1>1 DEF Places
<1>4. PICK n \in 1 .. Len(pieces) : h[n] = k /\ x \in pieces[n].src
  BY <1>1 DEF Places
<1> QED
  BY <1>3, <1>4 DEF SourcesApart

\* What a WRITE puts in place of a sentence: one piece that keeps its words and delimiter,
\* or the sentence itself and one more. Nobody's words but the writer's are added, and the
\* sentence's sources stay in one piece.
PieceKind(s, u, kind, t, pieces) ==
    /\ t.by \subseteq s.by \cup {u}
    /\ \/ /\ pieces = <<t>> /\ s.by \subseteq t.by /\ t.src = s.src
          /\ s.end = "delim" => t.end = "delim"
       \/ pieces = <<t, s>> /\ t.end = "delim" /\ t.src = {}
       \/ /\ pieces = <<s, t>> /\ s.end = "delim" /\ t.src = {}
          /\ kind \notin {"after", "newline"} => t.end = "delim"

LEMMA PiecesKinds ==
    ASSUME NEW s \in Sentence, NEW u \in Users, NEW kind \in EditKinds
    PROVE  \E t \in Sentence : PieceKind(s, u, kind, t, PiecesOf(s, u, kind))
<1>1. /\ Mark(s, u) \in Sentence /\ Mark(s, u).by = s.by \cup {u} /\ Mark(s, u).end = s.end
      /\ Mark(s, u).src = s.src
  BY DEF Mark, Sentence, Ends
<1>2. \A e \in Ends : /\ [Mark(s, u) EXCEPT !.end = e] \in Sentence
                      /\ [Mark(s, u) EXCEPT !.end = e].by = s.by \cup {u}
                      /\ [Mark(s, u) EXCEPT !.end = e].src = s.src
                      /\ [Mark(s, u) EXCEPT !.end = e].end = e
                      /\ NewSentence(u, e) \in Sentence
                      /\ NewSentence(u, e).by = {u} /\ NewSentence(u, e).src = {}
                      /\ NewSentence(u, e).end = e
  BY <1>1 DEF Sentence, NewSentence
<1>3. CASE kind = "word"
  BY <1>1, <1>3 DEF PiecesOf, PieceKind
<1>4. CASE kind = "split"
  <2> DEFINE t == [Mark(s, u) EXCEPT !.src = {}, !.end = "delim"]
  <2>1. /\ t \in Sentence /\ t.by = s.by \cup {u} /\ t.end = "delim" /\ t.src = {}
    BY <1>1 DEF Sentence, Ends
  <2>2. PiecesOf(s, u, kind) = <<t, s>>
    BY <1>4 DEF PiecesOf
  <2> HIDE DEF t
  <2> QED
    BY <2>1, <2>2 DEF PieceKind
<1>5. CASE kind \in {"end", "after", "newline"} /\ s.end # "delim"
  <2>1. PICK e \in Ends : PiecesOf(s, u, kind) = <<[Mark(s, u) EXCEPT !.end = e]>>
    BY <1>5 DEF PiecesOf, Ends
  <2> DEFINE t == [Mark(s, u) EXCEPT !.end = e]
  <2>2. t \in Sentence /\ t.by = s.by \cup {u} /\ t.src = s.src
    BY <1>2
  <2>3. PiecesOf(s, u, kind) = <<t>> /\ s.end # "delim"
    BY <1>5, <2>1
  <2> HIDE DEF t
  <2> QED
    BY <2>2, <2>3 DEF PieceKind
<1>6. CASE kind \in {"end", "after", "newline"} /\ s.end = "delim"
  <2>1. PICK e \in Ends : /\ PiecesOf(s, u, kind) = <<s, NewSentence(u, e)>>
                          /\ kind = "end" => e = "delim"
    BY <1>6 DEF PiecesOf, Ends
  <2> DEFINE t == NewSentence(u, e)
  <2>2. t \in Sentence /\ t.by = {u} /\ t.src = {} /\ t.end = e
    BY <1>2
  <2>3. PiecesOf(s, u, kind) = <<s, t>> /\ s.end = "delim"
    BY <1>6, <2>1
  <2>4. kind \notin {"after", "newline"} => e = "delim"
    BY <1>6, <2>1
  <2> HIDE DEF t
  <2> QED
    BY <2>2, <2>3, <2>4 DEF PieceKind
<1> QED
  BY <1>3, <1>4, <1>5, <1>6 DEF EditKinds

\* The pieces InsertWord has parsed.
InsertedPieces(text, i, u, kind, middle, p) ==
    /\ middle \in Seq(Sentence) /\ p \in Seq(Sentence)
    /\ InsertWord(text, i, u, kind) = ParseFile(p)
    /\ Len(middle) \in 1 .. 3
    /\ Len(p) = Len(middle) + (Len(text) - 1)
    /\ \A n \in 1 .. i : p[n] = text[n]
    /\ \A n \in 1 .. Len(middle) : p[i + n] = middle[n]
    /\ \A n \in 1 .. Len(text) - i - 1 : p[i + Len(middle) + n] = text[i + 1 + n]
    /\ \/ \E t \in Sentence : /\ text[i + 1].by \subseteq t.by /\ middle[1] = t
                              /\ i + 1 < Len(text) => Len(middle) = 1 /\ t.end = "delim"
       \/ \E t \in Sentence : /\ t.end = "delim" /\ middle[1] = t /\ middle[2] = text[i + 1]
                              /\ Len(middle) >= 2
                              /\ i + 1 < Len(text) => Len(middle) = 2
       \/ \E t \in Sentence : /\ text[i + 1].end = "delim" /\ middle[1] = text[i + 1]
                              /\ i + 1 < Len(text) => Len(middle) = 2
    /\ \A n \in 1 .. Len(middle) : /\ middle[n].src \subseteq text[i + 1].src
                                   /\ middle[n].by \subseteq text[i + 1].by \cup {u}
    /\ \A m, n \in 1 .. Len(middle) : m # n => middle[m].src \cap middle[n].src = {}
    /\ kind \notin {"after", "newline"} /\ i + 1 < Len(text) => middle[Len(middle)].end = "delim"

LEMMA InsertPieces ==
    ASSUME NEW text, IsParsed(text), NEW i \in Nat, NEW u \in Users, NEW kind \in EditKinds,
           i < Len(text)
    PROVE  \E middle, p : InsertedPieces(text, i, u, kind, middle, p)
<1>1. text \in Seq(Sentence) /\ Len(text) \in Nat /\ i + 1 \in 1 .. Len(text) /\ text[i + 1] \in Sentence
  BY DEF IsParsed
<1> DEFINE s == text[i + 1]
           pieces == PiecesOf(s, u, kind)
           slot == IF /\ kind \in {"split", "end"}
                      /\ i + 1 = Len(text)
                      /\ pieces[Len(pieces)].end = "delim"
                   THEN <<Blank>> ELSE <<>>
           front == SubSeq(text, 1, i)
           rest == SubSeq(text, i + 2, Len(text))
           p == front \o pieces \o slot \o rest
           middle == pieces \o slot
<1>2. InsertWord(text, i, u, kind) = ParseFile(p)
  BY <1>1 DEF InsertWord
<1>3. /\ front \in Seq(Sentence) /\ Len(front) = i
      /\ \A n \in 1 .. i : front[n] = text[n]
  BY <1>1
<1>4. /\ rest \in Seq(Sentence) /\ Len(rest) = Len(text) - i - 1
      /\ \A n \in 1 .. Len(text) - i - 1 : rest[n] = text[i + 1 + n]
  BY <1>1
<1>5. pieces \in Seq(Sentence)
  BY <1>1, PiecesTyped
<1>6. /\ slot \in Seq(Sentence) /\ Len(slot) \in 0 .. 1 /\ (i + 1 < Len(text) => Len(slot) = 0)
      /\ \A n \in 1 .. Len(slot) : slot[n].src = {} /\ slot[n].by = {}
  BY <1>1, BlankTyped DEF Blank
<1>0. PICK t \in Sentence : PieceKind(s, u, kind, t, pieces)
  BY <1>1, PiecesKinds
<1>7. /\ t.by \subseteq s.by \cup {u}
      /\ \/ /\ pieces = <<t>> /\ s.by \subseteq t.by /\ t.src = s.src
            /\ s.end = "delim" => t.end = "delim"
         \/ pieces = <<t, s>> /\ t.end = "delim" /\ t.src = {}
         \/ /\ pieces = <<s, t>> /\ s.end = "delim" /\ t.src = {}
            /\ kind \notin {"after", "newline"} => t.end = "delim"
  <2> HIDE DEF pieces, slot, front, rest
  <2> QED
    BY <1>0 DEF PieceKind
<1> HIDE DEF pieces, slot, front, rest
<1>8. Len(pieces) \in 1 .. 2
  BY <1>7
<1>9. /\ middle \in Seq(Sentence) /\ Len(middle) = Len(pieces) + Len(slot)
      /\ \A n \in 1 .. Len(pieces) : middle[n] = pieces[n]
      /\ \A n \in 1 .. Len(slot) : middle[Len(pieces) + n] = slot[n]
  BY <1>5, <1>6, ConcatParts
<1>10. p = front \o middle \o rest
  <2>1. (front \o pieces) \o slot = front \o (pieces \o slot)
    BY <1>3, <1>5, <1>6, ConcatAssociative
  <2> QED
    BY <2>1
<1> HIDE DEF middle, p
<1>11. /\ front \o middle \in Seq(Sentence)
       /\ Len(front \o middle) = i + Len(middle)
       /\ \A n \in 1 .. i : (front \o middle)[n] = front[n]
       /\ \A n \in 1 .. Len(middle) : (front \o middle)[i + n] = middle[n]
  BY <1>3, <1>9, ConcatParts
<1>12. /\ p \in Seq(Sentence)
       /\ Len(p) = (i + Len(middle)) + (Len(text) - i - 1)
       /\ \A n \in 1 .. i + Len(middle) : p[n] = (front \o middle)[n]
       /\ \A n \in 1 .. Len(text) - i - 1 : p[i + Len(middle) + n] = rest[n]
  <2> DEFINE head == front \o middle
  <2>1. head \in Seq(Sentence) /\ Len(head) = i + Len(middle) /\ p = head \o rest
    BY <1>10, <1>11
  <2> HIDE DEF head
  <2>2. /\ p \in Seq(Sentence) /\ Len(p) = Len(head) + Len(rest)
        /\ \A n \in 1 .. Len(head) : p[n] = head[n]
        /\ \A n \in 1 .. Len(rest) : p[Len(head) + n] = rest[n]
    BY <1>4, <2>1, ConcatParts
  <2> QED
    BY <1>4, <2>1, <2>2 DEF head
<1>13. Len(middle) \in 1 .. 3 /\ (i + 1 < Len(text) => Len(middle) = Len(pieces))
  <2> DEFINE k == Len(pieces)
             l == Len(slot)
             m == Len(middle)
  <2>1. k \in 1 .. 2 /\ l \in 0 .. 1 /\ m = k + l /\ (i + 1 < Len(text) => l = 0)
    BY <1>6, <1>8, <1>9
  <2> HIDE DEF k, l, m
  <2>2. m \in 1 .. 3 /\ (i + 1 < Len(text) => m = k)
    BY <2>1
  <2> QED
    BY <2>2 DEF k, m
<1>14. Len(p) = Len(middle) + (Len(text) - 1)
  BY <1>1, <1>12, <1>13
<1>15. \A n \in 1 .. i : p[n] = text[n]
  BY <1>3, <1>11, <1>12, <1>13
<1>16. \A n \in 1 .. Len(middle) : p[i + n] = middle[n]
  <2> TAKE n \in 1 .. Len(middle)
  <2>1. i + n \in 1 .. i + Len(middle)
    BY <1>13
  <2> QED
    BY <1>11, <1>12, <2>1
<1>17. \A n \in 1 .. Len(text) - i - 1 : p[i + Len(middle) + n] = text[i + 1 + n]
  BY <1>4, <1>12
<1>18. s.end # "delim" => ~(i + 1 < Len(text))
  BY <1>1 DEF IsParsed
<1>19. \/ /\ s.by \subseteq t.by /\ middle[1] = t
          /\ i + 1 < Len(text) => Len(middle) = 1 /\ t.end = "delim"
       \/ /\ t.end = "delim" /\ middle[1] = t /\ middle[2] = s /\ Len(middle) >= 2
          /\ i + 1 < Len(text) => Len(middle) = 2
       \/ /\ s.end = "delim" /\ middle[1] = s
          /\ i + 1 < Len(text) => Len(middle) = 2
  <2>1. CASE pieces = <<t>> /\ s.by \subseteq t.by /\ (s.end = "delim" => t.end = "delim")
    <3>1. Len(pieces) = 1 /\ pieces[1] = t
      BY <2>1
    <3>2. middle[1] = t
      BY <1>9, <3>1
    <3> QED
      BY <1>13, <1>18, <2>1, <3>1, <3>2
  <2>2. CASE pieces = <<t, s>> /\ t.end = "delim"
    <3>1. Len(pieces) = 2 /\ pieces[1] = t /\ pieces[2] = s
      BY <2>2
    <3>2. middle[1] = t /\ middle[2] = s
      BY <1>9, <3>1
    <3>3. Len(middle) >= 2
      BY <1>6, <1>9, <3>1
    <3> QED
      BY <1>13, <2>2, <3>1, <3>2, <3>3
  <2>3. CASE pieces = <<s, t>> /\ s.end = "delim"
    <3>1. Len(pieces) = 2 /\ pieces[1] = s
      BY <2>3
    <3>2. middle[1] = s
      BY <1>9, <3>1
    <3> QED
      BY <1>13, <2>3, <3>1, <3>2
  <2> QED
    BY <1>7, <2>1, <2>2, <2>3
<1>20. /\ \A n \in 1 .. Len(pieces) : /\ pieces[n].src \subseteq s.src
                                       /\ pieces[n].by \subseteq s.by \cup {u}
       /\ \A m, n \in 1 .. Len(pieces) : m # n => pieces[m].src \cap pieces[n].src = {}
  <2>1. CASE pieces = <<t>> /\ t.src = s.src
    BY <1>7, <2>1
  <2>2. CASE pieces = <<t, s>> /\ t.src = {}
    BY <1>7, <2>2
  <2>3. CASE pieces = <<s, t>> /\ t.src = {}
    BY <1>7, <2>3
  <2> QED
    BY <1>7, <2>1, <2>2, <2>3
<1>21. \A n \in 1 .. Len(middle) :
          \/ n \in 1 .. Len(pieces) /\ middle[n] = pieces[n]
          \/ middle[n].src = {} /\ middle[n].by = {}
  <2> TAKE n \in 1 .. Len(middle)
  <2>1. CASE n \in 1 .. Len(pieces)
    BY <1>9, <2>1
  <2>2. CASE n \notin 1 .. Len(pieces)
    <3> DEFINE m == n - Len(pieces)
    <3>1. m \in 1 .. Len(slot) /\ Len(pieces) + m = n
      <4> DEFINE k == Len(pieces)
                 l == Len(slot)
      <4>1. k \in 1 .. 2 /\ l \in 0 .. 1 /\ n \in 1 .. k + l /\ n \notin 1 .. k
        BY <1>6, <1>8, <1>9, <2>2
      <4> HIDE DEF k, l
      <4>2. n - k \in 1 .. l /\ k + (n - k) = n
        BY <4>1
      <4> QED
        BY <4>2 DEF k, l
    <3> QED
      BY <1>6, <1>9, <3>1
  <2> QED
    BY <2>1, <2>2
<1>22. /\ \A n \in 1 .. Len(middle) : /\ middle[n].src \subseteq s.src
                                       /\ middle[n].by \subseteq s.by \cup {u}
       /\ \A m, n \in 1 .. Len(middle) : m # n => middle[m].src \cap middle[n].src = {}
  BY <1>20, <1>21
<1>23. kind \notin {"after", "newline"} /\ i + 1 < Len(text) => middle[Len(middle)].end = "delim"
  <2> SUFFICES ASSUME kind \notin {"after", "newline"}, i + 1 < Len(text)
               PROVE  middle[Len(middle)].end = "delim"
    OBVIOUS
  <2>1. middle[Len(middle)] = pieces[Len(pieces)] /\ s.end = "delim"
    BY <1>8, <1>9, <1>13, <1>18
  <2>2. CASE pieces = <<t>>
    BY <1>7, <2>1, <2>2
  <2>3. CASE pieces = <<t, s>>
    BY <2>1, <2>3
  <2>4. CASE pieces = <<s, t>> /\ t.end = "delim"
    BY <2>1, <2>4
  <2> QED
    BY <1>7, <2>1, <2>2, <2>3, <2>4
<1>24. InsertedPieces(text, i, u, kind, middle, p)
  BY <1>2, <1>9, <1>12, <1>13, <1>14, <1>15, <1>16, <1>17, <1>19, <1>22, <1>23 DEF InsertedPieces
<1> QED
  BY <1>24

\* Where the sentences of a text are after a WRITE: those before the written one stay, those
\* behind it move on by what the text has grown, and what has become of the written one is
\* between them, unless words put behind its delimiter run into the next one.
InsertPlaces(text, i, u, kind, p, k, h) ==
    LET new == InsertWord(text, i, u, kind) IN
    /\ new \in Seq(Sentence) /\ p \in Seq(Sentence) /\ Places(h, p, new)
    /\ k \in 1 .. 3 /\ Len(p) = k + (Len(text) - 1)
    /\ \A n \in 1 .. i : p[n] = text[n] /\ h[n] = n
    /\ \A n \in 1 .. k : /\ h[i + n] >= i + 1
                         /\ p[i + n].src \subseteq text[i + 1].src
                         /\ p[i + n].by \subseteq text[i + 1].by \cup {u}
    /\ \A m, n \in 1 .. k : m # n => p[i + m].src \cap p[i + n].src = {}
    /\ \A n \in i + 2 .. Len(text) : /\ p[n + k - 1] = text[n]
                                     /\ h[n + k - 1] = n + (Len(new) - Len(text))
    /\ kind \notin {"after", "newline"} \/ i + 1 = Len(text) =>
          \A n \in 1 .. k : h[i + n] <= i + 1 + (Len(new) - Len(text))

LEMMA InsertPlacesExist ==
    ASSUME NEW text, IsParsed(text), NEW i \in Nat, NEW u \in Users, NEW kind \in EditKinds,
           i < Len(text)
    PROVE  \E p, k, h : InsertPlaces(text, i, u, kind, p, k, h)
<1> DEFINE new == InsertWord(text, i, u, kind)
           L == Len(text)
<1>1. text \in Seq(Sentence) /\ L \in Nat /\ i + 1 \in 1 .. L
      /\ \A n \in 1 .. L - 1 : text[n].end = "delim"
  BY DEF IsParsed
<1>0. PICK middle, p : InsertedPieces(text, i, u, kind, middle, p)
  BY InsertPieces
<1>2. /\ middle \in Seq(Sentence) /\ p \in Seq(Sentence)
      /\ new = ParseFile(p)
      /\ Len(middle) \in 1 .. 3
      /\ Len(p) = Len(middle) + (L - 1)
      /\ \A n \in 1 .. i : p[n] = text[n]
      /\ \A n \in 1 .. Len(middle) : p[i + n] = middle[n]
      /\ \A n \in 1 .. L - i - 1 : p[i + Len(middle) + n] = text[i + 1 + n]
      /\ \A n \in 1 .. Len(middle) : /\ middle[n].src \subseteq text[i + 1].src
                                     /\ middle[n].by \subseteq text[i + 1].by \cup {u}
      /\ \A m, n \in 1 .. Len(middle) : m # n => middle[m].src \cap middle[n].src = {}
      /\ kind \notin {"after", "newline"} /\ i + 1 < L => middle[Len(middle)].end = "delim"
  BY <1>0 DEF InsertedPieces
<1> DEFINE k == Len(middle)
<1>3. PICK h : Places(h, p, new)
  BY <1>2, PlacesExist
<1>4. new \in Seq(Sentence)
  BY <1>2, ParsedFile DEF IsParsed
<1> HIDE DEF new, k, L
<1>5. /\ h \in [1 .. Len(p) -> Nat \ {0}] /\ h[1] = 1 /\ Len(new) = h[Len(p)] /\ Len(new) \in Nat
      /\ \A n \in 1 .. Len(p) : h[n] <= Len(new)
      /\ k \in 1 .. 3 /\ Len(p) = k + (L - 1) /\ Len(p) \in Nat \ {0}
  <2>1. k \in 1 .. 3 /\ Len(p) = k + (L - 1)
    BY <1>2 DEF k
  <2>2. L \in Nat \ {0}
    BY <1>1 DEF L
  <2>3. Len(p) \in Nat \ {0}
    BY <2>1, <2>2
  <2>4. Len(new) \in Nat
    BY <1>4
  <2> QED
    BY <1>3, <2>1, <2>3, <2>4 DEF Places
<1>14. \A n \in 1 .. i : p[n] = text[n] /\ p[n].end = "delim"
  <2> TAKE n \in 1 .. i
  <2>1. p[n] = text[n]
    BY <1>2
  <2>2. n \in 1 .. L - 1
    BY <1>1
  <2> QED
    BY <1>1, <2>1, <2>2
<1>6. ASSUME NEW n \in 1 .. i + 1 PROVE h[n] = n
  <2>1. n \in 1 .. Len(p) /\ 1 \in 1 .. Len(p) /\ n \in 1 .. n
    BY <1>1, <1>5
  <2>2. \A m \in 1 .. n - 1 : p[m].end = "delim"
    BY <1>14
  <2>4. Len(p) \in Nat /\ n \in 1 .. Len(p) /\ 1 <= n
    BY <1>5, <2>1
  <2>3. h[n] = h[1] + (n - 1)
    BY <1>3, <2>1, <2>2, <2>4, PlacesCount
  <2> QED
    BY <1>5, <2>3
<1>7. ASSUME NEW n \in i + 2 .. L
      PROVE  /\ n + k - 1 \in 1 .. Len(p) /\ p[n + k - 1] = text[n]
             /\ h[n + k - 1] = n + (Len(new) - L)
  <2>1. \A m \in i + 2 .. L : /\ m - i - 1 \in 1 .. L - i - 1 /\ i + k + (m - i - 1) = m + k - 1
                              /\ i + 1 + (m - i - 1) = m /\ m + k - 1 \in 1 .. Len(p)
    BY <1>1, <1>5
  <2>8. \A m \in 1 .. L - i - 1 : p[i + k + m] = text[i + 1 + m]
    BY <1>2 DEF k
  <2>2. \A m \in i + 2 .. L : p[m + k - 1] = text[m]
    <3> TAKE m \in i + 2 .. L
    <3>1. p[i + k + (m - i - 1)] = text[i + 1 + (m - i - 1)]
      BY <2>1, <2>8
    <3> QED
      BY <2>1, <3>1
  <2> DEFINE q == n + k - 1
             last == Len(p)
  <2>3. q \in 1 .. last /\ last \in q .. last /\ last - q = L - n
    BY <1>1, <1>5, <2>1
  <2>4. \A m \in q .. last - 1 : p[m].end = "delim"
    <3> TAKE m \in q .. last - 1
    <3> DEFINE j == m - k + 1
    <3>1. j \in i + 2 .. L /\ j \in 1 .. L - 1 /\ j + k - 1 = m
      BY <1>1, <1>5, <2>3
    <3> HIDE DEF j
    <3> QED
      BY <1>1, <2>2, <3>1
  <2>5. h[last] = h[q] + (last - q)
    <3>1. q \in 1 .. Len(p) /\ last \in q .. Len(p) /\ Len(p) \in Nat
      BY <1>5, <2>3
    <3> HIDE DEF q, last
    <3> QED
      BY <1>3, <2>4, <3>1, PlacesCount
  <2>6. h[q] \in Nat
    <3>1. q \in 1 .. Len(p)
      BY <2>3
    <3>2. h \in [1 .. Len(p) -> Nat \ {0}]
      BY <1>5
    <3> HIDE DEF q
    <3> QED
      BY <3>1, <3>2
  <2> HIDE DEF q, last
  <2>7. h[q] = n + (Len(new) - L)
    <3>1. /\ h[last] = Len(new) /\ Len(new) \in Nat /\ last \in Nat /\ q \in Nat /\ n \in Nat
          /\ L \in Nat
      BY <1>1, <1>5, <2>3 DEF last
    <3> QED
      BY <2>3, <2>5, <2>6, <3>1
  <2> QED
    BY <2>1, <2>2, <2>7 DEF q
<1>8. ASSUME NEW m \in 1 .. k, NEW n \in m .. k
      PROVE  i + m \in 1 .. Len(p) /\ i + n \in 1 .. Len(p) /\ h[i + m] <= h[i + n]
  <2> DEFINE a == i + m
             b == i + n
  <2>1. a \in 1 .. Len(p) /\ b \in a .. Len(p) /\ b \in 1 .. Len(p)
    BY <1>1, <1>5
  <2> HIDE DEF a, b
  <2>2. h[a] <= h[b]
    BY <1>3, <1>5, <2>1, PlacesCount
  <2> QED
    BY <2>1, <2>2 DEF a, b
<1>9. ASSUME NEW n \in 1 .. k
      PROVE  /\ h[i + n] >= i + 1
             /\ p[i + n].src \subseteq text[i + 1].src
             /\ p[i + n].by \subseteq text[i + 1].by \cup {u}
  <2>1. 1 \in 1 .. k /\ n \in 1 .. k /\ i + 1 \in 1 .. i + 1
    BY <1>1, <1>5
  <2>2. h[i + 1] <= h[i + n] /\ h[i + 1] = i + 1 /\ i + n \in 1 .. Len(p)
    BY <1>6, <1>8, <2>1
  <2>3. h[i + n] \in Nat
    BY <1>5, <2>2
  <2> QED
    BY <1>2, <2>2, <2>3 DEF k
<1>10. ASSUME kind \notin {"after", "newline"} \/ i + 1 = L, NEW n \in 1 .. k
       PROVE  h[i + n] <= i + 1 + (Len(new) - L)
  <2>1. k \in n .. k /\ k \in 1 .. k /\ n \in 1 .. k
    BY <1>5
  <2>2. /\ h[i + n] <= h[i + k] /\ i + k \in 1 .. Len(p) /\ h[i + k] \in Nat /\ h[i + n] \in Nat
        /\ h[i + n] <= Len(new)
    BY <1>5, <1>8, <2>1
  <2>3. CASE i + 1 = L
    BY <1>1, <1>5, <2>2, <2>3
  <2>4. CASE i + 1 # L
    <3>1. i + 1 < L /\ i + 2 \in i + 2 .. L /\ (i + 2) + k - 1 = (i + k) + 1 /\ i + k \in 1 .. Len(p) - 1
      BY <1>1, <1>5, <2>4
    <3>2. h[(i + k) + 1] = (i + 2) + (Len(new) - L)
      <4>1. h[(i + 2) + k - 1] = (i + 2) + (Len(new) - L)
        BY <1>7, <3>1
      <4> QED
        BY <3>1, <4>1
    <3>3. p[i + k].end = "delim"
      BY <1>2, <1>10, <2>1, <2>4, <3>1 DEF k, L
    <3>4. h[(i + k) + 1] = h[i + k] + 1
      BY <1>3, <3>1, <3>3 DEF Places
    <3> QED
      BY <1>1, <1>5, <2>2, <3>2, <3>4, SMTT(30)
  <2> QED
    BY <2>3, <2>4
<1>11. \A n \in 1 .. i : p[n] = text[n] /\ h[n] = n
  BY <1>1, <1>2, <1>6
<1>12. \A m, n \in 1 .. k : m # n => p[i + m].src \cap p[i + n].src = {}
  BY <1>2 DEF k
<1>13. InsertPlaces(text, i, u, kind, p, k, h)
  BY <1>2, <1>3, <1>4, <1>5, <1>7, <1>9, <1>10, <1>11, <1>12 DEF InsertPlaces, new, L
<1> QED
  BY <1>13

\* The sentences of a session's text that are merged: that of its index and those the text has
\* grown by.
OwnPart(text, i, count) == {n \in DOMAIN text : i + 1 <= n /\ n <= i + 1 + (Len(text) - count)}

\* They continue the sources the session was opened on, and no two of them the same.
Apart(text, i, count, own) ==
    /\ \A n \in OwnPart(text, i, count) : text[n].src \subseteq own
    /\ \A m, n \in OwnPart(text, i, count) : m # n => text[m].src \cap text[n].src = {}

\* A WRITE keeps them so.
LEMMA InsertApart ==
    ASSUME NEW text, IsParsed(text), NEW i \in Nat, NEW u \in Users, NEW kind \in EditKinds,
           i < Len(text), NEW count \in 0 .. Len(text), NEW own, Apart(text, i, count, own)
    PROVE  Apart(InsertWord(text, i, u, kind), i, count, own)
<1> DEFINE new == InsertWord(text, i, u, kind)
           L == Len(text)
<1>1. text \in Seq(Sentence) /\ L \in Nat /\ i + 1 \in 1 .. L
  BY DEF IsParsed
<1>2. PICK p, k, h : InsertPlaces(text, i, u, kind, p, k, h)
  BY InsertPlacesExist
<1>13. new \in Seq(Sentence)
  BY <1>2 DEF InsertPlaces
<1>3. /\ new \in Seq(Sentence) /\ Len(new) \in Nat /\ Places(h, p, new)
      /\ k \in 1 .. 3 /\ Len(p) = k + (L - 1)
      /\ \A n \in 1 .. i : h[n] = n
      /\ \A n \in 1 .. k : p[i + n].src \subseteq text[i + 1].src
      /\ \A m, n \in 1 .. k : m # n => p[i + m].src \cap p[i + n].src = {}
      /\ \A n \in i + 2 .. L : /\ p[n + k - 1] = text[n]
                               /\ h[n + k - 1] = n + (Len(new) - L)
  <2>1. Len(new) \in Nat
    BY <1>13
  <2> QED
    BY <1>2, <2>1 DEF InsertPlaces
<1> HIDE DEF new, L
\* A sentence of the stretch is made of pieces of the written sentence and of sentences
\* of the old stretch.
<1>4. ASSUME NEW n \in OwnPart(new, i, count), NEW x \in new[n].src
      PROVE  \/ \E q \in 1 .. k : h[i + q] = n /\ x \in p[i + q].src /\ x \in text[i + 1].src
             \/ \E m \in OwnPart(text, i, count) :
                   m # i + 1 /\ x \in text[m].src /\ m + (Len(new) - L) = n
  <2>1. n \in 1 .. Len(new) /\ i + 1 <= n /\ n <= i + 1 + (Len(new) - count)
    BY <1>3 DEF OwnPart
  <2>2. PICK q \in 1 .. Len(p) : h[q] = n /\ x \in p[q].src
    BY <1>3, <2>1 DEF Places
  <2>3. q \notin 1 .. i
    BY <1>1, <1>3, <2>1, <2>2, SMTT(30)
  <2>4. CASE q \in i + 1 .. i + k
    <3>1. q - i \in 1 .. k /\ i + (q - i) = q
      BY <1>1, <1>3, <2>4, SMTT(30)
    <3> QED
      BY <1>3, <2>2, <3>1
  <2>5. CASE q \notin i + 1 .. i + k
    <3> DEFINE m == q - k + 1
    <3>1. m \in i + 2 .. L /\ m + k - 1 = q
      BY <1>1, <1>3, <2>3, <2>5
    <3> HIDE DEF m
    <3>2. p[q] = text[m] /\ n = m + (Len(new) - L)
      BY <1>3, <2>2, <3>1
    <3>3. m <= i + 1 + (L - count) /\ m \in 1 .. L /\ m # i + 1 /\ i + 1 <= m
      BY <1>1, <1>3, <2>1, <3>1, <3>2, SMTT(30) DEF L
    <3>4. m \in OwnPart(text, i, count)
      BY <1>1, <3>3 DEF OwnPart, L
    <3> QED
      BY <2>2, <3>2, <3>3, <3>4
  <2> QED
    BY <2>4, <2>5
<1>5. i + 1 \in OwnPart(text, i, count)
  BY <1>1 DEF OwnPart, L
<1>6. ASSUME NEW n \in OwnPart(new, i, count) PROVE new[n].src \subseteq own
  BY <1>4, <1>5 DEF Apart
<1>7. ASSUME NEW m \in OwnPart(new, i, count), NEW n \in OwnPart(new, i, count), m # n,
             NEW x \in new[m].src, x \in new[n].src
      PROVE  FALSE
  <2>1. CASE \E q \in 1 .. k : h[i + q] = m /\ x \in p[i + q].src /\ x \in text[i + 1].src
    <3>1. CASE \E q \in 1 .. k : h[i + q] = n /\ x \in p[i + q].src
      BY <1>3, <1>7, <2>1, <3>1
    <3>2. CASE \E j \in OwnPart(text, i, count) : j # i + 1 /\ x \in text[j].src
      BY <1>5, <2>1, <3>2 DEF Apart
    <3> QED
      BY <1>4, <1>7, <3>1, <3>2
  <2>2. CASE \E j \in OwnPart(text, i, count) :
                j # i + 1 /\ x \in text[j].src /\ j + (Len(new) - L) = m
    <3>1. CASE \E q \in 1 .. k : x \in text[i + 1].src
      BY <1>5, <2>2, <3>1 DEF Apart
    <3>2. CASE \E j \in OwnPart(text, i, count) : x \in text[j].src /\ j + (Len(new) - L) = n
      BY <1>7, <2>2, <3>2 DEF Apart
    <3> QED
      BY <1>4, <1>7, <3>1, <3>2
  <2> QED
    BY <1>4, <1>7, <2>1, <2>2
<1> QED
  BY <1>6, <1>7 DEF Apart, new

\* The first words of an empty document continue no sentence.
LEMMA InsertFirst ==
    ASSUME NEW u \in Users, NEW kind \in EditKinds, NEW own
    PROVE  Apart(InsertWord(<<>>, 0, u, kind), 0, 0, own)
<1> DEFINE text == <<Blank>>
<1>1. IsParsed(text) /\ Len(text) = 1 /\ text[1].src = {}
  BY BlankTyped DEF IsParsed, Blank
<1>2. InsertWord(<<>>, 0, u, kind) = InsertWord(text, 0, u, kind)
  BY DEF InsertWord
<1> HIDE DEF text
<1>3. Apart(text, 0, 0, own)
  <2>1. \A n \in OwnPart(text, 0, 0) : n = 1
    BY <1>1 DEF OwnPart, IsParsed
  <2> QED
    BY <1>1, <2>1 DEF Apart
<1>4. 0 < Len(text) /\ 0 \in 0 .. Len(text)
  BY <1>1
<1> QED
  BY <1>1, <1>2, <1>3, <1>4, InsertApart

\* The users with words in the stretch of a session's text that is merged: its sentence and
\* those the text has grown by.
Own(text, i, count) == UNION {text[n].by : n \in i + 1 .. i + 1 + (Len(text) - count)}

\* A WRITE leaves no fewer sentences, and takes no words out of that stretch.
LEMMA InsertGrows ==
    ASSUME NEW text, IsParsed(text), NEW i \in Nat, NEW u \in Users, NEW kind \in EditKinds,
           i < Len(text)
    PROVE  LET new == InsertWord(text, i, u, kind) IN
           /\ Len(text) <= Len(new)
           /\ \A count \in i + 1 .. Len(text) : Own(text, i, count) \subseteq Own(new, i, count)
<1> DEFINE new == InsertWord(text, i, u, kind)
           L == Len(text)
<1>1. text \in Seq(Sentence) /\ L \in Nat /\ i + 1 \in 1 .. L
      /\ \A n \in 1 .. L - 1 : text[n].end = "delim"
  BY DEF IsParsed
<1>0. PICK middle, p : InsertedPieces(text, i, u, kind, middle, p)
  BY InsertPieces
<1>2. /\ middle \in Seq(Sentence) /\ p \in Seq(Sentence)
      /\ new = ParseFile(p)
      /\ Len(middle) \in 1 .. 3
      /\ Len(p) = Len(middle) + (L - 1)
      /\ \A n \in 1 .. i : p[n] = text[n]
      /\ \A n \in 1 .. Len(middle) : p[i + n] = middle[n]
      /\ \A n \in 1 .. L - i - 1 : p[i + Len(middle) + n] = text[i + 1 + n]
      /\ \/ \E t \in Sentence : /\ text[i + 1].by \subseteq t.by /\ middle[1] = t
                                /\ i + 1 < L => Len(middle) = 1 /\ t.end = "delim"
         \/ \E t \in Sentence : /\ t.end = "delim" /\ middle[1] = t /\ middle[2] = text[i + 1]
                                /\ Len(middle) >= 2
                                /\ i + 1 < L => Len(middle) = 2
         \/ \E t \in Sentence : /\ text[i + 1].end = "delim" /\ middle[1] = text[i + 1]
                                /\ i + 1 < L => Len(middle) = 2
  BY <1>0 DEF InsertedPieces
<1>3. PICK h : Places(h, p, new)
  BY <1>2, PlacesExist
<1>4. /\ h \in [1 .. Len(p) -> Nat \ {0}] /\ h[1] = 1 /\ Len(new) = h[Len(p)]
      /\ \A n \in 1 .. Len(p) : h[n] <= Len(new) /\ p[n].by \subseteq new[h[n]].by
  BY <1>1, <1>2, <1>3 DEF Places
<1>5. Len(p) \in Nat /\ i + 1 \in 1 .. Len(p) /\ Len(new) \in Nat
  BY <1>1, <1>2, <1>4
<1>6. h[i + 1] = i + 1
  <2>1. \A k \in 1 .. (i + 1) - 1 : p[k].end = "delim"
    BY <1>1, <1>2, SMTT(30)
  <2>2. 1 \in 1 .. Len(p) /\ i + 1 \in 1 .. Len(p)
    BY <1>5
  <2>3. h[i + 1] = h[1] + ((i + 1) - 1)
    <3> HIDE DEF new
    <3>1. PICK n : n = i + 1
      OBVIOUS
    <3>2. Len(p) \in Nat /\ 1 \in 1 .. Len(p) /\ n \in 1 .. Len(p)
      BY <1>5, <2>2, <3>1
    <3>3. \A k \in 1 .. n - 1 : p[k].end = "delim"
      BY <2>1, <3>1
    <3>4. h[n] = h[1] + (n - 1)
      BY <1>3, <3>2, <3>3, PlacesCount
    <3> QED
      BY <3>1, <3>4
  <2> QED
    BY <1>4, <1>5, <2>3
<1>7. middle[2] = text[i + 1] /\ middle[1].end = "delim" /\ Len(middle) >= 2 =>
         i + 2 \in 1 .. Len(p) /\ h[i + 2] = i + 2 /\ p[i + 2] = text[i + 1]
  <2> SUFFICES ASSUME middle[2] = text[i + 1], middle[1].end = "delim", Len(middle) >= 2
               PROVE  i + 2 \in 1 .. Len(p) /\ h[i + 2] = i + 2 /\ p[i + 2] = text[i + 1]
    OBVIOUS
  <2>1. i + 2 \in 1 .. Len(p) /\ i + 1 \in 1 .. Len(p) - 1 /\ (i + 1) + 1 = i + 2
    BY <1>1, <1>2
  <2>2. p[i + 1] = middle[1] /\ p[i + 2] = middle[2]
    BY <1>1, <1>2
  <2>3. h[i + 2] = h[i + 1] + 1
    BY <1>3, <2>1, <2>2 DEF Places
  <2> QED
    BY <1>6, <2>1, <2>2, <2>3
<1>8. CASE i + 1 = L
  <2>1. h[i + 1] <= Len(new)
    BY <1>4, <1>5
  <2>2. \E j \in i + 1 .. Len(new) : text[i + 1].by \subseteq new[j].by
    <3>1. CASE text[i + 1].by \subseteq middle[1].by
      <4>1. p[i + 1] = middle[1]
        BY <1>2
      <4>2. i + 1 \in i + 1 .. Len(new)
        BY <1>1, <1>5, <1>6, <2>1
      <4>3. text[i + 1].by \subseteq new[i + 1].by
        BY <1>4, <1>5, <1>6, <3>1, <4>1
      <4> QED
        BY <4>2, <4>3
    <3>2. CASE middle[2] = text[i + 1] /\ middle[1].end = "delim" /\ Len(middle) >= 2
      <4>1. i + 2 \in i + 1 .. Len(new)
        BY <1>1, <1>4, <1>5, <1>7, <3>2
      <4>2. text[i + 1].by \subseteq new[i + 2].by
        BY <1>4, <1>7, <3>2
      <4> QED
        BY <4>1, <4>2
    <3> QED
      BY <1>2, <3>1, <3>2
  <2>3. ASSUME NEW count \in i + 1 .. L
        PROVE  Own(text, i, count) \subseteq Own(new, i, count)
    <3>1. count = L /\ i + 1 + (Len(text) - count) = i + 1 /\ i + 1 + (Len(new) - count) = Len(new)
      <4>1. L \in Nat /\ Len(new) \in Nat /\ i + 1 = L /\ count \in i + 1 .. L
        BY <1>1, <1>5, <1>8
      <4>2. count = L
        BY <4>1
      <4> HIDE DEF new
      <4> QED
        BY <4>1, <4>2
    <3>2. Own(text, i, count) = text[i + 1].by
      <4>1. i + 1 .. i + 1 = {i + 1}
        BY <1>1
      <4> QED
        BY <3>1, <4>1 DEF Own
    <3> QED
      BY <2>2, <3>1, <3>2 DEF Own
  <2>4. Len(text) <= Len(new)
    BY <1>1, <1>5, <1>6, <1>8, <2>1
  <2> QED
    BY <2>3, <2>4
<1>9. CASE i + 1 < L
  <2>1. Len(middle) \in 1 .. 2
    BY <1>2, <1>9
  <2>2. PICK d \in 0 .. 1 : /\ d <= Len(middle) - 1
                            /\ Len(new) = L + d
                            /\ \A n \in i + 2 .. L : text[n].by \subseteq new[n + d].by
    <3> DEFINE b == i + Len(middle) + 1
    <3>1. b \in 1 .. Len(p)
      BY <1>1, <1>2, <1>9, <2>1
    <3>2. \A n \in i + 2 .. L : /\ (n - i - 1) \in 1 .. L - i - 1
                                /\ n + Len(middle) - 1 = i + Len(middle) + (n - i - 1)
                                /\ i + 1 + (n - i - 1) = n
                                /\ n + Len(middle) - 1 \in b .. Len(p)
                                /\ (n + Len(middle) - 1) - b = n - i - 2
      BY <1>1, <1>2, <2>1
    <3>3. \A n \in i + 2 .. L : p[n + Len(middle) - 1] = text[n]
      BY <1>2, <3>2
    <3>4. ASSUME NEW k \in b .. Len(p) - 1 PROVE p[k].end = "delim"
      <4> DEFINE n == k - Len(middle) + 1
      <4>1. n \in i + 2 .. L - 1 /\ n + Len(middle) - 1 = k
        BY <1>1, <1>2, <1>5, <2>1
      <4> HIDE DEF n
      <4>2. n \in i + 2 .. L /\ n \in 1 .. L - 1
        BY <1>1, <4>1
      <4>3. p[k] = text[n]
        BY <3>3, <4>1, <4>2
      <4> QED
        BY <1>1, <4>2, <4>3
    <3>5. \A n \in i + 2 .. L : h[n + Len(middle) - 1] = h[b] + (n - i - 2)
      <4> TAKE n \in i + 2 .. L
      <4> DEFINE m == n + Len(middle) - 1
      <4>1. m \in b .. Len(p) /\ m - b = n - i - 2
        BY <3>2
      <4>2. \A k \in b .. m - 1 : p[k].end = "delim"
        <5>1. \A k \in b .. m - 1 : k \in b .. Len(p) - 1
          BY <1>5, <3>1, <4>1
        <5> QED
          BY <3>4, <5>1
      <4>3. h[m] = h[b] + (m - b)
        <5>1. m \in 1 .. Len(p) /\ b <= m
          BY <1>5, <3>1, <4>1
        <5> HIDE DEF m, b
        <5> QED
          BY <1>3, <3>1, <4>2, <5>1, PlacesCount
      <4> QED
        BY <4>1, <4>3
    <3>6. PICK d \in 0 .. 1 : d <= Len(middle) - 1 /\ h[b] = i + 2 + d
      <4>1. CASE Len(middle) = 1
        <5>1. b = (i + 1) + 1 /\ i + 1 \in 1 .. Len(p) - 1
          BY <1>5, <3>1, <4>1
        <5>2. p[i + 1].end = "delim"
          BY <1>2, <1>9, <4>1
        <5>3. h[b] = h[i + 1] + 1
          BY <1>3, <5>1, <5>2 DEF Places
        <5> QED
          BY <1>6, <4>1, <5>3
      <4>2. CASE Len(middle) = 2
        <5>1. b = (i + 2) + 1 /\ i + 2 = (i + 1) + 1 /\ i + 1 \in 1 .. Len(p) - 1 /\ i + 2 \in 1 .. Len(p) - 1
          BY <1>1, <1>5, <3>1, <4>2
        <5>2. p[i + 1].end = "delim"
          BY <1>2, <1>9, <4>2
        <5>3. h[i + 2] = i + 2
          BY <1>3, <1>6, <5>1, <5>2 DEF Places
        <5>4. h[b] \in {i + 2, i + 3}
          BY <1>3, <5>1, <5>3 DEF Places
        <5> HIDE DEF b
        <5>5. CASE h[b] = i + 2
          <6>1. 0 \in 0 .. 1 /\ 0 <= Len(middle) - 1 /\ h[b] = i + 2 + 0
            BY <4>2, <5>5
          <6> QED
            BY <6>1
        <5>6. CASE h[b] = i + 3
          <6>1. 1 \in 0 .. 1 /\ 1 <= Len(middle) - 1 /\ h[b] = i + 2 + 1
            BY <4>2, <5>6
          <6> QED
            BY <6>1
        <5> QED
          BY <5>4, <5>5, <5>6
      <4>3. Len(middle) = 1 \/ Len(middle) = 2
        BY <2>1
      <4> HIDE DEF b
      <4> QED
        BY <4>1, <4>2, <4>3
    <3>7. \A n \in i + 2 .. L : h[n + Len(middle) - 1] = n + d /\ n + Len(middle) - 1 \in 1 .. Len(p)
      <4> TAKE n \in i + 2 .. L
      <4>1. n + Len(middle) - 1 \in 1 .. Len(p)
        BY <3>1, <3>2
      <4>2. h[n + Len(middle) - 1] = h[b] + (n - i - 2)
        BY <3>5
      <4>3. (i + 2 + d) + (n - i - 2) = n + d
        BY <1>1, <3>6
      <4> HIDE DEF b
      <4> QED
        BY <3>6, <4>1, <4>2, <4>3
    <3>8. L \in i + 2 .. L /\ L + Len(middle) - 1 = Len(p)
      BY <1>1, <1>2, <1>9
    <3> HIDE DEF b
    <3>9. Len(new) = L + d
      BY <1>4, <3>7, <3>8
    <3>10. \A n \in i + 2 .. L : text[n].by \subseteq new[n + d].by
      BY <1>4, <3>3, <3>7
    <3> QED
      BY <3>6, <3>9, <3>10
  <2>3. \E j \in i + 1 .. i + 1 + d : text[i + 1].by \subseteq new[j].by
    <3>1. p[i + 1] = middle[1]
      BY <1>2
    <3>2. CASE text[i + 1].by \subseteq middle[1].by
      <4>1. text[i + 1].by \subseteq new[i + 1].by /\ i + 1 \in i + 1 .. i + 1 + d
        <5>1. p[i + 1].by \subseteq new[i + 1].by
          BY <1>4, <1>5, <1>6
        <5>2. i + 1 \in i + 1 .. i + 1 + d
          BY <1>1, <2>2
        <5> QED
          BY <3>1, <3>2, <5>1, <5>2
      <4> QED
        BY <4>1
    <3>3. CASE ~(text[i + 1].by \subseteq middle[1].by)
      <4>1. middle[2] = text[i + 1] /\ middle[1].end = "delim" /\ Len(middle) = 2
        BY <1>2, <1>9, <3>3
      <4>2. i + 2 \in 1 .. Len(p) /\ h[i + 2] = i + 2 /\ p[i + 2] = text[i + 1]
        BY <1>7, <4>1
      <4>3. text[i + 1].by \subseteq new[i + 2].by
        BY <1>4, <4>2
      <4>4. d = 1
        <5>1. \A n \in 1 .. Len(p) - 1 : p[n].end = "delim"
          <6> TAKE n \in 1 .. Len(p) - 1
          <6>1. CASE n \in 1 .. i
            BY <1>1, <1>2, <6>1
          <6>2. CASE n = i + 1
            BY <3>1, <4>1, <6>2
          <6>3. CASE n = i + 2
            BY <1>1, <1>9, <4>2, <6>3
          <6>4. CASE n \in i + 3 .. Len(p) - 1
            <7>1. /\ n - i - 2 \in 1 .. L - i - 1 /\ i + Len(middle) + (n - i - 2) = n
                  /\ i + 1 + (n - i - 2) \in 1 .. L - 1
              BY <1>1, <1>2, <4>1, <6>4
            <7>2. PICK q : q = n - i - 2
              OBVIOUS
            <7>3. q \in 1 .. L - i - 1 /\ i + Len(middle) + q = n /\ i + 1 + q \in 1 .. L - 1
              BY <7>1, <7>2
            <7>4. p[n] = text[i + 1 + q]
              BY <1>2, <7>3
            <7>5. text[i + 1 + q].end = "delim"
              BY <1>1, <7>3
            <7> QED
              BY <7>4, <7>5
          <6> QED
            BY <1>1, <1>5, <6>1, <6>2, <6>3, <6>4
        <5>2. h[Len(p)] = h[1] + (Len(p) - 1)
          <6>1. 1 \in 1 .. Len(p) /\ Len(p) \in 1 .. Len(p)
            BY <1>5
          <6> QED
            <7> DEFINE last == Len(p)
            <7>1. last \in 1 .. Len(p) /\ 1 <= last /\ \A n \in 1 .. last - 1 : p[n].end = "delim"
              BY <1>5, <5>1
            <7>2. h[last] = h[1] + (last - 1)
              <8> HIDE DEF last
              <8> QED
                BY <1>3, <6>1, <7>1, PlacesCount
            <7> QED
              BY <7>2
        <5>3. Len(new) = L + 1
          BY <1>1, <1>2, <1>4, <4>1, <5>2
        <5> QED
          BY <1>1, <2>2, <5>3
      <4>5. i + 2 \in i + 1 .. i + 1 + d
        BY <4>4
      <4> QED
        BY <4>3, <4>5
    <3> QED
      BY <3>2, <3>3
  <2>4. ASSUME NEW count \in i + 1 .. L
        PROVE  Own(text, i, count) \subseteq Own(new, i, count)
    <3>1. ASSUME NEW n \in i + 1 .. i + 1 + (L - count)
          PROVE  \E j \in i + 1 .. i + 1 + (Len(new) - count) : text[n].by \subseteq new[j].by
      <4>1. CASE n = i + 1
        <5>1. \A j \in i + 1 .. i + 1 + d : j \in i + 1 .. i + 1 + (Len(new) - count)
          BY <1>1, <2>2, <2>4
        <5> QED
          BY <2>3, <4>1, <5>1
      <4>2. CASE n # i + 1
        <5>1. n \in i + 2 .. L /\ n + d \in i + 1 .. i + 1 + (Len(new) - count)
          BY <1>1, <2>2, <2>4, <3>1, <4>2
        <5> QED
          BY <2>2, <5>1
      <4> QED
        BY <4>1, <4>2
    <3> QED
      BY <3>1 DEF Own
  <2> QED
    BY <1>1, <2>2, <2>4
<1> QED
  BY <1>1, <1>8, <1>9

\* A WRITE behind the last sentence leaves no fewer sentences either.
LEMMA AppendGrows ==
    ASSUME NEW text, IsParsed(text), text # <<>>, NEW u \in Users, NEW kind \in EditKinds
    PROVE  Len(text) <= Len(InsertWord(text, Len(text), u, kind))
<1> DEFINE L == Len(text)
           base == Append(text, Blank)
           pieces == PiecesOf(base[L + 1], u, kind)
           slot == IF /\ kind \in {"split", "end"}
                      /\ L + 1 = Len(base)
                      /\ pieces[Len(pieces)].end = "delim"
                   THEN <<Blank>> ELSE <<>>
           rest == SubSeq(base, L + 2, Len(base))
           tail == pieces \o slot \o rest
           p == text \o tail
           new == InsertWord(text, L, u, kind)
<1>1. text \in Seq(Sentence) /\ L \in Nat \ {0} /\ \A n \in 1 .. L - 1 : text[n].end = "delim"
  BY DEF IsParsed
<1>2. base \in Seq(Sentence) /\ Len(base) = L + 1 /\ base[L + 1] = Blank /\ SubSeq(base, 1, L) = text
  BY <1>1, BlankTyped
<1>3. pieces \in Seq(Sentence)
  BY <1>2, BlankTyped, PiecesTyped
<1>4. slot \in Seq(Sentence) /\ rest \in Seq(Sentence)
  BY <1>1, <1>2, BlankTyped, Stretch
<1>5. new = ParseFile(text \o pieces \o slot \o rest)
  BY <1>1, <1>2 DEF InsertWord
<1> HIDE DEF pieces, slot, rest, base
<1>6. tail \in Seq(Sentence) /\ text \o pieces \o slot \o rest = p
  <2>1. pieces \o slot \in Seq(Sentence)
    BY <1>3, <1>4
  <2>2. tail \in Seq(Sentence)
    BY <1>4, <2>1
  <2>3. (text \o pieces) \o slot = text \o (pieces \o slot)
    BY <1>1, <1>3, <1>4, ConcatAssociative, SMTT(30)
  <2>4. (text \o (pieces \o slot)) \o rest = text \o ((pieces \o slot) \o rest)
    BY <1>1, <1>4, <2>1, ConcatAssociative, SMTT(30)
  <2> QED
    BY <2>2, <2>3, <2>4
<1> HIDE DEF tail
<1>7. /\ p \in Seq(Sentence) /\ Len(p) = L + Len(tail) /\ Len(tail) \in Nat
      /\ \A n \in 1 .. L : p[n] = text[n]
  BY <1>1, <1>6, ConcatParts
<1>8. PICK h : Places(h, p, new)
  BY <1>5, <1>6, <1>7, PlacesExist
<1>9. L \in 1 .. Len(p) /\ 1 \in 1 .. Len(p) /\ Len(p) \in Nat /\ 1 <= L
  BY <1>1, <1>7
<1>10. h[L] = h[1] + (L - 1)
  <2>1. \A n \in 1 .. L - 1 : p[n].end = "delim"
    BY <1>1, <1>7
  <2> HIDE DEF L, p
  <2> QED
    BY <1>8, <1>9, <2>1, PlacesCount
<1>11. h[1] = 1 /\ h[L] <= Len(new)
  BY <1>8, <1>9 DEF Places
<1> QED
  BY <1>9, <1>10, <1>11

\* Text `new` is text `old` with more put in, at sentence i if anywhere.
Grown(old, new, i) ==
    /\ Len(old) <= Len(new)
    /\ Marks(old) \subseteq Marks(new)
    /\ Len(old) = Len(new) => \A n \in 1 .. Len(old) : n # i + 1 => new[n] = old[n]

\* Merging a session replaces one sentence of the document, at the adjusted index, with the
\* session's sentence and those its text has grown by, whatever the document has grown by.
IsMerged(current, text, i, new, a, g) ==
    /\ new \in Seq(Sentence) /\ Len(new) = Len(current) + g
    /\ a \in Nat /\ a < Len(current) /\ g \in Nat
    /\ \A n \in 1 .. a : new[n] = current[n]
    /\ \A n \in 1 .. 1 + g : new[a + n] = text[i + n]
    /\ \A m \in a + 2 .. Len(current) : new[m + g] = current[m]

LEMMA MergeParts ==
    ASSUME NEW current, IsParsed(current), NEW text, IsParsed(text), NEW i \in Nat, NEW count \in Nat,
           i < count, count <= Len(current), count <= Len(text)
    PROVE  IsMerged(current, text, i, MergeCommit(current, text, count, i),
                    i + (Len(current) - count), Len(text) - count)
<1> DEFINE c == Len(current)
           L == Len(text)
           a == i + (c - count)
           g == L - count
           front == SubSeq(current, 1, a)
           own == SubSeq(text, i + 1, i + 1 + g)
           rest == SubSeq(current, a + 2, c)
           p == front \o own \o rest
           new == MergeCommit(current, text, count, i)
<1>0. /\ current \in Seq(Sentence) /\ c \in Nat /\ text \in Seq(Sentence) /\ L \in Nat
      /\ \A n \in 1 .. c - 1 : current[n].end = "delim"
      /\ \A n \in 1 .. L - 1 : text[n].end = "delim"
  BY DEF IsParsed
<1>1. /\ current \in Seq(Sentence) /\ c \in Nat /\ text \in Seq(Sentence) /\ L \in Nat
      /\ g \in Nat /\ a \in Nat /\ a + 1 \in 1 .. c /\ i + 1 + g <= L /\ current # <<>>
      /\ i + 1 + g = L => a + 1 = c
      /\ \A n \in 1 .. c - 1 : current[n].end = "delim"
      /\ \A n \in 1 .. L - 1 : text[n].end = "delim"
  <2>1. c \in Nat /\ L \in Nat /\ i < count /\ count <= c /\ count <= L
    BY <1>0
  <2>2. current # <<>>
    BY <2>1
  <2> HIDE DEF c, L
  <2>3. /\ g \in Nat /\ a \in Nat /\ a + 1 \in 1 .. c /\ i + 1 + g <= L
        /\ i + 1 + g = L => a + 1 = c
    BY <2>1
  <2> HIDE DEF a, g
  <2> QED
    BY <1>0, <2>2, <2>3
<1>2. new = ParseFile(p)
  <2>1. AdjustedIndex(current, count, i) = a
    BY DEF AdjustedIndex
  <2> DEFINE last == IF i + (1 + (L - count)) < L THEN i + (1 + (L - count)) ELSE L
  <2>2. last = i + 1 + g
    <3>1. L \in Nat /\ L - count \in Nat /\ i + 1 <= count
      BY <1>1
    <3> HIDE DEF L, c
    <3> QED
      BY <3>1
  <2>3. new = ParseFile(SubSeq(current, 1, AdjustedIndex(current, count, i))
                        \o SubSeq(text, i + 1, last)
                        \o SubSeq(current, AdjustedIndex(current, count, i) + 2, c))
    BY <1>1 DEF MergeCommit
  <2> HIDE DEF last, c, a, g
  <2> QED
    BY <2>1, <2>2, <2>3 DEF c
<1> HIDE DEF new
<1>3. /\ front \in Seq(Sentence) /\ Len(front) = a
      /\ \A n \in 1 .. a : front[n] = current[n]
  <2> HIDE DEF a
  <2> QED
    BY <1>1
<1>4. /\ own \in Seq(Sentence) /\ Len(own) = 1 + g
      /\ \A n \in 1 .. 1 + g : own[n] = text[i + n]
  <2> DEFINE lo == i + 1
             hi == i + 1 + g
  <2>1. lo \in 1 .. L + 1 /\ hi \in lo - 1 .. L /\ (hi - lo) + 1 = 1 + g
    BY <1>1, SMTT(30)
  <2>2. \A n \in lo .. hi : text[n] \in Sentence
    BY <1>1, <2>1
  <2> HIDE DEF lo, hi, g, a
  <2>3. /\ SubSeq(text, lo, hi) \in Seq(Sentence) /\ Len(SubSeq(text, lo, hi)) = hi - lo + 1
        /\ \A n \in 1 .. hi - lo + 1 : SubSeq(text, lo, hi)[n] = text[lo + n - 1]
    BY <1>1, <2>1
  <2>4. \A n \in 1 .. hi - lo + 1 : lo + n - 1 = i + n
    BY <1>1 DEF lo
  <2> QED
    BY <2>1, <2>3, <2>4 DEF lo, hi
<1>5. /\ rest \in Seq(Sentence) /\ Len(rest) = c - a - 1
      /\ \A n \in 1 .. c - a - 1 : rest[n] = current[a + 1 + n]
  <2> HIDE DEF a
  <2> QED
    BY <1>1
<1> HIDE DEF front, own, rest
<1>6. /\ p \in Seq(Sentence) /\ Len(p) = (a + (1 + g)) + (c - a - 1)
      /\ \A n \in 1 .. a : p[n] = front[n]
      /\ \A n \in 1 .. 1 + g : p[a + n] = own[n]
      /\ \A n \in 1 .. c - a - 1 : p[a + (1 + g) + n] = rest[n]
  <2> DEFINE head == front \o own
  <2>1. /\ head \in Seq(Sentence) /\ Len(head) = a + (1 + g)
        /\ \A n \in 1 .. a : head[n] = front[n]
        /\ \A n \in 1 .. 1 + g : head[a + n] = own[n]
    <3>1. /\ head \in Seq(Sentence) /\ Len(head) = Len(front) + Len(own)
          /\ \A n \in 1 .. Len(front) : head[n] = front[n]
          /\ \A n \in 1 .. Len(own) : head[Len(front) + n] = own[n]
      BY <1>3, <1>4, ConcatParts
    <3> HIDE DEF g, c, a, head
    <3> QED
      BY <1>3, <1>4, <3>1
  <2> HIDE DEF head
  <2>2. /\ p \in Seq(Sentence) /\ Len(p) = Len(head) + Len(rest)
        /\ \A n \in 1 .. Len(head) : p[n] = head[n]
        /\ \A n \in 1 .. Len(rest) : p[Len(head) + n] = rest[n]
    BY <1>5, <2>1, ConcatParts DEF head
  <2> HIDE DEF a, g, c, p
  <2>3. (1 .. a) \subseteq 1 .. a + (1 + g) /\ \A n \in 1 .. 1 + g : a + n \in 1 .. a + (1 + g)
    <3>1. \A n \in 1 .. a : n \in 1 .. a + (1 + g)
      BY <1>1
    <3>2. \A n \in 1 .. 1 + g : a + n \in 1 .. a + (1 + g)
      BY <1>1
    <3> QED
      BY <3>1, <3>2
  <2> QED
    BY <1>5, <2>1, <2>2, <2>3
<1> HIDE DEF p, a, g, c, L
<1>7. Len(p) = c + g
  BY <1>1, <1>6
<1>8. \A n \in 1 .. a : p[n] = current[n]
  BY <1>3, <1>6
<1>9. \A n \in 1 .. 1 + g : p[a + n] = text[i + n]
  BY <1>4, <1>6
<1>10. \A m \in a + 2 .. c : m + g \in 1 .. c + g /\ p[m + g] = current[m]
  <2> TAKE m \in a + 2 .. c
  <2>1. /\ m - a - 1 \in 1 .. c - a - 1 /\ a + (1 + g) + (m - a - 1) = m + g
        /\ a + 1 + (m - a - 1) = m /\ m + g \in 1 .. c + g
    BY <1>1
  <2> QED
    BY <1>5, <1>6, <2>1
<1>11. new = p
  <2>1. ASSUME NEW n \in 1 .. (c + g) - 1 PROVE p[n].end = "delim"
    <3>1. CASE n \in 1 .. a
      BY <1>1, <1>8, <3>1
    <3>2. CASE n \in a + 1 .. a + 1 + g
      <4> DEFINE m == n - a
      <4>1. m \in 1 .. 1 + g /\ a + m = n /\ i + m \in 1 .. L /\ (i + m = L => a + 1 = c /\ m = 1 + g)
        <5>1. /\ c \in Nat /\ L \in Nat /\ g \in Nat /\ a \in Nat /\ i + 1 + g <= L
              /\ i + 1 + g = L => a + 1 = c
          BY <1>1
        <5>2. m \in 1 .. 1 + g /\ a + m = n
          BY <3>2, <5>1
        <5> HIDE DEF m
        <5> QED
          BY <5>1, <5>2
      <4> HIDE DEF m
      <4>2. i + m \in 1 .. L - 1
        BY <1>1, <4>1
      <4> QED
        BY <1>1, <1>9, <4>1, <4>2
    <3>3. CASE n \in a + 2 + g .. (c + g) - 1
      <4> DEFINE m == n - g
      <4>1. m \in a + 2 .. c /\ m \in 1 .. c - 1 /\ m + g = n
        BY <1>1, <3>3
      <4> HIDE DEF m
      <4> QED
        BY <1>1, <1>10, <4>1
    <3> QED
      BY <1>1, <3>1, <3>2, <3>3
  <2>2. IsParsed(p)
    BY <1>6, <1>7, <2>1 DEF IsParsed
  <2> QED
    BY <1>2, <2>2, ParsedIsParsed
<1>12. a < c
  BY <1>1
<1> QED
  BY <1>1, <1>6, <1>7, <1>8, <1>9, <1>10, <1>11, <1>12 DEF a, g, c, L, new, IsMerged

\* Merging a session into a document of the length it was opened on takes no words out of
\* the document, as long as the session's stretch has those of its sentence, and leaves the
\* other sentences as they are.
LEMMA MergeGrows ==
    ASSUME NEW current, IsParsed(current), NEW text, IsParsed(text), NEW i \in Nat,
           i < Len(current), Len(current) <= Len(text),
           current[i + 1].by \subseteq Own(text, i, Len(current))
    PROVE  LET new == MergeCommit(current, text, Len(current), i) IN
           /\ Grown(current, new, i)
           /\ \A m \in 1 .. Len(current) : m # i + 1 => \E n \in 1 .. Len(new) : new[n] = current[m]
<1> DEFINE c == Len(current)
           g == Len(text) - c
           new == MergeCommit(current, text, c, i)
<1>1. current \in Seq(Sentence) /\ c \in Nat /\ Len(text) \in Nat /\ i + (c - c) = i
  BY DEF IsParsed
<1>2. /\ new \in Seq(Sentence) /\ Len(new) = c + g /\ g \in Nat
      /\ \A n \in 1 .. i : new[n] = current[n]
      /\ \A n \in 1 .. 1 + g : new[i + n] = text[i + n]
      /\ \A m \in i + 2 .. c : new[m + g] = current[m]
  <2>1. i < c /\ c <= c /\ c <= Len(text)
    BY <1>1
  <2>2. IsMerged(current, text, i, new, i + (c - c), g)
    BY <1>1, <2>1, MergeParts
  <2>3. IsMerged(current, text, i, new, i, g)
    <3> HIDE DEF c, g, new
    <3> QED
      BY <1>1, <2>2
  <2> QED
    BY <2>3 DEF IsMerged
<1> HIDE DEF c, g, new
<1>12. ASSUME NEW m \in 1 .. c, m # i + 1
       PROVE  \E n \in 1 .. Len(new) : new[n] = current[m] /\ (g = 0 => n = m)
  <2>1. CASE m \in 1 .. i
    <3>1. m \in 1 .. Len(new)
      BY <1>1, <1>2
    <3> QED
      BY <1>2, <2>1, <3>1
  <2>2. CASE m \in i + 2 .. c
    <3>1. m + g \in 1 .. Len(new) /\ (g = 0 => m + g = m)
      BY <1>1, <1>2, <2>2
    <3> QED
      BY <1>2, <2>2, <3>1
  <2> QED
    BY <1>1, <1>12, <2>1, <2>2
<1>13. Marks(current) \subseteq Marks(new)
  <2> SUFFICES ASSUME NEW m \in 1 .. c, NEW x \in current[m].by PROVE x \in Marks(new)
    BY <1>1 DEF Marks, c
  <2>1. DOMAIN new = 1 .. Len(new)
    BY <1>2
  <2>2. CASE m = i + 1
    <3>1. PICK n \in i + 1 .. i + 1 + g : x \in text[n].by
      BY <2>2 DEF Own, c, g
    <3>2. n - i \in 1 .. 1 + g /\ i + (n - i) = n /\ n \in 1 .. Len(new)
      BY <1>1, <1>2, <3>1 DEF c
    <3>3. new[n] = text[n]
      BY <1>2, <3>2
    <3> QED
      BY <2>1, <3>1, <3>2, <3>3 DEF Marks
  <2>3. CASE m # i + 1
    BY <1>12, <2>1, <2>3 DEF Marks
  <2> QED
    BY <2>2, <2>3
<1>14. Grown(current, new, i)
  <2>1. Len(current) <= Len(new) /\ (Len(current) = Len(new) => g = 0)
    BY <1>1, <1>2 DEF c
  <2>2. ASSUME g = 0, NEW n \in 1 .. c, n # i + 1 PROVE new[n] = current[n]
    BY <1>12, <2>2
  <2> QED
    BY <1>13, <2>1, <2>2 DEF Grown, c
<1> QED
  BY <1>12, <1>14 DEF c, new

\* Nor does it make two sentences of one.
LEMMA MergeApart ==
    ASSUME NEW current, IsParsed(current), SourcesApart(current), NEW text, IsParsed(text),
           NEW i \in Nat, i < Len(current), Len(current) <= Len(text),
           Apart(text, i, Len(current), current[i + 1].src)
    PROVE  SourcesApart(MergeCommit(current, text, Len(current), i))
<1> DEFINE c == Len(current)
           g == Len(text) - c
           new == MergeCommit(current, text, c, i)
<1>1. /\ current \in Seq(Sentence) /\ c \in Nat /\ text \in Seq(Sentence) /\ Len(text) \in Nat
      /\ i + (c - c) = i /\ i + 1 \in 1 .. c
  BY DEF IsParsed
<1>2. /\ new \in Seq(Sentence) /\ Len(new) = c + g /\ g \in Nat
      /\ \A n \in 1 .. i : new[n] = current[n]
      /\ \A n \in 1 .. 1 + g : new[i + n] = text[i + n]
      /\ \A m \in i + 2 .. c : new[m + g] = current[m]
  <2>1. i < c /\ c <= c /\ c <= Len(text)
    BY <1>1
  <2>2. IsMerged(current, text, i, new, i + (c - c), g)
    BY <1>1, <2>1, MergeParts
  <2>3. IsMerged(current, text, i, new, i, g)
    <3> HIDE DEF c, g, new
    <3> QED
      BY <1>1, <2>2
  <2> QED
    BY <2>3 DEF IsMerged
<1> DEFINE own == current[i + 1].src
<1> HIDE DEF c, g, new
\* Each sentence is one of the document's others, or one of the session's.
<1>3. ASSUME NEW n \in 1 .. Len(new)
      PROVE  \/ /\ n \in OwnPart(text, i, c) /\ new[n] = text[n]
                /\ n \in i + 1 .. i + 1 + g
             \/ \E m \in 1 .. c : /\ m # i + 1 /\ new[n] = current[m]
                                  /\ n = IF m <= i THEN m ELSE m + g
  <2>1. CASE n \in 1 .. i
    <3>1. n \in 1 .. c /\ n # i + 1 /\ n <= i
      BY <1>1, <2>1
    <3> QED
      BY <1>2, <2>1, <3>1
  <2>2. CASE n \in i + 1 .. i + 1 + g
    <3>1. n - i \in 1 .. 1 + g /\ i + (n - i) = n
      BY <1>1, <1>2, <2>2
    <3>2. new[n] = text[n]
      BY <1>2, <3>1
    <3>3. n \in 1 .. Len(text) /\ i + 1 <= n /\ n <= i + 1 + (Len(text) - c)
      <4>1. g = Len(text) - c /\ g \in Nat /\ Len(text) \in Nat /\ c \in Nat /\ i + 1 <= c
        BY <1>1, <1>2 DEF g
      <4> QED
        BY <2>2, <4>1
    <3>4. n \in OwnPart(text, i, c)
      BY <1>1, <3>3 DEF OwnPart
    <3> QED
      BY <2>2, <3>2, <3>4
  <2>3. CASE n \in i + 2 + g .. c + g
    <3> DEFINE m == n - g
    <3>1. m \in i + 2 .. c /\ m \in 1 .. c /\ m + g = n /\ m # i + 1 /\ ~(m <= i)
      BY <1>1, <1>2, <2>3
    <3> HIDE DEF m
    <3> QED
      BY <1>2, <3>1
  <2> QED
    BY <1>1, <1>2, <2>1, <2>2, <2>3
<1>4. \A m \in 1 .. c : m # i + 1 => current[m].src \cap own = {}
  BY <1>1 DEF SourcesApart, c
<1>5. /\ \A n \in OwnPart(text, i, c) : text[n].src \subseteq own
      /\ \A m, n \in OwnPart(text, i, c) : m # n => text[m].src \cap text[n].src = {}
  BY DEF Apart, c
<1>6. \A m, n \in 1 .. c : m # n => current[m].src \cap current[n].src = {}
  BY <1>1 DEF SourcesApart, c
<1> HIDE DEF own
<1>7. ASSUME NEW m \in 1 .. Len(new), NEW n \in 1 .. Len(new), m # n
      PROVE  new[m].src \cap new[n].src = {}
  <2>1. CASE m \in OwnPart(text, i, c) /\ new[m] = text[m]
    <3>1. CASE n \in OwnPart(text, i, c) /\ new[n] = text[n]
      BY <1>5, <1>7, <2>1, <3>1
    <3>2. CASE \E j \in 1 .. c : j # i + 1 /\ new[n] = current[j]
      <4>1. new[n].src \cap own = {} /\ new[m].src \subseteq own
        BY <1>4, <1>5, <2>1, <3>2
      <4> QED
        BY <4>1
    <3> QED
      BY <1>3, <3>1, <3>2
  <2>2. CASE \E j \in 1 .. c : /\ j # i + 1 /\ new[m] = current[j]
                               /\ m = IF j <= i THEN j ELSE j + g
    <3>1. CASE n \in OwnPart(text, i, c) /\ new[n] = text[n]
      <4>1. new[m].src \cap own = {} /\ new[n].src \subseteq own
        BY <1>4, <1>5, <2>2, <3>1
      <4> QED
        BY <4>1
    <3>2. CASE \E j \in 1 .. c : /\ j # i + 1 /\ new[n] = current[j]
                                 /\ n = IF j <= i THEN j ELSE j + g
      BY <1>6, <1>7, <2>2, <3>2
    <3> QED
      BY <1>3, <3>1, <3>2
  <2> QED
    BY <1>3, <2>1, <2>2
<1> QED
  BY <1>2, <1>7 DEF SourcesApart, new, c

-----------------------------------------------------------------------------
(* Restored documents *)

\* The phases of requests that are answered without a look at the document.
QuietLabels == {"idle", "getlock", "takelock", "start", "unlock", "release", "delete"}

RestoreLabels == {"restore", "revert"}

\* A document that is open for writing is empty on disk.
TruncatedIsEmpty == Truncated => file = <<>>

\* A restore that met no edit in progress stays alone while it is under way.
RestoreAlone ==
    \A t \in Threads : pc[t] \in RestoreLabels =>
        /\ Active = {} /\ queue = <<>>
        /\ \A v \in Threads \ {t} : pc[v] \in QuietLabels

RestoreInv == unlinked = {} /\ TruncatedIsEmpty /\ RestoreAlone

\* Nobody edits a document that is not in use.
LEMMA NotInUse ==
    ASSUME ControlTypeOK, CommitTypeOK, LockInv, QueueInv, NEW t \in Threads, ~InUse(t),
           t \in Users => pc[t] = "idle"
    PROVE  /\ Active = {} /\ queue = <<>>
           /\ \A v \in Threads \ {t} : pc[v] = "idle"
           /\ \A v \in Users : pc[v] = "idle"
<1>1. \A v \in Threads \ {t} : pc[v] = "idle"
  BY DEF InUse
<1>2. \A v \in Users : pc[v] = "idle"
  BY <1>1 DEF Threads
<1>3. Active = {}
  <2> SUFFICES ASSUME NEW k \in Active PROVE FALSE
    OBVIOUS
  <2>1. k \in 1 .. MaxSessions
    BY BoundsAssumption DEF ControlTypeOK, SessionTypeOK, Active
  <2>2. write_sessions[k].user \in Users /\ write_sessions[k].idx \in Index
    BY <2>1 DEF ControlTypeOK, SessionTypeOK
  <2>3. locked_by[write_sessions[k].idx] = write_sessions[k].user
    BY DEF LockInv, LockGuardsSession
  <2> QED
    BY <2>2, <2>3, NamesAssumption DEF InUse
<1>4. queue = <<>>
  <2> SUFFICES ASSUME queue # <<>> PROVE FALSE
    OBVIOUS
  <2>1. 1 \in DOMAIN queue
    BY EntryTyped
  <2>2. queue[1].user \in Users /\ pc[queue[1].user] \in CommitLabels
    BY <2>1, EntryTyped DEF QueueInv, EntriesOwned
  <2> QED
    BY <1>2, <2>2 DEF CommitLabels
<1> QED
  BY <1>1, <1>2, <1>3, <1>4

LEMMA NothingNoted == \A kinds : Note(kinds) /\ InStep' => 
    \A kind \in {"shift", "torn", "pointer", "restore", "realloc", "failed"} : kind \notin kinds
  BY DEF Note, InStep, Undisturbed

\* The same, whatever commits have moved sentences under others.
Steady == Undisturbed({"torn", "pointer", "restore", "realloc", "failed"})

LEMMA NothingMet == \A kinds : Note(kinds) /\ Steady' =>
    \A kind \in {"torn", "pointer", "restore", "realloc", "failed"} : kind \notin kinds
  BY DEF Note, Steady, Undisturbed

LEMMA InStepIsSteady == (InStep => Steady) /\ (InStep' => Steady')
  BY DEF InStep, Steady, Undisturbed

\* What a thread does while another restores the document.
LEMMA StepAside ==
    ASSUME ControlTypeOK, RestoreInv, NEW u \in Users, Step(u), Steady',
           NEW t \in Threads \ {u}, pc[t] \in RestoreLabels
    PROVE  /\ UNCHANGED <<queue, file, unlinked>> /\ UNCHANGED sessions
           /\ pc' \in [Threads -> Labels \cup {"delete", "revert"}]
           /\ pc'[u] \in QuietLabels
           /\ \A v \in Threads \ {u} : pc'[v] = pc[v]
<1>1. /\ pc \in [Threads -> Labels \cup {"delete", "revert"}] /\ u \in Threads
      /\ pc[u] \in QuietLabels
      /\ Truncated
  BY DEF ControlTypeOK, ThreadTypeOK, Threads, RestoreInv, RestoreAlone, Truncated, RestoreLabels
<1>2. ~TakeFreedLock(u)
  BY NothingMet DEF TakeFreedLock
<1>3. ~StartSession(u)
  BY <1>1, NothingMet DEF StartSession
<1>4. GetLock(u) \/ TakeLock(u) \/ UnlockLookup(u) \/ Release(u)
  BY <1>1, <1>2, <1>3 DEF Step, QuietLabels, CopyToTemp, WriteTemp, Enqueue, CloseSession, AcquireQueue,
     SkipCommit, MergeHead, Truncate, Flush, ReleaseQueue, RestoreFlush
<1>5. UNCHANGED <<queue, file, unlinked>> /\ UNCHANGED sessions
  BY <1>4 DEF GetLock, TakeLock, UnlockLookup, Release, disk, commits
<1>6. \E l \in QuietLabels : Goto(u, l)
  BY <1>4 DEF GetLock, TakeLock, UnlockLookup, Release, QuietLabels
<1> QED
  BY <1>1, <1>5, <1>6 DEF Goto, QuietLabels, Labels

LEMMA StepRestoreInv ==
    ASSUME TypeInv, TypeInv', RestoreInv, NEW u \in Users, Step(u), Steady'
    PROVE  RestoreInv'
<1>type. /\ ControlTypeOK /\ QueueOwnership /\ QueueOwnership'
         /\ pc \in [Threads -> Labels \cup {"delete", "revert"}] /\ u \in Threads
         /\ pc[NM] \in {"idle", "delete", "revert"} /\ u # NM /\ NM \in Threads
  BY NamesAssumption DEF TypeInv, TypeOK, ControlTypeOK, ThreadTypeOK, Threads
<1>1. unlinked' = {}
  BY DEF RestoreInv, Step, GetLock, TakeLock, TakeFreedLock, StartSession, CopyToTemp, WriteTemp, Enqueue,
     CloseSession, AcquireQueue, SkipCommit, MergeHead, Truncate, Flush, FlushMerged, ReleaseQueue,
     UnlockLookup, Release, RestoreFlush
<1>2. \E l \in Labels \ {"restore"} : Goto(u, l)
  <2>1. CASE SkipCommit(u)
    BY <1>type, <2>1 DEF SkipCommit, Labels, Goto
  <2>2. CASE ~SkipCommit(u)
    BY <2>2 DEF Step, GetLock, TakeLock, TakeFreedLock, StartSession, CopyToTemp, WriteTemp, Enqueue,
       CloseSession, AcquireQueue, MergeHead, Truncate, Flush, ReleaseQueue,
       UnlockLookup, Release, RestoreFlush, Labels
  <2> QED
    BY <2>1, <2>2
<1>3. /\ \A v \in Threads \ {u} : pc'[v] = pc[v]
      /\ pc'[u] \notin RestoreLabels
  BY <1>type, <1>2 DEF Goto, RestoreLabels, Labels
<1>4. CASE \E t \in Threads \ {u} : pc[t] \in RestoreLabels
  <2>1. PICK t \in Threads \ {u} : pc[t] \in RestoreLabels
    BY <1>4
  <2>2. /\ UNCHANGED <<queue, file, unlinked>> /\ UNCHANGED sessions
        /\ pc'[u] \in QuietLabels
    BY <1>type, <2>1, StepAside
  <2>3. TruncatedIsEmpty'
    BY <2>1, <2>2 DEF RestoreInv, TruncatedIsEmpty, Truncated, RestoreLabels
  <2>4. RestoreAlone'
    BY <1>3, <2>2 DEF RestoreInv, RestoreAlone, sessions, Active
  <2> QED
    BY <1>1, <2>3, <2>4 DEF RestoreInv
<1>5. CASE \A t \in Threads \ {u} : pc[t] \notin RestoreLabels
  <2>1. \A t \in Threads : pc'[t] \notin RestoreLabels
    BY <1>3, <1>5
  <2>2. TruncatedIsEmpty'
    <3>1. CASE Truncate(u)
      <4>1. pc'[u] # "unlock"
        BY <3>1, NothingMet DEF Truncate
      <4> QED
        BY <1>type, <3>1, <4>1 DEF Truncate, Goto, TruncatedIsEmpty
    <3>2. CASE Flush(u) \/ RestoreFlush(u)
      <4>1. pc'[u] # "flush"
        BY <1>type, <3>2 DEF Flush, RestoreFlush, Goto
      <4>2. \A v \in Users \ {u} : pc[v] # "flush"
        <5>1. CASE Flush(u)
          BY <1>type, <5>1 DEF Flush, QueueOwnership, QueueLabels
        <5>2. CASE RestoreFlush(u)
          <6>1. \A v \in Users \ {u} : pc[v] \in QuietLabels
            BY <1>type, <5>2 DEF RestoreFlush, RestoreInv, RestoreAlone, RestoreLabels, Threads
          <6> QED
            BY <6>1 DEF QuietLabels
        <5> QED
          BY <3>2, <5>1, <5>2
      <4>3. \A t \in Threads : pc'[t] # "flush"
        BY <1>type, <1>3, <4>1, <4>2 DEF Threads
      <4> QED
        BY <2>1, <4>3 DEF TruncatedIsEmpty, Truncated, RestoreLabels
    <3>3. CASE ~(Truncate(u) \/ Flush(u) \/ RestoreFlush(u))
      <4>1. UNCHANGED file /\ pc'[u] # "flush"
        BY <1>type, <3>3 DEF Step, GetLock, TakeLock, TakeFreedLock, StartSession, CopyToTemp, WriteTemp, Enqueue,
           CloseSession, AcquireQueue, SkipCommit, MergeHead, ReleaseQueue,
           UnlockLookup, Release, disk, Goto
      <4>2. Truncated' => Truncated
        BY <1>3, <2>1, <4>1 DEF Truncated, RestoreLabels
      <4> QED
        BY <4>1, <4>2 DEF RestoreInv, TruncatedIsEmpty
    <3> QED
      BY <3>1, <3>2, <3>3
  <2> QED
    BY <1>1, <2>1, <2>2 DEF RestoreInv, RestoreAlone
<1> QED
  BY <1>4, <1>5

LEMMA RequestRestoreInv ==
    ASSUME TypeInv, LockInv, QueueInv, RestoreInv, NEW u \in Users, Request(u), Steady'
    PROVE  RestoreInv'
<1>type. /\ ControlTypeOK /\ CommitTypeOK
         /\ pc \in [Threads -> Labels \cup {"delete", "revert"}] /\ u \in Threads
         /\ pc[u] = "idle"
  BY DEF TypeInv, TypeOK, ControlTypeOK, ThreadTypeOK, Threads, Request, LockValidate, WriteLookup,
     CommitLookup, CancelWrite, Undo
<1>1. CASE Undo(u)
  <2>1. ~InUse(u)
    BY <1>1, NothingMet DEF Undo
  <2>2. Active = {} /\ queue = <<>> /\ \A v \in Threads \ {u} : pc[v] = "idle"
    BY <1>type, <2>1, NotInUse
  <2>3. /\ UNCHANGED <<queue, unlinked>> /\ UNCHANGED sessions /\ file' = <<>>
        /\ \A v \in Threads \ {u} : pc'[v] = pc[v]
    BY <1>1, <1>type DEF Undo, Goto, commits
  <2> QED
    BY <2>2, <2>3 DEF RestoreInv, RestoreAlone, TruncatedIsEmpty, QuietLabels, RestoreLabels, sessions, Active
<1>2. ASSUME NEW i \in Index, LockValidate(u, i) \/ WriteLookup(u, i) \/ CommitLookup(u, i) \/ CancelWrite(u, i)
      PROVE  RestoreInv'
  <2>1. /\ UNCHANGED <<queue, file, unlinked>>
        /\ \E l \in Labels \ {"restore", "flush"} : Goto(u, l)
    BY <1>2 DEF LockValidate, WriteLookup, CommitLookup, CancelWrite, commits, disk, Labels
  <2>2. /\ \A v \in Threads \ {u} : pc'[v] = pc[v]
        /\ pc'[u] \notin RestoreLabels /\ pc'[u] # "flush"
    BY <1>type, <2>1 DEF Goto, RestoreLabels, Labels
  <2>3. TruncatedIsEmpty'
    BY <2>1, <2>2 DEF RestoreInv, TruncatedIsEmpty, Truncated, RestoreLabels
  <2>4. Active = {} => UNCHANGED sessions /\ pc'[u] \in QuietLabels
    <3> SUFFICES ASSUME Active = {} PROVE UNCHANGED sessions /\ pc'[u] \in QuietLabels
      OBVIOUS
    <3>1. SlotsOf(u, i) = {}
      BY DEF SlotsOf
    <3> QED
      BY <1>type, <1>2, <3>1 DEF LockValidate, WriteLookup, CommitLookup, CancelWrite, HasSession, Goto, QuietLabels,
         sessions
  <2>5. RestoreAlone'
    BY <2>1, <2>2, <2>4 DEF RestoreInv, RestoreAlone, sessions, Active
  <2> QED
    BY <2>1, <2>3, <2>5 DEF RestoreInv
<1> QED
  BY <1>1, <1>2 DEF Request

LEMMA NMRestoreInv ==
    ASSUME TypeInv, LockInv, QueueInv, RestoreInv, NMStep, Steady'
    PROVE  RestoreInv'
<1>type. /\ ControlTypeOK /\ CommitTypeOK
         /\ pc \in [Threads -> Labels \cup {"delete", "revert"}] /\ NM \in Threads /\ NM \notin Users
         /\ \A v \in Users : pc[v] \in Labels
  BY NamesAssumption DEF TypeInv, TypeOK, ControlTypeOK, ThreadTypeOK, Threads
<1>0. UNCHANGED queue /\ UNCHANGED sessions
  BY DEF NMStep, CheckLocks, Delete, Create, Checkpoint, Revert, RevertFlush, commits
<1>1. CASE CheckLocks \/ Checkpoint
  <2>1. UNCHANGED <<file, unlinked>> /\ pc[NM] = "idle" /\ pc'[NM] \in {"idle", "delete"}
        /\ \A v \in Threads \ {NM} : pc'[v] = pc[v]
    BY <1>type, <1>1 DEF CheckLocks, Checkpoint, disk, Goto
  <2> QED
    BY <1>0, <2>1 DEF RestoreInv, TruncatedIsEmpty, Truncated, RestoreAlone, QuietLabels, RestoreLabels,
       sessions, Active
<1>2. CASE Delete /\ file = NoFile
  <2>1. UNCHANGED <<file, unlinked>> /\ pc[NM] = "delete" /\ pc'[NM] = "idle"
        /\ \A v \in Threads \ {NM} : pc'[v] = pc[v]
    BY <1>type, <1>2 DEF Delete, Goto
  <2> QED
    BY <1>0, <2>1 DEF RestoreInv, TruncatedIsEmpty, Truncated, RestoreAlone, QuietLabels, RestoreLabels,
       sessions, Active
<1>3. CASE \/ Delete /\ file # NoFile
           \/ Create \/ Revert
  <2>1. ~InUse(NM)
    BY <1>3, NothingMet DEF Delete, Create, Revert
  <2>2. Active = {} /\ queue = <<>> /\ \A v \in Threads \ {NM} : pc[v] = "idle"
    BY <1>type, <2>1, NotInUse
  <2>3. /\ \A v \in Threads \ {NM} : pc'[v] = "idle"
        /\ pc'[NM] \in {"idle", "revert"}
        /\ pc'[NM] = "revert" => file' = <<>>
        /\ unlinked' \in {unlinked, {t \in Threads : pc[t] \in {"flush", "restore"}}}
    BY <1>type, <1>3, <2>2 DEF Delete, Create, Revert, Goto
  <2>4. {t \in Threads : pc[t] \in {"flush", "restore"}} = {}
    BY <1>type, <1>3, <2>2 DEF Delete, Create, Revert
  <2> QED
    BY <1>0, <2>2, <2>3, <2>4 DEF RestoreInv, TruncatedIsEmpty, Truncated, RestoreAlone, QuietLabels, RestoreLabels,
       sessions, Active
<1>4. CASE RevertFlush
  <2>1. pc[NM] = "revert" /\ pc'[NM] = "idle" /\ unlinked' = unlinked \ {NM}
        /\ \A v \in Threads \ {NM} : pc'[v] = pc[v]
    BY <1>type, <1>4 DEF RevertFlush, FlushMerged, Goto
  <2>2. \A v \in Threads \ {NM} : pc[v] \in QuietLabels
    BY <1>type, <2>1 DEF RestoreInv, RestoreAlone, RestoreLabels
  <2> QED
    BY <2>1, <2>2 DEF RestoreInv, TruncatedIsEmpty, Truncated, RestoreAlone, QuietLabels, RestoreLabels
<1> QED
  BY <1>1, <1>2, <1>3, <1>4 DEF NMStep

LEMMA RestartRestoreInv == Restart => RestoreInv'
  BY DEF Restart, RestoreInv, TruncatedIsEmpty, Truncated, RestoreAlone, RestoreLabels, AllIdle

-----------------------------------------------------------------------------
(* Sessions and the document they are merged into *)

\* The document, or what is about to be flushed to it by the commit that has truncated it.
Doc == IF queue_mutex # NoUser /\ pc[queue_mutex] = "flush"
       THEN merged[queue_mutex] ELSE ContentOf(file)

\* Text x, opened on sentence i when the document had `count` sentences, can be put into
\* document d: no text has become shorter, and if the document has not become longer,
\* sentence i is still the one that was locked, with all its words in the session's stretch,
\* and that stretch continues no other sentence.
Fits(d, i, count, x, own) ==
    /\ count <= Len(d) /\ count <= Len(x)
    /\ count = Len(d) /\ i < count =>
          d[i + 1].src = own /\ d[i + 1].by \subseteq Own(x, i, count)
    /\ count = Len(d) /\ i >= count => own = {}
    /\ count = Len(d) /\ (i < count \/ i = 0) => Apart(x, i, count, own)

\* As long as no commit has made the document longer under a session, a count taken of its
\* sentences for a session is still right.
Counted(n) == Undisturbed({"growth"}) => n = Len(Doc)

SlotFits(k) == /\ Fits(Doc, write_sessions[k].idx, write_sessions[k].count,
                       temp[TempPath(k)], target[TempPath(k)])
               /\ Counted(write_sessions[k].count)

EntryFits(n) == Fits(Doc, queue[n].idx, queue[n].count,
                     temp[queue[n].temp], target[queue[n].temp])

Flushes == \E u \in Users : pc[u] = "flush"

\* An open session fits the document, and so does a queued commit that is not yet in it.
SessionsFit == \A k \in Active : Editing(k) => SlotFits(k)

EntriesFit == \A n \in DOMAIN queue : (n = 1 => ~Flushes) => EntryFits(n)

\* A count taken for a session is no larger than the document.
CountsFit == \A u \in Users : pc[u] = "copy" => parsed[u] <= Len(Doc) /\ Counted(parsed[u])

\* A merged text has all that the document it replaces has.
MergesFit ==
    \A u \in Users : pc[u] = "truncate" => Grown(ContentOf(file), merged[u], Head(queue).idx)

FitInv == SessionsFit /\ EntriesFit /\ CountsFit /\ MergesFit

AlignInv ==
    /\ EntryInv
    /\ InStep => RestoreInv /\ FitInv

LEMMA DocCases ==
    TypeInv => /\ \A u \in Users : pc[u] = "flush" => Doc = merged[u] /\ queue_mutex = u
               /\ ~Flushes => Doc = ContentOf(file)
               /\ IsParsed(Doc)
<1> SUFFICES ASSUME TypeInv
             PROVE  /\ \A u \in Users : pc[u] = "flush" => Doc = merged[u] /\ queue_mutex = u
                    /\ ~Flushes => Doc = ContentOf(file)
                    /\ IsParsed(Doc)
  OBVIOUS
<1>1. /\ queue_mutex \in Users \cup {NoUser} /\ NoUser \notin Users
      /\ \A u \in Users : pc[u] \in QueueLabels <=> queue_mutex = u
      /\ \A u \in Users : IsParsed(merged[u])
      /\ IsParsed(ContentOf(file))
  BY NamesAssumption, ContentTyped DEF TypeInv, TypeOK, ControlTypeOK, TextTypeOK, QueueOwnership, Threads
<1>2. ASSUME NEW u \in Users, pc[u] = "flush" PROVE Doc = merged[u] /\ queue_mutex = u
  BY <1>1, <1>2 DEF Doc, QueueLabels
<1>3. ~Flushes => Doc = ContentOf(file)
  BY <1>1 DEF Doc, Flushes
<1> QED
  BY <1>1, <1>2, <1>3 DEF Flushes

\* A step of thread t that neither starts nor ends a flush, and leaves the file's text.
LEMMA DocStays ==
    ASSUME TypeInv, TypeInv', NEW t \in Threads, ContentOf(file') = ContentOf(file),
           \A v \in Users \ {t} : pc'[v] = pc[v] /\ merged'[v] = merged[v],
           t \in Users => pc[t] # "flush" /\ pc'[t] # "flush"
    PROVE  Doc' = Doc /\ (Flushes' <=> Flushes)
<1>1. Flushes' <=> Flushes
  BY DEF Flushes
<1>2. CASE Flushes
  <2>1. PICK u \in Users : pc[u] = "flush"
    BY <1>2 DEF Flushes
  <2>2. u # t /\ pc'[u] = "flush" /\ merged'[u] = merged[u]
    BY <2>1
  <2>3. Doc = merged[u]
    BY <2>1, DocCases
  <2>4. queue_mutex' = u /\ u # NoUser
    BY <2>2, NamesAssumption DEF TypeInv, QueueOwnership, QueueLabels
  <2> QED
    BY <1>1, <2>2, <2>3, <2>4 DEF Doc
<1>3. CASE ~Flushes
  <2>1. (~Flushes => Doc = ContentOf(file))'
    BY DocCases, PTL
  <2> QED
    BY <1>1, <1>3, <2>1, DocCases
<1> QED
  BY <1>1, <1>2, <1>3

\* What fits a document fits it after a merge into another sentence.
LEMMA FitsGrown ==
    ASSUME NEW d, IsParsed(d), NEW e, IsParsed(e), NEW h \in Nat, Grown(d, e, h),
           NEW i \in Nat, i # h, NEW count \in Nat, NEW x, NEW own, Fits(d, i, count, x, own)
    PROVE  Fits(e, i, count, x, own)
<1>1. Len(d) \in Nat /\ Len(e) \in Nat /\ Len(d) <= Len(e) /\ count <= Len(d)
  BY DEF IsParsed, Grown, Fits
<1>2. count = Len(e) /\ i < count => count = Len(d) /\ e[i + 1] = d[i + 1]
  <2> SUFFICES ASSUME count = Len(e), i < count PROVE count = Len(d) /\ e[i + 1] = d[i + 1]
    OBVIOUS
  <2>1. Len(d) = Len(e) /\ count = Len(d)
    BY <1>1
  <2>2. i + 1 \in 1 .. Len(d)
    BY <2>1
  <2>3. i + 1 # h + 1
    OBVIOUS
  <2> QED
    BY <2>1, <2>2, <2>3 DEF Grown
<1> QED
  BY <1>1, <1>2 DEF Fits

\* A WRITE leaves its session's text one that fits.
LEMMA FitsInsert ==
    ASSUME NEW d, IsParsed(d), NEW text, IsParsed(text), NEW i \in Nat, NEW count \in Nat,
           NEW u \in Users, NEW kind \in EditKinds, i <= Len(text) \/ (text = <<>> /\ i = 1),
           NEW own, Fits(d, i, count, text, own)
    PROVE  Fits(d, i, count, InsertWord(text, i, u, kind), own)
<1> DEFINE new == InsertWord(text, i, u, kind)
<1>1. Len(text) \in Nat /\ Len(new) \in Nat
  BY InsertTyped DEF IsParsed
<1>2. count <= Len(d) /\ count <= Len(text)
  BY DEF Fits
<1>3. CASE text = <<>>
  <2>1. count = 0
    BY <1>2, <1>3
  <2>2. i = 0 => Apart(new, i, count, own)
    BY <1>3, <2>1, InsertFirst
  <2> HIDE DEF new
  <2>3. Fits(d, i, count, new, own)
    BY <1>1, <1>2, <2>1, <2>2 DEF Fits
  <2> QED
    BY <2>3 DEF new
<1>4. CASE i < Len(text)
  <2>1. /\ Len(text) <= Len(new)
        /\ \A n \in i + 1 .. Len(text) : Own(text, i, n) \subseteq Own(new, i, n)
    BY <1>4, InsertGrows
  <2>2. i < count => count \in i + 1 .. Len(text)
    BY <1>1, <1>2
  <2>3. count = Len(d) /\ (i < count \/ i = 0) => Apart(new, i, count, own)
    <3> SUFFICES ASSUME count = Len(d), i < count \/ i = 0 PROVE Apart(new, i, count, own)
      OBVIOUS
    <3>1. Apart(text, i, count, own)
      BY DEF Fits
    <3>2. count \in 0 .. Len(text)
      BY <1>1, <1>2
    <3> QED
      BY <1>4, <3>1, <3>2, InsertApart
  <2> HIDE DEF new
  <2>4. Fits(d, i, count, new, own)
    BY <1>1, <1>2, <2>1, <2>2, <2>3 DEF Fits
  <2> QED
    BY <2>4 DEF new
<1>5. CASE text # <<>> /\ i = Len(text)
  <2>1. Len(text) <= Len(new)
    BY <1>5, AppendGrows
  <2> QED
    BY <1>1, <1>2, <1>5, <2>1 DEF Fits
<1> QED
  BY <1>1, <1>3, <1>4, <1>5

\* What a writer flushes over an emptied file is its own text.
LEMMA OverlayEmpty ==
    ASSUME NEW text, IsParsed(text)
    PROVE  Overlay(<<>>, text) = text
<1>1. text \in Seq(Sentence) /\ Len(text) \in Nat
  BY DEF IsParsed
<1>2. SubSeq(<<>>, Len(text) + 1, Len(<<>>)) = <<>>
  BY <1>1, SubSeqEmpty
<1>3. text \o <<>> = text
  BY <1>1, ConcatEmptySeq
<1> QED
  BY <1>2, <1>3, ParsedIsParsed DEF Overlay

\* Sessions and queued commits that a step leaves as they are still fit, if the document's
\* text stays.
LEMMA FitsCarry ==
    ASSUME SessionsFit, EntriesFit, Doc' = Doc, races \subseteq races',
           \A k \in Active' : Editing(k)' =>
              \/ SlotFits(k)'
              \/ \E j \in Active : /\ Editing(j) /\ write_sessions'[k] = write_sessions[j]
                                   /\ temp'[TempPath(j)] = temp[TempPath(j)]
                                   /\ target'[TempPath(j)] = target[TempPath(j)],
           \A n \in DOMAIN queue' : (n = 1 => ~Flushes') =>
              \/ EntryFits(n)'
              \/ \E m \in DOMAIN queue : /\ m = 1 => ~Flushes
                                         /\ queue'[n] = queue[m]
                                         /\ temp'[queue[m].temp] = temp[queue[m].temp]
                                         /\ target'[queue[m].temp] = target[queue[m].temp]
    PROVE  SessionsFit' /\ EntriesFit'
<1>1. SessionsFit'
  <2> SUFFICES ASSUME NEW k \in Active', Editing(k)', ~SlotFits(k)' PROVE SlotFits(k)'
    BY DEF SessionsFit
  <2>1. PICK j \in Active : /\ Editing(j) /\ write_sessions'[k] = write_sessions[j]
                            /\ temp'[TempPath(j)] = temp[TempPath(j)]
                            /\ target'[TempPath(j)] = target[TempPath(j)]
    OBVIOUS
  <2>2. SlotFits(j)
    BY <2>1 DEF SessionsFit
  <2>3. TempPath(k)' = TempPath(j)
    BY <2>1 DEF TempPath
  <2> QED
    BY <2>1, <2>2, <2>3 DEF SlotFits, Counted, Undisturbed
<1>2. EntriesFit'
  <2> SUFFICES ASSUME NEW n \in DOMAIN queue', n = 1 => ~Flushes', ~EntryFits(n)' PROVE EntryFits(n)'
    BY DEF EntriesFit
  <2>1. PICK m \in DOMAIN queue : /\ m = 1 => ~Flushes
                                  /\ queue'[n] = queue[m]
                                  /\ temp'[queue[m].temp] = temp[queue[m].temp]
                                  /\ target'[queue[m].temp] = target[queue[m].temp]
    OBVIOUS
  <2>2. EntryFits(m)
    BY <2>1 DEF EntriesFit
  <2> QED
    BY <2>1, <2>2 DEF EntryFits
<1> QED
  BY <1>1, <1>2

\* So do the counts taken for sessions.
LEMMA CountsCarry ==
    ASSUME TypeInv, CountsFit, Doc' = Doc, races \subseteq races',
           \A v \in Users : pc'[v] = "copy" =>
               parsed'[v] = Len(Doc) \/ (pc[v] = "copy" /\ parsed'[v] = parsed[v])
    PROVE  CountsFit'
<1>1. Len(Doc) \in Nat
  BY DocCases DEF IsParsed
<1>2. ASSUME NEW n, Counted(n) PROVE Undisturbed({"growth"})' => n = Len(Doc')
  BY <1>2 DEF Counted, Undisturbed
<1>3. ASSUME NEW v \in Users, pc'[v] = "copy"
      PROVE  parsed'[v] <= Len(Doc') /\ (Undisturbed({"growth"})' => parsed'[v] = Len(Doc'))
  BY <1>1, <1>2, <1>3 DEF CountsFit
<1> QED
  BY <1>3 DEF CountsFit, Counted

EditLabels == {"start", "copy", "close"}

\* A step of thread t that touches neither texts nor sessions.
LEMMA QuietFits ==
    ASSUME TypeInv, TypeInv', FitInv, NEW t \in Threads, ContentOf(file') = ContentOf(file),
           races \subseteq races', UNCHANGED <<temp, target, queue>>, UNCHANGED sessions,
           \A v \in Users \ {t} : /\ pc'[v] = pc[v] /\ merged'[v] = merged[v]
                                  /\ sent_idx'[v] = sent_idx[v] /\ parsed'[v] = parsed[v],
           t \in Users =>
              /\ pc[t] # "flush" /\ pc'[t] # "flush"
              /\ pc'[t] = "copy" =>
                    parsed'[t] = Len(Doc) \/ (pc[t] = "copy" /\ parsed'[t] = parsed[t])
              /\ pc'[t] = "truncate" => Grown(ContentOf(file), merged'[t], Head(queue).idx)
              /\ pc[t] \in EditLabels =>
                    \/ pc'[t] \in EditLabels /\ sent_idx'[t] = sent_idx[t]
                    \/ ~HasSession(t, sent_idx[t])
    PROVE  FitInv'
<1>1. Doc' = Doc /\ (Flushes' <=> Flushes)
  BY DocStays
<1>2. ASSUME NEW k \in Active', Editing(k)'
      PROVE  k \in Active /\ Editing(k) /\ write_sessions'[k] = write_sessions[k]
  <2>1. k \in Active /\ write_sessions' = write_sessions
    BY DEF sessions, Active
  <2>2. TempPath(k)' = TempPath(k)
    BY <2>1 DEF TempPath
  <2>3. ASSUME NEW v \in Users, pc[v] \in EditLabels, TempPath(k) = <<v, sent_idx[v]>> PROVE FALSE
    <3>1. HasSession(v, sent_idx[v])
      BY <2>1, <2>3 DEF HasSession, SlotsOf, TempPath
    <3>2. pc'[v] \in EditLabels /\ sent_idx'[v] = sent_idx[v]
      BY <2>3, <3>1
    <3> QED
      BY <1>2, <2>2, <2>3, <3>2 DEF Editing, EditLabels
  <2> QED
    BY <2>1, <2>3 DEF Editing, EditLabels
<1>3. SessionsFit' /\ EntriesFit'
  BY <1>1, <1>2, FitsCarry DEF FitInv
<1>4. CountsFit'
  <2>1. \A v \in Users : pc'[v] = "copy" =>
            parsed'[v] = Len(Doc) \/ (pc[v] = "copy" /\ parsed'[v] = parsed[v])
    OBVIOUS
  <2> QED
    BY <1>1, <2>1, CountsCarry DEF FitInv
<1>5. MergesFit'
  BY DEF FitInv, MergesFit
<1> QED
  BY <1>3, <1>4, <1>5 DEF FitInv

\* Nothing is left to fit.
LEMMA NothingFits ==
    ASSUME Active' = {}, queue' = <<>>, \A v \in Users : pc'[v] \notin {"copy", "truncate"}
    PROVE  FitInv'
  BY DEF FitInv, SessionsFit, EntriesFit, CountsFit, MergesFit

\* The head commit, if it is merged into a document of the length its session was opened on.
LEMMA HeadMerges ==
    ASSUME TypeInv, EntriesFit, NEW u \in Users, MergeHead(u), InStep'
    PROVE  LET e == Head(queue) IN
           /\ Grown(ContentOf(file), merged'[u], e.idx)
           /\ \A m \in 1 .. Len(ContentOf(file)) : m # e.idx + 1 =>
                 \E n \in 1 .. Len(merged'[u]) : merged'[u][n] = ContentOf(file)[m]
           /\ e.idx < Len(ContentOf(file)) => ContentOf(file)[e.idx + 1].src = target[e.temp]
           /\ SourcesApart(ContentOf(file)) => SourcesApart(merged'[u])
<1> DEFINE e == Head(queue)
           current == ContentOf(file)
           text == temp[e.temp]
           i == e.idx
<1>1. /\ queue # <<>> /\ ~DropsCommit(e) /\ pc[u] = "process"
      /\ merged'[u] = MergeCommit(current, text, e.count, i)
      /\ Len(current) = e.count
  <2>1. merged'[u] = MergeCommit(current, text, e.count, i)
    BY DEF MergeHead, TypeInv, TypeOK, TextTypeOK, Threads
  <2>2. Len(current) = e.count
    BY NothingNoted DEF MergeHead
  <2> QED
    BY <2>1, <2>2 DEF MergeHead
<1>2. 1 \in DOMAIN queue /\ e = queue[1] /\ e.idx \in Nat /\ e.count \in Nat /\ e.temp \in Keys
  BY <1>1, EntryTyped DEF TypeInv, TypeOK, Index
<1>3. ~Flushes
  BY <1>1 DEF Flushes, TypeInv, QueueOwnership, QueueLabels
<1>4. Doc = current /\ IsParsed(current)
  BY <1>3, DocCases
<1>5. Fits(current, i, e.count, text, target[e.temp])
  BY <1>2, <1>3, <1>4 DEF EntriesFit, EntryFits
<1>6. text # NoFile /\ ~SkipsCommit(current, e.count, i)
  BY <1>1 DEF DropsCommit
<1>7. IsParsed(text)
  BY <1>2, <1>6 DEF TypeInv, TypeOK, TextTypeOK, IsFile
<1> HIDE DEF e, current, text, i
<1>8. i \in Nat /\ Len(current) \in Nat /\ Len(text) \in Nat
  BY <1>2, <1>4, <1>7 DEF IsParsed, i
<1>9. CASE i < Len(current)
  <2>1. /\ Len(current) <= Len(text)
        /\ current[i + 1].by \subseteq Own(text, i, Len(current))
        /\ current[i + 1].src = target[e.temp]
    BY <1>1, <1>5, <1>9 DEF Fits
  <2>2. /\ Grown(current, merged'[u], i)
        /\ \A m \in 1 .. Len(current) : m # i + 1 =>
              \E n \in 1 .. Len(merged'[u]) : merged'[u][n] = current[m]
    BY <1>1, <1>4, <1>7, <1>8, <1>9, <2>1, MergeGrows
  <2>3. Apart(text, i, Len(current), current[i + 1].src)
    BY <1>1, <1>5, <1>9, <2>1 DEF Fits
  <2>4. SourcesApart(current) => SourcesApart(merged'[u])
    BY <1>1, <1>4, <1>7, <1>8, <1>9, <2>1, <2>3, MergeApart
  <2> QED
    BY <2>1, <2>2, <2>4 DEF e, current, i
<1>10. CASE ~(i < Len(current))
  <2>1. AdjustedIndex(current, e.count, i) = i
    BY <1>1, <1>8 DEF AdjustedIndex
  <2>2. current = <<>>
    BY <1>6, <1>8, <1>10, <2>1 DEF SkipsCommit
  <2>3. merged'[u] = text
    BY <1>1, <2>2 DEF MergeCommit
  <2>4. Grown(current, merged'[u], i)
    BY <1>8, <2>2, <2>3 DEF Grown, Marks
  <2>5. i = 0 /\ e.count = 0
    BY <1>1, <1>6, <1>8, <2>1, <2>2 DEF SkipsCommit
  <2>6. Apart(text, 0, 0, target[e.temp])
    <3> HIDE DEF current, text, i, e
    <3> QED
      BY <1>1, <1>5, <2>5 DEF Fits
  <2>7. OwnPart(text, 0, 0) = DOMAIN text
    <3>1. DOMAIN text = 1 .. Len(text)
      BY <1>7 DEF IsParsed
    <3>2. \A n \in DOMAIN text : 0 + 1 <= n /\ n <= 0 + 1 + (Len(text) - 0)
      BY <1>8, <3>1
    <3> QED
      BY <3>2 DEF OwnPart
  <2>8. SourcesApart(merged'[u])
    BY <2>3, <2>6, <2>7 DEF Apart, SourcesApart
  <2> QED
    BY <1>10, <2>2, <2>4, <2>8 DEF e, current, i
<1> QED
  BY <1>9, <1>10

\* A queued commit, and a session that is open, hold the lock of their sentence; so
\* none is for the sentence of another commit.
LEMMA HeadApart ==
    ASSUME CommitTypeOK, LockInv, QueueInv, queue # <<>>
    PROVE  /\ 1 \in DOMAIN queue /\ Head(queue) = queue[1]
           /\ \A n \in DOMAIN queue : n # 1 => /\ queue[n].idx # Head(queue).idx
                                               /\ queue[n].temp # Head(queue).temp
           /\ \A k \in Active : Editing(k) => /\ write_sessions[k].idx # Head(queue).idx
                                              /\ TempPath(k) # Head(queue).temp
<1> DEFINE e == Head(queue)
<1>1. 1 \in DOMAIN queue /\ e = queue[1]
  BY EntryTyped
<1>2. \A n \in DOMAIN queue : /\ locked_by[queue[n].idx] = queue[n].user
                              /\ queue[n].user \in Users
                              /\ queue[n].temp = <<queue[n].user, queue[n].idx>>
                              /\ pc[queue[n].user] \in CommitLabels
                              /\ sent_idx[queue[n].user] = queue[n].idx
  BY EntryTyped DEF QueueInv, EntriesOwned, LockInv, LockGuardsSession, HoldingLabels, CommitLabels
<1>3. \A n \in DOMAIN queue : n # 1 => queue[n].user # e.user
  BY <1>1 DEF QueueInv, OnePerUser
<1> HIDE DEF e
<1>4. ASSUME NEW k \in Active, Editing(k), write_sessions[k].idx = e.idx PROVE FALSE
  <2>1. write_sessions[k].user = e.user
    BY <1>1, <1>2, <1>4 DEF LockInv, LockGuardsSession
  <2>2. HasSession(e.user, sent_idx[e.user])
    BY <1>1, <1>2, <1>4, <2>1 DEF HasSession, SlotsOf
  <2>3. pc[e.user] = "close"
    BY <1>1, <1>2, <2>2 DEF LockInv, ClosedBeforeRelease, ClosedLabels, CommitLabels
  <2> QED
    BY <1>1, <1>2, <1>4, <2>1, <2>3 DEF Editing, TempPath
<1>5. \A k \in Active : TempPath(k) = e.temp => write_sessions[k].idx = e.idx
  BY <1>1, <1>2 DEF TempPath
<1>6. \A n \in DOMAIN queue : n # 1 => queue[n].idx # e.idx /\ queue[n].temp # e.temp
  BY <1>1, <1>2, <1>3
<1> QED
  BY <1>1, <1>4, <1>5, <1>6 DEF e

\* The commit of a user who is doing something else is not in the queue.
LEMMA NotQueued ==
    ASSUME CommitTypeOK, QueueInv, NEW u \in Users, pc[u] \notin CommitLabels, NEW i
    PROVE  \A n \in DOMAIN queue : queue[n].temp # <<u, i>>
  BY EntryTyped DEF QueueInv, EntriesOwned

\* A user's session is in one slot.
LEMMA OneSlot ==
    ASSUME LockInv, NEW u, NEW i, NEW s \in SlotsOf(u, i)
    PROVE  /\ s \in Active /\ TempPath(s) = <<u, i>>
           /\ \A k \in Active : k # s => TempPath(k) # <<u, i>>
  BY DEF LockInv, OneSessionPerSentence, SlotsOf, TempPath

LEMMA SlotTyped ==
    ASSUME SessionTypeOK, CommitTypeOK, NEW k \in Active
    PROVE  /\ k \in 1 .. MaxSessions /\ write_sessions[k].user \in Users
           /\ write_sessions[k].idx \in Index /\ write_sessions[k].count \in Nat
           /\ TempPath(k) \in Keys
<1>1. k \in 1 .. MaxSessions
  BY BoundsAssumption DEF SessionTypeOK, Active
<1>2. write_sessions[k].user \in Users /\ write_sessions[k].idx \in Index
  BY <1>1 DEF SessionTypeOK
<1> QED
  BY <1>1, <1>2 DEF CommitTypeOK, Slot, TempPath, Keys

\* LOCK_SENTENCE copies the document into its session.
LEMMA CopyFits ==
    ASSUME races \subseteq races', TypeInv, TypeInv', LockInv, PointersLead, QueueInv, FitInv, NEW u \in Users,
           CopyToTemp(u), InStep'
    PROVE  FitInv'
<1> DEFINE i == sent_idx[u]
           content == ContentOf(file)
<1>0. PICK s : s = session[u]
  OBVIOUS
<1>ok. CommitTypeOK /\ SessionTypeOK /\ ThreadTypeOK
  BY DEF TypeInv, TypeOK, ControlTypeOK
<1>type. /\ u \in Threads /\ i \in Nat /\ <<u, i>> \in Keys
         /\ pc \in [Threads -> Labels \cup {"delete", "revert"}]
         /\ DOMAIN temp = Keys /\ DOMAIN target = Keys /\ CommitTypeOK /\ SessionTypeOK
         /\ DOMAIN write_sessions = 1 .. MaxSessions
         /\ parsed[u] \in Nat
  <2>1. u \in Threads /\ i \in Index /\ pc \in [Threads -> Labels \cup {"delete", "revert"}]
    BY <1>ok DEF ThreadTypeOK, Threads
  <2>2. DOMAIN temp = Keys /\ DOMAIN target = Keys
    BY DEF TypeInv, TypeOK, TextTypeOK, HistoryTypeOK
  <2>3. DOMAIN write_sessions = 1 .. MaxSessions /\ parsed[u] \in Nat
    BY <1>ok DEF SessionTypeOK, CommitTypeOK
  <2> QED
    BY <1>ok, <2>1, <2>2, <2>3 DEF Keys, Index
<1>1. s \in SlotsOf(u, i) /\ pc[u] = "copy" /\ pc'[u] = "idle"
  BY <1>0, <1>type DEF CopyToTemp, PointersLead, PointerLabels, Goto
<1>2. ~Truncated
  BY NothingNoted DEF CopyToTemp
<1>3. ~Flushes /\ Doc = content /\ IsParsed(content)
  BY <1>2, DocCases DEF Flushes, Truncated, Threads
<1>4. /\ UNCHANGED <<file, queue, sent_idx, parsed, merged>>
      /\ write_session_count' = write_session_count
      /\ \A v \in Users \ {u} : pc'[v] = pc[v]
  BY DEF CopyToTemp, commits, Goto, Threads
<1>5. Doc' = Doc /\ (Flushes' <=> Flushes)
  BY <1>1, <1>4, <1>type, DocStays
<1>6. s \in Active /\ TempPath(s) = <<u, i>> /\ \A k \in Active : k # s => TempPath(k) # <<u, i>>
  BY <1>1, OneSlot
<1> HIDE DEF i, content
<1>7. /\ write_sessions' = [write_sessions EXCEPT ![s] = Stamped(write_sessions[s], parsed[u])]
      /\ temp' = [temp EXCEPT ![<<u, i>>] = content]
      /\ target' = [target EXCEPT ![<<u, i>>] = IF i < Len(content) THEN content[i + 1].src ELSE {}]
  BY <1>0, <1>6 DEF CopyToTemp, i, content
<1>8. Active' = Active /\ Active \subseteq 1 .. MaxSessions
  BY <1>4, <1>type, BoundsAssumption DEF Active, SessionTypeOK
<1>9. ASSUME NEW k \in Active, k # s, Editing(k)'
      PROVE  /\ Editing(k) /\ write_sessions'[k] = write_sessions[k]
             /\ temp'[TempPath(k)] = temp[TempPath(k)]
             /\ target'[TempPath(k)] = target[TempPath(k)]
  <2>1. write_sessions'[k] = write_sessions[k]
    BY <1>7, <1>8, <1>9, <1>type
  <2>2. TempPath(k)' = TempPath(k) /\ TempPath(k) # <<u, i>>
    BY <1>6, <1>9, <2>1 DEF TempPath
  <2>3. Editing(k)
    BY <1>4, <1>9, <2>2 DEF Editing, i
  <2>4. TempPath(k) \in Keys
    BY <1>8, <1>type DEF SessionTypeOK, TempPath, Keys
  <2> QED
    BY <1>7, <1>type, <2>1, <2>2, <2>3, <2>4
<1>10. SlotFits(s)'
  <2>1. /\ write_sessions'[s].idx = i /\ write_sessions'[s].count = parsed[u]
        /\ TempPath(s)' = <<u, i>>
    BY <1>6, <1>7, <1>8, <1>type DEF Stamped, TempPath
  <2>2. /\ temp'[<<u, i>>] = content
        /\ i < Len(content) => target'[<<u, i>>] = content[i + 1].src
    BY <1>7, <1>type
  <2>3. parsed[u] <= Len(content) /\ Len(content) \in Nat
    BY <1>1, <1>3 DEF FitInv, CountsFit, IsParsed
  <2>4. parsed[u] = Len(content) /\ i < parsed[u] => content[i + 1].by \subseteq Own(content, i, parsed[u])
    BY <1>type, <2>3 DEF Own
  <2>5. parsed[u] = Len(content) /\ i >= parsed[u] => target'[<<u, i>>] = {}
    BY <1>7, <1>type, <2>3
  <2>6. parsed[u] = Len(content) => Apart(content, i, parsed[u], target'[<<u, i>>])
    <3> SUFFICES ASSUME parsed[u] = Len(content)
                 PROVE  Apart(content, i, parsed[u], target'[<<u, i>>])
      OBVIOUS
    <3>1. DOMAIN content = 1 .. Len(content)
      BY <1>3 DEF IsParsed
    <3>2. \A n \in OwnPart(content, i, parsed[u]) : n = i + 1 /\ i < Len(content)
      BY <1>type, <2>3, <3>1 DEF OwnPart
    <3> QED
      BY <2>2, <3>2 DEF Apart
  <2>7. Fits(content, i, parsed[u], content, target'[<<u, i>>])
    BY <1>type, <2>2, <2>3, <2>4, <2>5, <2>6 DEF Fits
  <2>8. Counted(parsed[u])'
    <3>1. Counted(parsed[u])
      BY <1>1 DEF FitInv, CountsFit
    <3> QED
      BY <1>4, <1>5, <3>1 DEF Counted, Undisturbed
  <2> QED
    BY <1>3, <1>4, <1>5, <2>1, <2>2, <2>7, <2>8 DEF SlotFits, Counted
<1>11. SessionsFit' /\ EntriesFit'
  <2>1. \A n \in DOMAIN queue : queue[n].temp # <<u, i>> /\ queue[n].temp \in Keys
    BY <1>1, <1>type, NotQueued, EntryTyped DEF CommitLabels
  <2>2. \A n \in DOMAIN queue : /\ queue'[n] = queue[n]
                                /\ temp'[queue[n].temp] = temp[queue[n].temp]
                                /\ target'[queue[n].temp] = target[queue[n].temp]
    BY <1>4, <1>7, <1>type, <2>1
  <2>3. \A k \in Active' : Editing(k)' =>
              \/ SlotFits(k)'
              \/ \E j \in Active : /\ Editing(j) /\ write_sessions'[k] = write_sessions[j]
                                   /\ temp'[TempPath(j)] = temp[TempPath(j)]
                                   /\ target'[TempPath(j)] = target[TempPath(j)]
    <3> TAKE k \in Active'
    <3> QED
      BY <1>8, <1>9, <1>10
  <2> QED
    BY <1>4, <1>5, <2>2, <2>3, FitsCarry DEF FitInv
<1>12. CountsFit'
  BY <1>1, <1>4, <1>5, CountsCarry DEF FitInv
<1>13. MergesFit'
  BY <1>1, <1>4 DEF FitInv, MergesFit
<1> QED
  BY <1>11, <1>12, <1>13 DEF FitInv

\* LOCK_SENTENCE looks for its session, and makes one if there is none.
LEMMA StartFits ==
    ASSUME races \subseteq races', TypeInv, TypeInv', FitInv, NEW u \in Users, StartSession(u), InStep'
    PROVE  FitInv'
<1> DEFINE i == sent_idx[u]
<1>type. /\ u \in Threads /\ pc \in [Threads -> Labels \cup {"delete", "revert"}]
         /\ SessionTypeOK /\ parsed \in [Users -> Nat]
  BY DEF TypeInv, TypeOK, ControlTypeOK, ThreadTypeOK, CommitTypeOK, Threads
<1>1. ~Truncated
  BY NothingNoted DEF StartSession
<1>2. ~Flushes /\ Doc = ContentOf(file) /\ IsParsed(Doc)
  BY <1>1, DocCases DEF Flushes, Truncated, Threads
<1>3. /\ UNCHANGED <<file, temp, target, queue, sent_idx, merged>>
      /\ pc[u] = "start" /\ pc'[u] \in {"copy", "unlock"}
      /\ \A v \in Users \ {u} : pc'[v] = pc[v] /\ parsed'[v] = parsed[v]
      /\ parsed'[u] = Len(Doc)
  BY <1>2, <1>type DEF StartSession, Goto, disk, commits, Threads
<1>4. parsed'[u] <= Len(Doc)
  BY <1>2, <1>3 DEF IsParsed
<1>5. CASE UNCHANGED sessions
  <2>1. pc'[u] = "copy" \/ ~HasSession(u, i)
    BY <1>3, <1>type DEF StartSession, Goto
  <2>2. (pc'[u] \in EditLabels /\ sent_idx'[u] = sent_idx[u]) \/ ~HasSession(u, i)
    BY <1>3, <2>1 DEF EditLabels
  <2> QED
    BY <1>3, <1>4, <1>5, <1>type, <2>2, QuietFits
<1>6. CASE ~UNCHANGED sessions
  <2> DEFINE n == write_session_count + 1
  <2>1. /\ Active' = Active \cup {n}
        /\ \A k \in Active : write_sessions'[k] = write_sessions[k]
        /\ write_sessions'[n].user = u /\ write_sessions'[n].idx = i
        /\ pc'[u] = "copy"
    <3>1. /\ write_session_count < MaxSessions
          /\ write_session_count' = write_session_count + 1
          /\ write_sessions' = [write_sessions EXCEPT ![write_session_count + 1] = Reused(@, u, i)]
          /\ Goto(u, "copy")
      BY <1>6 DEF StartSession
    <3> QED
      BY <1>type, <3>1, BoundsAssumption DEF SessionTypeOK, Reused, Active, Goto
  <2>2. Doc' = Doc /\ (Flushes' <=> Flushes)
    BY <1>3, <1>type, DocStays
  <2>3. PICK m : m = n
    OBVIOUS
  <2> HIDE DEF n
  <2>4. ~Editing(m)'
    BY <1>3, <2>1, <2>3 DEF Editing, TempPath, i
  <2>5. ASSUME NEW k \in Active, Editing(k)' PROVE Editing(k)
    <3>1. TempPath(k)' = TempPath(k)
      BY <2>1 DEF TempPath
    <3> QED
      BY <1>3, <2>1, <2>5, <3>1 DEF Editing
  <2>6. ASSUME NEW k \in Active', Editing(k)'
        PROVE  k \in Active /\ Editing(k) /\ write_sessions'[k] = write_sessions[k]
    BY <2>1, <2>3, <2>4, <2>5, <2>6
  <2>7. SessionsFit' /\ EntriesFit'
    BY <1>3, <2>2, <2>6, FitsCarry DEF FitInv
  <2>8. CountsFit'
    BY <1>3, <1>4, <2>2, CountsCarry DEF FitInv
  <2>9. MergesFit'
    BY <1>3 DEF FitInv, MergesFit
  <2> QED
    BY <2>7, <2>8, <2>9 DEF FitInv
<1> QED
  BY <1>5, <1>6

\* WRITE edits its own session's text.
LEMMA WriteFits ==
    ASSUME races \subseteq races', TypeInv, TypeInv', LockInv, PointersLead, QueueInv, FitInv, NEW u \in Users,
           NEW kind \in WriteKinds, WriteTemp(u, kind)
    PROVE  FitInv'
<1>0. PICK s, i : s = session[u] /\ i = sent_idx[u]
  OBVIOUS
<1>ok. CommitTypeOK /\ SessionTypeOK /\ ThreadTypeOK
  BY DEF TypeInv, TypeOK, ControlTypeOK
<1>type. /\ u \in Threads /\ i \in Index /\ i \in Nat /\ <<u, i>> \in Keys
         /\ pc \in [Threads -> Labels \cup {"delete", "revert"}]
         /\ DOMAIN temp = Keys /\ \A key \in Keys : IsFile(temp[key])
         /\ kind \in EditKinds
  <2>1. u \in Threads /\ i \in Index /\ pc \in [Threads -> Labels \cup {"delete", "revert"}]
    BY <1>0, <1>ok DEF ThreadTypeOK, Threads
  <2>2. DOMAIN temp = Keys /\ \A key \in Keys : IsFile(temp[key])
    BY DEF TypeInv, TypeOK, TextTypeOK
  <2> QED
    BY <2>1, <2>2, BoundsAssumption DEF Keys, Index
<1>1. /\ s \in SlotsOf(u, i) /\ pc[u] = "write" /\ pc'[u] = "idle"
      /\ \A v \in Users \ {u} : pc'[v] = pc[v]
  BY <1>0, <1>type DEF WriteTemp, PointersLead, PointerLabels, Goto, Threads
<1>2. s \in Active /\ TempPath(s) = <<u, i>> /\ \A k \in Active : k # s => TempPath(k) # <<u, i>>
  BY <1>1, OneSlot
<1>3. /\ UNCHANGED <<file, queue, sent_idx, parsed, merged, target, write_sessions, write_session_count>>
  BY DEF WriteTemp, commits, sessions
<1>4. Doc' = Doc /\ (Flushes' <=> Flushes) /\ IsParsed(Doc)
  BY <1>1, <1>3, <1>type, DocStays, DocCases
<1>5. \A k \in Active : TempPath(k)' = TempPath(k)
  BY <1>3 DEF TempPath
<1>6. temp[<<u, i>>] # NoFile
  BY <1>0, <1>1, <1>type DEF QueueInv, SessionsHaveText, HasSession
<1> DEFINE text == temp[<<u, i>>]
           d == Doc
           count == write_sessions[s].count
           own == target[<<u, i>>]
<1>7. IsParsed(text) /\ ContentOf(text) = text
  BY <1>6, <1>type DEF IsFile, ContentOf
<1>8. /\ Editing(s) /\ write_sessions[s].idx = i /\ count \in Nat
  <2>1. write_sessions[s].user = u /\ write_sessions[s].idx = i
    BY <1>1 DEF SlotsOf
  <2>2. Editing(s)
    BY <1>1, <1>2 DEF Editing
  <2>3. s \in 1 .. MaxSessions
    BY <1>2, <1>ok, BoundsAssumption DEF SessionTypeOK, Active
  <2> QED
    BY <1>ok, <2>1, <2>2, <2>3 DEF CommitTypeOK, Slot
<1>9. Fits(d, i, count, text, own)
  BY <1>2, <1>8 DEF FitInv, SessionsFit, SlotFits
<1>10. PICK new : /\ temp'[<<u, i>>] = new
                  /\ \A key \in Keys : key # <<u, i>> => temp'[key] = temp[key]
                  /\ Fits(d, i, count, new, own)
  <2>1. CASE UNCHANGED temp
    BY <1>9, <1>type, <2>1
  <2>2. CASE /\ i <= Len(text) \/ (text = <<>> /\ i = 1)
             /\ temp' = [temp EXCEPT ![<<u, i>>] = InsertWord(text, i, u, kind)]
    <3>1. Fits(d, i, count, InsertWord(text, i, u, kind), own)
      <4> HIDE DEF text, d, count, own
      <4> QED
        BY <1>4, <1>7, <1>8, <1>9, <1>type, <2>2, FitsInsert DEF d
    <3>2. /\ temp'[<<u, i>>] = InsertWord(text, i, u, kind)
          /\ \A key \in Keys : key # <<u, i>> => temp'[key] = temp[key]
      BY <1>type, <2>2
    <3> QED
      BY <3>1, <3>2
  <2> QED
    BY <1>0, <1>2, <1>7, <2>1, <2>2 DEF WriteTemp
<1>11. SlotFits(s)'
  <2>1. Counted(count)'
    BY <1>2, <1>3, <1>4, <1>8 DEF FitInv, SessionsFit, SlotFits, Counted, Undisturbed
  <2> QED
    BY <1>2, <1>3, <1>4, <1>5, <1>8, <1>10, <2>1 DEF SlotFits, Counted
<1>12. ASSUME NEW k \in Active', Editing(k)'
       PROVE  \/ SlotFits(k)'
              \/ \E j \in Active : /\ Editing(j) /\ write_sessions'[k] = write_sessions[j]
                                   /\ temp'[TempPath(j)] = temp[TempPath(j)]
                                   /\ target'[TempPath(j)] = target[TempPath(j)]
  <2>1. k \in Active
    BY <1>3 DEF Active
  <2>2. CASE k = s
    BY <1>11, <2>2
  <2>3. CASE k # s
    <3>1. TempPath(k) # <<u, i>> /\ temp'[TempPath(k)] = temp[TempPath(k)]
      <4>1. TempPath(k) \in Keys
        BY <1>ok, <2>1, SlotTyped
      <4> QED
        BY <1>2, <1>10, <2>1, <2>3, <4>1
    <3>2. Editing(k)
      BY <1>1, <1>3, <1>5, <1>12, <2>1 DEF Editing
    <3> QED
      BY <1>3, <2>1, <3>1, <3>2
  <2> QED
    BY <2>2, <2>3
<1>13. \A n \in DOMAIN queue : temp'[queue[n].temp] = temp[queue[n].temp]
  <2>1. \A n \in DOMAIN queue : queue[n].temp # <<u, i>> /\ queue[n].temp \in Keys
    BY <1>1, <1>ok, NotQueued, EntryTyped DEF CommitLabels
  <2> QED
    BY <1>10, <2>1
<1>14. SessionsFit' /\ EntriesFit'
  BY <1>3, <1>4, <1>12, <1>13, FitsCarry DEF FitInv
<1>15. CountsFit'
  BY <1>1, <1>3, <1>4, CountsCarry DEF FitInv
<1>16. MergesFit'
  BY <1>1, <1>3 DEF FitInv, MergesFit
<1> QED
  BY <1>14, <1>15, <1>16 DEF FitInv

\* A session is removed, with or without its text.
LEMMA CompactFits ==
    ASSUME races \subseteq races', TypeInv, TypeInv', LockInv, FitInv, QueueInv, NEW u \in Users, NEW i \in Index,
           NEW s \in SlotsOf(u, i), CompactSessions(u, s),
           UNCHANGED <<file, queue, target, merged, parsed>>,
           \/ UNCHANGED temp
           \/ temp' = [temp EXCEPT ![<<u, i>>] = NoFile] /\ pc[u] \notin CommitLabels,
           pc[u] \in {"idle", "enqueue", "close"}, pc'[u] \in {"acquire", "unlock"},
           pc[u] = "close" => sent_idx[u] = i,
           \A v \in Users \ {u} : pc'[v] = pc[v] /\ sent_idx'[v] = sent_idx[v]
    PROVE  FitInv'
<1>type. /\ u \in Threads /\ SessionTypeOK /\ CommitTypeOK /\ DOMAIN temp = Keys
  BY DEF TypeInv, TypeOK, ControlTypeOK, TextTypeOK, Threads
<1>1. s \in Active /\ \A k \in Active : k # s => TempPath(k) # <<u, i>>
  BY OneSlot
<1>2. Doc' = Doc /\ (Flushes' <=> Flushes)
  BY <1>type, DocStays
<1>3. ASSUME NEW k \in Active', Editing(k)'
      PROVE  \E j \in Active : /\ Editing(j) /\ write_sessions'[k] = write_sessions[j]
                               /\ temp'[TempPath(j)] = temp[TempPath(j)]
                               /\ target'[TempPath(j)] = target[TempPath(j)]
  <2>1. PICK j \in Active \ {s} : write_sessions'[k] = write_sessions[j]
    BY <1>1, <1>type, CompactSlots
  <2>2. TempPath(k)' = TempPath(j) /\ TempPath(j) # <<u, i>>
    BY <1>1, <2>1 DEF TempPath
  <2>3. Editing(j)
    <3> SUFFICES ASSUME NEW v \in Users, pc[v] \in {"start", "copy", "close"},
                        TempPath(j) = <<v, sent_idx[v]>>
                 PROVE  FALSE
      BY DEF Editing
    <3>1. v # u
      BY <2>2
    <3> QED
      BY <1>3, <2>2, <3>1 DEF Editing
  <2>4. temp'[TempPath(j)] = temp[TempPath(j)]
    <3>1. TempPath(j) \in Keys
      BY <1>type, SlotTyped
    <3> QED
      BY <1>type, <2>2, <3>1
  <2> QED
    BY <2>1, <2>3, <2>4
<1>4. \A n \in DOMAIN queue : temp'[queue[n].temp] = temp[queue[n].temp]
  <2>1. pc[u] \notin CommitLabels => \A n \in DOMAIN queue : queue[n].temp # <<u, i>>
    BY <1>type, NotQueued
  <2>2. \A n \in DOMAIN queue : queue[n].temp \in Keys
    BY <1>type, EntryTyped
  <2> QED
    BY <1>type, <2>1, <2>2
<1>5. SessionsFit' /\ EntriesFit'
  BY <1>2, <1>3, <1>4, FitsCarry DEF FitInv
<1>6. CountsFit'
  BY <1>2, CountsCarry DEF FitInv
<1>7. MergesFit'
  BY DEF FitInv, MergesFit
<1> QED
  BY <1>5, <1>6, <1>7 DEF FitInv

\* UNLOCK_SENTENCE hands its session's text to the queue, or gives the session up.
LEMMA EnqueueFits ==
    ASSUME races \subseteq races', TypeInv, TypeInv', LockInv, PointersLead, QueueInv, FitInv, NEW u \in Users, Enqueue(u)
    PROVE  FitInv'
<1>0. PICK s, i : s = session[u] /\ i = sent_idx[u]
  OBVIOUS
<1>ok. CommitTypeOK /\ SessionTypeOK /\ ThreadTypeOK
  BY DEF TypeInv, TypeOK, ControlTypeOK
<1>type. /\ u \in Threads /\ i \in Index
         /\ pc \in [Threads -> Labels \cup {"delete", "revert"}]
  BY <1>0, <1>ok DEF ThreadTypeOK, Threads
<1>1. /\ s \in SlotsOf(u, i) /\ pc[u] = "enqueue" /\ pc'[u] \in {"close", "unlock"}
      /\ \A v \in Users \ {u} : pc'[v] = pc[v]
      /\ UNCHANGED <<file, sent_idx, parsed, merged, target>>
  BY <1>0, <1>type DEF Enqueue, PointersLead, PointerLabels, Goto, Threads
<1>2. CASE pc'[u] = "unlock"
  <2>1. UNCHANGED queue /\ \E k \in SlotsOf(u, i) : /\ CompactSessions(u, k)
                                                   /\ temp' = [temp EXCEPT ![TempPath(k)] = NoFile]
    BY <1>0, <1>1, <1>2, <1>type DEF Enqueue, Goto
  <2>2. PICK k \in SlotsOf(u, i) : /\ CompactSessions(u, k)
                                   /\ temp' = [temp EXCEPT ![<<u, i>>] = NoFile]
    BY <2>1 DEF SlotsOf, TempPath
  <2> QED
    BY <1>1, <1>2, <1>type, <2>1, <2>2, CompactFits DEF CommitLabels
<1>3. CASE pc'[u] = "close"
  <2>1. s \in Active /\ TempPath(s) = <<u, i>> /\ \A k \in Active : k # s => TempPath(k) # <<u, i>>
    BY <1>1, OneSlot
  <2> DEFINE e == [user |-> u, idx |-> i, count |-> write_sessions[s].count, temp |-> <<u, i>>]
             m == Len(queue) + 1
  <2>2. /\ queue' = Append(queue, e) /\ UNCHANGED <<temp, write_sessions, write_session_count>>
        /\ queue_mutex = NoUser
    BY <1>0, <1>1, <1>3, <1>type, <2>1 DEF Enqueue, Goto, sessions
  <2>3. /\ DOMAIN queue' = DOMAIN queue \cup {m} /\ queue'[m] = e
        /\ \A n \in DOMAIN queue : queue'[n] = queue[n]
    BY <1>ok, <2>2, EntryTyped
  <2>4. e.idx = i /\ e.count = write_sessions[s].count /\ e.temp = <<u, i>>
    OBVIOUS
  <2>5. Doc' = Doc /\ (Flushes' <=> Flushes)
    BY <1>1, <1>3, <1>type, DocStays
  <2>6. Active' = Active /\ \A k \in Active : TempPath(k)' = TempPath(k)
    BY <2>2 DEF Active, TempPath
  <2>7. ASSUME NEW k \in Active', Editing(k)' PROVE Editing(k)
    BY <1>1, <2>6, <2>7 DEF Editing
  <2>8. SlotFits(s) /\ write_sessions[s].idx = i
    <3>1. Editing(s)
      BY <1>1, <2>1 DEF Editing
    <3> QED
      BY <1>1, <2>1, <3>1 DEF FitInv, SessionsFit, SlotsOf
  <2> PICK n0 : n0 = m
    OBVIOUS
  <2> HIDE DEF e, m
  <2>9. EntryFits(n0)'
    BY <1>1, <2>1, <2>2, <2>3, <2>4, <2>5, <2>8 DEF EntryFits, SlotFits
  <2>10. SessionsFit' /\ EntriesFit'
    <3>1. \A k \in Active' : Editing(k)' =>
              \/ SlotFits(k)'
              \/ \E j \in Active : /\ Editing(j) /\ write_sessions'[k] = write_sessions[j]
                                   /\ temp'[TempPath(j)] = temp[TempPath(j)]
                                   /\ target'[TempPath(j)] = target[TempPath(j)]
      BY <1>1, <2>2, <2>6, <2>7
    <3>2. \A n \in DOMAIN queue' : (n = 1 => ~Flushes') =>
              \/ EntryFits(n)'
              \/ \E k \in DOMAIN queue : /\ k = 1 => ~Flushes
                                         /\ queue'[n] = queue[k]
                                         /\ temp'[queue[k].temp] = temp[queue[k].temp]
                                         /\ target'[queue[k].temp] = target[queue[k].temp]
      <4> TAKE n \in DOMAIN queue'
      <4> QED
        BY <1>1, <2>2, <2>3, <2>5, <2>9
    <3> QED
      BY <2>5, <3>1, <3>2, FitsCarry DEF FitInv
  <2>11. CountsFit'
    BY <1>1, <1>3, <2>5, CountsCarry DEF FitInv
  <2>12. MergesFit'
    <3>1. \A v \in Users : pc[v] # "truncate"
      BY <2>2, NamesAssumption DEF TypeInv, QueueOwnership, QueueLabels
    <3> QED
      BY <1>1, <1>3, <3>1 DEF MergesFit
  <2> QED
    BY <2>10, <2>11, <2>12 DEF FitInv
<1> QED
  BY <1>1, <1>2, <1>3

\* The head of the queue leaves it, with its text, and the document's text stays.
LEMMA DequeueFits ==
    ASSUME races \subseteq races', TypeInv, LockInv, QueueInv, FitInv, NEW u \in Users, pc[u] \in QueueLabels,
           queue # <<>>, queue' = Tail(queue), temp' = [temp EXCEPT ![Head(queue).temp] = NoFile],
           UNCHANGED <<target, sent_idx, parsed>>, UNCHANGED sessions, Goto(u, "process"), Doc' = Doc
    PROVE  FitInv'
<1>ok. /\ CommitTypeOK /\ SessionTypeOK /\ QueueOwnership /\ DOMAIN temp = Keys
       /\ pc \in [Threads -> Labels \cup {"delete", "revert"}] /\ u \in Threads
  BY DEF TypeInv, TypeOK, ControlTypeOK, ThreadTypeOK, TextTypeOK, Threads
<1>1. pc'[u] = "process" /\ \A v \in Users \ {u} : pc'[v] = pc[v]
  BY <1>ok DEF Goto, Threads
<1>2. \A v \in Users : pc'[v] \notin {"truncate", "flush"}
  BY <1>1, <1>ok DEF QueueOwnership, QueueLabels
<1>3. ~Flushes'
  BY <1>2 DEF Flushes
<1> DEFINE e == Head(queue)
<1>4. /\ \A n \in DOMAIN queue : n # 1 => queue[n].temp # e.temp
      /\ \A k \in Active : Editing(k) => TempPath(k) # e.temp
      /\ 1 \in DOMAIN queue /\ e = queue[1]
  BY <1>ok, HeadApart
<1>5. e.temp \in Keys /\ \A n \in DOMAIN queue : queue[n].temp \in Keys
  BY <1>4, <1>ok, EntryTyped
<1> HIDE DEF e
<1>6. \A key \in Keys : key # e.temp => temp'[key] = temp[key]
  BY <1>ok, <1>5 DEF e
<1>7. \A n \in DOMAIN queue' : /\ n + 1 \in DOMAIN queue /\ n + 1 # 1
                               /\ queue'[n] = queue[n + 1]
  BY <1>ok, EntryTyped
<1>8. ASSUME NEW k \in Active', Editing(k)'
      PROVE  k \in Active /\ Editing(k) /\ write_sessions'[k] = write_sessions[k]
  <2>1. k \in Active /\ write_sessions' = write_sessions /\ TempPath(k)' = TempPath(k)
    BY DEF sessions, Active, TempPath
  <2>2. \A v \in Users : pc[v] \in {"start", "copy", "close"} => pc'[v] = pc[v]
    BY <1>1 DEF QueueLabels
  <2> QED
    BY <1>8, <2>1, <2>2 DEF Editing
<1>9. SessionsFit' /\ EntriesFit'
  <2>1. ASSUME NEW k \in Active', Editing(k)'
        PROVE  \E j \in Active : /\ Editing(j) /\ write_sessions'[k] = write_sessions[j]
                                 /\ temp'[TempPath(j)] = temp[TempPath(j)]
                                 /\ target'[TempPath(j)] = target[TempPath(j)]
    <3>1. TempPath(k) \in Keys
      BY <1>8, <1>ok, <2>1, SlotTyped
    <3> QED
      BY <1>4, <1>6, <1>8, <2>1, <3>1
  <2>2. ASSUME NEW n \in DOMAIN queue'
        PROVE  \E m \in DOMAIN queue : /\ m = 1 => ~Flushes
                                       /\ queue'[n] = queue[m]
                                       /\ temp'[queue[m].temp] = temp[queue[m].temp]
                                       /\ target'[queue[m].temp] = target[queue[m].temp]
    <3>1. PICK m \in DOMAIN queue : m # 1 /\ queue'[n] = queue[m]
      BY <1>7
    <3> QED
      BY <1>4, <1>5, <1>6, <3>1
  <2> QED
    BY <2>1, <2>2, FitsCarry DEF FitInv
<1>10. CountsFit'
  BY <1>1, CountsCarry DEF FitInv
<1>11. MergesFit'
  BY <1>2 DEF MergesFit
<1> QED
  BY <1>9, <1>10, <1>11 DEF FitInv

\* A commit truncates the file: what it is about to flush is the document now.
LEMMA TruncateFits ==
    ASSUME races \subseteq races', TypeInv, TypeInv', LockInv, PointersLead, QueueInv, FitInv,
           NEW u \in Users, Truncate(u), InStep'
    PROVE  FitInv'
<1>ok. /\ CommitTypeOK /\ SessionTypeOK /\ QueueOwnership
       /\ pc \in [Threads -> Labels \cup {"delete", "revert"}] /\ u \in Threads
  BY DEF TypeInv, TypeOK, ControlTypeOK, ThreadTypeOK, Threads
<1>1. /\ pc[u] = "truncate" /\ pc'[u] = "flush"
      /\ \A v \in Users \ {u} : pc'[v] = pc[v]
      /\ UNCHANGED <<queue, temp, target, merged, sent_idx, parsed, write_sessions, write_session_count>>
  <2>1. pc'[u] # "unlock"
    BY NothingNoted DEF Truncate
  <2> QED
    BY <1>ok, <2>1 DEF Truncate, Goto, sessions, Threads
<1>2. queue # <<>> /\ ~Flushes /\ Flushes'
  BY <1>1, <1>ok DEF QueueOwnership, QueueLabels, Flushes
<1>3. Doc = ContentOf(file) /\ IsParsed(Doc)
  BY <1>2, DocCases
<1>4. Doc' = merged[u] /\ IsParsed(Doc')
  <2>1. queue_mutex' = u /\ u # NoUser
    BY <1>1, NamesAssumption DEF TypeInv, QueueOwnership, QueueLabels
  <2>2. IsParsed(merged[u])
    BY <1>ok DEF TypeInv, TypeOK, TextTypeOK
  <2> QED
    BY <1>1, <2>1, <2>2 DEF Doc
<1> DEFINE h == Head(queue).idx
<1>5. Grown(Doc, Doc', h)
  BY <1>1, <1>3, <1>4 DEF FitInv, MergesFit
<1>6. /\ 1 \in DOMAIN queue /\ h \in Nat
      /\ \A n \in DOMAIN queue : n # 1 => queue[n].idx # h
      /\ \A k \in Active : Editing(k) => write_sessions[k].idx # h
  BY <1>2, <1>ok, HeadApart, EntryTyped DEF Index
<1> HIDE DEF h
<1>7. ASSUME NEW i \in Nat, NEW count \in Nat, NEW x, NEW own, i # h, Fits(Doc, i, count, x, own)
      PROVE  Fits(Doc', i, count, x, own)
  <2> PICK d, e, g : d = Doc /\ e = Doc' /\ g = h
    OBVIOUS
  <2> QED
    BY <1>3, <1>4, <1>5, <1>6, <1>7, FitsGrown
\* If the text it flushes is longer, it finds no other session.
<1>12. ASSUME NEW k \in Active, TempPath(k) # Head(queue).temp, NEW n, Counted(n)
       PROVE  Undisturbed({"growth"})' => n = Len(Doc')
  <2>1. Head(queue).temp = <<Head(queue).user, Head(queue).idx>>
    BY <1>2, <1>ok, HeadApart DEF QueueInv, EntriesOwned
  <2>2. OthersEditing(Head(queue))
    BY <1>12, <2>1 DEF OthersEditing
  <2>3. Undisturbed({"growth"})' => Len(merged[u]) = Len(ContentOf(file))
    BY <2>2 DEF Truncate, Note, Undisturbed
  <2>4. Undisturbed({"growth"})' => Undisturbed({"growth"})
    BY DEF Undisturbed
  <2> QED
    BY <1>3, <1>4, <1>12, <2>3, <2>4 DEF Counted
<1>8. SessionsFit'
  <2> SUFFICES ASSUME NEW k \in Active, Editing(k)' PROVE SlotFits(k)'
    BY <1>1 DEF SessionsFit, Active
  <2>1. TempPath(k)' = TempPath(k)
    BY <1>1 DEF TempPath
  <2>2. Editing(k)
    BY <1>1, <2>1 DEF Editing
  <2>3. SlotFits(k)
    BY <2>2 DEF FitInv, SessionsFit
  <2>4. write_sessions[k].idx \in Nat /\ write_sessions[k].count \in Nat
    BY <1>ok, SlotTyped DEF Index
  <2> DEFINE c == write_sessions[k].count
  <2>5. Undisturbed({"growth"})' => c = Len(Doc')
    <3>1. TempPath(k) # Head(queue).temp
      BY <1>2, <1>ok, <2>2, HeadApart
    <3>2. Counted(c)
      BY <2>3 DEF SlotFits
    <3> QED
      BY <1>12, <3>1, <3>2
  <2>6. write_sessions'[k].count = c
    BY <1>1
  <2> QED
    BY <1>1, <1>6, <1>7, <2>1, <2>2, <2>3, <2>4, <2>5, <2>6 DEF SlotFits, Counted
<1>9. EntriesFit'
  <2> SUFFICES ASSUME NEW n \in DOMAIN queue, n # 1 PROVE EntryFits(n)'
    BY <1>1, <1>2 DEF EntriesFit
  <2>1. EntryFits(n)
    BY DEF FitInv, EntriesFit
  <2>2. queue[n].idx \in Nat /\ queue[n].count \in Nat
    BY <1>ok, EntryTyped DEF Index
  <2> QED
    BY <1>1, <1>6, <1>7, <2>1, <2>2 DEF EntryFits
<1>10. CountsFit'
  <2>1. Len(Doc) <= Len(Doc') /\ Len(Doc) \in Nat /\ Len(Doc') \in Nat
    BY <1>3, <1>4, <1>5 DEF Grown, IsParsed
  <2>2. \A v \in Users : parsed[v] \in Nat
    BY <1>ok DEF CommitTypeOK
  <2>3. \A v \in Users : pc'[v] = "copy" => parsed[v] <= Len(Doc)
    BY <1>1 DEF FitInv, CountsFit
  <2>4. ASSUME NEW v \in Users, pc'[v] = "copy"
        PROVE  Undisturbed({"growth"})' => parsed[v] = Len(Doc')
    <3>1. pc[v] = "copy" /\ Counted(parsed[v])
      BY <1>1, <2>4 DEF FitInv, CountsFit
    <3>2. session[v] \in Active /\ TempPath(session[v]) = <<v, sent_idx[v]>>
      BY <3>1 DEF PointersLead, PointerLabels, SlotsOf, TempPath
    <3>3. Head(queue).temp = <<Head(queue).user, Head(queue).idx>> /\ pc[Head(queue).user] \in CommitLabels
      BY <1>2, <1>ok, HeadApart DEF QueueInv, EntriesOwned
    <3>4. TempPath(session[v]) # Head(queue).temp
      BY <3>1, <3>2, <3>3 DEF CommitLabels
    <3> QED
      BY <1>12, <3>1, <3>2, <3>4
  <2> QED
    BY <1>1, <2>1, <2>2, <2>3, <2>4 DEF CountsFit, Counted
<1>11. MergesFit'
  BY <1>1, <1>ok DEF QueueOwnership, QueueLabels, MergesFit
<1> QED
  BY <1>8, <1>9, <1>10, <1>11 DEF FitInv

\* A flush puts in the file what it had taken the place of.
LEMMA FlushKeepsDoc ==
    ASSUME TypeInv, TypeInv', RestoreInv, NEW u \in Users, Flush(u)
    PROVE  Doc' = Doc /\ ~Flushes'
<1>ok. /\ QueueOwnership
       /\ pc \in [Threads -> Labels \cup {"delete", "revert"}] /\ u \in Threads
       /\ DOMAIN merged = Threads /\ IsParsed(merged[u])
  BY DEF TypeInv, TypeOK, ControlTypeOK, ThreadTypeOK, TextTypeOK, Threads
<1>1. pc[u] = "flush" /\ pc'[u] = "process" /\ Goto(u, "process") /\ FlushMerged(u)
  BY <1>ok DEF Flush, Goto
<1>2. file = <<>> /\ file # NoFile /\ u \notin unlinked
  BY <1>ok, <1>1, EmptyParsed, ParsedIsText DEF RestoreInv, TruncatedIsEmpty, Truncated
<1>3. Doc = merged[u]
  BY <1>1, DocCases
<1>4. file' = merged[u] /\ ContentOf(file') = merged[u]
  <2>1. Overlay(file, merged[u]) = merged[u]
    BY <1>ok, <1>2, OverlayEmpty
  <2>2. file' = merged[u]
    BY <1>1, <1>2, <2>1 DEF FlushMerged
  <2> QED
    BY <1>ok, <2>2, ParsedIsText DEF ContentOf
<1>5. ~Flushes'
  <2>1. \A v \in Users \ {u} : pc[v] # "flush" /\ pc'[v] = pc[v]
    BY <1>ok, <1>1 DEF QueueOwnership, QueueLabels, Goto
  <2> QED
    BY <1>1, <2>1 DEF Flushes
<1>6. (~Flushes => Doc = ContentOf(file))'
  BY DocCases, PTL
<1> QED
  BY <1>3, <1>4, <1>5, <1>6

LEMMA StepFits ==
    ASSUME races \subseteq races', TypeInv, TypeInv', LockInv, PointersLead, QueueInv, RestoreInv, FitInv,
           NEW u \in Users, Step(u), InStep'
    PROVE  FitInv'
<1>ok. /\ CommitTypeOK /\ ControlTypeOK /\ QueueOwnership /\ QueueOwnership'
       /\ pc \in [Threads -> Labels \cup {"delete", "revert"}] /\ u \in Threads
       /\ DOMAIN merged = Threads /\ IsParsed(merged[u])
  BY DEF TypeInv, TypeOK, ControlTypeOK, ThreadTypeOK, TextTypeOK, Threads
<1>1. CASE StartSession(u)
  BY <1>1, StartFits
<1>2. CASE CopyToTemp(u)
  BY <1>2, CopyFits
<1>3. CASE \E kind \in WriteKinds : WriteTemp(u, kind)
  BY <1>3, WriteFits
<1>4. CASE Enqueue(u)
  BY <1>4, EnqueueFits
<1>5. CASE CloseSession(u)
  <2>1. PICK i : i = sent_idx[u]
    OBVIOUS
  <2>2. i \in Index
    BY <1>ok, <2>1 DEF ControlTypeOK, ThreadTypeOK
  <2>3. /\ UNCHANGED <<file, temp, queue, target, merged, parsed, sent_idx>>
        /\ pc[u] = "close" /\ pc'[u] = "acquire" /\ \A v \in Users \ {u} : pc'[v] = pc[v]
        /\ \E k \in SlotsOf(u, i) : CompactSessions(u, k)
    BY <1>5, <1>ok, <2>1 DEF CloseSession, disk, commits, Goto
  <2> QED
    BY <2>1, <2>2, <2>3, CompactFits
<1>6. CASE SkipCommit(u)
  <2>1. Doc' = Doc
    <3>1. /\ UNCHANGED <<file, pc, merged>> /\ pc[u] = "process"
      BY <1>6 DEF SkipCommit
    <3> QED
      BY <1>ok, <3>1, DocStays
  <2>2. Goto(u, "process") /\ pc[u] \in QueueLabels
    BY <1>6, <1>ok DEF SkipCommit, Goto, QueueLabels
  <2> QED
    BY <1>6, <2>1, <2>2, DequeueFits DEF SkipCommit
<1>7. CASE MergeHead(u)
  <2>1. Grown(ContentOf(file), merged'[u], Head(queue).idx)
    BY <1>7, HeadMerges DEF FitInv
  <2>2. /\ UNCHANGED <<file, temp, target, queue, sent_idx, parsed>> /\ UNCHANGED sessions
        /\ pc[u] = "process" /\ pc'[u] = "truncate"
        /\ \A v \in Users \ {u} : pc'[v] = pc[v] /\ merged'[v] = merged[v]
    BY <1>7, <1>ok DEF MergeHead, Goto, disk, commits, Threads
  <2> QED
    BY <1>ok, <2>1, <2>2, QuietFits DEF EditLabels
<1>8. CASE Truncate(u)
  BY <1>8, TruncateFits
<1>9. CASE Flush(u)
  <2>1. Doc' = Doc /\ ~Flushes'
    BY <1>9, FlushKeepsDoc
  <2>2. pc[u] = "flush" /\ Goto(u, "process")
    BY <1>9 DEF Flush
  <2>3. queue # <<>>
    BY <1>ok, <2>2 DEF QueueOwnership
  <2> QED
    BY <1>9, <2>1, <2>2, <2>3, DequeueFits DEF Flush, history, QueueLabels
<1>10. CASE RestoreFlush(u)
  <2>1. /\ Active = {} /\ queue = <<>>
        /\ \A v \in Users \ {u} : pc[v] \in QuietLabels
    BY <1>10, <1>ok DEF RestoreFlush, RestoreInv, RestoreAlone, RestoreLabels, Threads
  <2>2. /\ UNCHANGED queue /\ UNCHANGED sessions /\ pc'[u] = "idle"
        /\ \A v \in Users \ {u} : pc'[v] = pc[v]
    BY <1>10, <1>ok DEF RestoreFlush, Goto, commits
  <2> QED
    BY <2>1, <2>2, NothingFits DEF QuietLabels, sessions, Active
<1>11. CASE GetLock(u) \/ TakeLock(u) \/ AcquireQueue(u) \/ ReleaseQueue(u) \/ UnlockLookup(u) \/ Release(u)
  <2>1. /\ UNCHANGED <<file, temp, target, queue, sent_idx, parsed, merged>> /\ UNCHANGED sessions
        /\ pc[u] \in {"getlock", "takelock", "acquire", "process", "unlock", "release"}
    BY <1>11 DEF GetLock, TakeLock, AcquireQueue, ReleaseQueue, UnlockLookup, Release, disk, commits, history
  <2>2. \E l \in {"takelock", "start", "idle", "process", "unlock", "release"} : Goto(u, l)
    BY <1>11 DEF GetLock, TakeLock, AcquireQueue, ReleaseQueue, UnlockLookup, Release
  <2>3. /\ pc'[u] \in {"takelock", "start", "idle", "process", "unlock", "release"}
        /\ \A v \in Users \ {u} : pc'[v] = pc[v]
    BY <1>ok, <2>2 DEF Goto
  <2> QED
    BY <1>ok, <2>1, <2>3, QuietFits DEF EditLabels
<1>12. CASE TakeFreedLock(u)
  BY <1>12, NothingNoted DEF TakeFreedLock
<1> QED
  BY <1>1, <1>2, <1>3, <1>4, <1>5, <1>6, <1>7, <1>8, <1>9, <1>10, <1>11, <1>12 DEF Step

LEMMA RequestFits ==
    ASSUME races \subseteq races', TypeInv, TypeInv', LockInv, QueueInv, FitInv, NEW u \in Users, Request(u), InStep'
    PROVE  FitInv'
<1>ok. /\ CommitTypeOK /\ ControlTypeOK
       /\ pc \in [Threads -> Labels \cup {"delete", "revert"}] /\ u \in Threads
       /\ sent_idx \in [Users -> Index]
       /\ pc[u] = "idle"
  BY DEF TypeInv, TypeOK, ControlTypeOK, ThreadTypeOK, Threads, Request, LockValidate, WriteLookup,
     CommitLookup, CancelWrite, Undo
<1>1. CASE Undo(u)
  <2>1. ~InUse(u)
    BY <1>1, NothingNoted DEF Undo
  <2>2. Active = {} /\ queue = <<>> /\ \A v \in Users : pc[v] = "idle"
    BY <1>ok, <2>1, NotInUse
  <2>3. /\ UNCHANGED queue /\ UNCHANGED sessions /\ pc'[u] = "restore"
        /\ \A v \in Users \ {u} : pc'[v] = pc[v]
    BY <1>1, <1>ok DEF Undo, Goto, commits
  <2> QED
    BY <2>2, <2>3, NothingFits DEF sessions, Active
<1>2. ASSUME NEW i \in Index, LockValidate(u, i) \/ WriteLookup(u, i) \/ CommitLookup(u, i) \/ CancelWrite(u, i)
      PROVE  FitInv'
  <2>1. /\ UNCHANGED <<file, target, queue, parsed, merged>>
        /\ sent_idx' = [sent_idx EXCEPT ![u] = i]
        /\ \E l \in {"getlock", "write", "enqueue", "unlock"} : Goto(u, l)
    BY <1>2 DEF LockValidate, WriteLookup, CommitLookup, CancelWrite, disk, commits, history
  <2>2. /\ pc'[u] \in {"getlock", "write", "enqueue", "unlock"}
        /\ \A v \in Users \ {u} : pc'[v] = pc[v] /\ sent_idx'[v] = sent_idx[v]
    BY <1>ok, <2>1 DEF Goto
  <2>3. CASE UNCHANGED temp /\ UNCHANGED sessions
    BY <1>ok, <2>1, <2>2, <2>3, QuietFits DEF EditLabels
  <2>4. CASE CancelWrite(u, i) /\ ~(UNCHANGED temp /\ UNCHANGED sessions)
    <3>1. pc'[u] = "unlock" /\ \E k \in SlotsOf(u, i) : /\ CompactSessions(u, k)
                                                       /\ temp' = [temp EXCEPT ![TempPath(k)] = NoFile]
      BY <1>ok, <2>4 DEF CancelWrite, Goto
    <3>2. PICK k \in SlotsOf(u, i) : CompactSessions(u, k) /\ temp' = [temp EXCEPT ![<<u, i>>] = NoFile]
      BY <3>1 DEF SlotsOf, TempPath
    <3> QED
      BY <1>ok, <2>1, <2>2, <3>1, <3>2, CompactFits DEF CommitLabels
  <2> QED
    BY <1>2, <2>3, <2>4 DEF LockValidate, WriteLookup, CommitLookup, disk
<1> QED
  BY <1>1, <1>2 DEF Request

LEMMA NMFits ==
    ASSUME races \subseteq races', TypeInv, TypeInv', LockInv, QueueInv, RestoreInv, FitInv, NMStep, InStep'
    PROVE  FitInv'
<1>ok. /\ CommitTypeOK /\ ControlTypeOK /\ NM \in Threads /\ NM \notin Users
       /\ pc \in [Threads -> Labels \cup {"delete", "revert"}]
       /\ DOMAIN merged = Threads
  BY NamesAssumption DEF TypeInv, TypeOK, ControlTypeOK, ThreadTypeOK, TextTypeOK, Threads
<1>1. /\ UNCHANGED <<temp, target, queue, sent_idx, parsed>> /\ UNCHANGED sessions
      /\ \A v \in Users : pc'[v] = pc[v] /\ merged'[v] = merged[v]
  BY <1>ok DEF NMStep, CheckLocks, Delete, Create, Checkpoint, Revert, RevertFlush, FlushMerged,
     disk, commits, history, Goto, Threads
<1>2. CASE CheckLocks \/ Checkpoint \/ (Delete /\ file = NoFile) \/ Create
  <2>1. ContentOf(file') = ContentOf(file)
    BY <1>2 DEF CheckLocks, Checkpoint, Delete, Create, ContentOf, disk
  <2> QED
    BY <1>1, <1>ok, <2>1, QuietFits
<1>3. CASE (Delete /\ file # NoFile) \/ Revert
  <2>1. ~InUse(NM)
    BY <1>3, NothingNoted DEF Delete, Revert
  <2>2. Active = {} /\ queue = <<>> /\ \A v \in Users : pc[v] = "idle"
    BY <1>ok, <2>1, NotInUse
  <2> QED
    BY <1>1, <2>2, NothingFits DEF sessions, Active
<1>4. CASE RevertFlush
  <2>1. pc[NM] = "revert"
    BY <1>4 DEF RevertFlush
  <2>2. Active = {} /\ queue = <<>> /\ \A v \in Users : pc[v] \in QuietLabels
    BY <1>ok, <2>1 DEF RestoreInv, RestoreAlone, RestoreLabels, Threads
  <2> QED
    BY <1>1, <2>2, NothingFits DEF sessions, Active, QuietLabels
<1> QED
  BY <1>2, <1>3, <1>4 DEF NMStep

LEMMA InitAlignInv == Init => AlignInv
<1> SUFFICES ASSUME Init PROVE AlignInv
  OBVIOUS
<1>1. RestoreInv
  BY DEF Init, RestoreInv, TruncatedIsEmpty, Truncated, RestoreAlone, RestoreLabels, AllIdle
<1>2. FitInv
  BY DEF Init, FitInv, SessionsFit, EntriesFit, CountsFit, MergesFit, Active, AllIdle, Threads
<1> QED
  BY <1>1, <1>2, InitEntryInv DEF AlignInv

\* What holds as long as the sessions have been in step with the document.
LEMMA InStepHolds ==
    AlignInv /\ InStep => /\ TypeInv /\ LockInv /\ PointersLead /\ QueueInv /\ RestoreInv /\ FitInv
  BY DEF AlignInv, EntryInv, PointerInv, UndisturbedLockInv, InStep, Undisturbed

LEMMA NextAlignInv == AlignInv /\ [Next]_vars => AlignInv'
<1> SUFFICES ASSUME AlignInv, [Next]_vars, InStep' PROVE RestoreInv' /\ FitInv'
  BY NextEntryInv DEF AlignInv
<1>1. InStep
  BY RacesGrow DEF InStep, Undisturbed
<1>2. /\ TypeInv /\ LockInv /\ PointersLead /\ QueueInv /\ RestoreInv /\ FitInv
  BY <1>1, InStepHolds
<1>3. TypeInv'
  BY NextEntryInv DEF AlignInv, EntryInv, PointerInv
<1>9. races \subseteq races'
  BY RacesGrow
<1>4. ASSUME NEW u \in Users, Step(u) PROVE RestoreInv' /\ FitInv'
  BY <1>2, <1>3, <1>4, <1>9, InStepIsSteady, StepRestoreInv, StepFits
<1>5. ASSUME NEW u \in Users, Request(u) PROVE RestoreInv' /\ FitInv'
  BY <1>2, <1>3, <1>5, <1>9, InStepIsSteady, RequestRestoreInv, RequestFits
<1>6. CASE NMStep
  BY <1>2, <1>3, <1>6, <1>9, InStepIsSteady, NMRestoreInv, NMFits
<1>7. CASE Restart
  BY <1>7, RestartRestoreInv, NothingFits DEF Restart, Active, AllIdle, Threads
<1>8. CASE UNCHANGED vars
  <2>1. UNCHANGED <<file, temp, target, queue, sent_idx, parsed, merged, pc, unlinked>> /\ UNCHANGED sessions
    BY <1>8 DEF vars, disk, commits, history
  <2>2. RestoreInv'
    BY <1>2, <2>1 DEF RestoreInv, TruncatedIsEmpty, Truncated, RestoreAlone, sessions, Active
  <2>3. FitInv'
    BY <1>2, <1>3, <1>9, <2>1, QuietFits, NamesAssumption DEF Threads
  <2> QED
    BY <2>2, <2>3
<1> QED
  BY <1>4, <1>5, <1>6, <1>7, <1>8 DEF Next

\* A step moves one thread, unless the server restarts.
LEMMA OneMoves ==
    ASSUME [Next]_vars, NEW u \in Users, pc[u] # pc'[u], pc'[u] # "idle", DOMAIN pc = Threads
    PROVE  Step(u) \/ Request(u)
<1>1. ASSUME NEW v \in Users, v # u, Step(v) \/ Request(v) PROVE FALSE
  <2>1. pc' = pc \/ \E l : Goto(v, l)
    BY <1>1 DEF Step, GetLock, TakeLock, TakeFreedLock, StartSession, CopyToTemp, WriteTemp, Enqueue,
       CloseSession, AcquireQueue, SkipCommit, MergeHead, Truncate, Flush, ReleaseQueue,
       UnlockLookup, Release, RestoreFlush, Request, LockValidate, WriteLookup, CommitLookup,
       CancelWrite, Undo
  <2> QED
    BY <1>1, <2>1 DEF Goto, Threads
<1>2. ~NMStep
  BY NamesAssumption DEF NMStep, CheckLocks, Delete, Create, Checkpoint, Revert, RevertFlush, Goto, Threads
<1>3. ~Restart /\ ~UNCHANGED vars
  BY DEF Restart, AllIdle, vars, Threads
<1> QED
  BY <1>1, <1>2, <1>3 DEF Next

\* As long as the sessions are in step with the document, a merge replaces the sentence its
\* session was opened on, found by its index, and no other: a commit queued before it can
\* neither have moved that sentence, or the counts would differ, nor be for the same one.
THEOREM MergesKeepOthers == Spec => UndisturbedMergeKeepsOthers
<1>1. ASSUME AlignInv, [Next]_vars, NEW u \in Users, Merges(u), InStep'
      PROVE  KeepsAllBut(LockedBy(Head(queue)), ContentOf(file), merged'[u])
  <2> DEFINE e == Head(queue)
             old == ContentOf(file)
             new == merged'[u]
  <2>1. InStep
    BY <1>1, RacesGrow DEF InStep, Undisturbed
  <2>2. TypeInv /\ LockInv /\ QueueInv /\ FitInv
    BY <1>1, <2>1, InStepHolds
  <2>3. DOMAIN pc = Threads /\ CommitTypeOK /\ IsParsed(old)
    BY <2>2, ContentTyped DEF TypeInv, TypeOK, ControlTypeOK, ThreadTypeOK, TextTypeOK
  <2>4. MergeHead(u)
    <3>1. Step(u) \/ Request(u)
      BY <1>1, <2>3, OneMoves DEF Merges
    <3>2. pc[u] = "process" /\ pc'[u] = "truncate"
      BY <1>1 DEF Merges
    <3>3. ~SkipCommit(u) /\ ~ReleaseQueue(u)
      BY <2>3, <3>2 DEF SkipCommit, ReleaseQueue, Goto, Threads
    <3> QED
      BY <3>1, <3>2, <3>3 DEF Step, GetLock, TakeLock, TakeFreedLock, StartSession, CopyToTemp,
         WriteTemp, Enqueue, CloseSession, AcquireQueue, Truncate, Flush, UnlockLookup, Release,
         RestoreFlush, Request, LockValidate, WriteLookup, CommitLookup, CancelWrite, Undo
  <2>5. /\ \A m \in 1 .. Len(old) : m # e.idx + 1 => \E n \in 1 .. Len(new) : new[n] = old[m]
        /\ e.idx < Len(old) => old[e.idx + 1].src = target[e.temp]
    BY <1>1, <2>2, <2>4, HeadMerges DEF FitInv
  <2>6. e.temp = <<e.user, e.idx>> /\ e.idx \in Nat
    <3>1. queue # <<>>
      BY <2>4 DEF MergeHead
    <3>2. 1 \in DOMAIN queue /\ e = queue[1]
      BY <2>2, <2>3, <3>1, HeadApart
    <3> QED
      BY <2>2, <2>3, <3>2, EntryTyped DEF QueueInv, EntriesOwned, Index
  <2>7. IsParsed(new)
    BY <1>1, NextTypeInv DEF AlignInv, EntryInv, PointerInv, TypeInv, TypeOK, TextTypeOK, Threads
  <2>8. LockedBy(e) = target[e.temp]
    BY <2>6 DEF LockedBy
  <2>9. ASSUME NEW m \in DOMAIN old, old[m].src # {}, old[m].src \cap LockedBy(e) = {}
        PROVE  \E n \in DOMAIN new : old[m].src \subseteq new[n].src /\ old[m].by \subseteq new[n].by
    <3>1. DOMAIN old = 1 .. Len(old) /\ DOMAIN new = 1 .. Len(new) /\ Len(old) \in Nat
      BY <2>3, <2>7 DEF IsParsed
    <3>2. m # e.idx + 1
      <4> SUFFICES ASSUME m = e.idx + 1 PROVE FALSE
        OBVIOUS
      <4>1. e.idx < Len(old)
        BY <2>6, <3>1
      <4>2. old[m].src = LockedBy(e)
        BY <2>5, <2>8, <4>1
      <4> QED
        BY <2>9, <4>2
    <3> QED
      BY <2>5, <3>1, <3>2
  <2> QED
    BY <2>9 DEF KeepsAllBut
<1>2. AlignInv /\ [Next]_vars =>
         [\A u \in Users : Merges(u) /\ InStep' =>
             KeepsAllBut(LockedBy(Head(queue)), ContentOf(file), merged'[u])]_vars
  BY <1>1
<1> QED
  BY <1>2, InitAlignInv, NextAlignInv, PTL DEF Spec, UndisturbedMergeKeepsOthers

-----------------------------------------------------------------------------
(* Sentence exclusion *)

\* No text on disk, and none that is about to be flushed, has two sentences that continue
\* the same original one.
TextsApart ==
    /\ SourcesApart(ContentOf(file)) /\ SourcesApart(ContentOf(undo))
    /\ SourcesApart(ContentOf(checkpoint))
    /\ \A t \in Threads : SourcesApart(merged[t])

ExclusionInv ==
    /\ AlignInv
    /\ InStep => TextsApart

LEMMA NothingApart == SourcesApart(<<>>) /\ ContentOf(NoFile) = <<>>
  BY DEF SourcesApart, ContentOf

LEMMA InitExclusionInv == Init => ExclusionInv
<1> SUFFICES ASSUME Init PROVE TextsApart
  BY InitAlignInv DEF ExclusionInv
<1>1. SourcesApart(ContentOf(file))
  BY FilesAssumption, NothingApart DEF Init, ContentOf
<1> QED
  BY <1>1, NothingApart DEF Init, TextsApart, NothingOpen

\* A thread that closes the file it has truncated puts its whole text in it.
LEMMA FlushIsWhole ==
    ASSUME TypeInv, TruncatedIsEmpty, NEW t \in Threads, pc[t] \in {"flush", "restore", "revert"},
           FlushMerged(t)
    PROVE  /\ file' \in {file, merged[t]}
           /\ \A v \in Threads : merged'[v] \in {merged[v], <<>>}
<1>1. DOMAIN merged = Threads /\ IsParsed(merged[t])
  BY DEF TypeInv, TypeOK, TextTypeOK
<1>2. file = <<>>
  BY DEF TruncatedIsEmpty, Truncated
<1>3. Overlay(file, merged[t]) = merged[t]
  BY <1>1, <1>2, OverlayEmpty
<1> QED
  BY <1>1, <1>3 DEF FlushMerged

\* Only a merge makes a text that was not there before.
LEMMA TextsStayApart ==
    ASSUME TypeInv, RestoreInv, FitInv, TextsApart, Next, InStep'
    PROVE  TextsApart'
<1>ok. DOMAIN merged = Threads
  BY DEF TypeInv, TypeOK, TextTypeOK
<1>1. CASE UNCHANGED <<file, undo, checkpoint, merged>>
  BY <1>1 DEF TextsApart
<1>2. ASSUME file' \in {file, <<>>, NoFile} \cup {merged[t] : t \in Threads},
             undo' \in {undo, file, NoFile}, checkpoint' \in {checkpoint, file},
             \A t \in Threads : \/ merged'[t] = merged[t] \/ merged'[t] = <<>>
                                \/ merged'[t] = undo /\ undo # NoFile
                                \/ merged'[t] = checkpoint /\ checkpoint # NoFile
                                \/ SourcesApart(merged'[t])
      PROVE  TextsApart'
  <2>1. \A text : SourcesApart(text) => SourcesApart(ContentOf(text))
    BY NothingApart DEF ContentOf
  <2>2. SourcesApart(ContentOf(file'))
    BY <1>2, <2>1, NothingApart DEF TextsApart
  <2>3. SourcesApart(ContentOf(undo')) /\ SourcesApart(ContentOf(checkpoint'))
    BY <1>2, NothingApart DEF TextsApart
  <2>4. \A t \in Threads : SourcesApart(merged'[t])
    BY <1>2, NothingApart DEF TextsApart, ContentOf
  <2> QED
    BY <2>2, <2>3, <2>4 DEF TextsApart
<1>3. ASSUME NEW u \in Users, Step(u) PROVE TextsApart'
  <2>1. CASE AcquireQueue(u)
    BY <1>2, <2>1 DEF AcquireQueue, BackedUp
  <2>2. CASE MergeHead(u)
    <3>1. SourcesApart(merged'[u])
      BY <2>2, HeadMerges DEF FitInv, TextsApart
    <3>2. UNCHANGED <<file, undo, checkpoint>> /\ \A t \in Threads \ {u} : merged'[t] = merged[t]
      BY <1>ok, <2>2 DEF MergeHead, disk, Threads
    <3> QED
      BY <1>2, <3>1, <3>2
  <2>3. CASE Truncate(u)
    BY <1>2, <2>3 DEF Truncate
  <2>4. CASE Flush(u) \/ RestoreFlush(u)
    <3>1. /\ FlushMerged(u) /\ undo' \in {undo, NoFile} /\ UNCHANGED checkpoint
          /\ pc[u] \in {"flush", "restore"} /\ u \in Threads
      BY <2>4 DEF Flush, RestoreFlush, Threads
    <3>2. /\ file' \in {file, merged[u]}
          /\ \A v \in Threads : merged'[v] \in {merged[v], <<>>}
      BY <3>1, FlushIsWhole DEF RestoreInv
    <3> QED
      BY <1>2, <3>1, <3>2
  <2>5. CASE \/ GetLock(u) \/ TakeLock(u) \/ TakeFreedLock(u) \/ StartSession(u) \/ CopyToTemp(u)
             \/ (\E kind \in WriteKinds : WriteTemp(u, kind)) \/ Enqueue(u) \/ CloseSession(u)
             \/ SkipCommit(u) \/ ReleaseQueue(u) \/ UnlockLookup(u) \/ Release(u)
    BY <1>1, <2>5 DEF GetLock, TakeLock, TakeFreedLock, StartSession, CopyToTemp, WriteTemp, Enqueue,
       CloseSession, SkipCommit, ReleaseQueue, UnlockLookup, Release, disk
  <2> QED
    BY <1>3, <2>1, <2>2, <2>3, <2>4, <2>5 DEF Step
<1>4. ASSUME NEW u \in Users, Request(u) PROVE TextsApart'
  <2>1. CASE Undo(u)
    BY <1>2, <1>ok, <2>1 DEF Undo, Threads
  <2>2. ASSUME NEW i \in Index, LockValidate(u, i) \/ WriteLookup(u, i) \/ CommitLookup(u, i) \/ CancelWrite(u, i)
        PROVE  TextsApart'
    BY <1>1, <2>2 DEF LockValidate, WriteLookup, CommitLookup, CancelWrite, disk
  <2> QED
    BY <1>4, <2>1, <2>2 DEF Request
<1>5. CASE NMStep
  <2>1. CASE CheckLocks \/ Delete \/ Create \/ Checkpoint
    BY <1>2, <2>1 DEF CheckLocks, Delete, Create, Checkpoint, disk
  <2>2. CASE Revert
    BY <1>2, <1>ok, <2>2 DEF Revert, BackedUp, Threads
  <2>3. CASE RevertFlush
    <3>1. FlushMerged(NM) /\ UNCHANGED <<undo, checkpoint>> /\ pc[NM] = "revert" /\ NM \in Threads
      BY <2>3 DEF RevertFlush, Threads
    <3>2. /\ file' \in {file, merged[NM]}
          /\ \A v \in Threads : merged'[v] \in {merged[v], <<>>}
      BY <3>1, FlushIsWhole DEF RestoreInv
    <3> QED
      BY <1>2, <3>1, <3>2
  <2> QED
    BY <1>5, <2>1, <2>2, <2>3 DEF NMStep
<1>6. CASE Restart
  BY <1>2, <1>6 DEF Restart, NothingOpen, disk
<1> QED
  BY <1>3, <1>4, <1>5, <1>6 DEF Next

LEMMA NextExclusionInv == ExclusionInv /\ [Next]_vars => ExclusionInv'
<1> SUFFICES ASSUME ExclusionInv, [Next]_vars, InStep' PROVE TextsApart'
  BY NextAlignInv DEF ExclusionInv
<1>1. InStep
  BY RacesGrow DEF InStep, Undisturbed
<1>2. TypeInv /\ RestoreInv /\ FitInv /\ TextsApart
  BY <1>1, InStepHolds DEF ExclusionInv
<1>3. CASE Next
  BY <1>2, <1>3, TextsStayApart
<1>4. CASE UNCHANGED vars
  BY <1>2, <1>4 DEF TextsApart, vars, disk
<1> QED
  BY <1>3, <1>4

\* As long as the sessions are in step with the document and no commit has moved sentences
\* under a session, no two sessions that are open edit the same sentence: each is for the
\* sentence at its own index in the document as it is now, for the lengths agree, and the
\* locks keep the indices apart.
THEOREM SessionsStayApart == Spec => []UndisturbedSentenceExclusion
<1>1. ExclusionInv => UndisturbedSentenceExclusion
  <2> SUFFICES ASSUME ExclusionInv, InStep, Undisturbed({"growth"}),
                      NEW j \in Active, NEW k \in Active, j # k, Editing(j), Editing(k)
               PROVE  target[TempPath(j)] \cap target[TempPath(k)] = {}
    BY DEF UndisturbedSentenceExclusion, SentenceExclusion
  <2>1. TypeInv /\ LockInv /\ FitInv /\ TextsApart
    BY InStepHolds DEF ExclusionInv
  <2>2. /\ Fits(Doc, write_sessions[j].idx, Len(Doc), temp[TempPath(j)], target[TempPath(j)])
        /\ Fits(Doc, write_sessions[k].idx, Len(Doc), temp[TempPath(k)], target[TempPath(k)])
    BY <2>1 DEF FitInv, SessionsFit, SlotFits, Counted
  <2>3. /\ write_sessions[j].idx \in Nat /\ write_sessions[k].idx \in Nat
        /\ write_sessions[j].idx # write_sessions[k].idx
    <3>1. write_sessions[j].idx \in Index /\ write_sessions[k].idx \in Index
      BY <2>1, SlotTyped DEF TypeInv, TypeOK, ControlTypeOK
    <3>2. /\ locked_by[write_sessions[j].idx] = write_sessions[j].user
          /\ locked_by[write_sessions[k].idx] = write_sessions[k].user
      BY <2>1 DEF LockInv, LockGuardsSession
    <3> QED
      BY <2>1, <3>1, <3>2 DEF LockInv, OneSessionPerSentence, Index
  <2>4. SourcesApart(Doc) /\ IsParsed(Doc)
    <3>1. IsParsed(Doc)
      BY <2>1, DocCases
    <3>2. CASE Flushes
      <4>1. PICK u \in Users : pc[u] = "flush"
        BY <3>2 DEF Flushes
      <4> QED
        BY <2>1, <3>1, <4>1, DocCases DEF TextsApart, Threads
    <3>3. CASE ~Flushes
      BY <2>1, <3>1, <3>3, DocCases DEF TextsApart
    <3> QED
      BY <3>2, <3>3
  <2> DEFINE d == Doc
             m == write_sessions[j].idx
             n == write_sessions[k].idx
  <2>5. /\ m >= Len(d) => target[TempPath(j)] = {}
        /\ n >= Len(d) => target[TempPath(k)] = {}
        /\ m < Len(d) => target[TempPath(j)] = d[m + 1].src
        /\ n < Len(d) => target[TempPath(k)] = d[n + 1].src
    BY <2>2 DEF Fits
  <2>6. DOMAIN d = 1 .. Len(d) /\ Len(d) \in Nat
    BY <2>4 DEF IsParsed
  <2>7. m \in Nat /\ n \in Nat /\ m # n
    BY <2>3
  <2>8. \A a, b \in DOMAIN d : a # b => d[a].src \cap d[b].src = {}
    BY <2>4 DEF SourcesApart
  <2> HIDE DEF d, m, n
  <2>9. CASE m < Len(d) /\ n < Len(d)
    <3>1. m + 1 \in DOMAIN d /\ n + 1 \in DOMAIN d /\ m + 1 # n + 1
      BY <2>6, <2>7, <2>9
    <3> QED
      BY <2>5, <2>8, <2>9, <3>1
  <2>10. CASE m >= Len(d) \/ n >= Len(d)
    BY <2>5, <2>10
  <2>11. m < Len(d) \/ m >= Len(d)
    BY <2>6, <2>7
  <2>12. n < Len(d) \/ n >= Len(d)
    BY <2>6, <2>7
  <2> QED
    BY <2>9, <2>10, <2>11, <2>12
<1> QED
  BY <1>1, InitExclusionInv, NextExclusionInv, PTL DEF Spec

-----------------------------------------------------------------------------
(* Acknowledged words *)

\* The words of acknowledged commits are in the document, or in what is about to be
\* flushed to it; and while commits are being merged, in its backup as well.
AckInv ==
    /\ acked \subseteq Marks(Doc)
    /\ queue_mutex # NoUser /\ queue # <<>> => acked \subseteq Marks(ContentOf(undo))

SafeInv ==
    /\ AlignInv
    /\ InStep /\ Undisturbed({"crash"}) => AckInv

\* A step of thread t that leaves the document's text and its backup.
LEMMA AckQuiet ==
    ASSUME TypeInv, TypeInv', AckInv, NEW t \in Threads, ContentOf(file') = ContentOf(file),
           undo' = undo,
           \A v \in Users \ {t} : pc'[v] = pc[v] /\ merged'[v] = merged[v],
           t \in Users => pc[t] # "flush" /\ pc'[t] # "flush",
           acked' \subseteq acked \cup Marks(Doc),
           queue_mutex' # NoUser /\ queue' # <<>> =>
              acked' = acked /\ queue_mutex # NoUser /\ queue # <<>>
    PROVE  AckInv'
<1>1. Doc' = Doc
  BY DocStays
<1> QED
  BY <1>1 DEF AckInv

\* A document that is being restored is empty, and holds nobody's words.
LEMMA RestoringIsUnmarked ==
    ASSUME TypeInv, RestoreInv, AckInv, NEW t \in Threads, pc[t] \in RestoreLabels
    PROVE  acked = {}
<1>1. \A u \in Users : pc[u] # "flush"
  BY DEF RestoreInv, RestoreAlone, RestoreLabels, QuietLabels, Threads
<1>2. file = <<>>
  BY DEF RestoreInv, TruncatedIsEmpty, Truncated, RestoreLabels
<1>3. Doc = <<>>
  BY <1>1, <1>2, DocCases DEF Flushes, ContentOf
<1> QED
  BY <1>3 DEF AckInv, Marks

LEMMA StepAckInv ==
    ASSUME TypeInv, TypeInv', RestoreInv, FitInv, AckInv, NEW u \in Users, Step(u), InStep'
    PROVE  AckInv'
<1>ok. /\ QueueOwnership
       /\ pc \in [Threads -> Labels \cup {"delete", "revert"}] /\ u \in Threads
       /\ DOMAIN merged = Threads /\ CommitTypeOK /\ NoUser \notin Users
  BY NamesAssumption DEF TypeInv, TypeOK, ControlTypeOK, ThreadTypeOK, TextTypeOK, Threads
<1>1. CASE \/ GetLock(u) \/ TakeLock(u) \/ TakeFreedLock(u) \/ StartSession(u) \/ CopyToTemp(u)
           \/ (\E kind \in WriteKinds : WriteTemp(u, kind)) \/ Enqueue(u) \/ CloseSession(u)
           \/ UnlockLookup(u) \/ Release(u)
  <2>1. /\ UNCHANGED <<file, undo, merged, queue_mutex, acked>>
        /\ queue_mutex # NoUser => queue' = queue
    BY <1>1 DEF GetLock, TakeLock, TakeFreedLock, StartSession, CopyToTemp, WriteTemp, Enqueue,
       CloseSession, UnlockLookup, Release, disk, commits, history
  <2>2. pc[u] # "flush" /\ \E l \in Labels \ {"flush"} : Goto(u, l)
    BY <1>1 DEF GetLock, TakeLock, TakeFreedLock, StartSession, CopyToTemp, WriteTemp, Enqueue,
       CloseSession, UnlockLookup, Release, Labels
  <2>3. pc'[u] # "flush" /\ \A v \in Users \ {u} : pc'[v] = pc[v]
    BY <1>ok, <2>2 DEF Goto
  <2> QED
    BY <1>ok, <2>1, <2>2, <2>3, AckQuiet
<1>2. CASE SkipCommit(u)
  <2>1. /\ UNCHANGED <<file, undo, merged, queue_mutex, acked, pc>>
        /\ pc[u] = "process" /\ queue # <<>>
    BY <1>2 DEF SkipCommit
  <2> QED
    BY <1>ok, <2>1, AckQuiet
<1>3. CASE MergeHead(u)
  <2>1. /\ UNCHANGED <<file, undo, queue, queue_mutex, acked>>
        /\ pc[u] = "process" /\ pc'[u] = "truncate"
        /\ \A v \in Users \ {u} : pc'[v] = pc[v] /\ merged'[v] = merged[v]
    BY <1>3, <1>ok DEF MergeHead, Goto, disk, commits, Threads
  <2> QED
    BY <1>ok, <2>1, AckQuiet
<1>4. CASE ReleaseQueue(u)
  <2>1. /\ UNCHANGED <<file, undo, merged>> /\ queue_mutex' = NoUser
        /\ pc[u] = "process" /\ pc'[u] = "unlock"
        /\ \A v \in Users \ {u} : pc'[v] = pc[v]
        /\ acked' = acked \cup ({u} \cap Marks(ContentOf(file)))
    BY <1>4, <1>ok DEF ReleaseQueue, Goto, disk
  <2>2. Doc = ContentOf(file)
    <3>1. ~Flushes
      BY <1>ok, <2>1 DEF QueueOwnership, QueueLabels, Flushes
    <3> QED
      BY <3>1, DocCases
  <2> QED
    BY <1>ok, <2>1, <2>2, AckQuiet
<1>5. CASE AcquireQueue(u)
  <2>1. /\ UNCHANGED <<file, merged, queue, acked>> /\ queue_mutex = NoUser
        /\ undo' = IF queue # <<>> THEN BackedUp ELSE undo
        /\ pc[u] = "acquire" /\ pc'[u] = "process"
        /\ \A v \in Users \ {u} : pc'[v] = pc[v]
    BY <1>5, <1>ok DEF AcquireQueue, Goto
  <2>2. Doc' = Doc
    BY <1>ok, <2>1, DocStays
  <2>3. Doc = ContentOf(file)
    <3>1. ~Flushes
      BY <1>ok, <2>1 DEF QueueOwnership, QueueLabels, Flushes
    <3> QED
      BY <3>1, DocCases
  <2>4. acked \subseteq Marks(ContentOf(file))
    BY <2>3 DEF AckInv
  <2>5. queue # <<>> => acked \subseteq Marks(ContentOf(undo'))
    <3>1. CASE file = NoFile
      <4>1. acked = {}
        BY <2>4, <3>1 DEF ContentOf, Marks
      <4> QED
        BY <4>1
    <3>2. CASE file # NoFile
      BY <2>1, <2>4, <3>2 DEF BackedUp
    <3> QED
      BY <3>1, <3>2
  <2> QED
    BY <2>1, <2>2, <2>5 DEF AckInv
<1>6. CASE Truncate(u)
  <2>1. /\ UNCHANGED <<undo, merged, queue, acked>> /\ pc[u] = "truncate" /\ pc'[u] = "flush"
        /\ UNCHANGED queue_mutex /\ queue_mutex = u
    <3>1. pc'[u] # "unlock"
      BY <1>6, NothingNoted DEF Truncate
    <3> QED
      BY <1>6, <1>ok, <3>1 DEF Truncate, Goto, QueueOwnership, QueueLabels
  <2>2. Doc' = merged[u]
    BY <1>ok, <2>1 DEF Doc
  <2>3. Doc = ContentOf(file)
    <3>1. ~Flushes
      BY <1>ok, <2>1 DEF QueueOwnership, QueueLabels, Flushes
    <3> QED
      BY <3>1, DocCases
  <2>4. Marks(Doc) \subseteq Marks(Doc')
    BY <2>1, <2>2, <2>3 DEF FitInv, MergesFit, Grown
  <2> QED
    BY <2>1, <2>4 DEF AckInv
<1>7. CASE Flush(u)
  <2>1. UNCHANGED <<undo, queue_mutex, acked>> /\ pc[u] = "flush" /\ queue # <<>> /\ queue_mutex = u
    BY <1>7, <1>ok DEF Flush, history, QueueOwnership, QueueLabels
  <2>2. Doc' = Doc
    BY <1>7, FlushKeepsDoc
  <2> QED
    BY <1>ok, <2>1, <2>2 DEF AckInv
<1>8. CASE RestoreFlush(u)
  <2>1. pc[u] = "restore" /\ UNCHANGED acked
    BY <1>8 DEF RestoreFlush
  <2>2. acked = {}
    BY <1>ok, <2>1, RestoringIsUnmarked DEF RestoreLabels
  <2> QED
    BY <2>1, <2>2 DEF AckInv
<1> QED
  BY <1>1, <1>2, <1>3, <1>4, <1>5, <1>6, <1>7, <1>8 DEF Step

LEMMA RequestAckInv ==
    ASSUME TypeInv, TypeInv', AckInv, NEW u \in Users, Request(u)
    PROVE  AckInv'
<1>ok. /\ pc \in [Threads -> Labels \cup {"delete", "revert"}] /\ u \in Threads
  BY DEF TypeInv, TypeOK, ControlTypeOK, ThreadTypeOK, Threads
<1>1. CASE Undo(u)
  BY <1>1 DEF Undo, AckInv
<1>2. ASSUME NEW i \in Index, LockValidate(u, i) \/ WriteLookup(u, i) \/ CommitLookup(u, i) \/ CancelWrite(u, i)
      PROVE  AckInv'
  <2>1. /\ UNCHANGED <<file, undo, merged, queue, queue_mutex, acked>> /\ pc[u] = "idle"
        /\ \E l \in {"getlock", "write", "enqueue", "unlock"} : Goto(u, l)
    BY <1>2 DEF LockValidate, WriteLookup, CommitLookup, CancelWrite, disk, commits, history
  <2>2. /\ pc'[u] \in {"getlock", "write", "enqueue", "unlock"}
        /\ \A v \in Users \ {u} : pc'[v] = pc[v]
    BY <1>ok, <2>1 DEF Goto
  <2> QED
    BY <1>ok, <2>1, <2>2, AckQuiet
<1> QED
  BY <1>1, <1>2 DEF Request

LEMMA NMAckInv ==
    ASSUME TypeInv, TypeInv', RestoreInv, AckInv, NMStep
    PROVE  AckInv'
<1>ok. /\ NM \in Threads /\ NM \notin Users
       /\ pc \in [Threads -> Labels \cup {"delete", "revert"}] /\ DOMAIN merged = Threads
  BY NamesAssumption DEF TypeInv, TypeOK, ControlTypeOK, ThreadTypeOK, TextTypeOK, Threads
<1>1. CASE CheckLocks \/ Checkpoint \/ (Delete /\ file = NoFile) \/ Create
  <2>1. /\ ContentOf(file') = ContentOf(file)
        /\ UNCHANGED <<undo, merged, queue, queue_mutex, acked>>
        /\ \A v \in Users : pc'[v] = pc[v]
    BY <1>1, <1>ok DEF CheckLocks, Checkpoint, Delete, Create, ContentOf, disk, commits, history, Goto, Threads
  <2> QED
    BY <1>ok, <2>1, AckQuiet
<1>2. CASE (Delete /\ file # NoFile) \/ Revert
  BY <1>2 DEF Delete, Revert, AckInv
<1>3. CASE RevertFlush
  <2>1. acked = {}
    BY <1>3, <1>ok, RestoringIsUnmarked DEF RestoreLabels, RevertFlush
  <2>2. UNCHANGED acked
    BY <1>3 DEF RevertFlush
  <2> QED
    BY <2>1, <2>2 DEF AckInv
<1> QED
  BY <1>1, <1>2, <1>3 DEF NMStep

LEMMA NextSafeInv == SafeInv /\ [Next]_vars => SafeInv'
<1> SUFFICES ASSUME SafeInv, [Next]_vars, InStep', Undisturbed({"crash"})' PROVE AckInv'
  BY NextAlignInv DEF SafeInv
<1>1. InStep /\ Undisturbed({"crash"})
  BY RacesGrow DEF InStep, Undisturbed
<1>2. TypeInv /\ RestoreInv /\ FitInv /\ AckInv
  BY <1>1, InStepHolds DEF SafeInv
<1>3. TypeInv'
  BY <1>2, NextTypeInv
<1>4. ASSUME NEW u \in Users, Step(u) PROVE AckInv'
  BY <1>2, <1>3, <1>4, StepAckInv
<1>5. ASSUME NEW u \in Users, Request(u) PROVE AckInv'
  BY <1>2, <1>3, <1>5, RequestAckInv
<1>6. CASE NMStep
  BY <1>2, <1>3, <1>6, NMAckInv
<1>7. ~Restart
  BY DEF Restart, Note, Undisturbed
<1>8. CASE UNCHANGED vars
  BY <1>2, <1>8 DEF vars, disk, commits, history, AckInv, Doc
<1> QED
  BY <1>4, <1>5, <1>6, <1>7, <1>8 DEF Next

\* At every moment the disk holds the words of every user whose commit was answered: they
\* are in the document, which a later merge only adds to, or, while a merge has it
\* truncated, in the backup that was made before the first merge of that queue.
THEOREM AcknowledgedStays == Spec => []AcknowledgedIsOnDisk
<1>1. Init => SafeInv
  BY InitAlignInv DEF Init, SafeInv, AckInv
<1>2. SafeInv => AcknowledgedIsOnDisk
  <2> SUFFICES ASSUME SafeInv, InStep, Undisturbed({"crash"})
               PROVE  acked \subseteq Marks(ContentOf(file)) \cup Marks(ContentOf(undo))
    BY DEF AcknowledgedIsOnDisk
  <2>1. TypeInv /\ AckInv
    BY InStepHolds DEF SafeInv
  <2>2. CASE Flushes
    <3>1. queue_mutex # NoUser /\ queue # <<>>
      BY <2>1, <2>2, NamesAssumption DEF Flushes, TypeInv, QueueOwnership, QueueLabels
    <3> QED
      BY <2>1, <3>1 DEF AckInv
  <2>3. CASE ~Flushes
    BY <2>1, <2>3, DocCases DEF AckInv
  <2> QED
    BY <2>2, <2>3
<1> QED
  BY <1>1, <1>2, NextSafeInv, PTL DEF Spec

-----------------------------------------------------------------------------
(* Reverts *)

\* A revert that met nobody: nothing but its own flush can reach the file, and the backup
\* it made stays.
RevertAlone ==
    pc[NM] = "revert" =>
        /\ file = <<>> /\ checkpoint # NoFile /\ merged[NM] = checkpoint
        /\ previous # NoFile => undo = previous
        /\ \A u \in Users : pc[u] \notin {"truncate", "flush", "restore"}

RevertInv ==
    /\ TypeInv
    /\ Undisturbed({"restore", "torn", "crash"}) => NM \notin unlinked /\ RevertAlone

LEMMA StepRevertAlone ==
    ASSUME TypeInv, RevertAlone, NEW u \in Users, Step(u) \/ Request(u), pc[NM] = "revert",
           Undisturbed({"restore", "torn", "crash"})'
    PROVE  RevertAlone'
<1>ok. /\ pc \in [Threads -> Labels \cup {"delete", "revert"}] /\ u \in Threads /\ NM \in Threads
       /\ u # NM /\ DOMAIN merged = Threads /\ Truncated
  BY NamesAssumption DEF TypeInv, TypeOK, ControlTypeOK, ThreadTypeOK, TextTypeOK, Threads, Truncated
<1>1. pc[u] \notin {"truncate", "flush", "restore"}
  BY DEF RevertAlone
<1>2. ~Undo(u) /\ ~MergeHead(u) /\ ~SkipCommit(u) /\ ~(AcquireQueue(u) /\ queue # <<>>)
  BY <1>ok DEF Undo, MergeHead, SkipCommit, AcquireQueue, Note, InUse, Undisturbed
<1>3. /\ UNCHANGED <<file, checkpoint, merged, previous, undo>>
      /\ \E l \in Labels \ {"truncate", "flush", "restore"} : Goto(u, l)
  BY <1>1, <1>2 DEF Step, GetLock, TakeLock, TakeFreedLock, StartSession, CopyToTemp, WriteTemp,
     Enqueue, CloseSession, AcquireQueue, Truncate, Flush, ReleaseQueue, UnlockLookup, Release,
     RestoreFlush, Request, LockValidate, WriteLookup, CommitLookup, CancelWrite, disk, history, Labels
<1>4. pc'[u] \notin {"truncate", "flush", "restore"} /\ \A t \in Threads \ {u} : pc'[t] = pc[t]
  BY <1>ok, <1>3 DEF Goto
<1> QED
  BY <1>ok, <1>3, <1>4 DEF RevertAlone, Threads

LEMMA NextRevertInv == RevertInv /\ [Next]_vars => RevertInv'
<1> SUFFICES ASSUME RevertInv, [Next]_vars, Undisturbed({"restore", "torn", "crash"})'
             PROVE  NM \notin unlinked' /\ RevertAlone'
  BY NextTypeInv DEF RevertInv
<1>1. TypeInv /\ TypeInv' /\ NM \notin unlinked /\ RevertAlone
  BY RacesGrow, NextTypeInv DEF RevertInv, Undisturbed
<1>ok. /\ pc \in [Threads -> Labels \cup {"delete", "revert"}] /\ NM \in Threads /\ NM \notin Users
       /\ DOMAIN merged = Threads
  BY <1>1, NamesAssumption DEF TypeInv, TypeOK, ControlTypeOK, ThreadTypeOK, TextTypeOK, Threads
<1>2. ASSUME NEW u \in Users, Step(u) \/ Request(u) PROVE NM \notin unlinked' /\ RevertAlone'
  <2>1. unlinked' \subseteq unlinked
    BY <1>2 DEF Step, GetLock, TakeLock, TakeFreedLock, StartSession, CopyToTemp, WriteTemp, Enqueue,
       CloseSession, AcquireQueue, SkipCommit, MergeHead, Truncate, Flush, FlushMerged, ReleaseQueue,
       UnlockLookup, Release, RestoreFlush, Request, LockValidate, WriteLookup, CommitLookup,
       CancelWrite, Undo
  <2>2. pc'[NM] = pc[NM]
    <3>1. pc' = pc \/ \E l : Goto(u, l)
      BY <1>2 DEF Step, GetLock, TakeLock, TakeFreedLock, StartSession, CopyToTemp, WriteTemp, Enqueue,
         CloseSession, AcquireQueue, SkipCommit, MergeHead, Truncate, Flush, ReleaseQueue,
         UnlockLookup, Release, RestoreFlush, Request, LockValidate, WriteLookup, CommitLookup,
         CancelWrite, Undo
    <3> QED
      BY <1>ok, <3>1 DEF Goto
  <2>3. CASE pc[NM] = "revert"
    BY <1>1, <1>2, <2>1, <2>3, StepRevertAlone
  <2>4. CASE pc[NM] # "revert"
    BY <1>1, <2>1, <2>2, <2>4 DEF RevertAlone
  <2> QED
    BY <2>3, <2>4
<1>3. CASE Revert
  <2>1. \A v \in Users : pc[v] = "idle" /\ pc'[v] = "idle"
    BY <1>ok, <1>3 DEF Revert, Note, InUse, Undisturbed, Goto, Threads
  <2> QED
    BY <1>1, <1>ok, <1>3, <2>1 DEF Revert, RevertAlone, BackedUp
<1>4. CASE CheckLocks \/ Delete \/ RevertFlush
  BY <1>1, <1>ok, <1>4 DEF CheckLocks, Delete, RevertFlush, FlushMerged, Goto, RevertAlone
<1>5. CASE Create \/ Checkpoint
  BY <1>1, <1>5 DEF Create, Checkpoint, RevertAlone
<1>6. ~Restart
  BY DEF Restart, Note, Undisturbed
<1>7. CASE UNCHANGED vars
  BY <1>1, <1>7 DEF vars, disk, history, RevertAlone
<1> QED
  BY <1>2, <1>3, <1>4, <1>5, <1>6, <1>7 DEF Next, NMStep

\* A revert that met no edit, commit or other restore puts the checkpoint in place and can
\* itself be undone: from its truncation to its flush nothing reaches the file or the backup,
\* because a commit that wanted to would have read the truncated file first.
THEOREM RevertsAreUndoable == Spec => RevertIsUndoable
<1>1. Init => RevertInv
  BY InitTypeInv DEF Init, RevertInv, RevertAlone, AllIdle, Threads
<1>2. ASSUME RevertInv, [Next]_vars
      PROVE  [pc[NM] = "revert" /\ pc'[NM] = "idle" /\ Undisturbed({"restore", "torn", "crash"})'
                 => /\ file' = checkpoint
                    /\ previous # NoFile => undo' = previous]_vars
  <2> SUFFICES ASSUME pc[NM] = "revert", pc'[NM] = "idle", Undisturbed({"restore", "torn", "crash"})'
               PROVE  file' = checkpoint /\ (previous # NoFile => undo' = previous)
    OBVIOUS
  <2>1. TypeInv /\ NM \notin unlinked /\ RevertAlone
    BY <1>2, RacesGrow DEF RevertInv, Undisturbed
  <2>2. pc \in [Threads -> Labels \cup {"delete", "revert"}] /\ NM \in Threads /\ NM \notin Users
    BY <2>1, NamesAssumption DEF TypeInv, TypeOK, ControlTypeOK, ThreadTypeOK, Threads
  <2>3. RevertFlush
    <3>1. ASSUME NEW u \in Users, Step(u) \/ Request(u) PROVE pc'[NM] = pc[NM]
      <4>1. pc' = pc \/ \E l : Goto(u, l)
        BY <3>1 DEF Step, GetLock, TakeLock, TakeFreedLock, StartSession, CopyToTemp, WriteTemp, Enqueue,
           CloseSession, AcquireQueue, SkipCommit, MergeHead, Truncate, Flush, ReleaseQueue,
           UnlockLookup, Release, RestoreFlush, Request, LockValidate, WriteLookup, CommitLookup,
           CancelWrite, Undo
      <4> QED
        BY <2>2, <4>1 DEF Goto
    <3>2. ~CheckLocks /\ ~Delete /\ ~Create /\ ~Checkpoint /\ ~Revert
      BY DEF CheckLocks, Delete, Create, Checkpoint, Revert
    <3>3. ~Restart /\ ~UNCHANGED vars
      BY DEF Restart, Note, Undisturbed, vars
    <3> QED
      BY <1>2, <3>1, <3>2, <3>3 DEF Next, NMStep
  <2>4. file = <<>> /\ merged[NM] = checkpoint /\ IsParsed(checkpoint) /\ file # NoFile
    BY <2>1, EmptyParsed, ParsedIsText DEF RevertAlone, TypeInv, TypeOK, TextTypeOK, IsFile
  <2>5. file' = checkpoint
    <3>1. Overlay(file, merged[NM]) = checkpoint
      BY <2>4, OverlayEmpty
    <3> QED
      BY <2>1, <2>3, <2>4, <3>1 DEF RevertFlush, FlushMerged
  <2> QED
    BY <2>1, <2>3, <2>5 DEF RevertFlush, RevertAlone
<1> QED
  BY <1>1, <1>2, NextRevertInv, PTL DEF Spec, RevertIsUndoable

-----------------------------------------------------------------------------
(* Committed words *)

\* User u's words in a session's text are all in the stretch of it that is merged.
Inside(text, i, count, u) ==
    \A n \in 1 .. Len(text) : u \in text[n].by => i < n /\ n <= i + 1 + (Len(text) - count)

\* A WRITE keeps them there, unless it puts words behind the delimiter of a sentence that
\* is not the last.
LEMMA InsertInside ==
    ASSUME NEW text, IsParsed(text), NEW i \in Nat, NEW u \in Users, NEW kind \in EditKinds,
           i < Len(text), NEW count \in 0 .. Len(text), Inside(text, i, count, u),
           kind \notin {"after", "newline"} \/ i + 1 = Len(text)
    PROVE  Inside(InsertWord(text, i, u, kind), i, count, u)
<1> DEFINE new == InsertWord(text, i, u, kind)
           L == Len(text)
<1>1. text \in Seq(Sentence) /\ L \in Nat /\ i + 1 \in 1 .. L
  BY DEF IsParsed
<1>2. PICK p, k, h : InsertPlaces(text, i, u, kind, p, k, h)
  BY InsertPlacesExist
<1>13. new \in Seq(Sentence)
  BY <1>2 DEF InsertPlaces
<1>3. /\ new \in Seq(Sentence) /\ Len(new) \in Nat /\ Places(h, p, new)
      /\ k \in 1 .. 3 /\ Len(p) = k + (L - 1)
      /\ \A n \in 1 .. i : p[n] = text[n] /\ h[n] = n
      /\ \A n \in 1 .. k : h[i + n] >= i + 1 /\ h[i + n] <= i + 1 + (Len(new) - L)
      /\ \A n \in i + 2 .. L : /\ p[n + k - 1] = text[n]
                               /\ h[n + k - 1] = n + (Len(new) - L)
  <2>1. Len(new) \in Nat
    BY <1>13
  <2>2. \A n \in 1 .. k : h[i + n] <= i + 1 + (Len(new) - L)
    BY <1>2 DEF InsertPlaces
  <2> QED
    BY <1>2, <2>1, <2>2 DEF InsertPlaces
<1>5. DOMAIN text = 1 .. L /\ Len(text) = L /\ count \in Nat /\ count <= L /\ L <= Len(new)
      /\ L \in Nat /\ Len(new) \in Nat
  BY <1>1, <1>3, InsertGrows
<1> HIDE DEF new, L
<1>4. ASSUME NEW n \in 1 .. Len(new), u \in new[n].by
      PROVE  i < n /\ n <= i + 1 + (Len(new) - count)
  <2>1. PICK q \in 1 .. Len(p) : h[q] = n /\ u \in p[q].by
    BY <1>3, <1>4 DEF Places
  <2>2. CASE q \in 1 .. i
    <3>1. h[q] = q /\ u \in text[q].by /\ q \in 1 .. L
      <4>1. p[q] = text[q] /\ h[q] = q
        BY <1>3, <2>2
      <4>2. q \in 1 .. L
        BY <1>1, <2>2
      <4> QED
        BY <2>1, <4>1, <4>2
    <3>2. i < q
      BY <1>5, <3>1 DEF Inside
    <3> QED
      BY <2>2, <3>2
  <2>3. CASE q \in i + 1 .. i + k
    <3>1. q - i \in 1 .. k /\ i + (q - i) = q
      BY <1>1, <1>3, <2>3, SMTT(30)
    <3>2. n >= i + 1 /\ n <= i + 1 + (Len(new) - L)
      BY <1>3, <2>1, <3>1
    <3> QED
      BY <1>1, <1>3, <1>5, <3>2
  <2>4. CASE q \notin 1 .. i /\ q \notin i + 1 .. i + k
    <3> DEFINE m == q - k + 1
    <3>1. m \in i + 2 .. L /\ m + k - 1 = q
      BY <1>1, <1>3, <2>1, <2>4, SMTT(30)
    <3> HIDE DEF m
    <3>2. p[q] = text[m] /\ n = m + (Len(new) - L)
      BY <1>3, <2>1, <3>1
    <3>3. m \in 1 .. Len(text) /\ m \in Nat
      BY <1>1, <1>5, <3>1
    <3>4. i < m /\ m <= i + 1 + (L - count)
      BY <1>5, <2>1, <3>2, <3>3 DEF Inside
    <3> QED
      BY <1>5, <3>2, <3>3, <3>4
  <2> QED
    BY <2>2, <2>3, <2>4
<1> QED
  BY <1>4 DEF Inside, new

\* `count` sentences counted for a session on sentence i of document d, or of one that has
\* grown to d: sentence i was one of them, unless there is none.
CountedIn(d, i, count) == count <= Len(d) /\ (i < count \/ (i = 0 /\ d = <<>>))

\* Text x of user u's session, opened on sentence i of `count`, can be merged into document d,
\* and all words in it of a user u who had none in the document are merged.
Ready(d, u, i, count, x, had) ==
    /\ CountedIn(d, i, count) /\ count <= Len(x)
    /\ u \notin had => Inside(x, i, count, u)

\* A session's text is ready when it is copied from the document.
LEMMA ReadyCopy ==
    ASSUME NEW d, IsParsed(d), NEW u \in Users, NEW i \in Nat, NEW count \in Nat, CountedIn(d, i, count)
    PROVE  Ready(d, u, i, count, d, Marks(d))
<1>1. \A n \in 1 .. Len(d) : u \in d[n].by => u \in Marks(d)
  BY DEF Marks, IsParsed
<1> QED
  BY <1>1 DEF Ready, CountedIn, Inside

\* It stays ready when it is edited.
LEMMA ReadyInsert ==
    ASSUME NEW d, IsParsed(d), NEW u \in Users, NEW i \in Nat, NEW count \in Nat, NEW text, IsParsed(text),
           NEW had, NEW kind \in EditKinds, Ready(d, u, i, count, text, had),
           kind \notin {"after", "newline"} \/ i + 1 >= Len(text),
           i <= Len(text) \/ (text = <<>> /\ i = 1)
    PROVE  Ready(d, u, i, count, InsertWord(text, i, u, kind), had)
<1> DEFINE new == InsertWord(text, i, u, kind)
<1>1. Len(text) \in Nat /\ IsParsed(new) /\ Len(new) \in Nat
  BY InsertTyped DEF IsParsed
<1>2. CASE i < Len(text)
  <2>1. Len(text) <= Len(new)
    BY <1>2, InsertGrows
  <2>2. kind \notin {"after", "newline"} \/ i + 1 = Len(text)
    BY <1>1, <1>2
  <2>3. count \in 0 .. Len(text)
    BY <1>1 DEF Ready
  <2>4. u \notin had => Inside(new, i, count, u)
    BY <1>2, <2>2, <2>3, InsertInside DEF Ready
  <2> HIDE DEF new
  <2>5. Ready(d, u, i, count, new, had)
    BY <1>1, <2>1, <2>4 DEF Ready
  <2> QED
    BY <2>5 DEF new
<1>3. CASE ~(i < Len(text))
  <2>1. count = 0 /\ i = 0
    BY <1>1, <1>3 DEF Ready, CountedIn, IsParsed
  <2> HIDE DEF new
  <2>2. Ready(d, u, i, count, new, had)
    BY <1>1, <2>1 DEF Ready, Inside
  <2> QED
    BY <2>2 DEF new
<1> QED
  BY <1>2, <1>3

\* It stays ready when another sentence's commit has made the document longer.
LEMMA ReadyGrown ==
    ASSUME NEW d, IsParsed(d), NEW e, IsParsed(e), Len(d) <= Len(e), NEW i \in Nat, NEW count \in Nat,
           CountedIn(d, i, count), d = <<>> => i # 0
    PROVE  CountedIn(e, i, count)
  BY DEF CountedIn, IsParsed

\* Its merge is not dropped, brings the words of its user, and takes no sentence away.
LEMMA ReadyMerges ==
    ASSUME NEW d, IsParsed(d), NEW u \in Users, NEW i \in Nat, NEW count \in Nat, NEW x, IsParsed(x),
           NEW had, Ready(d, u, i, count, x, had)
    PROVE  /\ ~SkipsCommit(d, count, i)
           /\ Len(d) <= Len(MergeCommit(d, x, count, i))
           /\ u \notin had /\ u \in Marks(x) => u \in Marks(MergeCommit(d, x, count, i))
<1> DEFINE new == MergeCommit(d, x, count, i)
<1>1. Len(d) \in Nat /\ Len(x) \in Nat /\ DOMAIN x = 1 .. Len(x) /\ (d = <<>> <=> Len(d) = 0)
  BY DEF IsParsed
<1>2. ~SkipsCommit(d, count, i)
  BY <1>1 DEF Ready, CountedIn, SkipsCommit, AdjustedIndex
<1>3. CASE d = <<>>
  <2>1. new = x
    BY <1>3 DEF MergeCommit
  <2> QED
    BY <1>1, <1>2, <1>3, <2>1
<1>4. CASE d # <<>>
  <2>1. i < count /\ count <= Len(d) /\ count <= Len(x)
    BY <1>4 DEF Ready, CountedIn
  <2> DEFINE a == i + (Len(d) - count)
             g == Len(x) - count
  <2>2. IsMerged(d, x, i, new, a, g)
    BY <2>1, MergeParts
  <2> HIDE DEF new, a
  <2>3. /\ new \in Seq(Sentence) /\ Len(new) = Len(d) + g /\ a \in Nat /\ a < Len(d) /\ g \in Nat
        /\ \A n \in 1 .. 1 + g : new[a + n] = x[i + n]
    BY <2>2 DEF IsMerged
  <2>4. ASSUME u \notin had, u \in Marks(x) PROVE u \in Marks(new)
    <3>1. PICK n \in 1 .. Len(x) : u \in x[n].by
      BY <1>1, <2>4 DEF Marks
    <3>2. i < n /\ n <= i + 1 + (Len(x) - count)
      BY <2>4, <3>1 DEF Ready, Inside
    <3>3. n - i \in 1 .. 1 + g /\ i + (n - i) = n
      BY <1>1, <2>1, <3>2
    <3>4. new[a + (n - i)] = x[n]
      BY <2>3, <3>3
    <3>5. a + (n - i) \in DOMAIN new
      BY <1>1, <2>3, <3>2, <3>3
    <3> QED
      BY <3>1, <3>4, <3>5 DEF Marks
  <2>5. Len(d) <= Len(new)
    BY <1>1, <2>3
  <2> QED
    BY <1>2, <2>4, <2>5 DEF new
<1> QED
  BY <1>3, <1>4

\* The kinds of interference without which committed words arrive.
Firm == Undisturbed({"append", "after", "pointer", "realloc", "torn", "restore", "failed", "crash"})

\* The text of user u's session on sentence i, opened on `count` sentences, is open or waits
\* to be merged.
Waits(u, i, count) ==
    \/ \E k \in Active : /\ Editing(k) /\ TempPath(k) = <<u, i>>
                         /\ write_sessions[k].count = count
    \/ \E n \in DOMAIN queue : /\ n = 1 => ~Flushes
                               /\ queue[n].user = u /\ queue[n].idx = i
                               /\ queue[n].count = count

ReadyText(u, i, count) == Ready(Doc, u, i, count, temp[<<u, i>>], carried[<<u, i>>])

TextsReady ==
    \A u \in Users, i \in Index, count \in Nat : Waits(u, i, count) => ReadyText(u, i, count)

AskLabels == {"getlock", "takelock", "start"}

\* A sentence that is asked for is in the document, and was when it was counted.
CountsReady ==
    \A u \in Users :
        /\ pc[u] \in AskLabels => sent_idx[u] = 0 \/ sent_idx[u] < Len(Doc)
        /\ pc[u] = "copy" => CountedIn(Doc, sent_idx[u], parsed[u])

MergeLabels == {"truncate", "flush"}

\* A text that is about to be flushed has the words of the commit that was merged.
Brings(e, text) ==
    e.user \notin carried[e.temp] /\ e.user \in Marks(temp[e.temp]) => e.user \in Marks(text)

MergesReady ==
    \A u \in Users :
        /\ pc[u] = "truncate" => Len(ContentOf(file)) <= Len(merged[u])
        /\ pc[u] \in MergeLabels => Brings(Head(queue), merged[u])

ReadyInv == TextsReady /\ CountsReady /\ MergesReady

ArriveInv ==
    /\ EntryInv
    /\ Firm => RestoreInv /\ ReadyInv

\* A step of thread t that leaves the document's text: what it does to other threads' texts.
LEMMA ReadyStep ==
    ASSUME ReadyInv, NEW t \in Threads, Doc' = Doc,
           \A v \in Users \ {t} : /\ pc'[v] = pc[v] /\ sent_idx'[v] = sent_idx[v]
                                  /\ parsed'[v] = parsed[v] /\ merged'[v] = merged[v],
           \A v \in Users, i \in Index, count \in Nat : Waits(v, i, count)' =>
              \/ ReadyText(v, i, count)'
              \/ /\ Waits(v, i, count)
                 /\ temp'[<<v, i>>] = temp[<<v, i>>] /\ carried'[<<v, i>>] = carried[<<v, i>>],
           (\E v \in Users \ {t} : pc[v] \in MergeLabels) =>
              /\ UNCHANGED queue /\ ContentOf(file') = ContentOf(file)
              /\ temp'[Head(queue).temp] = temp[Head(queue).temp]
              /\ carried'[Head(queue).temp] = carried[Head(queue).temp],
           t \in Users =>
              /\ pc'[t] \in AskLabels =>
                    \/ sent_idx'[t] = 0 \/ sent_idx'[t] < Len(Doc)
                    \/ pc[t] \in AskLabels /\ sent_idx'[t] = sent_idx[t]
              /\ pc'[t] = "copy" => CountedIn(Doc, sent_idx'[t], parsed'[t])
              /\ pc'[t] = "truncate" => Len(ContentOf(file')) <= Len(merged'[t])
              /\ pc'[t] \in MergeLabels => Brings(Head(queue), merged[t])'
    PROVE  ReadyInv'
<1>1. TextsReady'
  <2> SUFFICES ASSUME NEW v \in Users, NEW i \in Index, NEW count \in Nat, Waits(v, i, count)',
                      ~ReadyText(v, i, count)'
               PROVE  ReadyText(v, i, count)'
    BY DEF TextsReady
  <2>1. /\ Waits(v, i, count)
        /\ temp'[<<v, i>>] = temp[<<v, i>>] /\ carried'[<<v, i>>] = carried[<<v, i>>]
    OBVIOUS
  <2>2. ReadyText(v, i, count)
    BY <2>1 DEF ReadyInv, TextsReady
  <2> QED
    BY <2>1, <2>2 DEF ReadyText
<1>2. CountsReady'
  <2> SUFFICES ASSUME NEW v \in Users
               PROVE  /\ pc'[v] \in AskLabels => sent_idx'[v] = 0 \/ sent_idx'[v] < Len(Doc)
                      /\ pc'[v] = "copy" => CountedIn(Doc, sent_idx'[v], parsed'[v])
    BY DEF CountsReady
  <2>1. CASE v # t
    BY <2>1 DEF ReadyInv, CountsReady
  <2>2. CASE v = t
    BY <2>2 DEF ReadyInv, CountsReady
  <2> QED
    BY <2>1, <2>2
<1>3. MergesReady'
  <2> SUFFICES ASSUME NEW v \in Users
               PROVE  /\ pc'[v] = "truncate" => Len(ContentOf(file')) <= Len(merged'[v])
                      /\ pc'[v] \in MergeLabels => Brings(Head(queue), merged[v])'
    BY DEF MergesReady
  <2>1. CASE v # t /\ pc[v] \in MergeLabels
    <3>1. Brings(Head(queue), merged[v])
      BY <2>1 DEF ReadyInv, MergesReady
    <3>2. Brings(Head(queue), merged[v])'
      BY <2>1, <3>1 DEF Brings
    <3> QED
      BY <2>1, <3>2 DEF ReadyInv, MergesReady
  <2>2. CASE v # t /\ pc[v] \notin MergeLabels
    BY <2>2 DEF MergeLabels
  <2>3. CASE v = t
    BY <2>3
  <2> QED
    BY <2>1, <2>2, <2>3
<1> QED
  BY <1>1, <1>2, <1>3 DEF ReadyInv

\* No text is open or waits.
LEMMA NothingReady ==
    ASSUME Active' = {}, queue' = <<>>,
           \A v \in Users : pc'[v] \notin AskLabels \cup MergeLabels \cup {"copy"}
    PROVE  ReadyInv'
  BY DEF ReadyInv, TextsReady, CountsReady, MergesReady, Waits, MergeLabels

\* No session or commit of theirs is opened or queued by what thread t does.
LEMMA WaitsQuiet ==
    ASSUME SessionTypeOK, UNCHANGED queue, UNCHANGED sessions, Flushes' <=> Flushes, NEW t \in Threads,
           \A v \in Users \ {t} : pc'[v] = pc[v] /\ sent_idx'[v] = sent_idx[v],
           t \in Users /\ pc[t] \in EditLabels =>
              \/ pc'[t] \in EditLabels /\ sent_idx'[t] = sent_idx[t]
              \/ ~HasSession(t, sent_idx[t]),
           NEW u \in Users, NEW i \in Index, NEW count \in Nat, Waits(u, i, count)'
    PROVE  Waits(u, i, count)
<1>1. Active' = Active /\ write_sessions' = write_sessions
  BY DEF sessions, Active
<1>2. ASSUME NEW k \in Active, Editing(k)' PROVE Editing(k)
  <2>1. TempPath(k)' = TempPath(k)
    BY <1>1 DEF TempPath
  <2>2. ASSUME NEW v \in Users, pc[v] \in EditLabels, TempPath(k) = <<v, sent_idx[v]>> PROVE FALSE
    <3>1. HasSession(v, sent_idx[v])
      BY <2>2 DEF HasSession, SlotsOf, TempPath
    <3>2. pc'[v] \in EditLabels /\ sent_idx'[v] = sent_idx[v]
      BY <2>2, <3>1
    <3> QED
      BY <1>2, <2>1, <2>2, <3>2 DEF Editing, EditLabels
  <2> QED
    BY <2>2 DEF Editing, EditLabels
<1>3. CASE \E k \in Active' : /\ Editing(k)' /\ TempPath(k)' = <<u, i>>
                              /\ write_sessions'[k].count = count
  BY <1>1, <1>2, <1>3 DEF Waits, TempPath
<1>4. CASE \E n \in DOMAIN queue' : /\ n = 1 => ~Flushes'
                                    /\ queue'[n].user = u /\ queue'[n].idx = i
                                    /\ queue'[n].count = count
  BY <1>4 DEF Waits
<1> QED
  BY <1>3, <1>4 DEF Waits

\* A step of thread t that touches neither texts nor sessions.
LEMMA QuietReady ==
    ASSUME TypeInv, TypeInv', ReadyInv, NEW t \in Threads, ContentOf(file') = ContentOf(file),
           UNCHANGED <<temp, carried, queue>>, UNCHANGED sessions,
           \A v \in Users \ {t} : /\ pc'[v] = pc[v] /\ merged'[v] = merged[v]
                                  /\ sent_idx'[v] = sent_idx[v] /\ parsed'[v] = parsed[v],
           t \in Users =>
              /\ pc[t] # "flush" /\ pc'[t] # "flush"
              /\ pc'[t] \in AskLabels =>
                    \/ sent_idx'[t] = 0 \/ sent_idx'[t] < Len(Doc)
                    \/ pc[t] \in AskLabels /\ sent_idx'[t] = sent_idx[t]
              /\ pc'[t] = "copy" => CountedIn(Doc, sent_idx'[t], parsed'[t])
              /\ pc'[t] = "truncate" => /\ Len(ContentOf(file)) <= Len(merged'[t])
                                        /\ Brings(Head(queue), merged'[t])
              /\ pc[t] \in EditLabels =>
                    \/ pc'[t] \in EditLabels /\ sent_idx'[t] = sent_idx[t]
                    \/ ~HasSession(t, sent_idx[t])
    PROVE  ReadyInv'
<1>1. Doc' = Doc /\ (Flushes' <=> Flushes)
  BY DocStays
<1>2. \A v \in Users, i \in Index, count \in Nat : Waits(v, i, count)' =>
              /\ Waits(v, i, count)
              /\ temp'[<<v, i>>] = temp[<<v, i>>] /\ carried'[<<v, i>>] = carried[<<v, i>>]
  <2>1. SessionTypeOK
    BY DEF TypeInv, TypeOK, ControlTypeOK
  <2> QED
    BY <1>1, <2>1, WaitsQuiet
<1>3. t \in Users /\ pc'[t] \in MergeLabels => pc'[t] = "truncate"
  BY DEF MergeLabels
<1>4. t \in Users /\ pc'[t] = "truncate" => Brings(Head(queue), merged[t])'
  BY DEF Brings
<1> QED
  BY <1>1, <1>2, <1>3, <1>4, ReadyStep

\* LOCK_SENTENCE copies the document into its session.
LEMMA CopyReady ==
    ASSUME TypeInv, TypeInv', LockInv, PointersLead, QueueInv, ReadyInv, NEW u \in Users,
           CopyToTemp(u), Steady'
    PROVE  ReadyInv'
<1>0. PICK s, i : s = session[u] /\ i = sent_idx[u]
  OBVIOUS
<1>ok. CommitTypeOK /\ SessionTypeOK /\ ThreadTypeOK
  BY DEF TypeInv, TypeOK, ControlTypeOK
<1>type. /\ u \in Threads /\ i \in Nat /\ i \in Index /\ <<u, i>> \in Keys
         /\ pc \in [Threads -> Labels \cup {"delete", "revert"}]
         /\ DOMAIN temp = Keys /\ DOMAIN carried = Keys
         /\ DOMAIN write_sessions = 1 .. MaxSessions
         /\ parsed[u] \in Nat
  <2>1. u \in Threads /\ i \in Index /\ pc \in [Threads -> Labels \cup {"delete", "revert"}]
    BY <1>0, <1>ok DEF ThreadTypeOK, Threads
  <2>2. DOMAIN temp = Keys /\ DOMAIN carried = Keys
    BY DEF TypeInv, TypeOK, TextTypeOK, HistoryTypeOK
  <2>3. DOMAIN write_sessions = 1 .. MaxSessions /\ parsed[u] \in Nat
    BY <1>ok DEF SessionTypeOK, CommitTypeOK
  <2> QED
    BY <2>1, <2>2, <2>3 DEF Keys, Index
<1>1. s \in SlotsOf(u, i) /\ pc[u] = "copy" /\ pc'[u] = "idle"
  BY <1>0, <1>type DEF CopyToTemp, PointersLead, PointerLabels, Goto
<1>2. ~Truncated
  BY NothingMet DEF CopyToTemp
<1>3. ~Flushes /\ Doc = ContentOf(file) /\ IsParsed(Doc)
  BY <1>2, DocCases DEF Flushes, Truncated, Threads
<1>4. /\ UNCHANGED <<file, queue, sent_idx, parsed, merged>>
      /\ write_session_count' = write_session_count
      /\ \A v \in Users \ {u} : pc'[v] = pc[v]
  BY DEF CopyToTemp, commits, Goto, Threads
<1>5. Doc' = Doc /\ (Flushes' <=> Flushes)
  BY <1>1, <1>4, <1>type, DocStays
<1>6. s \in Active /\ TempPath(s) = <<u, i>> /\ \A k \in Active : k # s => TempPath(k) # <<u, i>>
  BY <1>1, OneSlot
<1>7. /\ write_sessions' = [write_sessions EXCEPT ![s] = Stamped(write_sessions[s], parsed[u])]
      /\ temp' = [temp EXCEPT ![<<u, i>>] = Doc]
      /\ carried' = [carried EXCEPT ![<<u, i>>] = Marks(Doc)]
  BY <1>0, <1>3, <1>6 DEF CopyToTemp
<1>8. Active' = Active /\ Active \subseteq 1 .. MaxSessions
  BY <1>4, <1>ok, BoundsAssumption DEF Active, SessionTypeOK
<1>9. ASSUME NEW k \in Active, k # s, Editing(k)'
      PROVE  /\ Editing(k) /\ write_sessions'[k] = write_sessions[k]
             /\ TempPath(k)' = TempPath(k) /\ TempPath(k) # <<u, i>>
  <2>1. write_sessions'[k] = write_sessions[k]
    BY <1>7, <1>8, <1>9, <1>type
  <2>2. TempPath(k)' = TempPath(k) /\ TempPath(k) # <<u, i>>
    BY <1>6, <1>9, <2>1 DEF TempPath
  <2>3. Editing(k)
    BY <1>0, <1>4, <1>9, <2>2 DEF Editing
  <2> QED
    BY <2>1, <2>2, <2>3
<1>10. write_sessions'[s].count = parsed[u] /\ TempPath(s)' = <<u, i>>
  BY <1>6, <1>7, <1>8, <1>type DEF Stamped, TempPath
<1>11. \A n \in DOMAIN queue : queue[n].temp = <<queue[n].user, queue[n].idx>> /\ queue[n].temp # <<u, i>>
                               /\ queue[n].temp \in Keys
  <2>1. \A n \in DOMAIN queue : queue[n].temp # <<u, i>>
    BY <1>1, <1>ok, NotQueued DEF CommitLabels
  <2> QED
    BY <1>ok, <2>1, EntryTyped DEF QueueInv, EntriesOwned
<1>12. ReadyText(u, i, parsed[u])'
  <2>1. CountedIn(Doc, i, parsed[u])
    BY <1>0, <1>1 DEF ReadyInv, CountsReady
  <2>2. Ready(Doc, u, i, parsed[u], Doc, Marks(Doc))
    BY <1>3, <1>type, <2>1, ReadyCopy
  <2>3. temp'[<<u, i>>] = Doc /\ carried'[<<u, i>>] = Marks(Doc)
    BY <1>7, <1>type
  <2> QED
    BY <1>4, <1>5, <2>2, <2>3 DEF ReadyText
<1>13. ASSUME NEW v \in Users, NEW j \in Index, NEW count \in Nat, Waits(v, j, count)'
       PROVE  \/ ReadyText(v, j, count)'
              \/ /\ Waits(v, j, count)
                 /\ temp'[<<v, j>>] = temp[<<v, j>>] /\ carried'[<<v, j>>] = carried[<<v, j>>]
  <2>1. <<v, j>> # <<u, i>> => temp'[<<v, j>>] = temp[<<v, j>>] /\ carried'[<<v, j>>] = carried[<<v, j>>]
    BY <1>7, <1>type DEF Keys
  <2>2. CASE \E k \in Active' : /\ Editing(k)' /\ TempPath(k)' = <<v, j>>
                                /\ write_sessions'[k].count = count
    <3>1. PICK k \in Active : /\ Editing(k)' /\ TempPath(k)' = <<v, j>>
                              /\ write_sessions'[k].count = count
      BY <1>8, <2>2
    <3>2. CASE k = s
      <4>1. v = u /\ j = i /\ count = parsed[u]
        BY <1>10, <3>1, <3>2 DEF TempPath
      <4> QED
        BY <1>4, <1>12, <4>1 DEF ReadyText
    <3>3. CASE k # s
      BY <1>9, <2>1, <3>1, <3>3 DEF Waits
    <3> QED
      BY <3>2, <3>3
  <2>3. CASE \E n \in DOMAIN queue' : /\ n = 1 => ~Flushes'
                                      /\ queue'[n].user = v /\ queue'[n].idx = j
                                      /\ queue'[n].count = count
    BY <1>4, <1>5, <1>11, <2>1, <2>3 DEF Waits
  <2> QED
    BY <1>13, <2>2, <2>3 DEF Waits
<1>14. (\E v \in Users \ {u} : pc[v] \in MergeLabels) =>
              /\ UNCHANGED queue /\ ContentOf(file') = ContentOf(file)
              /\ temp'[Head(queue).temp] = temp[Head(queue).temp]
              /\ carried'[Head(queue).temp] = carried[Head(queue).temp]
  <2> SUFFICES ASSUME NEW v \in Users, pc[v] \in MergeLabels
               PROVE  /\ temp'[Head(queue).temp] = temp[Head(queue).temp]
                      /\ carried'[Head(queue).temp] = carried[Head(queue).temp]
    BY <1>4
  <2>1. queue # <<>>
    BY DEF TypeInv, QueueOwnership, MergeLabels
  <2>2. 1 \in DOMAIN queue /\ Head(queue) = queue[1]
    BY <1>ok, <2>1, HeadApart
  <2> QED
    BY <1>7, <1>11, <1>type, <2>2
<1> QED
  BY <1>1, <1>4, <1>5, <1>13, <1>14, <1>type, ReadyStep DEF AskLabels, MergeLabels

\* LOCK_SENTENCE looks for its session, and makes one if there is none.
LEMMA StartReady ==
    ASSUME TypeInv, TypeInv', ReadyInv, NEW u \in Users, StartSession(u), Steady'
    PROVE  ReadyInv'
<1> DEFINE i == sent_idx[u]
<1>type. /\ u \in Threads /\ pc \in [Threads -> Labels \cup {"delete", "revert"}]
         /\ SessionTypeOK /\ parsed \in [Users -> Nat] /\ i \in Index /\ i \in Nat
  <2>1. SessionTypeOK /\ ThreadTypeOK /\ CommitTypeOK
    BY DEF TypeInv, TypeOK, ControlTypeOK
  <2>2. /\ u \in Threads /\ pc \in [Threads -> Labels \cup {"delete", "revert"}]
        /\ parsed \in [Users -> Nat] /\ i \in Index
    BY <2>1 DEF ThreadTypeOK, CommitTypeOK, Threads
  <2>3. i \in Nat
    BY <2>2 DEF Index
  <2> QED
    BY <2>1, <2>2, <2>3
<1>1. ~Truncated
  BY NothingMet DEF StartSession
<1>2. ~Flushes /\ Doc = ContentOf(file) /\ IsParsed(Doc)
  BY <1>1, DocCases DEF Flushes, Truncated, Threads
<1>3. /\ UNCHANGED <<file, temp, carried, queue, sent_idx, merged>>
      /\ pc[u] = "start" /\ pc'[u] \in {"copy", "unlock"}
      /\ \A v \in Users \ {u} : pc'[v] = pc[v] /\ parsed'[v] = parsed[v]
      /\ parsed'[u] = Len(Doc)
  BY <1>2, <1>type DEF StartSession, Goto, disk, commits, Threads
<1>4. CountedIn(Doc, i, parsed'[u])
  <2>1. i = 0 \/ i < Len(Doc)
    BY <1>3 DEF ReadyInv, CountsReady, AskLabels
  <2> QED
    BY <1>2, <1>3, <2>1 DEF CountedIn, IsParsed
<1>5. CASE UNCHANGED sessions
  <2>1. pc'[u] = "copy" \/ ~HasSession(u, i)
    BY <1>3, <1>type DEF StartSession, Goto
  <2>2. (pc'[u] \in EditLabels /\ sent_idx'[u] = sent_idx[u]) \/ ~HasSession(u, i)
    BY <1>3, <2>1 DEF EditLabels
  <2> QED
    BY <1>3, <1>4, <1>5, <1>type, <2>2, QuietReady DEF AskLabels
<1>6. CASE ~UNCHANGED sessions
  <2> DEFINE n == write_session_count + 1
  <2>1. /\ Active' = Active \cup {n}
        /\ \A k \in Active : write_sessions'[k] = write_sessions[k]
        /\ write_sessions'[n].user = u /\ write_sessions'[n].idx = i
        /\ pc'[u] = "copy"
    <3>1. /\ write_session_count < MaxSessions
          /\ write_session_count' = write_session_count + 1
          /\ write_sessions' = [write_sessions EXCEPT ![write_session_count + 1] = Reused(@, u, i)]
          /\ Goto(u, "copy")
      BY <1>6 DEF StartSession
    <3> QED
      BY <1>type, <3>1, BoundsAssumption DEF SessionTypeOK, Reused, Active, Goto
  <2>2. Doc' = Doc /\ (Flushes' <=> Flushes)
    BY <1>3, <1>type, DocStays
  <2>3. PICK m : m = n
    OBVIOUS
  <2> HIDE DEF n
  <2>4. ~Editing(m)'
    BY <1>3, <2>1, <2>3 DEF Editing, TempPath, i
  <2>5. ASSUME NEW k \in Active, Editing(k)' PROVE Editing(k) /\ TempPath(k)' = TempPath(k)
    <3>1. TempPath(k)' = TempPath(k)
      BY <2>1 DEF TempPath
    <3> QED
      BY <1>3, <2>1, <2>5, <3>1 DEF Editing
  <2>6. ASSUME NEW v \in Users, NEW j \in Index, NEW count \in Nat, Waits(v, j, count)'
        PROVE  Waits(v, j, count)
    <3>1. CASE \E k \in Active' : /\ Editing(k)' /\ TempPath(k)' = <<v, j>>
                                  /\ write_sessions'[k].count = count
      BY <2>1, <2>3, <2>4, <2>5, <3>1 DEF Waits
    <3>2. CASE \E k \in DOMAIN queue' : /\ k = 1 => ~Flushes'
                                        /\ queue'[k].user = v /\ queue'[k].idx = j
                                        /\ queue'[k].count = count
      BY <1>3, <2>2, <3>2 DEF Waits
    <3> QED
      BY <2>6, <3>1, <3>2 DEF Waits
  <2>7. pc'[u] \notin MergeLabels /\ pc'[u] \notin AskLabels
    BY <2>1 DEF AskLabels, MergeLabels
  <2> QED
    BY <1>3, <1>4, <1>type, <2>1, <2>2, <2>6, <2>7, ReadyStep
<1> QED
  BY <1>5, <1>6

\* WRITE edits its own session's text.
LEMMA WriteReady ==
    ASSUME TypeInv, TypeInv', LockInv, PointersLead, QueueInv, ReadyInv, NEW u \in Users,
           NEW kind \in WriteKinds, WriteTemp(u, kind), Firm'
    PROVE  ReadyInv'
<1>0. PICK s, i : s = session[u] /\ i = sent_idx[u]
  OBVIOUS
<1>ok. CommitTypeOK /\ SessionTypeOK /\ ThreadTypeOK
  BY DEF TypeInv, TypeOK, ControlTypeOK
<1>type. /\ u \in Threads /\ i \in Index /\ i \in Nat /\ <<u, i>> \in Keys
         /\ pc \in [Threads -> Labels \cup {"delete", "revert"}]
         /\ DOMAIN temp = Keys /\ \A key \in Keys : IsFile(temp[key])
         /\ kind \in EditKinds
  <2>1. u \in Threads /\ i \in Index /\ pc \in [Threads -> Labels \cup {"delete", "revert"}]
    BY <1>0, <1>ok DEF ThreadTypeOK, Threads
  <2>2. DOMAIN temp = Keys /\ \A key \in Keys : IsFile(temp[key])
    BY DEF TypeInv, TypeOK, TextTypeOK
  <2> QED
    BY <2>1, <2>2, BoundsAssumption DEF Keys, Index
<1>1. /\ s \in SlotsOf(u, i) /\ pc[u] = "write" /\ pc'[u] = "idle"
      /\ \A v \in Users \ {u} : pc'[v] = pc[v]
  BY <1>0, <1>type DEF WriteTemp, PointersLead, PointerLabels, Goto, Threads
<1>2. TempPath(s) = <<u, i>>
  BY <1>1, OneSlot
<1>3. /\ UNCHANGED <<file, queue, sent_idx, parsed, merged, carried>> /\ UNCHANGED sessions
  BY DEF WriteTemp, commits
<1>4. Doc' = Doc /\ (Flushes' <=> Flushes) /\ IsParsed(Doc)
  BY <1>1, <1>3, <1>type, DocStays, DocCases
<1>6. temp[<<u, i>>] # NoFile
  BY <1>0, <1>1, <1>type DEF QueueInv, SessionsHaveText, HasSession
<1> DEFINE text == temp[<<u, i>>]
           d == Doc
           had == carried[<<u, i>>]
<1>7. IsParsed(text) /\ ContentOf(text) = text
  BY <1>6, <1>type DEF IsFile, ContentOf
<1>8. kind \notin {"after", "newline"} \/ i + 1 >= Len(text)
  <2>1. ~(kind \in {"after", "newline"} /\ i + 1 < Len(text))
    BY <1>0, <1>2, <1>7 DEF WriteTemp, Note, Firm, Undisturbed
  <2>2. Len(text) \in Nat
    BY <1>7 DEF IsParsed
  <2> QED
    BY <1>type, <2>1, <2>2
<1>9. ASSUME NEW key \in Keys, key # <<u, i>> PROVE temp'[key] = temp[key]
  BY <1>0, <1>2, <1>9, <1>type DEF WriteTemp
<1>10. ASSUME NEW count \in Nat, ReadyText(u, i, count) PROVE ReadyText(u, i, count)'
  <2>1. Ready(d, u, i, count, text, had)
    BY <1>10 DEF ReadyText
  <2>2. CASE temp'[<<u, i>>] = text
    BY <1>3, <1>4, <2>1, <2>2 DEF ReadyText
  <2>3. CASE /\ i <= Len(text) \/ (text = <<>> /\ i = 1)
             /\ temp'[<<u, i>>] = InsertWord(text, i, u, kind)
    <3>1. Ready(d, u, i, count, InsertWord(text, i, u, kind), had)
      <4>1. IsParsed(d)
        BY <1>4
      <4> HIDE DEF text, d, had
      <4> QED
        BY <4>1, <1>7, <1>8, <1>type, <2>1, <2>3, ReadyInsert
    <3> QED
      BY <1>3, <1>4, <2>3, <3>1 DEF ReadyText
  <2> QED
    BY <1>0, <1>2, <1>7, <1>type, <2>2, <2>3 DEF WriteTemp
<1>11. ASSUME NEW v \in Users, NEW j \in Index, NEW count \in Nat, Waits(v, j, count)'
       PROVE  \/ ReadyText(v, j, count)'
              \/ /\ Waits(v, j, count)
                 /\ temp'[<<v, j>>] = temp[<<v, j>>] /\ carried'[<<v, j>>] = carried[<<v, j>>]
  <2>1. Waits(v, j, count)
    BY <1>1, <1>3, <1>4, <1>11, <1>ok, <1>type, WaitsQuiet DEF EditLabels
  <2>2. CASE <<v, j>> = <<u, i>>
    <3>1. ReadyText(u, i, count)
      BY <2>1, <2>2 DEF ReadyInv, TextsReady
    <3> QED
      BY <1>10, <2>2, <3>1
  <2>3. CASE <<v, j>> # <<u, i>>
    BY <1>3, <1>9, <2>1, <2>3 DEF Keys
  <2> QED
    BY <2>2, <2>3
<1>12. (\E v \in Users \ {u} : pc[v] \in MergeLabels) =>
              /\ UNCHANGED queue /\ ContentOf(file') = ContentOf(file)
              /\ temp'[Head(queue).temp] = temp[Head(queue).temp]
              /\ carried'[Head(queue).temp] = carried[Head(queue).temp]
  <2> SUFFICES ASSUME NEW v \in Users, pc[v] \in MergeLabels
               PROVE  temp'[Head(queue).temp] = temp[Head(queue).temp]
    BY <1>3
  <2>1. queue # <<>>
    BY DEF TypeInv, QueueOwnership, MergeLabels
  <2>2. 1 \in DOMAIN queue /\ Head(queue) = queue[1]
    BY <1>ok, <2>1, EntryTyped
  <2>3. queue[1].temp # <<u, i>> /\ queue[1].temp \in Keys
    BY <1>1, <1>ok, <2>2, NotQueued, EntryTyped DEF CommitLabels
  <2> QED
    BY <1>9, <2>2, <2>3
<1> QED
  BY <1>1, <1>3, <1>4, <1>11, <1>12, <1>type, ReadyStep DEF AskLabels, MergeLabels

\* A session is removed, with or without its text.
LEMMA CompactReady ==
    ASSUME TypeInv, TypeInv', LockInv, ReadyInv, QueueInv, NEW u \in Users, NEW i \in Index,
           NEW s \in SlotsOf(u, i), CompactSessions(u, s),
           UNCHANGED <<file, queue, carried, merged, parsed>>,
           \/ UNCHANGED temp
           \/ temp' = [temp EXCEPT ![<<u, i>>] = NoFile] /\ pc[u] \notin CommitLabels,
           pc[u] \in {"idle", "enqueue", "close"}, pc'[u] \in {"acquire", "unlock"},
           pc[u] = "close" => sent_idx[u] = i,
           \A v \in Users \ {u} : pc'[v] = pc[v] /\ sent_idx'[v] = sent_idx[v]
    PROVE  ReadyInv'
<1>type. /\ u \in Threads /\ SessionTypeOK /\ CommitTypeOK /\ DOMAIN temp = Keys
  BY DEF TypeInv, TypeOK, ControlTypeOK, TextTypeOK, Threads
<1>1. s \in Active /\ \A k \in Active : k # s => TempPath(k) # <<u, i>>
  BY OneSlot
<1>2. Doc' = Doc /\ (Flushes' <=> Flushes)
  BY <1>type, DocStays
<1>3. ASSUME NEW k \in Active', Editing(k)'
      PROVE  \E j \in Active : /\ Editing(j) /\ write_sessions'[k] = write_sessions[j]
                               /\ TempPath(k)' = TempPath(j) /\ TempPath(j) # <<u, i>>
  <2>1. PICK j \in Active \ {s} : write_sessions'[k] = write_sessions[j]
    BY <1>1, <1>type, CompactSlots
  <2>2. TempPath(k)' = TempPath(j) /\ TempPath(j) # <<u, i>>
    BY <1>1, <2>1 DEF TempPath
  <2>3. Editing(j)
    <3> SUFFICES ASSUME NEW v \in Users, pc[v] \in {"start", "copy", "close"},
                        TempPath(j) = <<v, sent_idx[v]>>
                 PROVE  FALSE
      BY DEF Editing
    <3>1. v # u
      BY <2>2
    <3> QED
      BY <1>3, <2>2, <3>1 DEF Editing
  <2> QED
    BY <2>1, <2>2, <2>3
<1>4. ASSUME NEW n \in DOMAIN queue
      PROVE  /\ queue[n].temp \in Keys /\ temp'[queue[n].temp] = temp[queue[n].temp]
             /\ queue[n].temp = <<queue[n].user, queue[n].idx>>
  <2>1. pc[u] \notin CommitLabels => queue[n].temp # <<u, i>>
    BY <1>type, NotQueued
  <2>2. queue[n].temp \in Keys
    BY <1>type, EntryTyped
  <2>3. temp'[queue[n].temp] = temp[queue[n].temp]
    BY <1>type, <2>1, <2>2
  <2> QED
    BY <2>2, <2>3 DEF QueueInv, EntriesOwned
<1>5. ASSUME NEW v \in Users, NEW j \in Index, NEW count \in Nat, Waits(v, j, count)'
      PROVE  /\ Waits(v, j, count)
             /\ temp'[<<v, j>>] = temp[<<v, j>>] /\ carried'[<<v, j>>] = carried[<<v, j>>]
  <2>1. CASE \E k \in Active' : /\ Editing(k)' /\ TempPath(k)' = <<v, j>>
                                /\ write_sessions'[k].count = count
    <3>1. PICK k \in Active' : /\ Editing(k)' /\ TempPath(k)' = <<v, j>>
                               /\ write_sessions'[k].count = count
      BY <2>1
    <3>2. PICK m \in Active : /\ Editing(m) /\ write_sessions'[k] = write_sessions[m]
                              /\ TempPath(k)' = TempPath(m) /\ TempPath(m) # <<u, i>>
      BY <1>3, <3>1
    <3>3. Waits(v, j, count)
      BY <3>1, <3>2 DEF Waits
    <3>4. <<v, j>> # <<u, i>>
      BY <3>1, <3>2
    <3> QED
      BY <1>type, <3>3, <3>4 DEF Keys
  <2>2. CASE \E n \in DOMAIN queue' : /\ n = 1 => ~Flushes'
                                      /\ queue'[n].user = v /\ queue'[n].idx = j
                                      /\ queue'[n].count = count
    BY <1>2, <1>4, <2>2 DEF Waits
  <2> QED
    BY <1>5, <2>1, <2>2 DEF Waits
<1>6. (\E v \in Users \ {u} : pc[v] \in MergeLabels) =>
              /\ temp'[Head(queue).temp] = temp[Head(queue).temp]
              /\ carried'[Head(queue).temp] = carried[Head(queue).temp]
  <2> SUFFICES ASSUME NEW v \in Users, pc[v] \in MergeLabels
               PROVE  temp'[Head(queue).temp] = temp[Head(queue).temp]
    OBVIOUS
  <2>1. queue # <<>>
    BY DEF TypeInv, QueueOwnership, MergeLabels
  <2>2. 1 \in DOMAIN queue /\ Head(queue) = queue[1]
    BY <1>type, <2>1, EntryTyped
  <2> QED
    BY <1>4, <2>2
<1> QED
  BY <1>2, <1>5, <1>6, <1>type, ReadyStep DEF AskLabels, MergeLabels

\* UNLOCK_SENTENCE hands its session's text to the queue, or gives the session up.
LEMMA EnqueueReady ==
    ASSUME TypeInv, TypeInv', LockInv, PointersLead, QueueInv, ReadyInv, NEW u \in Users, Enqueue(u)
    PROVE  ReadyInv'
<1>0. PICK s, i : s = session[u] /\ i = sent_idx[u]
  OBVIOUS
<1>ok. CommitTypeOK /\ SessionTypeOK /\ ThreadTypeOK
  BY DEF TypeInv, TypeOK, ControlTypeOK
<1>type. /\ u \in Threads /\ i \in Index
         /\ pc \in [Threads -> Labels \cup {"delete", "revert"}]
  BY <1>0, <1>ok DEF ThreadTypeOK, Threads
<1>1. /\ s \in SlotsOf(u, i) /\ pc[u] = "enqueue" /\ pc'[u] \in {"close", "unlock"}
      /\ \A v \in Users \ {u} : pc'[v] = pc[v]
      /\ UNCHANGED <<file, sent_idx, parsed, merged, carried>>
  BY <1>0, <1>type DEF Enqueue, PointersLead, PointerLabels, Goto, Threads
<1>2. CASE pc'[u] = "unlock"
  <2>1. UNCHANGED queue /\ \E k \in SlotsOf(u, i) : /\ CompactSessions(u, k)
                                                   /\ temp' = [temp EXCEPT ![TempPath(k)] = NoFile]
    BY <1>0, <1>1, <1>2, <1>type DEF Enqueue, Goto
  <2>2. PICK k \in SlotsOf(u, i) : /\ CompactSessions(u, k)
                                   /\ temp' = [temp EXCEPT ![<<u, i>>] = NoFile]
    BY <2>1 DEF SlotsOf, TempPath
  <2> QED
    BY <1>1, <1>2, <1>type, <2>1, <2>2, CompactReady DEF CommitLabels
<1>3. CASE pc'[u] = "close"
  <2>1. s \in Active /\ TempPath(s) = <<u, i>>
    BY <1>1, OneSlot
  <2> DEFINE e == [user |-> u, idx |-> i, count |-> write_sessions[s].count, temp |-> <<u, i>>]
             m == Len(queue) + 1
  <2>2. /\ queue' = Append(queue, e) /\ UNCHANGED temp /\ UNCHANGED sessions
        /\ queue_mutex = NoUser
    BY <1>0, <1>1, <1>3, <1>type, <2>1 DEF Enqueue, Goto
  <2>3. /\ DOMAIN queue' = DOMAIN queue \cup {m} /\ queue'[m] = e
        /\ \A n \in DOMAIN queue : queue'[n] = queue[n]
    BY <1>ok, <2>2, EntryTyped
  <2>4. e.user = u /\ e.idx = i /\ e.count = write_sessions[s].count
    OBVIOUS
  <2>5. Doc' = Doc /\ (Flushes' <=> Flushes)
    BY <1>1, <1>3, <1>type, DocStays
  <2>6. Active' = Active /\ write_sessions' = write_sessions
    BY <2>2 DEF Active, sessions
  <2>7. ASSUME NEW k \in Active, Editing(k)' PROVE Editing(k) /\ TempPath(k)' = TempPath(k)
    BY <1>1, <2>6, <2>7 DEF Editing, TempPath
  <2>8. Editing(s)
    BY <1>1, <2>1 DEF Editing
  <2> PICK n0 : n0 = m
    OBVIOUS
  <2> HIDE DEF e, m
  <2>9. ASSUME NEW v \in Users, NEW j \in Index, NEW count \in Nat, Waits(v, j, count)'
        PROVE  Waits(v, j, count)
    <3>1. CASE \E k \in Active' : /\ Editing(k)' /\ TempPath(k)' = <<v, j>>
                                  /\ write_sessions'[k].count = count
      BY <2>6, <2>7, <3>1 DEF Waits
    <3>2. CASE \E n \in DOMAIN queue' : /\ n = 1 => ~Flushes'
                                        /\ queue'[n].user = v /\ queue'[n].idx = j
                                        /\ queue'[n].count = count
      <4>1. PICK n \in DOMAIN queue' : /\ n = 1 => ~Flushes'
                                       /\ queue'[n].user = v /\ queue'[n].idx = j
                                       /\ queue'[n].count = count
        BY <3>2
      <4>2. CASE n \in DOMAIN queue
        BY <2>3, <2>5, <4>1, <4>2 DEF Waits
      <4>3. CASE n \notin DOMAIN queue
        <5>1. v = u /\ j = i /\ count = write_sessions[s].count
          BY <2>3, <2>4, <4>1, <4>3
        <5> QED
          BY <2>1, <2>8, <5>1 DEF Waits
      <4> QED
        BY <4>2, <4>3
    <3> QED
      BY <2>9, <3>1, <3>2 DEF Waits
  <2>10. \A v \in Users : pc[v] \notin MergeLabels
    BY <2>2, NamesAssumption DEF TypeInv, QueueOwnership, QueueLabels, MergeLabels
  <2> QED
    BY <1>1, <1>3, <1>type, <2>2, <2>5, <2>9, <2>10, ReadyStep DEF AskLabels, MergeLabels
<1> QED
  BY <1>1, <1>2, <1>3

\* The head of the queue leaves it, with its text, and the document's text stays.
LEMMA DequeueReady ==
    ASSUME TypeInv, LockInv, QueueInv, ReadyInv, NEW u \in Users, pc[u] \in QueueLabels,
           queue # <<>>, queue' = Tail(queue), temp' = [temp EXCEPT ![Head(queue).temp] = NoFile],
           UNCHANGED <<carried, sent_idx, parsed>>, UNCHANGED sessions, Goto(u, "process"), Doc' = Doc,
           \A v \in Users \ {u} : merged'[v] = merged[v]
    PROVE  ReadyInv'
<1>ok. /\ CommitTypeOK /\ SessionTypeOK /\ QueueOwnership /\ DOMAIN temp = Keys
       /\ pc \in [Threads -> Labels \cup {"delete", "revert"}] /\ u \in Threads
  BY DEF TypeInv, TypeOK, ControlTypeOK, ThreadTypeOK, TextTypeOK, Threads
<1>1. pc'[u] = "process" /\ \A v \in Users \ {u} : pc'[v] = pc[v]
  BY <1>ok DEF Goto, Threads
<1>2. \A v \in Users \ {u} : pc[v] \notin MergeLabels
  BY <1>ok DEF QueueOwnership, QueueLabels, MergeLabels
<1> DEFINE e == Head(queue)
<1>4. /\ \A n \in DOMAIN queue : n # 1 => queue[n].temp # e.temp
      /\ \A k \in Active : Editing(k) => TempPath(k) # e.temp
      /\ 1 \in DOMAIN queue /\ e = queue[1]
  BY <1>ok, HeadApart
<1>5. /\ e.temp \in Keys
      /\ \A n \in DOMAIN queue : queue[n].temp = <<queue[n].user, queue[n].idx>>
  BY <1>4, <1>ok, EntryTyped DEF QueueInv, EntriesOwned
<1> HIDE DEF e
<1>6. \A key \in Keys : key # e.temp => temp'[key] = temp[key]
  BY <1>ok, <1>5 DEF e
<1>7. \A n \in DOMAIN queue' : /\ n + 1 \in DOMAIN queue /\ n + 1 # 1
                               /\ queue'[n] = queue[n + 1]
  BY <1>ok, EntryTyped
<1>8. ASSUME NEW k \in Active', Editing(k)'
      PROVE  k \in Active /\ Editing(k) /\ TempPath(k)' = TempPath(k) /\ write_sessions'[k] = write_sessions[k]
  <2>1. k \in Active /\ write_sessions' = write_sessions /\ TempPath(k)' = TempPath(k)
    BY DEF sessions, Active, TempPath
  <2>2. \A v \in Users : pc[v] \in {"start", "copy", "close"} => pc'[v] = pc[v]
    BY <1>1 DEF QueueLabels
  <2> QED
    BY <1>8, <2>1, <2>2 DEF Editing
<1>9. ASSUME NEW v \in Users, NEW j \in Index, NEW count \in Nat, Waits(v, j, count)'
      PROVE  Waits(v, j, count) /\ <<v, j>> # e.temp
  <2>1. CASE \E k \in Active' : /\ Editing(k)' /\ TempPath(k)' = <<v, j>>
                                /\ write_sessions'[k].count = count
    <3>1. PICK k \in Active' : /\ Editing(k)' /\ TempPath(k)' = <<v, j>>
                               /\ write_sessions'[k].count = count
      BY <2>1
    <3>2. /\ k \in Active /\ Editing(k) /\ TempPath(k) = <<v, j>>
          /\ write_sessions[k].count = count
      BY <1>8, <3>1
    <3> QED
      BY <1>4, <3>2 DEF Waits
  <2>2. CASE \E n \in DOMAIN queue' : /\ n = 1 => ~Flushes'
                                      /\ queue'[n].user = v /\ queue'[n].idx = j
                                      /\ queue'[n].count = count
    <3>1. PICK m \in DOMAIN queue : /\ m # 1 /\ queue[m].user = v /\ queue[m].idx = j
                                    /\ queue[m].count = count
      BY <1>7, <2>2
    <3> QED
      BY <1>4, <1>5, <3>1 DEF Waits
  <2> QED
    BY <1>9, <2>1, <2>2 DEF Waits
<1>10. \A v \in Users, j \in Index, count \in Nat : Waits(v, j, count)' =>
          /\ Waits(v, j, count)
          /\ temp'[<<v, j>>] = temp[<<v, j>>] /\ carried'[<<v, j>>] = carried[<<v, j>>]
  BY <1>6, <1>9 DEF Keys
<1> QED
  BY <1>1, <1>2, <1>10, <1>ok, ReadyStep DEF AskLabels, MergeLabels

\* The head commit is merged: it is not dropped, brings its user's words and takes no
\* sentence away.
LEMMA HeadReady ==
    ASSUME TypeInv, QueueInv, ReadyInv, queue # <<>>, ~Flushes
    PROVE  LET e == Head(queue)
               new == MergeCommit(ContentOf(file), temp[e.temp], e.count, e.idx) IN
           /\ ~DropsCommit(e)
           /\ Len(ContentOf(file)) <= Len(new)
           /\ Brings(e, new)
<1> DEFINE e == Head(queue)
           d == ContentOf(file)
           x == temp[e.temp]
           had == carried[e.temp]
<1>ok. CommitTypeOK /\ DOMAIN temp = Keys /\ \A key \in Keys : IsFile(temp[key])
  BY DEF TypeInv, TypeOK, ControlTypeOK, TextTypeOK
<1>1. 1 \in DOMAIN queue /\ e = queue[1]
  BY <1>ok, EntryTyped
<1>2. /\ e.user \in Users /\ e.idx \in Index /\ e.idx \in Nat /\ e.count \in Nat /\ e.temp \in Keys
      /\ e.temp = <<e.user, e.idx>> /\ x # NoFile
  BY <1>1, <1>ok, EntryTyped DEF QueueInv, EntriesOwned, Index
<1>3. Doc = d /\ IsParsed(d)
  BY DocCases
<1>4. Waits(e.user, e.idx, e.count)
  BY <1>1 DEF Waits
<1>5. Ready(d, e.user, e.idx, e.count, x, had)
  BY <1>2, <1>3, <1>4 DEF ReadyInv, TextsReady, ReadyText
<1>6. IsParsed(x)
  BY <1>2, <1>ok DEF IsFile
<1>7. /\ ~SkipsCommit(d, e.count, e.idx)
      /\ Len(d) <= Len(MergeCommit(d, x, e.count, e.idx))
      /\ e.user \notin had /\ e.user \in Marks(x) => e.user \in Marks(MergeCommit(d, x, e.count, e.idx))
  <2> HIDE DEF d, x, had, e
  <2> QED
    BY <1>2, <1>3, <1>5, <1>6, ReadyMerges
<1> QED
  BY <1>2, <1>7 DEF DropsCommit, Brings

\* process_commit_queue merges the commit at its head.
LEMMA MergeReady ==
    ASSUME TypeInv, TypeInv', QueueInv, ReadyInv, NEW u \in Users, MergeHead(u)
    PROVE  ReadyInv'
<1>ok. /\ QueueOwnership /\ DOMAIN merged = Threads
       /\ pc \in [Threads -> Labels \cup {"delete", "revert"}] /\ u \in Threads
  BY DEF TypeInv, TypeOK, ControlTypeOK, ThreadTypeOK, TextTypeOK, Threads
<1>1. /\ UNCHANGED <<file, temp, carried, queue, sent_idx, parsed>> /\ UNCHANGED sessions
      /\ pc[u] = "process" /\ pc'[u] = "truncate" /\ queue # <<>>
      /\ \A v \in Users \ {u} : pc'[v] = pc[v] /\ merged'[v] = merged[v]
      /\ merged'[u] = MergeCommit(ContentOf(file), temp[Head(queue).temp], Head(queue).count, Head(queue).idx)
  BY <1>ok DEF MergeHead, Goto, disk, commits, Threads
<1>2. ~Flushes
  BY <1>1, <1>ok DEF QueueOwnership, QueueLabels, Flushes
<1>3. Len(ContentOf(file)) <= Len(merged'[u]) /\ Brings(Head(queue), merged'[u])
  BY <1>1, <1>2, HeadReady
<1> QED
  BY <1>1, <1>3, <1>ok, QuietReady DEF AskLabels, EditLabels

\* A commit truncates the file: what it is about to flush is the document now.
LEMMA TruncateReady ==
    ASSUME TypeInv, TypeInv', LockInv, PointersLead, QueueInv, ReadyInv,
           NEW u \in Users, Truncate(u), Steady'
    PROVE  ReadyInv'
<1>ok. /\ CommitTypeOK /\ SessionTypeOK /\ QueueOwnership
       /\ pc \in [Threads -> Labels \cup {"delete", "revert"}] /\ u \in Threads
  BY DEF TypeInv, TypeOK, ControlTypeOK, ThreadTypeOK, Threads
<1>1. /\ pc[u] = "truncate" /\ pc'[u] = "flush"
      /\ \A v \in Users \ {u} : pc'[v] = pc[v]
      /\ UNCHANGED <<queue, temp, carried, merged, sent_idx, parsed, write_sessions, write_session_count>>
  <2>1. pc'[u] # "unlock"
    BY NothingMet DEF Truncate
  <2> QED
    BY <1>ok, <2>1 DEF Truncate, Goto, sessions, Threads
<1>2. queue # <<>> /\ ~Flushes /\ Flushes'
  BY <1>1, <1>ok DEF QueueOwnership, QueueLabels, Flushes
<1>3. Doc = ContentOf(file) /\ IsParsed(Doc)
  BY <1>2, DocCases
<1>4. Doc' = merged[u] /\ IsParsed(Doc')
  <2>1. queue_mutex' = u /\ u # NoUser
    BY <1>1, NamesAssumption DEF TypeInv, QueueOwnership, QueueLabels
  <2>2. IsParsed(merged[u])
    BY <1>ok DEF TypeInv, TypeOK, TextTypeOK
  <2> QED
    BY <1>1, <2>1, <2>2 DEF Doc
<1>5. Len(Doc) <= Len(Doc')
  BY <1>1, <1>3, <1>4 DEF ReadyInv, MergesReady
<1> DEFINE h == Head(queue).idx
<1>6. /\ 1 \in DOMAIN queue /\ Head(queue) = queue[1] /\ h \in Nat
      /\ \A n \in DOMAIN queue : n # 1 => queue[n].idx # h
      /\ \A k \in Active : Editing(k) => write_sessions[k].idx # h
  BY <1>2, <1>ok, HeadApart, EntryTyped DEF Index
\* If there is no sentence yet, the commit that is merged is for the first.
<1>7. Doc = <<>> => h = 0
  <2>1. /\ Head(queue).user \in Users /\ h \in Index /\ Head(queue).count \in Nat
    BY <1>6, <1>ok, EntryTyped
  <2>2. Waits(Head(queue).user, h, Head(queue).count)
    BY <1>2, <1>6 DEF Waits
  <2>3. CountedIn(Doc, h, Head(queue).count)
    BY <2>1, <2>2 DEF ReadyInv, TextsReady, ReadyText, Ready
  <2> QED
    BY <1>6, <2>1, <2>3 DEF CountedIn
\* Others' commits and sessions are for other sentences.
<1>8. ASSUME NEW i \in Nat, NEW count \in Nat, CountedIn(Doc, i, count), i # h
      PROVE  CountedIn(Doc, i, count)'
  <2> HIDE DEF h
  <2> PICK d, e : d = Doc /\ e = Doc'
    OBVIOUS
  <2>1. d = <<>> => i # 0
    BY <1>7, <1>8
  <2>2. CountedIn(e, i, count)
    BY <1>3, <1>4, <1>5, <1>8, <2>1, ReadyGrown
  <2> QED
    BY <2>2 DEF CountedIn
<1>9. TextsReady'
  <2> SUFFICES ASSUME NEW v \in Users, NEW i \in Index, NEW count \in Nat, Waits(v, i, count)'
               PROVE  ReadyText(v, i, count)'
    BY DEF TextsReady
  <2>1. Waits(v, i, count) /\ i # h
    <3>1. CASE \E k \in Active' : /\ Editing(k)' /\ TempPath(k)' = <<v, i>>
                                  /\ write_sessions'[k].count = count
      <4>1. PICK k \in Active : /\ Editing(k)' /\ TempPath(k)' = <<v, i>>
                                /\ write_sessions[k].count = count
        BY <1>1, <3>1 DEF Active
      <4>2. TempPath(k)' = TempPath(k)
        BY <1>1 DEF TempPath
      <4>3. Editing(k)
        BY <1>1, <4>1, <4>2 DEF Editing
      <4>4. write_sessions[k].idx = i
        BY <4>1, <4>2 DEF TempPath
      <4> QED
        BY <1>6, <4>1, <4>2, <4>3, <4>4 DEF Waits
    <3>2. CASE \E n \in DOMAIN queue' : /\ n = 1 => ~Flushes'
                                        /\ queue'[n].user = v /\ queue'[n].idx = i
                                        /\ queue'[n].count = count
      <4>1. PICK n \in DOMAIN queue : /\ n # 1 /\ queue[n].user = v /\ queue[n].idx = i
                                      /\ queue[n].count = count
        BY <1>1, <1>2, <3>2
      <4> QED
        BY <1>6, <4>1 DEF Waits
    <3> QED
      BY <3>1, <3>2 DEF Waits
  <2>2. ReadyText(v, i, count)
    BY <2>1 DEF ReadyInv, TextsReady
  <2>3. CountedIn(Doc, i, count)'
    <3>1. i \in Nat
      BY DEF Index
    <3>2. CountedIn(Doc, i, count)
      BY <2>2 DEF ReadyText, Ready
    <3> HIDE DEF h
    <3> QED
      BY <1>8, <2>1, <3>1, <3>2
  <2> QED
    BY <1>1, <2>2, <2>3 DEF ReadyText, Ready
<1>10. CountsReady'
  <2> SUFFICES ASSUME NEW v \in Users
               PROVE  /\ pc'[v] \in AskLabels => sent_idx[v] = 0 \/ sent_idx[v] < Len(Doc')
                      /\ pc'[v] = "copy" => CountedIn(Doc, sent_idx[v], parsed[v])'
    BY <1>1 DEF CountsReady
  <2>1. ASSUME pc'[v] \in AskLabels PROVE sent_idx[v] = 0 \/ sent_idx[v] < Len(Doc')
    <3>1. sent_idx[v] = 0 \/ sent_idx[v] < Len(Doc)
      BY <1>1, <2>1 DEF ReadyInv, CountsReady, AskLabels
    <3>2. Len(Doc) \in Nat /\ Len(Doc') \in Nat
      BY <1>3, <1>4 DEF IsParsed
    <3>3. sent_idx[v] \in Index
      BY DEF TypeInv, TypeOK, ControlTypeOK, ThreadTypeOK
    <3>4. sent_idx[v] \in Nat
      BY <3>3 DEF Index
    <3> QED
      BY <1>5, <3>1, <3>2, <3>4
  <2>2. ASSUME pc'[v] = "copy" PROVE CountedIn(Doc, sent_idx[v], parsed[v])'
    <3>1. PICK i, c : i = sent_idx[v] /\ c = parsed[v]
      OBVIOUS
    <3>2. pc[v] = "copy" /\ i \in Nat /\ c \in Nat /\ CountedIn(Doc, i, c)
      <4>1. ThreadTypeOK /\ CommitTypeOK
        BY DEF TypeInv, TypeOK, ControlTypeOK
      <4>2. i \in Index /\ c \in Nat
        BY <3>1, <4>1 DEF ThreadTypeOK, CommitTypeOK
      <4>3. i \in Nat
        BY <4>2 DEF Index
      <4>4. pc[v] = "copy"
        BY <1>1, <2>2
      <4> QED
        BY <3>1, <4>2, <4>3, <4>4 DEF ReadyInv, CountsReady
    <3>3. i # h
      <4>1. locked_by[i] = v
        BY <3>1, <3>2 DEF LockInv, LockGuardsSession, HoldingLabels
      <4>2. /\ Head(queue).user \in Users /\ pc[Head(queue).user] \in CommitLabels
            /\ sent_idx[Head(queue).user] = h
        BY <1>6, <1>ok, EntryTyped DEF QueueInv, EntriesOwned
      <4>3. locked_by[h] = Head(queue).user
        BY <4>2 DEF LockInv, LockGuardsSession, HoldingLabels, CommitLabels
      <4> QED
        BY <3>2, <4>1, <4>2, <4>3 DEF CommitLabels
    <3>4. CountedIn(Doc, i, c)'
      <4> HIDE DEF h
      <4> QED
        BY <1>8, <3>2, <3>3
    <3> QED
      BY <1>1, <3>1, <3>4 DEF CountedIn
  <2> QED
    BY <2>1, <2>2
<1>11. MergesReady'
  <2>1. \A v \in Users \ {u} : pc[v] \notin MergeLabels
    BY <1>1, <1>ok DEF QueueOwnership, QueueLabels, MergeLabels
  <2>2. Brings(Head(queue), merged[u])
    BY <1>1 DEF ReadyInv, MergesReady, MergeLabels
  <2>3. Brings(Head(queue), merged[u])'
    BY <1>1, <2>2 DEF Brings
  <2> QED
    BY <1>1, <2>1, <2>3 DEF MergesReady, MergeLabels
<1> QED
  BY <1>9, <1>10, <1>11 DEF ReadyInv

\* A restore is flushed: who asks for a sentence meanwhile asks for the first.
LEMMA RestoredReady ==
    ASSUME TypeInv, RestoreInv, ReadyInv, NEW t \in Threads, pc[t] \in RestoreLabels,
           UNCHANGED <<queue, sent_idx>>, UNCHANGED sessions,
           \A v \in Users \ {t} : pc'[v] = pc[v],
           t \in Users => pc'[t] = "idle"
    PROVE  ReadyInv'
<1>1. Active' = {} /\ queue' = <<>> /\ \A v \in Users \ {t} : pc[v] \in QuietLabels
  BY DEF RestoreInv, RestoreAlone, Threads, sessions, Active
<1>2. \A v \in Users : pc'[v] \in QuietLabels
  BY <1>1 DEF QuietLabels
<1>3. ASSUME NEW v \in Users, pc'[v] \in AskLabels PROVE sent_idx'[v] = 0
  <2>1. pc[v] \in AskLabels
    BY <1>3 DEF AskLabels
  <2>2. file = <<>> /\ ContentOf(file) = <<>>
    BY DEF RestoreInv, TruncatedIsEmpty, Truncated, RestoreLabels, ContentOf
  <2>3. ~Flushes
    BY <1>1 DEF Flushes, RestoreLabels, QuietLabels
  <2>4. Doc = <<>>
    BY <2>2, <2>3, DocCases
  <2>5. sent_idx[v] \in Nat
    BY DEF TypeInv, TypeOK, ControlTypeOK, ThreadTypeOK, Index
  <2>6. Len(Doc) = 0
    BY <2>4
  <2> QED
    BY <2>1, <2>5, <2>6 DEF ReadyInv, CountsReady
<1>4. TextsReady'
  BY <1>1 DEF TextsReady, Waits
<1>5. CountsReady'
  BY <1>2, <1>3 DEF CountsReady, QuietLabels
<1>6. MergesReady'
  BY <1>2 DEF MergesReady, MergeLabels, QuietLabels
<1> QED
  BY <1>4, <1>5, <1>6 DEF ReadyInv

LEMMA StepReady ==
    ASSUME TypeInv, TypeInv', LockInv, PointersLead, QueueInv, RestoreInv, ReadyInv,
           NEW u \in Users, Step(u), Firm', Steady'
    PROVE  ReadyInv'
<1>ok. /\ CommitTypeOK /\ ControlTypeOK /\ QueueOwnership /\ QueueOwnership'
       /\ pc \in [Threads -> Labels \cup {"delete", "revert"}] /\ u \in Threads
       /\ DOMAIN merged = Threads /\ IsParsed(merged[u])
  BY DEF TypeInv, TypeOK, ControlTypeOK, ThreadTypeOK, TextTypeOK, Threads
<1>1. CASE StartSession(u)
  BY <1>1, StartReady
<1>2. CASE CopyToTemp(u)
  BY <1>2, CopyReady
<1>3. CASE \E kind \in WriteKinds : WriteTemp(u, kind)
  BY <1>3, WriteReady
<1>4. CASE Enqueue(u)
  BY <1>4, EnqueueReady
<1>5. CASE CloseSession(u)
  <2>1. PICK i : i = sent_idx[u]
    OBVIOUS
  <2>2. i \in Index
    BY <1>ok, <2>1 DEF ControlTypeOK, ThreadTypeOK
  <2>3. /\ UNCHANGED <<file, temp, queue, carried, merged, parsed, sent_idx>>
        /\ pc[u] = "close" /\ pc'[u] = "acquire" /\ \A v \in Users \ {u} : pc'[v] = pc[v]
        /\ \E k \in SlotsOf(u, i) : CompactSessions(u, k)
    BY <1>5, <1>ok, <2>1 DEF CloseSession, disk, commits, Goto
  <2> QED
    BY <2>1, <2>2, <2>3, CompactReady
<1>6. CASE SkipCommit(u)
  <2>1. Doc' = Doc
    <3>1. /\ UNCHANGED <<file, pc, merged>> /\ pc[u] = "process"
      BY <1>6 DEF SkipCommit
    <3> QED
      BY <1>ok, <3>1, DocStays
  <2>2. Goto(u, "process") /\ pc[u] \in QueueLabels
    BY <1>6, <1>ok DEF SkipCommit, Goto, QueueLabels
  <2> QED
    BY <1>6, <2>1, <2>2, DequeueReady DEF SkipCommit
<1>7. CASE MergeHead(u)
  BY <1>7, MergeReady
<1>8. CASE Truncate(u)
  BY <1>8, TruncateReady
<1>9. CASE Flush(u)
  <2>1. Doc' = Doc
    BY <1>9, FlushKeepsDoc
  <2>2. pc[u] = "flush" /\ Goto(u, "process")
    BY <1>9 DEF Flush
  <2>3. queue # <<>>
    BY <1>ok, <2>2 DEF QueueOwnership
  <2>4. \A v \in Users \ {u} : merged'[v] = merged[v]
    BY <1>9, <1>ok DEF Flush, FlushMerged, Threads
  <2> QED
    BY <1>9, <2>1, <2>2, <2>3, <2>4, DequeueReady DEF Flush, history, QueueLabels
<1>10. CASE RestoreFlush(u)
  <2>1. /\ UNCHANGED <<queue, sent_idx>> /\ UNCHANGED sessions
        /\ pc[u] \in RestoreLabels /\ pc'[u] = "idle"
        /\ \A v \in Users \ {u} : pc'[v] = pc[v]
    BY <1>10, <1>ok DEF RestoreFlush, Goto, commits, RestoreLabels
  <2> QED
    BY <1>ok, <2>1, RestoredReady
<1>11. CASE GetLock(u) \/ TakeLock(u) \/ AcquireQueue(u) \/ ReleaseQueue(u) \/ UnlockLookup(u) \/ Release(u)
  <2>1. /\ UNCHANGED <<file, temp, carried, queue, sent_idx, parsed, merged>> /\ UNCHANGED sessions
        /\ pc[u] \in {"getlock", "takelock", "acquire", "process", "unlock", "release"}
    BY <1>11 DEF GetLock, TakeLock, AcquireQueue, ReleaseQueue, UnlockLookup, Release, disk, commits, history
  <2>2. PICK l \in {"takelock", "start", "idle", "process", "unlock", "release"} :
           Goto(u, l) /\ (l \in AskLabels => pc[u] \in AskLabels)
    <3>1. CASE GetLock(u) \/ TakeLock(u)
      BY <3>1 DEF GetLock, TakeLock, AskLabels
    <3>2. CASE AcquireQueue(u) \/ ReleaseQueue(u) \/ UnlockLookup(u) \/ Release(u)
      BY <3>2 DEF AcquireQueue, ReleaseQueue, UnlockLookup, Release, AskLabels
    <3> QED
      BY <1>11, <3>1, <3>2
  <2>3. /\ pc'[u] \in {"takelock", "start", "idle", "process", "unlock", "release"}
        /\ pc'[u] \in AskLabels => pc[u] \in AskLabels
        /\ \A v \in Users \ {u} : pc'[v] = pc[v]
    BY <1>ok, <2>2 DEF Goto
  <2>4. pc'[u] \in AskLabels => pc[u] \in AskLabels /\ sent_idx'[u] = sent_idx[u]
    BY <2>1, <2>3
  <2>5. /\ pc[u] # "flush" /\ pc'[u] \notin {"flush", "copy", "truncate"}
        /\ pc[u] \notin EditLabels
    BY <2>1, <2>3 DEF EditLabels
  <2>6. \A v \in Users \ {u} : /\ pc'[v] = pc[v] /\ merged'[v] = merged[v]
                              /\ sent_idx'[v] = sent_idx[v] /\ parsed'[v] = parsed[v]
    BY <2>1, <2>3
  <2>7. /\ ContentOf(file') = ContentOf(file) /\ UNCHANGED <<temp, carried, queue>> /\ UNCHANGED sessions
    BY <2>1
  <2> HIDE DEF AskLabels, EditLabels
  <2> QED
    BY <1>ok, <2>4, <2>5, <2>6, <2>7, QuietReady
<1>12. CASE TakeFreedLock(u)
  BY <1>12, NothingMet DEF TakeFreedLock
<1> QED
  BY <1>1, <1>2, <1>3, <1>4, <1>5, <1>6, <1>7, <1>8, <1>9, <1>10, <1>11, <1>12 DEF Step

LEMMA RequestReady ==
    ASSUME TypeInv, TypeInv', LockInv, QueueInv, RestoreInv, ReadyInv,
           NEW u \in Users, Request(u), Firm', Steady'
    PROVE  ReadyInv'
<1>ok. /\ CommitTypeOK /\ ControlTypeOK
       /\ pc \in [Threads -> Labels \cup {"delete", "revert"}] /\ u \in Threads
       /\ sent_idx \in [Users -> Index]
       /\ pc[u] = "idle"
  BY DEF TypeInv, TypeOK, ControlTypeOK, ThreadTypeOK, Threads, Request, LockValidate, WriteLookup,
     CommitLookup, CancelWrite, Undo
<1>1. CASE Undo(u)
  <2>1. ~InUse(u)
    BY <1>1, NothingMet DEF Undo
  <2>2. Active = {} /\ queue = <<>> /\ \A v \in Users : pc[v] = "idle"
    BY <1>ok, <2>1, NotInUse
  <2>3. /\ UNCHANGED queue /\ UNCHANGED sessions /\ pc'[u] = "restore"
        /\ \A v \in Users \ {u} : pc'[v] = pc[v]
    BY <1>1, <1>ok DEF Undo, Goto, commits
  <2> QED
    BY <2>2, <2>3, NothingReady DEF sessions, Active, AskLabels, MergeLabels
<1>2. ASSUME NEW i \in Index, LockValidate(u, i) \/ WriteLookup(u, i) \/ CommitLookup(u, i) \/ CancelWrite(u, i)
      PROVE  ReadyInv'
  <2>1. /\ UNCHANGED <<file, carried, queue, parsed, merged>>
        /\ sent_idx' = [sent_idx EXCEPT ![u] = i]
        /\ \E l \in {"getlock", "write", "enqueue", "unlock"} : Goto(u, l)
    BY <1>2 DEF LockValidate, WriteLookup, CommitLookup, CancelWrite, disk, commits, history
  <2>2. /\ pc'[u] \in {"getlock", "write", "enqueue", "unlock"}
        /\ \A v \in Users \ {u} : pc'[v] = pc[v] /\ sent_idx'[v] = sent_idx[v]
        /\ sent_idx'[u] = i
    BY <1>ok, <2>1 DEF Goto
  <2>3. pc'[u] \in AskLabels => i = 0 \/ i < Len(Doc)
    <3> SUFFICES ASSUME pc'[u] = "getlock", i # 0 PROVE i < Len(Doc)
      BY <2>2 DEF AskLabels
    <3>1. LockValidate(u, i)
      BY <1>2, <1>ok DEF WriteLookup, CommitLookup, CancelWrite, Goto
    <3> DEFINE text == ContentOf(file)
    <3>2. IsParsed(text) /\ i \in Nat
      BY ContentTyped DEF TypeInv, TypeOK, TextTypeOK, Index
    <3>3. i # Len(text)
      <4>1. i > 0
        BY <3>2
      <4> QED
        BY <3>1, <4>1 DEF LockValidate, Note, Firm, Undisturbed
    <3>4. LockableIndex(text, i)
      BY <3>1 DEF LockValidate
    <3>5. text # <<>> /\ i < Len(text)
      <4> HIDE DEF text
      <4>1. i \in 0 .. Len(text) - 1
        BY <3>3, <3>4 DEF LockableIndex
      <4>2. Len(text) \in Nat
        BY <3>2 DEF IsParsed
      <4> QED
        BY <3>2, <4>1, <4>2
    <3>6. file # <<>>
      BY <3>5 DEF ContentOf
    <3>7. ~Flushes
      BY <3>6 DEF RestoreInv, TruncatedIsEmpty, Truncated, Flushes, Threads
    <3>8. Doc = text
      BY <3>7, DocCases
    <3> QED
      BY <3>5, <3>8
  <2>4. CASE UNCHANGED temp /\ UNCHANGED sessions
    <3>1. pc'[u] \notin {"flush", "copy", "truncate"}
      BY <2>2
    <3> QED
      BY <1>ok, <2>1, <2>2, <2>3, <2>4, <3>1, QuietReady DEF EditLabels
  <2>5. CASE CancelWrite(u, i) /\ ~(UNCHANGED temp /\ UNCHANGED sessions)
    <3>1. pc'[u] = "unlock" /\ \E k \in SlotsOf(u, i) : /\ CompactSessions(u, k)
                                                       /\ temp' = [temp EXCEPT ![TempPath(k)] = NoFile]
      BY <1>ok, <2>5 DEF CancelWrite, Goto
    <3>2. PICK k \in SlotsOf(u, i) : CompactSessions(u, k) /\ temp' = [temp EXCEPT ![<<u, i>>] = NoFile]
      BY <3>1 DEF SlotsOf, TempPath
    <3> QED
      BY <1>ok, <2>1, <2>2, <3>1, <3>2, CompactReady DEF CommitLabels
  <2> QED
    BY <1>2, <2>4, <2>5 DEF LockValidate, WriteLookup, CommitLookup, disk
<1> QED
  BY <1>1, <1>2 DEF Request

LEMMA NMReady ==
    ASSUME TypeInv, TypeInv', LockInv, QueueInv, RestoreInv, ReadyInv, NMStep, Steady'
    PROVE  ReadyInv'
<1>ok. /\ CommitTypeOK /\ ControlTypeOK /\ NM \in Threads /\ NM \notin Users
       /\ pc \in [Threads -> Labels \cup {"delete", "revert"}]
       /\ DOMAIN merged = Threads
  BY NamesAssumption DEF TypeInv, TypeOK, ControlTypeOK, ThreadTypeOK, TextTypeOK, Threads
<1>1. /\ UNCHANGED <<temp, carried, queue, sent_idx, parsed>> /\ UNCHANGED sessions
      /\ \A v \in Users : pc'[v] = pc[v] /\ merged'[v] = merged[v]
  BY <1>ok DEF NMStep, CheckLocks, Delete, Create, Checkpoint, Revert, RevertFlush, FlushMerged,
     disk, commits, history, Goto, Threads
<1>2. CASE CheckLocks \/ Checkpoint \/ (Delete /\ file = NoFile) \/ Create
  <2>1. ContentOf(file') = ContentOf(file)
    BY <1>2 DEF CheckLocks, Checkpoint, Delete, Create, ContentOf, disk
  <2> QED
    BY <1>1, <1>ok, <2>1, QuietReady
<1>3. CASE (Delete /\ file # NoFile) \/ Revert
  <2>1. ~InUse(NM)
    BY <1>3, NothingMet DEF Delete, Revert
  <2>2. Active = {} /\ queue = <<>> /\ \A v \in Users : pc[v] = "idle"
    BY <1>ok, <2>1, NotInUse
  <2> QED
    BY <1>1, <2>2, NothingReady DEF sessions, Active, AskLabels, MergeLabels
<1>4. CASE RevertFlush
  <2>1. pc[NM] \in RestoreLabels
    BY <1>4 DEF RevertFlush, RestoreLabels
  <2> QED
    BY <1>1, <1>ok, <2>1, RestoredReady
<1> QED
  BY <1>2, <1>3, <1>4 DEF NMStep

LEMMA FirmIsSteady == (Firm => Steady) /\ (Firm' => Steady')
  BY DEF Firm, Steady, Undisturbed

LEMMA FirmStays == [Next]_vars /\ Firm' => Firm
  BY RacesGrow DEF Firm, Undisturbed

\* What holds as long as nothing has come between a session and its commit.
LEMMA FirmHolds ==
    ArriveInv /\ Firm => /\ TypeInv /\ LockInv /\ PointersLead /\ QueueInv /\ RestoreInv /\ ReadyInv
  BY DEF ArriveInv, EntryInv, PointerInv, UndisturbedLockInv, Firm, Undisturbed

LEMMA InitArriveInv == Init => ArriveInv
<1> SUFFICES ASSUME Init PROVE ArriveInv
  OBVIOUS
<1>1. RestoreInv
  BY DEF Init, RestoreInv, TruncatedIsEmpty, Truncated, RestoreAlone, RestoreLabels, AllIdle
<1>2. ReadyInv
  BY DEF Init, ReadyInv, TextsReady, CountsReady, MergesReady, Waits, Active, AllIdle, Threads,
     AskLabels, MergeLabels
<1> QED
  BY <1>1, <1>2, InitEntryInv DEF ArriveInv

LEMMA NextArriveInv == ArriveInv /\ [Next]_vars => ArriveInv'
<1> SUFFICES ASSUME ArriveInv, [Next]_vars, Firm' PROVE RestoreInv' /\ ReadyInv'
  BY NextEntryInv DEF ArriveInv
<1>1. Firm /\ Steady'
  BY FirmStays, FirmIsSteady
<1>2. /\ TypeInv /\ LockInv /\ PointersLead /\ QueueInv /\ RestoreInv /\ ReadyInv
  BY <1>1, FirmHolds
<1>3. TypeInv'
  BY NextEntryInv DEF ArriveInv, EntryInv, PointerInv
<1>4. ASSUME NEW u \in Users, Step(u) PROVE RestoreInv' /\ ReadyInv'
  BY <1>1, <1>2, <1>3, <1>4, StepRestoreInv, StepReady
<1>5. ASSUME NEW u \in Users, Request(u) PROVE RestoreInv' /\ ReadyInv'
  BY <1>1, <1>2, <1>3, <1>5, RequestRestoreInv, RequestReady
<1>6. CASE NMStep
  BY <1>1, <1>2, <1>3, <1>6, NMRestoreInv, NMReady
<1>7. CASE Restart
  BY <1>7 DEF Restart, Note, Firm, Undisturbed
<1>8. CASE UNCHANGED vars
  <2>1. /\ UNCHANGED <<file, temp, carried, queue, sent_idx, parsed, merged, pc, unlinked>>
        /\ UNCHANGED sessions
    BY <1>8 DEF vars, disk, commits, history
  <2>2. RestoreInv'
    BY <1>2, <2>1 DEF RestoreInv, TruncatedIsEmpty, Truncated, RestoreAlone, sessions, Active
  <2>3. ReadyInv'
    BY <1>2, <1>3, <2>1, QuietReady, NamesAssumption DEF Threads
  <2> QED
    BY <2>2, <2>3
<1> QED
  BY <1>4, <1>5, <1>6, <1>7, <1>8 DEF Next

\* Only process_commit_queue takes commits off the queue, one at a time.
LEMMA OnlyQueueDequeues ==
    ASSUME TypeInv, [Next]_vars, Dequeues, Firm'
    PROVE  \E u \in Users : SkipCommit(u) \/ Flush(u)
<1>1. queue' # queue /\ \A e : queue' # Append(queue, e)
  BY EntryTyped DEF Dequeues, TypeInv, TypeOK, ControlTypeOK
<1>2. ~Restart
  BY DEF Restart, Note, Firm, Undisturbed
<1>3. ~UNCHANGED vars /\ ~NMStep
  BY <1>1 DEF vars, commits, NMStep, CheckLocks, Delete, Create, Checkpoint, Revert, RevertFlush
<1>4. ASSUME NEW u \in Users PROVE ~Request(u)
  BY <1>1 DEF Request, LockValidate, WriteLookup, CommitLookup, CancelWrite, Undo, commits
<1>5. ASSUME NEW u \in Users, Step(u) PROVE SkipCommit(u) \/ Flush(u)
  BY <1>1, <1>5 DEF Step, GetLock, TakeLock, TakeFreedLock, StartSession, CopyToTemp, WriteTemp,
     Enqueue, CloseSession, AcquireQueue, MergeHead, Truncate, ReleaseQueue, UnlockLookup, Release,
     RestoreFlush, commits
<1> QED
  BY <1>2, <1>3, <1>4, <1>5 DEF Next

\* As long as nothing has come between a session and its commit, every commit's words reach
\* the document: they stay in the stretch of its session's text that is merged, and a sentence
\* that was there when it was counted is found again, for the document has only grown.
THEOREM CommittedWordsArrive == Spec => UndisturbedCommittedWordsArrive
<1>1. ASSUME ArriveInv, [Next]_vars, Dequeues, Head(queue).user \notin carried[Head(queue).temp], Firm'
      PROVE  HeadArrives
  <2>1. /\ TypeInv /\ LockInv /\ QueueInv /\ RestoreInv /\ ReadyInv
    BY <1>1, FirmStays, FirmHolds
  <2>2. TypeInv'
    BY <1>1, NextEntryInv DEF ArriveInv, EntryInv, PointerInv
  <2>ok. QueueOwnership /\ CommitTypeOK /\ queue # <<>> /\ DOMAIN merged = Threads
    BY <1>1, <2>1 DEF TypeInv, TypeOK, ControlTypeOK, TextTypeOK, Dequeues
  <2>3. PICK u \in Users : SkipCommit(u) \/ Flush(u)
    BY <1>1, <2>1, OnlyQueueDequeues
  <2>4. ~SkipCommit(u)
    <3> SUFFICES ASSUME SkipCommit(u) PROVE FALSE
      OBVIOUS
    <3>1. pc[u] = "process"
      BY DEF SkipCommit
    <3>2. ~Flushes
      BY <2>ok, <3>1 DEF QueueOwnership, QueueLabels, Flushes
    <3> QED
      BY <2>1, <2>ok, <3>2, HeadReady DEF SkipCommit
  <2>5. Flush(u)
    BY <2>3, <2>4
  <2>6. ContentOf(file') = merged[u]
    <3>1. Doc' = Doc /\ ~Flushes'
      BY <2>1, <2>2, <2>5, FlushKeepsDoc
    <3>2. Doc = merged[u]
      BY <2>1, <2>5, DocCases DEF Flush
    <3>3. (~Flushes => Doc = ContentOf(file))'
      BY <2>2, DocCases, PTL
    <3> QED
      BY <3>1, <3>2, <3>3
  <2>7. Brings(Head(queue), merged[u])
    BY <2>1, <2>5 DEF Flush, ReadyInv, MergesReady, MergeLabels
  <2>8. temp[Head(queue).temp] # NoFile
    BY <2>1, <2>ok, EntryTyped DEF QueueInv, EntriesOwned
  <2> QED
    BY <1>1, <2>6, <2>7, <2>8 DEF HeadArrives, Brings, ContentOf
<1>2. ArriveInv /\ [Next]_vars =>
         [Dequeues /\ Head(queue).user \notin carried[Head(queue).temp] /\ Firm' => HeadArrives]_vars
  BY <1>1
<1> QED
  BY <1>2, InitArriveInv, NextArriveInv, PTL DEF Spec, UndisturbedCommittedWordsArrive, Firm
=============================================================================
