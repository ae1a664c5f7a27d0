----------------------- MODULE StorageServerProperties -----------------------
(***************************************************************************)
(* What the write path of a storage server promises. The code keeps most of *)
(* it only as long as certain kinds of interference have not happened; the  *)
(* history variable `races` records them, and a property that needs some    *)
(* of them absent says which.                                               *)
(***************************************************************************)
EXTENDS StorageServer

RaceKinds == {"append",     \* a lock was asked for the index behind the last sentence
              "after",      \* a word or newline was put behind a sentence's delimiter
              "growth",     \* a commit changed the sentence count under an open session
              "shift",      \* a commit was merged into a file of another sentence count
              "torn",       \* the file was read between fopen and fclose of its writer
              "pointer",    \* a session slot moved under a thread's pointer
              "restore",    \* UNDO, revert, delete or create met an edit in progress
              "realloc",    \* a lock was used through a pointer into a freed table
              "failed",     \* a commit that could not be written stayed in the queue
              "crash"}      \* the server was restarted

Undisturbed(kinds) == races \cap kinds = {}

\* Nothing has put the text of a session out of step with the document it is merged into.
InStep == Undisturbed({"shift", "torn", "pointer", "restore", "realloc", "failed"})

Labels == {"idle", "getlock", "takelock", "start", "copy", "write", "enqueue", "close",
           "acquire", "process", "truncate", "flush", "unlock", "release", "restore"}

\* The phases of LOCK_SENTENCE and UNLOCK_SENTENCE in which the user must hold
\* the sentence's lock.
HoldingLabels == {"start", "copy", "write", "enqueue", "close", "acquire", "process",
                  "truncate", "flush"}

\* The phases in which the queue's mutex is held.
QueueLabels == {"process", "truncate", "flush"}

-----------------------------------------------------------------------------
(* Types *)

\* What a file on disk holds, if it exists: parsed text.
IsFile(f) == f = NoFile \/ IsParsed(f)

Slot == [user : Users \cup {NoUser}, idx : Index, count : Nat]

CommitEntry == [user : Users, idx : Index, count : Nat, temp : Keys]

\* The lock table, the array of sessions (whatever counts it holds) and
\* the threads' own control variables hold values of their kinds.
LockTypeOK ==
    /\ locked_by \in [Index -> Users \cup {NoUser}]
    /\ lock_count \in 0 .. MaxSentence + 1
    /\ dangling \subseteq Users

SessionTypeOK ==
    /\ DOMAIN write_sessions = 1 .. MaxSessions
    /\ write_session_count \in 0 .. MaxSessions
    /\ \A k \in 1 .. MaxSessions : /\ write_sessions[k].user \in Users \cup {NoUser}
                                  /\ write_sessions[k].idx \in Index
    /\ \A k \in Active : write_sessions[k].user \in Users

ThreadTypeOK ==
    /\ pc \in [Threads -> Labels \cup {"delete", "revert"}]
    /\ \A u \in Users : pc[u] \in Labels
    /\ pc[NM] \in {"idle", "delete", "revert"}
    /\ sent_idx \in [Users -> Index]
    /\ session \in [Users -> 1 .. MaxSessions]

ControlTypeOK ==
    /\ LockTypeOK
    /\ SessionTypeOK
    /\ ThreadTypeOK
    /\ queue_mutex \in Users \cup {NoUser}

\* What is on disk, and what is about to be flushed there, is parsed text: only its
\* last sentence may lack a delimiter.
TextTypeOK ==
    /\ IsFile(file) /\ IsFile(undo) /\ IsFile(checkpoint) /\ IsFile(previous)
    /\ DOMAIN temp = Keys
    /\ \A key \in Keys : IsFile(temp[key])
    /\ DOMAIN merged = Threads
    /\ \A t \in Threads : IsParsed(merged[t])

CommitTypeOK ==
    /\ write_sessions \in [1 .. MaxSessions -> Slot]
    /\ parsed \in [Users -> Nat]
    /\ queue \in Seq(CommitEntry)

HistoryTypeOK ==
    /\ unlinked \subseteq Threads
    /\ target \in [Keys -> SUBSET SourceIds]
    /\ carried \in [Keys -> SUBSET Users]
    /\ acked \subseteq Users
    /\ races \subseteq RaceKinds

\* Every variable holds a value of its kind.
TypeOK == ControlTypeOK /\ TextTypeOK /\ CommitTypeOK /\ HistoryTypeOK

-----------------------------------------------------------------------------
(* Locks and sessions *)

\* Every session's user holds the lock of its sentence, and so does every user whose
\* LOCK has been granted or whose commit is under way.
LockGuardsSession ==
    /\ \A k \in Active : locked_by[write_sessions[k].idx] = write_sessions[k].user
    /\ \A u \in Users : pc[u] \in HoldingLabels => locked_by[sent_idx[u]] = u

\* A write session exists only while its user holds the lock of its sentence,
\* through LOCK, WRITE, commit, cancel and restart, and a user's commit runs to
\* its end under that lock: as long as nobody has used a lock through a pointer
\* into a table that realloc had moved.
UndisturbedLockGuardsSession == Undisturbed({"realloc"}) => LockGuardsSession

\* No two slots of write_sessions are for the same sentence.
OneSessionPerSentence ==
    \A j, k \in Active : write_sessions[j].idx = write_sessions[k].idx => j = k

\* No two slots are for the same user and sentence.
OneSlotEach ==
    \A j, k \in Active :
        /\ write_sessions[j].user = write_sessions[k].user
        /\ write_sessions[j].idx = write_sessions[k].idx
        => j = k

\* Neither a repeated LOCK nor compaction leaves a user two slots for one sentence,
\* whatever has happened to the locks; and no session is opened beside another user's, as
\* long as nobody has used a lock through a pointer into a table that realloc had moved.
UndisturbedOneSessionPerSentence ==
    /\ OneSlotEach
    /\ Undisturbed({"realloc"}) => OneSessionPerSentence

\* The phases of UNLOCK_SENTENCE, CANCEL_WRITE and a refused LOCK_SENTENCE in which
\* the user's session on the sentence is gone.
ClosedLabels == {"acquire", "process", "truncate", "flush", "unlock", "release"}

\* A user's session is gone before its commit is merged and before its lock is freed,
\* whatever has happened to the locks: no WRITE of its user can reach the temp file of a
\* commit that is being merged, and an unlocked sentence leaves no session of the user who
\* unlocked it.
ClosedBeforeRelease ==
    \A u \in Users : pc[u] \in ClosedLabels => ~HasSession(u, sent_idx[u])

\* What the locks and sessions keep together: each part needs the others.
LockInv ==
    /\ ControlTypeOK
    /\ LockGuardsSession
    /\ OneSessionPerSentence
    /\ ClosedBeforeRelease

\* A lock that is held has a session behind it, or a request of its holder that
\* has not been answered: no path through LOCK, UNLOCK or CANCEL leaves a lock
\* that nothing will release.
NoLeakedLock ==
    Undisturbed({"realloc"}) =>
    \A i \in Index, u \in Users :
        locked_by[i] = u => HasSession(u, i) \/ (pc[u] # "idle" /\ sent_idx[u] = i)

\* The session in slot k has its text and has not been handed to the queue.
Editing(k) == \A u \in Users : ~ /\ pc[u] \in {"start", "copy", "close"}
                                 /\ TempPath(k) = <<u, sent_idx[u]>>

\* Two open sessions never edit the same sentence of the original document,
\* whatever index each of them knows it by: "preventing simultaneous edits to the
\* same sentence" (notes.md).
SentenceExclusion ==
    \A j, k \in Active :
        j # k /\ Editing(j) /\ Editing(k) =>
            target[TempPath(j)] \cap target[TempPath(k)] = {}

\* The same, as long as the sessions are in step with the document and no commit has
\* moved sentences under a session.
UndisturbedSentenceExclusion ==
    InStep /\ Undisturbed({"growth"}) => SentenceExclusion

\* A session's temp file is changed only by its own user's thread, or removed by
\* the queue's, as long as no session slot has moved under a pointer: it is an
\* "isolated workspace for user's modifications" (README.md).
UndisturbedTempIsolation ==
    [][\A u \in Users, i \in Index :
          temp'[<<u, i>>] \notin {temp[<<u, i>>], NoFile} /\ Undisturbed({"pointer"})' =>
              pc[u] \in {"copy", "write"} /\ sent_idx[u] = i]_vars

-----------------------------------------------------------------------------
(* The commit queue *)

\* Only the holder of the queue's mutex processes commits, and the commit it is
\* about to write stays at the queue's head until it has been written.
QueueOwnership ==
    /\ \A u \in Users : pc[u] \in QueueLabels <=> queue_mutex = u
    /\ \A u \in Users : pc[u] \in {"truncate", "flush"} => queue # <<>>

\* While no slot has moved under a pointer and no commit has failed to be written, a
\* queued commit carries its own user's temp file, which exists, and no two queued
\* commits are for the same sentence.
EntriesAreOwn ==
    Undisturbed({"pointer", "realloc", "failed"}) =>
    /\ \A n \in DOMAIN queue : /\ queue[n].temp = <<queue[n].user, queue[n].idx>>
                               /\ temp[queue[n].temp] # NoFile
    /\ \A m, n \in DOMAIN queue : queue[m].idx = queue[n].idx => m = n

\* Thread u merges the head of the queue.
Merges(u) == pc[u] = "process" /\ pc'[u] = "truncate"

\* The head of the queue leaves it, merged or dropped.
Dequeues == queue # <<>> /\ queue' = Tail(queue) /\ budget'.crashes = budget.crashes

\* Text `new` holds every sentence of `old` that shares no source with `own`,
\* with the words users have put into it.
KeepsAllBut(own, old, new) ==
    \A m \in DOMAIN old :
        old[m].src # {} /\ old[m].src \cap own = {} =>
            \E n \in DOMAIN new : /\ old[m].src \subseteq new[n].src
                                  /\ old[m].by \subseteq new[n].by

\* The sentences the user of commit e locked, by their sources.
LockedBy(e) == target[<<e.user, e.idx>>]

\* A merge leaves every sentence alone but the one that was locked: it works
\* out "where sentence X is NOW after previous commits" (ss.c).
MergeKeepsOthers ==
    [][\A u \in Users : Merges(u) =>
          KeepsAllBut(LockedBy(Head(queue)), ContentOf(file), merged'[u])]_vars

\* The same, as long as the sessions are in step with the document.
UndisturbedMergeKeepsOthers ==
    [][\A u \in Users : Merges(u) /\ InStep' =>
          KeepsAllBut(LockedBy(Head(queue)), ContentOf(file), merged'[u])]_vars

\* The words of the user whose commit leaves the queue are in the document.
HeadArrives ==
    Marks(ContentOf(temp[Head(queue).temp])) \cap {Head(queue).user}
        \subseteq Marks(ContentOf(file'))

\* A commit that leaves the queue has put its user's words into the document, if the text
\* its session was opened on held none of that user's and they were put among those of an
\* existing sentence: "these changes are merged back into the main file only after the
\* user commits the write" (notes.md). It holds as long as no
\* file was read half written, no session slot moved under a pointer, nothing was
\* restored meanwhile and no commit was left half done. Sentences that moved do not
\* matter: the words arrive, if perhaps in the wrong place.
UndisturbedCommittedWordsArrive ==
    [][Dequeues /\ Head(queue).user \notin carried[Head(queue).temp]
            /\ Undisturbed({"append", "after", "pointer", "realloc", "torn", "restore",
                            "failed", "crash"})' =>
          HeadArrives]_vars

\* At any moment the disk alone, the document or its undo backup, holds the
\* words of every user whose commit was acknowledged: a crash at that moment
\* loses none of them.
AcknowledgedIsOnDisk ==
    InStep /\ Undisturbed({"crash"}) =>
        acked \subseteq Marks(ContentOf(file)) \cup Marks(ContentOf(undo))

-----------------------------------------------------------------------------
(* Undo and delete *)

\* A revert nobody interferes with puts the checkpoint's text in place and leaves
\* the text it replaced in the undo backup, so that it can itself be undone.
RevertIsUndoable ==
    [][pc[NM] = "revert" /\ pc'[NM] = "idle" /\ Undisturbed({"restore", "torn", "crash"})'
          => /\ file' = checkpoint
             /\ previous # NoFile => undo' = previous]_vars

-----------------------------------------------------------------------------
(* Liveness and refinement *)

\* Every LOCK, WRITE, UNLOCK, CANCEL and UNDO request is answered: no thread
\* waits for ever for the queue's mutex.
RequestsAnswered == \A u \in Users : pc[u] # "idle" ~> pc[u] = "idle"

\* The locks and sessions implement the abstract sentence locking.
OpenSessions == {<<write_sessions[k].user, write_sessions[k].idx>> : k \in Active}

Locking == INSTANCE SentenceLocking WITH holder <- locked_by, open <- OpenSessions

\* Up to the first use of a lock through a pointer into a table that realloc had moved,
\* every step takes, keeps or gives up locks and sessions as SentenceLocking allows, or
\* leaves them alone.
UndisturbedImplementsLocking ==
    /\ Locking!Init
    /\ [][Undisturbed({"realloc"})' => [Locking!Next]_(Locking!vars)]_vars
=============================================================================
