--------------------------- MODULE StorageServer ---------------------------
(***************************************************************************)
(* The write path of one storage server (ss.c) for one document: client     *)
(* handler threads that lock a sentence, edit a private copy of the file    *)
(* and queue it for a merge, the undo backup, and the name server's command *)
(* thread that deletes, creates, checkpoints and reverts the file.          *)
(*                                                                          *)
(* A step is what a thread does between two points at which another thread  *)
(* can see or change what it uses: one critical section of a mutex, one     *)
(* read of a file, one fopen(..., "w") (which truncates), one fclose (which *)
(* flushes). A client has one connection and sends one request at a time,   *)
(* so a thread stands for a user.                                           *)
(***************************************************************************)
EXTENDS SentenceText, FiniteSets

CONSTANTS
    NM,             \* the thread that serves the name server's commands
    NoUser,         \* nobody: a lock or a mutex that is free
    NoFile,         \* the content of a file that does not exist
    InitialFiles,   \* the contents the document may have when the server starts
    WriteKinds,     \* the kinds of content clients write
    Commands,       \* the other commands in use: "cancel", "undo", "delete", ...
    MaxSentence,    \* the largest sentence index clients ask for
    MaxSessions,    \* MAX_CLIENTS * 10, the size of write_sessions
    ReallocMoves,   \* whether realloc moves a lock table it grows
    QueueRoom,      \* whether commit_queues has room for the file: a set of BOOLEANs
    DiskFails,      \* whether write_file_content may fail
    MaxLocks,       \* bound: LOCK_SENTENCE requests
    MaxWrites,      \* bound: WRITE requests
    MaxCommands,    \* bound: UNDO requests and name-server commands
    MaxCrashes      \* bound: restarts of the server

Index == 0 .. MaxSentence

Threads == Users \cup {NM}

ASSUME NamesAssumption ==
    /\ NM \notin Users
    /\ NoUser \notin Users \cup {NM}

ASSUME BoundsAssumption ==
    /\ MaxSentence \in Nat
    /\ MaxSessions \in Nat \ {0}
    /\ ReallocMoves \in BOOLEAN
    /\ WriteKinds \subseteq EditKinds

\* The document, if it exists, can be read: NoFile is no text, and what the server
\* finds when it starts is what parse_file finds. Each of its sentences has names of
\* its own.
ASSUME FilesAssumption ==
    /\ NoFile \notin Seq(Sentence)
    /\ \A f \in InitialFiles : f = NoFile \/ (IsParsed(f) /\ SourcesApart(f))

VARIABLES
    \* On disk
    file,           \* the document: its sentences, or NoFile
    undo,           \* <file>.undo
    checkpoint,     \* <file>.checkpoint_<tag>, for one tag
    temp,           \* <file>.temp_<user>_<index>
    \* The server's shared memory
    locked_by,      \* ss.file_locks: who holds the lock of each sentence index
    lock_count,     \* how many sentence locks the table has
    write_sessions,        \* the array, with what removed slots leave behind
    write_session_count,   \* how many of its slots are in use
    queue,          \* the file's FileCommitQueue
    queue_room,     \* whether commit_queues has, or has room for, that queue:
                    \* its entries are never given up
    queue_mutex,    \* the thread that holds queue->mutex
    \* Each thread's own memory
    pc,             \* what it does next
    sent_idx,       \* the sentence index of its request
    session,        \* the slot a WriteSession* of its points to
    parsed,         \* original_sentence_count, before it is stored in the session
    merged,         \* the text it is about to flush to the file
    dangling,       \* threads whose SentenceLock* points into a freed table
    unlinked,       \* threads whose open file has been deleted
    budget,         \* the requests and restarts still to come: budget of the model
    \* History, read by no guard
    target,         \* the source sentences a session was opened on
    carried,        \* the users whose words a session's text held when it was opened
    acked,          \* the users whose merged words are acknowledged, and not undone
    previous,       \* the document before the latest change to it
    races           \* the kinds of interference that have happened

disk      == <<file, undo, checkpoint, temp>>
locks     == <<locked_by, lock_count, dangling>>
sessions  == <<write_sessions, write_session_count>>
commits   == <<queue, queue_mutex, queue_room>>
history   == <<target, carried, acked, previous, races>>
vars      == <<disk, locks, sessions, commits, pc, sent_idx, session, parsed,
               merged, unlinked, budget, history>>

-----------------------------------------------------------------------------
(* State formulas *)

\* What a read of file f yields: a missing file is treated as empty.
ContentOf(f) == IF f = NoFile THEN <<>> ELSE f

\* The slots of write_sessions that are in use.
Active == 1 .. write_session_count

\* MUTANT: the search stops one slot too early.
SlotsOfButLast(u, i) == {k \in Active : /\ k < write_session_count
                                        /\ write_sessions[k].user = u
                                        /\ write_sessions[k].idx = i}

\* The slots of the session of user u on sentence i: get_write_session's search.
SlotsOf(u, i) == {k \in Active : /\ write_sessions[k].user = u
                                 /\ write_sessions[k].idx = i}

HasSession(u, i) == SlotsOf(u, i) # {}

\* MUTANT: the sentence index is left out of the temp file's name.
TempPathOfUser(k) == <<write_sessions[k].user, 0>>

\* The temp file a session pointer leads to.
TempPath(k) == <<write_sessions[k].user, write_sessions[k].idx>>

\* The document is open for writing in some thread: truncated, not yet flushed.
Truncated == \E t \in Threads : pc[t] \in {"flush", "restore", "revert"}

\* Sessions other than the one of commit e are open.
OthersEditing(e) == \E k \in Active : TempPath(k) # <<e.user, e.idx>>

\* pc after a step of thread t.
Goto(t, label) == pc' = [pc EXCEPT ![t] = label]

\* The history of a step that meets the given kinds of interference.
Note(kinds) == races' = races \cup kinds

-----------------------------------------------------------------------------
(* LOCK_SENTENCE *)

\* The request arrives and its index is checked against the file. An invalid
\* index is answered ERR_INVALID_INDEX, which changes nothing.
LockValidate(u, i) ==
    /\ pc[u] = "idle"
    /\ budget.locks > 0
    /\ LockableIndex(ContentOf(file), i)
    /\ budget' = [budget EXCEPT !.locks = @ - 1]
    /\ sent_idx' = [sent_idx EXCEPT ![u] = i]
    /\ Goto(u, "getlock")
    /\ Note(IF i = Len(ContentOf(file)) /\ i > 0 THEN {"append"} ELSE {})
    /\ UNCHANGED <<disk, locks, sessions, commits, session, parsed, merged,
                   unlinked, target, carried, acked, previous>>

\* Grows the lock table to n entries, for a thread that then looks up a lock.
\* realloc may move the table and leave other threads' pointers dangling.
InitFileLocks(n) ==
    IF n <= lock_count
    THEN UNCHANGED locks
    ELSE /\ lock_count' = n
         /\ \E moved \in {FALSE, ReallocMoves} :
              dangling' = IF moved /\ lock_count > 0
                          THEN dangling \cup {u \in Users : pc[u] \in {"takelock", "release"}}
                          ELSE dangling
         /\ UNCHANGED locked_by

\* init_file_locks and get_sentence_lock: the thread now has a SentenceLock*.
GetLock(u) ==
    /\ pc[u] = "getlock"
    /\ InitFileLocks(sent_idx[u] + 1)
    /\ Goto(u, "takelock")
    /\ UNCHANGED <<disk, sessions, commits, sent_idx, session, parsed, merged,
                   unlinked, budget, history>>

\* MUTANT: a lock that is held is taken from its holder.
MayLockAny(u, i) == TRUE

\* A free lock may be taken, and the holder may take it again.
MayLock(u, i) == locked_by[i] \in {NoUser, u}

\* lock_sentence_ss under the lock's mutex.
TakeLock(u) ==
    /\ pc[u] = "takelock"
    /\ u \notin dangling
    /\ IF MayLock(u, sent_idx[u])
       THEN /\ locked_by' = [locked_by EXCEPT ![sent_idx[u]] = u]
            /\ Goto(u, "start")
       ELSE /\ UNCHANGED locked_by
            /\ Goto(u, "idle")
    /\ UNCHANGED <<disk, lock_count, dangling, sessions, commits, sent_idx, session,
                   parsed, merged, unlinked, budget, history>>

\* The same through a pointer into the freed table: the outcome is arbitrary,
\* and a lock that is granted is recorded where nobody looks.
TakeFreedLock(u) ==
    /\ pc[u] = "takelock"
    /\ u \in dangling
    /\ dangling' = dangling \ {u}
    /\ \E label \in {"start", "idle"} : Goto(u, label)
    /\ Note({"realloc"})
    /\ UNCHANGED <<disk, locked_by, lock_count, sessions, commits, sent_idx, session,
                   parsed, merged, unlinked, budget, target, carried, acked, previous>>

\* A slot taken for user u's session on sentence i keeps the count it held; a slot
\* given its count keeps its user and sentence.
Reused(s, u, i) == [user |-> u, idx |-> i, count |-> s.count]

Stamped(s, count) == [user |-> s.user, idx |-> s.idx, count |-> count]

\* start_write_session_ss, first part: count the file's sentences and find or
\* create the session. A full array is answered ERR_SERVER_ERROR after unlocking.
StartSession(u) ==
    LET i == sent_idx[u] IN
    /\ pc[u] = "start"
    /\ parsed' = [parsed EXCEPT ![u] = Len(ContentOf(file))]
    /\ \/ /\ HasSession(u, i)
          /\ session' = [session EXCEPT ![u] = CHOOSE k \in SlotsOf(u, i) : TRUE]
          /\ Goto(u, "copy")
          /\ UNCHANGED sessions
       \/ /\ ~HasSession(u, i)
          /\ write_session_count < MaxSessions
          /\ write_session_count' = write_session_count + 1
          /\ write_sessions' = [write_sessions EXCEPT
                                   ![write_session_count + 1] = Reused(@, u, i)]
          /\ session' = [session EXCEPT ![u] = write_session_count + 1]
          /\ Goto(u, "copy")
       \/ /\ ~HasSession(u, i)
          /\ write_session_count = MaxSessions
          /\ Goto(u, "unlock")
          /\ UNCHANGED <<sessions, session>>
    /\ Note(IF Truncated THEN {"torn"} ELSE {})
    /\ UNCHANGED <<disk, locks, commits, sent_idx, merged, unlinked, budget, target, carried, acked, previous>>

\* start_write_session_ss, second part, through the session pointer: store the
\* count, copy the file to the session's temp file. Success is the reply.
CopyToTemp(u) ==
    LET k == session[u]
        i == sent_idx[u]
        content == ContentOf(file)
    IN
    /\ pc[u] = "copy"
    /\ write_sessions' = [write_sessions EXCEPT ![k] = Stamped(@, parsed[u])]
    /\ temp' = [temp EXCEPT ![TempPath(k)] = content]
    /\ target' = [target EXCEPT ![<<u, i>>] =
                    IF i < Len(content) THEN content[i + 1].src ELSE {}]
    /\ carried' = [carried EXCEPT ![<<u, i>>] = Marks(content)]
    /\ Note(IF Truncated THEN {"torn"} ELSE {})
    /\ Goto(u, "idle")
    /\ UNCHANGED <<file, undo, checkpoint, locks, write_session_count, commits,
                   sent_idx, session, parsed, merged, unlinked, budget,
                   acked, previous>>

-----------------------------------------------------------------------------
(* WRITE *)

\* get_write_session finds the session of the request; without one the request
\* is answered ERR_INVALID_OPERATION and changes nothing.
WriteLookup(u, i) ==
    /\ pc[u] = "idle"
    /\ budget.writes > 0
    /\ HasSession(u, i)
    /\ budget' = [budget EXCEPT !.writes = @ - 1]
    /\ sent_idx' = [sent_idx EXCEPT ![u] = i]
    /\ session' = [session EXCEPT ![u] = CHOOSE k \in SlotsOf(u, i) : TRUE]
    /\ Goto(u, "write")
    /\ UNCHANGED <<disk, locks, sessions, commits, parsed, merged, unlinked,
                   history>>

\* The rest of write_file_ss, through the session pointer: parse the temp file,
\* insert the content, write it back. An index beyond the text changes nothing.
WriteTemp(u, kind) ==
    LET path == TempPath(session[u])
        text == ContentOf(temp[path])
        i    == sent_idx[u]
    IN
    /\ pc[u] = "write"
    /\ IF i <= Len(text) \/ (text = <<>> /\ i = 1)
       THEN temp' = [temp EXCEPT ![path] = InsertWord(text, i, u, kind)]
       ELSE UNCHANGED temp
    /\ Goto(u, "idle")
    /\ Note(IF /\ kind \in {"after", "newline"}
               /\ i + 1 < Len(text)
            THEN {"after"} ELSE {})
    /\ UNCHANGED <<file, undo, checkpoint, locks, sessions, commits, sent_idx, session,
                   parsed, merged, unlinked, budget, target, carried, acked, previous>>

-----------------------------------------------------------------------------
(* UNLOCK_SENTENCE: commit_write_session_ss, then unlock_sentence_ss *)

\* The request arrives and its session is looked up; without one there is
\* nothing to commit, and the handler goes on to unlock.
CommitLookup(u, i) ==
    /\ pc[u] = "idle"
    /\ sent_idx' = [sent_idx EXCEPT ![u] = i]
    /\ \/ /\ HasSession(u, i)
          /\ session' = [session EXCEPT ![u] = CHOOSE k \in SlotsOf(u, i) : TRUE]
          /\ Goto(u, "enqueue")
       \/ /\ ~HasSession(u, i)
          /\ Goto(u, "unlock")
          /\ UNCHANGED session
    /\ UNCHANGED <<disk, locks, sessions, commits, parsed, merged, unlinked, budget, history>>

\* Removes slot k from write_sessions by moving the slots behind it down. What
\* the last one held stays behind it, where pointers taken before may lead.
CompactSessions(u, k) ==
    /\ write_sessions' = [j \in 1 .. MaxSessions |->
                            IF j \in k .. write_session_count - 1
                            THEN write_sessions[j + 1] ELSE write_sessions[j]]
    /\ write_session_count' = write_session_count - 1
    /\ Note(IF \E v \in Users \ {u} : /\ pc[v] \in {"copy", "write", "enqueue"}
                                      /\ session[v] >= k
            THEN {"pointer"} ELSE {})

\* enqueue_commit at the queue's tail, with the count and the temp file the
\* session pointer leads to. When commit_queues is full the session
\* and its temp file are removed, and ERR_SERVER_ERROR follows the unlock.
Enqueue(u) ==
    LET k == session[u]
        i == sent_idx[u]
    IN
    /\ pc[u] = "enqueue"
    /\ \/ /\ queue_room
          /\ queue_mutex = NoUser
          /\ queue' = Append(queue, [user  |-> u,
                                     idx   |-> i,
                                     count |-> write_sessions[k].count,
                                     temp  |-> TempPath(k)])
          /\ Goto(u, "close")
          /\ UNCHANGED <<temp, sessions, races>>
       \/ /\ ~queue_room
          /\ \E s \in SlotsOf(u, i) : /\ CompactSessions(u, s)
                                      /\ temp' = [temp EXCEPT ![TempPath(s)] = NoFile]
          /\ Goto(u, "unlock")
          /\ UNCHANGED queue
    /\ UNCHANGED <<file, undo, checkpoint, locks, queue_mutex, queue_room, sent_idx, session, parsed,
                   merged, unlinked, budget, target, carried, acked, previous>>

\* MUTANT: the temp file is removed with its session.
CloseSessionUnlinks(u) ==
    /\ pc[u] = "close"
    /\ \E k \in SlotsOf(u, sent_idx[u]) :
        /\ CompactSessions(u, k)
        /\ temp' = [temp EXCEPT ![TempPath(k)] = NoFile]
    /\ Goto(u, "acquire")
    /\ UNCHANGED <<file, undo, checkpoint, locks, commits, sent_idx, session, parsed, merged, unlinked,
                   budget, target, carried, acked, previous>>

\* MUTANT: the session is not removed.
CloseSessionForgets(u) ==
    /\ pc[u] = "close"
    /\ Goto(u, "acquire")
    /\ UNCHANGED <<disk, locks, sessions, commits, sent_idx, session, parsed, merged,
                   unlinked, budget, history>>

\* The session is removed; its temp file is left to the queue.
CloseSession(u) ==
    /\ pc[u] = "close"
    /\ \E k \in SlotsOf(u, sent_idx[u]) : CompactSessions(u, k)
    /\ Goto(u, "acquire")
    /\ UNCHANGED <<disk, locks, commits, sent_idx, session, parsed, merged, unlinked,
                   budget, target, carried, acked, previous>>

\* MUTANT: no backup is made.
NotBackedUp == undo

\* create_undo_backup: what <file>.undo holds after it.
BackedUp == IF file # NoFile THEN file ELSE undo

\* process_commit_queue takes the queue's mutex and, when there is anything to
\* merge, backs the file up: once, before the first of its commits.
AcquireQueue(u) ==
    /\ pc[u] = "acquire"
    /\ queue_mutex = NoUser
    /\ queue_mutex' = u
    /\ undo' = IF queue # <<>> THEN BackedUp ELSE undo
    /\ Goto(u, "process")
    /\ Note(IF queue # <<>> /\ Truncated THEN {"torn"} ELSE {})
    /\ UNCHANGED <<file, checkpoint, temp, locks, sessions, queue, queue_room, sent_idx, session,
                   parsed, merged, unlinked, budget, target, carried, acked, previous>>

\* A commit that cannot be placed is dropped, with its temp file: the temp file
\* cannot be opened, or the adjusted index is outside the current file.
DropsCommit(e) ==
    \/ temp[e.temp] = NoFile
    \/ SkipsCommit(ContentOf(file), e.count, e.idx)

SkipCommit(u) ==
    /\ pc[u] = "process"
    /\ queue # <<>>
    /\ DropsCommit(Head(queue))
    /\ queue' = Tail(queue)
    /\ temp' = [temp EXCEPT ![Head(queue).temp] = NoFile]
    /\ Note(  (IF Truncated THEN {"torn"} ELSE {})
            \cup (IF Len(ContentOf(file)) # Head(queue).count THEN {"shift"} ELSE {}))
    /\ UNCHANGED <<file, undo, checkpoint, locks, sessions, queue_mutex, queue_room, pc, sent_idx,
                   session, parsed, merged, unlinked, budget, target, carried, acked, previous>>

\* The head commit is merged with the file as it is now.
MergeHead(u) ==
    LET e == Head(queue)
        result == MergeCommit(ContentOf(file), temp[e.temp], e.count, e.idx)
    IN
    /\ pc[u] = "process"
    /\ queue # <<>>
    /\ ~DropsCommit(e)
    /\ merged' = [merged EXCEPT ![u] = result]
    /\ previous' = file
    /\ Goto(u, "truncate")
    /\ Note(  (IF Truncated THEN {"torn"} ELSE {})
            \cup (IF Len(ContentOf(file)) # e.count THEN {"shift"} ELSE {}))
    /\ UNCHANGED <<disk, locks, sessions, commits, sent_idx, session, parsed, unlinked,
                   budget, target, carried, acked>>

\* MUTANT: a failure returns without releasing the queue's mutex.
TruncateKeepsMutex(u) ==
    /\ pc[u] = "truncate"
    /\ \/ /\ file' = <<>>
          /\ Goto(u, "flush")
          /\ UNCHANGED queue_mutex
       \/ /\ DiskFails
          /\ UNCHANGED queue_mutex
          /\ Goto(u, "unlock")
          /\ UNCHANGED file
    /\ Note(  (IF pc'[u] = "unlock" THEN {"failed"} ELSE {})
            \cup (IF Len(merged[u]) # Len(ContentOf(file)) /\ OthersEditing(Head(queue))
                  THEN {"growth"} ELSE {}))
    /\ UNCHANGED <<undo, checkpoint, temp, locks, sessions, queue, queue_room, sent_idx, session, parsed,
                   merged, unlinked, budget, target, carried, acked, previous>>

\* write_file_content opens the file for writing, which truncates or creates it.
\* If it cannot, the mutex is released with the commit still at the queue's head.
Truncate(u) ==
    /\ pc[u] = "truncate"
    /\ \/ /\ file' = <<>>
          /\ Goto(u, "flush")
          /\ UNCHANGED queue_mutex
       \/ /\ DiskFails
          /\ queue_mutex' = NoUser
          /\ Goto(u, "unlock")
          /\ UNCHANGED file
    /\ Note(  (IF pc'[u] = "unlock" THEN {"failed"} ELSE {})
            \cup (IF Len(merged[u]) # Len(ContentOf(file)) /\ OthersEditing(Head(queue))
                  THEN {"growth"} ELSE {}))
    /\ UNCHANGED <<undo, checkpoint, temp, locks, sessions, queue, queue_room, sent_idx, session, parsed,
                   merged, unlinked, budget, target, carried, acked, previous>>

\* Thread t closes the file it truncated: its text reaches the disk, unless the
\* file it has open was deleted meanwhile.
FlushMerged(t) ==
    /\ file' = IF t \in unlinked \/ file = NoFile THEN file ELSE Overlay(file, merged[t])
    /\ unlinked' = unlinked \ {t}
    /\ merged' = [merged EXCEPT ![t] = <<>>]

\* The merged document is on disk: the commit and its temp file are removed.
Flush(u) ==
    /\ pc[u] = "flush"
    /\ FlushMerged(u)
    /\ temp' = [temp EXCEPT ![Head(queue).temp] = NoFile]
    /\ queue' = Tail(queue)
    /\ Goto(u, "process")
    /\ UNCHANGED <<undo, checkpoint, locks, sessions, queue_mutex, queue_room, sent_idx, session, parsed,
                   budget, history>>

\* The queue is empty: its mutex is released.
ReleaseQueue(u) ==
    /\ pc[u] = "process"
    /\ queue = <<>>
    /\ queue_mutex' = NoUser
    /\ acked' = acked \cup ({u} \cap Marks(ContentOf(file)))
    /\ Goto(u, "unlock")
    /\ UNCHANGED <<disk, locks, sessions, queue, queue_room, sent_idx, session, parsed, merged, unlinked,
                   budget, target, carried, previous, races>>

\* MUTANT: the last lock of the table is never found.
UnlockLookupButLast(u) ==
    /\ pc[u] = "unlock"
    /\ Goto(u, IF sent_idx[u] < lock_count - 1 THEN "release" ELSE "idle")
    /\ UNCHANGED <<disk, locks, sessions, commits, sent_idx, session, parsed, merged,
                   unlinked, budget, history>>

\* unlock_sentence_ss looks the lock up; an index beyond the table has none.
UnlockLookup(u) ==
    /\ pc[u] = "unlock"
    /\ Goto(u, IF sent_idx[u] < lock_count THEN "release" ELSE "idle")
    /\ UNCHANGED <<disk, locks, sessions, commits, sent_idx, session, parsed, merged,
                   unlinked, budget, history>>

\* MUTANT: a lock is freed whoever holds it.
MayUnlockAny(u, i) == u \notin dangling

\* Only its holder frees a lock, and not through a pointer into a freed table.
MayUnlock(u, i) == u \notin dangling /\ locked_by[i] = u

\* The lock is freed if the user still holds it, and the request is answered.
\* Through a pointer into a freed table, nothing happens to the lock.
Release(u) ==
    /\ pc[u] = "release"
    /\ locked_by' = IF MayUnlock(u, sent_idx[u])
                    THEN [locked_by EXCEPT ![sent_idx[u]] = NoUser]
                    ELSE locked_by
    /\ dangling' = dangling \ {u}
    /\ Goto(u, "idle")
    /\ Note(IF u \in dangling THEN {"realloc"} ELSE {})
    /\ UNCHANGED <<disk, lock_count, sessions, commits, sent_idx, session, parsed, merged,
                   unlinked, budget, target, carried, acked, previous>>

-----------------------------------------------------------------------------
(* CANCEL_WRITE *)

\* The session and its temp file are removed, then the sentence is unlocked.
CancelWrite(u, i) ==
    /\ "cancel" \in Commands
    /\ pc[u] = "idle"
    /\ \/ \E k \in SlotsOf(u, i) : /\ CompactSessions(u, k)
                                   /\ temp' = [temp EXCEPT ![TempPath(k)] = NoFile]
       \/ /\ ~HasSession(u, i)
          /\ UNCHANGED <<temp, sessions, races>>
    /\ sent_idx' = [sent_idx EXCEPT ![u] = i]
    /\ Goto(u, "unlock")
    /\ UNCHANGED <<file, undo, checkpoint, locks, commits, session, parsed, merged, unlinked,
                   budget, target, carried, acked, previous>>

-----------------------------------------------------------------------------
(* UNDO, which takes no lock and no mutex *)

\* The document is being edited, committed or restored by another thread: what
\* an UNDO, a revert or a delete then does was not foreseen by that thread.
InUse(t) == \/ \E i \in Index : locked_by[i] # NoUser
            \/ \E v \in Threads \ {t} : pc[v] # "idle"

SpendCommand == budget.commands > 0 /\ budget' = [budget EXCEPT !.commands = @ - 1]

\* restore_from_undo reads the backup and truncates the file. Without a backup
\* the request is answered ERR_INVALID_OPERATION and changes nothing.
Undo(u) ==
    /\ "undo" \in Commands
    /\ pc[u] = "idle"
    /\ undo # NoFile
    /\ SpendCommand
    /\ merged' = [merged EXCEPT ![u] = undo]
    /\ file' = <<>>
    /\ acked' = {}
    /\ Goto(u, "restore")
    /\ Note(IF InUse(u) THEN {"restore"} ELSE {})
    /\ UNCHANGED <<undo, checkpoint, temp, locks, sessions, commits, sent_idx, session, parsed,
                   unlinked, target, carried, previous>>

\* The restored text is flushed and the backup removed.
RestoreFlush(u) ==
    /\ pc[u] = "restore"
    /\ FlushMerged(u)
    /\ undo' = NoFile
    /\ Goto(u, "idle")
    /\ Note(IF InUse(u) THEN {"restore"} ELSE {})
    /\ UNCHANGED <<checkpoint, temp, locks, sessions, commits, sent_idx, session, parsed,
                   budget, target, carried, acked, previous>>

-----------------------------------------------------------------------------
(* The name server's commands, served by one thread *)

\* CHECK_LOCKS: the name server goes on to DELETE only if no sentence is locked.
CheckLocks ==
    /\ "delete" \in Commands
    /\ pc[NM] = "idle"
    /\ \A i \in 0 .. lock_count - 1 : locked_by[i] = NoUser
    /\ SpendCommand
    /\ Goto(NM, "delete")
    /\ UNCHANGED <<disk, locks, sessions, commits, sent_idx, session, parsed, merged,
                   unlinked, history>>

\* delete_file_ss removes the file and its backup. Locks, sessions and queued
\* commits stay.
Delete ==
    /\ pc[NM] = "delete"
    /\ IF file = NoFile
       THEN UNCHANGED <<file, undo, unlinked, acked, races>>
       ELSE /\ file' = NoFile
            /\ undo' = NoFile
            /\ acked' = {}
            /\ unlinked' = {t \in Threads : pc[t] \in {"flush", "restore"}}
            /\ Note(IF InUse(NM) THEN {"restore"} ELSE {})
    /\ Goto(NM, "idle")
    /\ UNCHANGED <<checkpoint, temp, locks, sessions, commits, sent_idx, session, parsed, merged,
                   budget, target, carried, previous>>

\* create_file_ss: an empty file and room for its first lock.
Create ==
    /\ "create" \in Commands
    /\ pc[NM] = "idle"
    /\ file = NoFile
    /\ SpendCommand
    /\ file' = <<>>
    /\ InitFileLocks(1)
    /\ Note(IF InUse(NM) THEN {"restore"} ELSE {})
    /\ UNCHANGED <<undo, checkpoint, temp, sessions, commits, pc, sent_idx, session, parsed,
                   merged, unlinked, target, carried, acked, previous>>

\* create_checkpoint copies the file, once for a tag.
Checkpoint ==
    /\ "checkpoint" \in Commands
    /\ pc[NM] = "idle"
    /\ file # NoFile
    /\ checkpoint = NoFile
    /\ SpendCommand
    /\ checkpoint' = file
    /\ UNCHANGED <<file, undo, temp, locks, sessions, commits, pc, sent_idx, session, parsed,
                   merged, unlinked, history>>

\* revert_to_checkpoint backs the file up and truncates it, whoever holds locks.
Revert ==
    /\ "checkpoint" \in Commands
    /\ pc[NM] = "idle"
    /\ checkpoint # NoFile
    /\ SpendCommand
    /\ undo' = BackedUp
    /\ previous' = file
    /\ file' = <<>>
    /\ acked' = {}
    /\ merged' = [merged EXCEPT ![NM] = checkpoint]
    /\ Goto(NM, "revert")
    /\ Note(IF InUse(NM) THEN {"restore"} ELSE {})
    /\ UNCHANGED <<checkpoint, temp, locks, sessions, commits, sent_idx, session, parsed,
                   unlinked, target, carried>>

\* The checkpoint's text is flushed.
RevertFlush ==
    /\ pc[NM] = "revert"
    /\ FlushMerged(NM)
    /\ Goto(NM, "idle")
    /\ Note(IF InUse(NM) THEN {"restore"} ELSE {})
    /\ UNCHANGED <<undo, checkpoint, temp, locks, sessions, commits, sent_idx, session, parsed,
                   budget, target, carried, acked, previous>>

-----------------------------------------------------------------------------
(* Start and restart *)

EmptySlot == [user |-> NoUser, idx |-> 0, count |-> 0]

Keys == Users \X Index

\* The memory of a server that has just started.
Unlocked    == [i \in Index |-> NoUser]
NoSessions  == [k \in 1 .. MaxSessions |-> EmptySlot]
AllIdle     == [t \in Threads |-> "idle"]
NothingOpen == [t \in Threads |-> <<>>]

Init ==
    /\ file \in InitialFiles
    /\ undo = NoFile
    /\ checkpoint = NoFile
    /\ temp = [key \in Keys |-> NoFile]
    /\ locked_by = Unlocked
    /\ lock_count = 0
    /\ dangling = {}
    /\ write_sessions = NoSessions
    /\ write_session_count = 0
    /\ queue = <<>>
    /\ queue_mutex = NoUser
    /\ queue_room \in QueueRoom
    /\ pc = AllIdle
    /\ sent_idx = [u \in Users |-> 0]
    /\ session = [u \in Users |-> 1]
    /\ parsed = [u \in Users |-> 0]
    /\ merged = NothingOpen
    /\ unlinked = {}
    /\ budget = [locks |-> MaxLocks, writes |-> MaxWrites,
                  commands |-> MaxCommands, crashes |-> MaxCrashes]
    /\ target = [key \in Keys |-> {}]
    /\ carried = [key \in Keys |-> {}]
    /\ acked = {}
    /\ previous = NoFile
    /\ races = {}

\* The server is killed and started again: what is on disk stays, down to a
\* truncated file and temp files nobody will merge.
Restart ==
    /\ budget.crashes > 0
    /\ budget' = [budget EXCEPT !.crashes = @ - 1]
    /\ locked_by' = Unlocked
    /\ lock_count' = 0
    /\ dangling' = {}
    /\ write_sessions' = NoSessions
    /\ write_session_count' = 0
    /\ queue' = <<>>
    /\ queue_mutex' = NoUser
    /\ queue_room' \in QueueRoom
    /\ pc' = AllIdle
    /\ merged' = NothingOpen
    /\ unlinked' = {}
    /\ Note({"crash"})
    /\ UNCHANGED <<disk, sent_idx, session, parsed, target, carried, acked, previous>>

-----------------------------------------------------------------------------
(* The specification *)

\* What a thread does on its own once a request has arrived.
Step(u) ==
    \/ GetLock(u) \/ TakeLock(u) \/ TakeFreedLock(u) \/ StartSession(u) \/ CopyToTemp(u)
    \/ \E kind \in WriteKinds : WriteTemp(u, kind)
    \/ Enqueue(u) \/ CloseSession(u) \/ AcquireQueue(u)
    \/ SkipCommit(u) \/ MergeHead(u) \/ Truncate(u) \/ Flush(u) \/ ReleaseQueue(u)
    \/ UnlockLookup(u) \/ Release(u)
    \/ RestoreFlush(u)

\* The arrival of a client's request.
Request(u) ==
    \/ \E i \in Index : \/ LockValidate(u, i) \/ WriteLookup(u, i)
                        \/ CommitLookup(u, i) \/ CancelWrite(u, i)
    \/ Undo(u)

NMStep == CheckLocks \/ Delete \/ Create \/ Checkpoint \/ Revert \/ RevertFlush

Next ==
    \/ \E u \in Users : Step(u) \/ Request(u)
    \/ NMStep
    \/ Restart

Spec == Init /\ [][Next]_vars

\* A thread that has something to do is scheduled eventually. Clients need not
\* send anything, and the server need not crash.
FairSpec == Spec /\ \A u \in Users : WF_vars(Step(u))
=============================================================================
