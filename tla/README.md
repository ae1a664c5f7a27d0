# Docs++ in TLA+

Docs++ is a distributed editor of text files, written in C: a *name server*
(`nm.c`) that knows which files exist, who owns them and where they are, any
number of *storage servers* (`ss.c`, `file_ops.c`) that keep the files, and
command-line *clients* (`client.c`). All of them are processes with threads that
block on sockets and mutexes. The specifications here model the parts with
concurrent state or a life longer than one request: the write path of a storage
server; the sessions, the metadata, the metadata cache, the registry of storage
servers and the name space of the name server; and the client's WRITE command.

    tlc -workers 2 -config ss_commit.cfg StorageServerMC     model-check one run
    tlapm StorageServer_proofs.tla                            check one module's proofs

## 1. Inventory

| Component | State | Operations | What is hard about it |
|---|---|---|---|
| Sentence locks and write sessions (`ss.c`) | lock table per file, `write_sessions`, temp files | LOCK_SENTENCE, WRITE, UNLOCK_SENTENCE, CANCEL_WRITE | three structures tied together by names and indices only; pointers into arrays that are compacted or moved; handlers of many steps |
| Commit queue and merge (`ss.c`) | `FileCommitQueue`, its mutex, the document, its backup | `enqueue_commit`, `process_commit_queue` | a session's text merged into a file that has changed; truncate-and-rewrite in place; early returns; a crash in the middle |
| Document text (`file_ops.c`) | `FileContent` | parse, insert a word, write | sentences appear and vanish as delimiters are typed |
| Undo, checkpoints (`file_ops.c`) | `.undo`, `.checkpoint_<tag>` | backup, restore, checkpoint, revert | they take no lock |
| Name-server command thread (`ss.c`) | the same files | CREATE, DELETE, CHECK_LOCKS, CHECKPOINT, REVERT, MOVE, CREATEFOLDER, INFO | check, then act |
| Start, registration, heartbeat (`ss.c`) | two sockets, `running` | connect, scan, register, heart beats | the process ends or falls silent at any moment, and is started again |
| Client sessions (`nm.c`) | `registered_users`, `client_list` | login, logout | a place in an array that is compacted; reuse of descriptors; tables that fill up |
| Metadata of files (`nm.c`, `trie.c`) | file trie, `access_requests` | CREATE, DELETE, ADDACCESS, REMACCESS, REQUEST/APPROVE/DENYREQUEST, READ/WRITE, VIEW, INFO, MOVE | copies of entries written back; several steps with a server in between |
| Metadata cache (`cache.c`) | hash table, LRU list | get, put, remove | linear probing with removal, a table that fills up; coherence with the trie |
| Registry, heartbeat monitor (`nm.c`) | `ss_list`, a thread for each of a server's two connections | registration, heartbeat, time-out, exchanges | threads of an earlier connection; sockets closed by number, by more than one thread; answers that do not come |
| Folders (`nm.c`, `trie.c`) | folder trie | CREATEFOLDER, VIEWFOLDER, MOVE | a folder exists on one server only |
| Name space over time (`nm.c`, `ss.c`) | file trie, `access_requests`, the servers' disks | all that names a file, registration of a server's files, restarts | names are used again; positions in an array that moves; nothing of the name server's is on disk |
| EXEC, LIST, VIEW (`nm.c`) | none | | |
| Client (`client.c`) | the current lock and socket | one function per command | reconnect and retry in WRITE; SIGINT unlocks |
| Messages (`common.c`), logging (`logger.c`) | none | | |

How they interact: a client logs in at the name server and asks it where a file
is; it then talks to that storage server directly. The name server has one
command socket to each storage server, guarded by a mutex, and sends CREATE,
DELETE, MOVE, checkpoint commands and INFO over it. A storage server registers
its files when it connects and sends heartbeats over a second socket. Within a
process, threads share globals.

What makes each component correct, in a sentence:

- *locks and sessions*: a sentence is edited only under its lock, no lock is
  leaked, and a session is closed before its lock is freed;
- *commit queue*: one thread merges at a time, a commit changes the sentence that
  was locked and no other, an acknowledged commit is in the file, and the words
  of acknowledged commits survive a crash in the file or its backup;
- *undo and checkpoints*: a revert restores the checkpoint and can be undone;
- *client sessions*: a user has at most one session, and one who leaves can return;
- *metadata*: an entry's access list is what its owner decided, files and entries
  correspond, and requests go to the server that has the file;
- *cache*: it is a map that agrees with the trie, and its operations end;
- *registry*: a server that has come back can be used, one that has gone is found
  out, and who waits for one gets on;
- *name space*: an entry, and the access it grants, is for its owner's text; an
  owner decides the request she was shown;
- *client*: what it reports as written has been written, once; what was cancelled
  has not; a lock comes back.

## 2. Modules

    SentenceText ──► StorageServer ──► StorageServerProperties ──► StorageServerMC
                                         │   │
                       SentenceLocking ◄─┘   └─► StorageServer_proofs
                                                   └─► StorageServerCommits_proofs
    LRUCache ──► LRUCacheMC, LRUCache_proofs ──► MetadataCache (by refinement)
    ClientSessions ──► ClientSessionsMC, ClientSessions_proofs
    FileMetadata ──► FileMetadataMC, FileMetadata_proofs
    NameSpace ──► NameSpaceMC, NameSpace_proofs
    ServerRegistry ──► ServerRegistryMC, ServerRegistry_proofs
    WriteClient ──► WriteClientMC, WriteClient_proofs

`SentenceText` is the pure part: a text is a sequence of sentences, and a
sentence keeps only what the merge properties tell apart: which original
sentences it continues (`src`), whose words it holds (`by`) and what its last
token is (`end`). `ParseFile`, `InsertWord`, `SkipsCommit` and `MergeCommit`
translate `parse_file`, `insert_word_in_sentence` and the arithmetic of
`process_commit_queue`. What a client types is one of five kinds: a word among the
others, a word with a delimiter among them or at the end, a plain word behind the
delimiter, a newline.

`StorageServer` is the write path for one document. A thread stands for a user,
since a client sends one request at a time on its connection. A step is what a
thread does between two points at which another could see or change what it uses:

| Request | Steps (`pc` before each) |
|---|---|
| LOCK_SENTENCE | `LockValidate` (idle), `GetLock`, `TakeLock`, `StartSession` (start), `CopyToTemp` |
| WRITE | `WriteLookup` (idle), `WriteTemp` |
| UNLOCK_SENTENCE | `CommitLookup` (idle), `Enqueue`, `CloseSession`, `AcquireQueue`, then for each commit `SkipCommit` or `MergeHead`, `Truncate`, `Flush`; `ReleaseQueue`, `UnlockLookup`, `Release` |
| CANCEL_WRITE | `CancelWrite` (idle), `UnlockLookup`, `Release` |
| UNDO | `Undo` (idle), `RestoreFlush` |
| name server | `CheckLocks`, `Delete`; `Create`; `Checkpoint`; `Revert`, `RevertFlush` |

The name server's commands are served by one thread, `NM`. Undefined behaviour is
modelled by its outcomes: a thread with a `WriteSession*` works on whatever the slot
holds (slots behind the last keep what removal left there), and one with a
`SentenceLock*` into a table that `realloc` has moved may be granted or refused.
`unlinked` follows a file deleted while a thread has it open. `Restart` forgets
the memory and keeps the disk.

`SentenceLocking` is the abstract specification of locks and sessions:
acquire, open, close, release, reset. `StorageServerProperties` refines it with
`holder <- locked_by` and `open <-` the user/sentence pairs of the slots in use, up to the
first use of a lock through a pointer into a table that `realloc` has moved: from then on
a user may have been granted a lock that is recorded nowhere.

`LRUCache` is `cache.c` with each probe a step, so that a loop without end is seen;
`MetadataCache` is the map it should be, `Lookup` the refinement mapping: what a
`cache_get` of each key would answer.

`ClientSessions` has a thread for each socket descriptor, which a later connection
may reuse. A name copied while its place is written to, by a compaction or by a newcomer
who gets a place that was left behind, may be garbled (`NoUser`, see `Overwrite`).

`FileMetadata` is one file name at the name server: its entry in the trie and in
the cache, the access requests, and where servers hold such a file. A step is
one operation of the trie or the cache, or one exchange with a server; between
them each handler works on its own copy of the entry, as the code does.

`NameSpace` is the same state over a longer time and more names, with a request as
one step: several files, folders on several servers, one array of access requests
for all files, the registration of a server's files, restarts of servers and of the
name server. A text is known by whose it is, so that the model can tell whether an
entry names its owner's text. A user remembers what VIEWREQUESTS showed (`shown`)
and may approve any position at any time.

`ServerRegistry` is how a storage server joins, is found dead and comes back. A *run*
is one process; each run has two connections to the name server, with a thread for
each (`handle_ss_connection` and `handle_ss_heartbeat`), and there are the monitor and
handlers that send a server a command. What is hard about it is that sockets are
closed by number, by whichever thread gets there, and that `accept` gives out the
lowest number that is free: `fds` maps numbers to connections, `Closed` closes
whatever connection a number stands for by then, and clients' connections take numbers
as well. A thread in `recv` keeps its connection until it next calls `recv`.
One `Tick` is five seconds, the period of heart beats and of the monitor.

`WriteClient` is `handle_write` of the client: LOCK, lines, the retry loop with its
reconnections, UNLOCK, and Ctrl-C, which the program looks at between two lines only.
A connection is a queue of requests and one of replies; the server has a thread for each
connection, which goes on when the client has left, so that a request of an old
connection may be served after one of a new one. The storage server is the sequential
view of `StorageServer` for one sentence: `Lock`, `Write`, `Unlock`, `CancelWrite`.

The modules overlap where one state is seen at two grains, and each is faithful at its
own: an entry of the trie is written in several steps in `FileMetadata` and in one in
`NameSpace`; a storage server's answer is certain in these two and is what
`ServerRegistry` is about; a WRITE has steps in `StorageServer` and none in
`WriteClient`.

### Races

The code keeps many of its promises only while certain interferences have not
happened. Instead of leaving those out of the models, a history variable `races`
records each kind when it happens, no guard reads it, and a property that needs
some kinds absent is named `Undisturbed...` and lists them. So every property says
exactly what it depends on. In `StorageServer`:

| Kind | Happens when | Needed absent by |
|---|---|---|
| append | a lock is asked for the index behind the last sentence | arrival |
| after | a word or a newline is put behind the delimiter of a sentence | arrival |
| growth | a commit changes the sentence count under an open session | exclusion |
| shift | a commit meets a file of another sentence count | exclusion, merge, acknowledgement |
| torn | a file is read between truncation and flush | exclusion, merge, arrival, acknowledgement, revert |
| pointer | a slot moves under a thread's pointer | exclusion, merge, arrival, acknowledgement, `UndisturbedTempIsolation`, `EntriesAreOwn` |
| restore | UNDO, REVERT, DELETE or CREATE meets an edit | exclusion, merge, arrival, acknowledgement, revert |
| realloc | a lock is used through a pointer into a freed table | exclusion, merge, arrival, acknowledgement, `NoLeakedLock`, `EntriesAreOwn`, `UndisturbedLockGuardsSession`, `UndisturbedOneSessionPerSentence` (two users' sessions), `UndisturbedImplementsLocking` |
| failed | a commit that could not be written stays in the queue | exclusion, merge, arrival, acknowledgement, `EntriesAreOwn` |
| crash | the server is restarted | arrival, acknowledgement, revert |

(*Exclusion*, *merge*, *arrival*, *acknowledgement* and *revert* stand for
`UndisturbedSentenceExclusion`, `UndisturbedMergeKeepsOthers`,
`UndisturbedCommittedWordsArrive`, `AcknowledgedIsOnDisk` and `RevertIsUndoable`.) The
first, second and fourth of these need the same thing, that the text of each open
session is in step with the document it will be merged into: `InStep` names the six kinds
that end it. Some of these exclusions were found by the proofs and confirmed by TLC with
larger bounds than a run can have: each is a chain of one race that leaves a session out
of step and of a later, otherwise harmless commit of that session. `carried` is a history
variable too: whose words a session's text held when it was opened.

In `ServerRegistry`:

| Kind | Happens when | Needed absent by |
|---|---|---|
| late | a thread of an earlier run marks the server inactive, or its registration or HB_INIT is handled in another order than sent | reachable, noticed, exchanges |
| foreign | a `close` hits a connection other than the one meant | reachable, exchanges |
| delay | a serving run is not heard for the whole grace period | reachable, exchanges |
| switched | a handler waits on another connection than the one it sent to | exchanges |
| misled | a handler waits on the connection of another server, which has got the number | entries |
| garbage | a handler takes a status that no server has sent | entries |

In `WriteClient`, for each client: *cut* (a connection was lost), *late* (a request of an
old connection was served after one of a newer), *gaveup* (the retries were used up),
*vanished* (the client was killed). In `NameSpace`: *overtaken* (access was raised by
another way over a pending READ request), *redirected* (a server registered a file
whose entry was for another server or place).

In `FileMetadata`: *lost* (the entry changed under a copy on its way to the trie),
*cached* (the same on the way to the cache), *twice* (two creations overlap),
*recreated* (a file is created while a deleted one is still cached), *full* (the
ACL has no room). `UndisturbedRouting` needs the first four absent: that *lost* is among
them shows only with six requests, when a READ's outdated copy brings the entry of a
deleted file back. In `LRUCache`, `broken` says that a removal has cut a node off
its probe chain; in `ClientSessions`, `moved` which users' places have changed.

## 3. Runs

| Run | Checks | Bounds and why they are enough |
|---|---|---|
| `ss_commit` | `UndisturbedLockGuardsSession`, `UndisturbedOneSessionPerSentence`, `ClosedBeforeRelease`, `UndisturbedSentenceExclusion`, `EntriesAreOwn`, `UndisturbedMergeKeepsOthers`, `UndisturbedCommittedWordsArrive`, `UndisturbedTempIsolation` | two users, a document of two sentences, indices 0 to 2, so that both users' sessions, appended sentences and shifts in either direction occur; two locks and two writes; a lock table that may move when it grows |
| `ss_admin` | `AcknowledgedIsOnDisk`, `RevertIsUndoable` | two locks, one write, two commands of the name server or UNDOs: each meets each phase of a commit; a lock table that may move |
| `ss_faults` | `TypeOK`, `NoLeakedLock`, `QueueOwnership`, `UndisturbedImplementsLocking`, `RequestsAnswered` | one session slot for two users, a queue table that may be full, a disk that may fail, one restart, a document whose last sentence is open, a lock table that may move; no symmetry, for the liveness property |
| `lru_cache` | `ListMatchesTable`, `ImplementsMap`, `UnbrokenOperationsEnd` | three slots, three keys, two of which collide and one of which is in their way; two threads; one value, as nothing compares values, and the proof is for any number |
| `sessions` | `TypeOK`, `SessionIsRegistered`, `SingleSession`, `ClientListExact`, `UnmovedNotLockedOut` | four users, three sockets, two places, three registered users: both tables fill up, sockets are reused. Logins and logouts are unbounded |
| `metadata` | `TypeOK`, `UndisturbedGrantsPersist`, `UndisturbedEntryHasFile`, `UndisturbedRouting` | three users, two servers, an ACL of one entry, five requests (denials are free): enough for create, grant, another's request, removal or deletion, and creation elsewhere, all overlapping |
| `registry` | `TypeOK`, `UndisturbedServerReachable`, `UndisturbedGoneIsNoticed` | one server that runs twice, which is where its threads meet; five numbers for its four connections and a client's, so that a number closed too late can be the client's; a grace period of one round and a time-out of none, which keeps their order; time is unbounded |
| `exchanges` | `UndisturbedEntryHasFile`, `UndisturbedExchangesEnd` | the same server with a handler instead of the client. Two servers, which *misled* needs, are covered by the theorem |
| `write_client` | `UndisturbedReportsArrive`, `UndisturbedWordsOnce`, `UndisturbedCancelledStayOut`, `UndisturbedLockComesBack`, `ClientsGoOn` | two users: two edits of one line against one edit of two lines; two retries (5 in the code), so that retries are both used and used up; two faults |
| `name_space` | `UndisturbedShownStaysTrue`, `UndisturbedEntryNamesOwnersText`, `UndisturbedApprovalRaises` | two users, files and servers, one folder, three pending requests, nine commands: a name can be created, moved, deleted, created by another and found on a second server with requests pending across |
| `bug_shift` | `MergeKeepsOthers` is violated | |
| `bug_lost` | `ConfirmedWritesArrive` is violated | one user, one edit of two lines, one fault |

Requests, writes, commands and restarts are counted down by `budget`
(`MaxLocks`, `MaxWrites`, `MaxCommands`, `MaxCrashes`; `MaxRequests` in
`FileMetadata`); UNLOCK and CANCEL cost nothing, so a thread can always go on.
`NameSpace` and `WriteClient` count down `commands`, edits, lines and `faults`; in
`ServerRegistry` the runs are counted and silences are counted up to a bound above
every time-out. `metadata`, `name_space`, `registry`, `exchanges`, `write_client` and
`bug_lost` turn the deadlock check off: there all may stop, once the budget is spent,
the last run has ended, or every user has finished. Users, servers, files and sockets are
symmetric; the runs with liveness use no symmetry.

What the passing runs show, besides that locks and sessions are kept together until a
lock is used in a freed table, and the queue always: an acknowledged word is in the document or its backup at every moment
between two steps, as long as sentence counts do not change under it; a commit
whose file has the sentence count its session started with changes nothing but
its own sentence; refused and failed requests give back all they took; a thread
that queues for the mutex gets it; the access list follows the owner's decisions
whenever no stale copy is written back. A storage server that comes back is used
again unless a thread of its earlier run is late, and one that has gone is noticed
although nobody may be told; a handler is never left waiting by an ordinary end of its
server. A WRITE that is retried is done once; a cancelled edit leaves no word behind; a
lock comes back from every end of an edit except a lost connection, used-up retries and
a killed client. The position at which an owner was shown a request stays that request's,
and her approval is for it, until a decision moves the array (*outdated*): after one, the
same position may be another's. An entry names its owner's text, also when the name is
used again, unless a server has registered another file under it (*redirected*). When
nothing is being served, files and entries correspond, unless an outdated copy of an
entry was written back (*lost*) or two creations overlapped (*twice*).

The violated properties are statements of the project's documentation or comments:

- `bug_shift`: `adjusted_idx` adds the change of the count wherever sentences were
  added (`ss.c:181`), so a commit may replace a sentence its user never locked.
  (For the same reason two users may hold the locks of one sentence after a
  commit has moved it: `UndisturbedSentenceExclusion` needs *growth* absent.)
- `bug_lost`: after a reconnection the client repeats only the WRITE that was not
  answered (`client.c:746`), while the new LOCK has made the server copy the file over
  the session's temp file; the client then reports all its writes as completed.

Other places where the code does less than one might expect; the races and conditions
named in the properties stand for them:

- `init_file_locks` grows the lock table with `realloc` while other threads keep pointers
  into it (`ss.c:735`): a lock may be granted in freed memory, where nobody sees it
  (*realloc*);
- two users who create a file of one name at the same time may each get a server for it,
  and only one of the files gets the entry (`nm.c:951`, *twice*);
- a sentence appended behind the last one is locked and written, but the merge's bounds
  check (`ss.c:192`) drops its commit, and UNLOCK says SUCCESS (*append*);
- with more keys than slots `cache_put` looks for an empty slot for ever
  (`cache.c:115`) under the cache's lock, and eviction is never reached (`lru_cache` has
  as many keys as slots); removals cut probe chains (`broken`);
- a leaving client's thread reads its name at a stale index (`nm.c:1693`); its user
  stays registered as active and cannot log in again (`moved`); what it reads may also be
  written to at that moment, by a removal or a newcomer;
- READ and WRITE write the whole entry back (`nm.c:1675`), undoing a REMACCESS that was
  acknowledged in between (*lost*);
- a registration closes the numbers that its server's place has kept (`nm.c:1413`),
  although their own thread closed them before, and may so close a client's or another
  server's connection (*foreign*); a handler sends to such a number (*misled*);
- a late thread of a lost heartbeat connection marks the new registration inactive by
  id (`nm.c:1367`, *late*);
- the grace period "for initial connection" (`nm.c:1795`) applies at any time: a server
  that lost power is used for a minute; and CREATE and DELETE do not ask whether the
  server is active at all;
- when a server ends during an exchange, the handler takes the status from memory
  it has not initialised (`nm.c:994`, *garbage*);
- a server that registers takes over the entry of every file at its root, also of one
  that was moved to a folder or is another server's (`nm.c:1460`, *redirected*);
- approving an older READ request takes WRITE access back (`nm.c:436`, *overtaken*).

## 4. Fairness

`StorageServer!FairSpec` has weak fairness of each user's `Step`: an operating
system that schedules every thread that can run. Clients need not send anything and
the server need not crash. A `pthread_mutex` promises no more than weak fairness
gives when requests are finitely many, as the bounds make them: nobody overtakes
a waiting thread for ever. `LRUCache!FairSpec` has weak fairness of each thread's
`Work` for the same reason; its liveness properties are about the thread that has
the lock, and so do not depend on which waiter gets it.

`ServerRegistry!FairSpec` has weak fairness of each of the name server's threads for a
server, of its handlers and its monitor, of a server's answers *while it serves*, and of
time. Nothing makes an operator start or stop a server, and a server that has
been cut off need not answer. `UndisturbedGoneIsNoticed` then rests on time and the
monitor alone where a server has lost power.

`WriteClient!FairSpec` has weak fairness of what a client does without its user, except
for failures (`UNCHANGED faults`), and of the server's threads: a connection that is not
lost carries its requests and answers. Users need not type, and nothing need fail.

Clients that vanish: nothing in the code releases their locks (the handler retries
`recv_message` for ever, `ss.c:1142`), so no property claims it; `UndisturbedLockComesBack`
names the ends for which it is so.

## 5. Proofs

All theorems hold for every value of the constants, under the named assumptions of the
modules: names differ, a file that is not there is no text, sizes are numbers, a time-out is shorter than the grace period,
`accept` gives out numbers, and (`FilesAssumption`) the document with which a storage
server starts is what `parse_file` makes of some file, each of its sentences with a name
of its own. TLC evaluates the assumptions on every run.

*Storage server: locks, sessions, queue* (`StorageServer_proofs`)

| Theorem | States | Argument |
|---|---|---|
| `ControlTypes` | `ControlTypeOK` | step by step |
| `UndisturbedLocks` | the lock invariant, *realloc* absent | `LockInv`: control types and the three lock properties together |
| `LocksGuardSessions` | `UndisturbedLockGuardsSession` | `LockInv` |
| `OneSession` | `UndisturbedOneSessionPerSentence` | `LockInv` for the sessions of two users; `SessionInv`, which knows nothing of locks, for those of one |
| `SessionsCloseFirst` | `ClosedBeforeRelease`, in every behaviour | `SessionInv`: a session is opened only by a user who has none for the sentence, so that closing it leaves none |
| `LockingRefinement` | `UndisturbedImplementsLocking` | each step maps to a step of `SentenceLocking` or a stutter, from `LockInv`, which holds before each step that is not preceded by *realloc* |
| `ExclusiveEditing` | two users never edit one sentence index: in `SentenceLocking`, and on a storage server with *realloc* absent | an open session's lock is its user's; the second part by `LockingRefinement` |
| `QueueIsOwned` | `QueueOwnership` | inductive as it stands |
| `NoLockLeaks` | `NoLeakedLock` | `LeakInv`: a lock that is held is in the table; a request under way has a session in the phases between opening and closing it, so that the step that closes a session is one whose request still has the lock to give back |

*Storage server: texts* (`StorageServer_proofs`, `StorageServerCommits_proofs`)

| Theorem | States | Argument |
|---|---|---|
| `Types` | `TypeOK` of the whole state | parsing yields parsed text whatever the pieces; a merge's pieces lie inside its texts also when its counts are stale |
| `TempsAreIsolated` | `UndisturbedTempIsolation` | `PointerInv`: the slot a thread has looked up is still its session's |
| `EntriesStayOwn` | `EntriesAreOwn` | `EntryInv`: the user of a queued commit is still in the UNLOCK that queued it, so no user has two, and nobody else's lock is for its sentence |
| `MergesKeepOthers` | `UndisturbedMergeKeepsOthers` | `AlignInv`, see below |
| `SessionsStayApart` | `UndisturbedSentenceExclusion` | `ExclusionInv`: `AlignInv`, that no two sentences of a text continue one original (`TextsApart`), and two sessions with different indices |
| `AcknowledgedStays` | `AcknowledgedIsOnDisk` | `SafeInv`: acknowledged words are in the document, or in what is about to be flushed to it and in its backup |
| `RevertsAreUndoable` | `RevertIsUndoable` | `RevertInv`: while a revert is under way nobody has touched the document or the backup |
| `CommittedWordsArrive` | `UndisturbedCommittedWordsArrive` | `ArriveInv`, see below |

*Name server*

| Theorem | States | Argument |
|---|---|---|
| `SessionsAreRegistered`, `OneSessionPerUser` | the register knows each session; at most one per user | an inductive invariant on the phases of connections and the register; two sessions of one user would be registered on one socket |
| `SessionTypes` | `TypeOK` of `ClientSessions` | action by action |
| `ListIsExact` | `ClientListExact` | `ListInv`: every place is a listed connection's, places differ, and every listed connection has one; compaction moves places and keeps all three |
| `UnmovedCanReturn` | `UnmovedNotLockedOut` | `LeaveInv`: a place that has not moved is still where its thread believes it is, and the name read there is the user's own |
| `GrantsPersist` | `UndisturbedGrantsPersist` | `GrantInv`: shapes, and that a copy on its way to the trie carries the list that is current, changed as its request says, unless a race is recorded |
| `FileMetadata_proofs!Types` | `TypeOK` of `FileMetadata` | a copy that will be written fits the ACL's array; who holds a mutex is in the phases that give it back |
| `FileMetadata_proofs!EntriesHaveFiles` | `UndisturbedEntryHasFile` of `FileMetadata` | `Files`: copies on their way agree with the entry on server and place, a file is where its entry says unless its move or deletion is under way, and a server has no other but one whose creation is |
| `RequestsReachTheServer` | `UndisturbedRouting` | `Routing`, above `Files`: what is cached, or is on its way to the cache, names the entry's server, or its removal is under way |
| `TablesTyped` | types of the whole state of `NameSpace` | action by action |
| `EntriesNameOwnersText` | `UndisturbedEntryNamesOwnersText` | with the types, inductive as it stands: every action that changes an entry or a disk is shown to keep the two together or to record *redirected* |
| `ShownRequestsStay` | `UndisturbedShownStaysTrue` | with the types: new requests go to the end, and a removal at or before a shown position makes the list outdated |
| `ApprovalsRaise` | `UndisturbedApprovalRaises` | an invariant about pending requests: a user who has WRITE access has no pending READ request for the file unless *overtaken*, for such a request is refused when made, and one made before is recorded when the access is raised |
| `ServerRegistry_proofs!Types` | `TypeOK` of `ServerRegistry` | action by action |
| `ServerRegistry_proofs!EntriesHaveFiles` | `UndisturbedEntryHasFile` of `ServerRegistry` | `EntryInv`: an answer that is under way tells of a file on its server's disk, and who waits on a connection waits on that of the server chosen |
| `ServersStayReachable` | `UndisturbedServerReachable` | `ReachInv`, see below |

*Name server: cache* (`LRUCache_proofs`)

| Theorem | States | Argument |
|---|---|---|
| `SpecListMatchesTable` | `ListMatchesTable` | with the types, inductive as it stands: what taking an element out of a sequence, and putting one at its head, does to its elements (`OthersRemain`, `OneMore`); a node is placed only in a free slot, so that there is room and no eviction (`RoomIsLeft`) |
| `SpecImplementsMap` | `ImplementsMap` | `CacheInv`, see below: each step maps to a step of `MetadataCache`, a stutter, or a removal that cuts a node off |

*Client* (`WriteClient_proofs`)

| Theorem | States | Argument |
|---|---|---|
| `WriteClient_proofs!Types` | `TypeOK` of `WriteClient` | with `WriteInv`: only a client that waits for the answer to a WRITE tries it again |
| `WordsOnce` | `UndisturbedWordsOnce` | `WriteInv`, see below |
| `CancelledStayOut` | `UndisturbedCancelledStayOut` | `WriteInv`: what is in the file is of an edit that its client has ended and not cancelled |
| `ReportsArrive` | `UndisturbedReportsArrive` | `ReportInv`, above `WriteInv`: what a client was told is written is in its session's copy until the UNLOCK, then in the file |
| `LockComesBack` | `UndisturbedLockComesBack` | `LockInv`, above `WriteInv`: a client outside an edit has no LOCK under way, and no lock, without a request after it that frees the lock |

The three lock properties need each other: a session is guarded by its lock because
it is closed before the lock is freed, and no other is opened on its sentence because
the lock is its user's. None of the theorems assumes anything of `realloc`: the table may
move whenever it grows (`ReallocMoves`), and a thread may then be granted a lock in freed
memory. *realloc* says when that has happened, and what needs the locks is stated up to
then: one step that uses a freed lock and opens a session is enough to break it. What is
only about one user's sessions, that they are one for a sentence and closed before the
merge, needs no lock and holds without end.

*How a merge is shown to keep the other sentences.* A session's text is the document it
was opened on, with one sentence replaced by a *stretch* of one or more: as many more as
the text has grown. That is what the merge relies on when it takes that many sentences of
the session, and it is true of any number of inserted words and delimiters, because
inserting, writing and parsing again keep every sentence in its place outside the stretch
(`InsertPlaces`). `Fits` says so of one session, `FitInv` of every open session and every
queued commit against the document as it will be after the flush under way (`Doc`). When
an earlier commit changes the document, either it made it longer, and a later commit from
before records *shift* when it is merged, or it kept its length, and then it changed its
own sentence only, which is not the other's as their indices differ (`EntriesStayOwn` and
the locks). `RestoreInv` shows that UNDO, REVERT, DELETE and CREATE meet no session unless
*restore* is recorded. `MergesKeepOthers` and `AcknowledgedStays` then follow from what
a merge does to sentences and words (`Grown`); and two sessions are apart because each
one's locked sentence is still at its own index, as long as nothing has grown (`Counted`).

*How a commit's words are shown to arrive*, also when sentences have moved, so that the
session is no longer in step with the document. Two things could lose them: the commit is
dropped, or the words are outside the stretch of the text that is merged. A commit is dropped
when its sentence is not in the document, and `CountedIn` says that it is: it was among the
sentences that were counted when the session was opened, and there have not become fewer,
because a merge never takes more sentences from the document than it puts there
(`ReadyMerges`). If none was counted, the document was empty and the sentence is the first;
then nobody else has a session, for the first sentence is locked and there is no other.
`Inside` says that the user's words are in the stretch: they are put into the sentence that
was locked, whose pieces are the stretch, and never behind its delimiter (*after*) or beyond
the last sentence (*append*). `ReadyInv` carries both from the opening of a session to the
flush of its commit.

*How a server is shown to stay reachable.* A serving run could be lost in two ways: its
socket's number is closed by a thread that meant another connection, or the monitor finds
it silent. Every `close` is shown to hit a connection that is meant, none, or one that
*foreign* records; and a run's `idle` count is at most the time `quiet` since it was last
heard, which *delay* records when it reaches the grace period. What is left is a thread of
an earlier run that marks the server inactive, which is *late*.

*How the cache is shown to be a map.* Between a key's hash and the slot its node is in
there is no empty slot, and no key has two nodes (`ChainsWhole`); a probing has seen only
other keys between the hash and the slot it looks at, and one that looks for a free slot
found its key nowhere (`ProbedSlots`). `ProbeOrder` is the arithmetic of slots that both
rest on: the slots in the order in which a key is probed for, round the table's end. So a
probing that meets an empty slot, or comes full circle, has not missed its key
(`NotFound`), and a new node extends its own chain without cutting another. Removal is the
one step that does not keep this: `RemoveHit` empties the slot and moves nothing, and
*broken* records when another node was behind it.

*How a word is shown to be written once.* A client sends nothing before the last answer
has come, so that there is little under way on any of its connections: nothing, one
request, or a LOCK and the CANCEL of an interrupted edit (`UnderWay`). Only its newest
connection can bring it an answer (`ConnsOK`, `WaitOK`). A connection whose LOCK was
handled has overtaken all older ones, whose requests are then *late* (`Begun`, `stale`).
So a WRITE that is not late finds the session that its own connection's LOCK has opened,
which `CopyToTemp` copied anew from the file. `WordsOK` says what this means for the words: a
word that is still to be written is of a later line than what is in the session's copy
and of another edit than what is in the file (`PendingOK`); an UNLOCK that is on its way brings
words of ended edits only; what is in the file is of such an edit (`FiledOK`); and the
answer TRUE on the newest connection means that the lock is the client's and the word is
in its copy (`GrantOK`). From the same
invariant: a cancelled edit is over and never ended (`CancelOK`, `Ended`), so none of its words
is in the file.

`Init => Inv` and `Inv /\ [Next]_vars => Inv'` are proved for each invariant above, with
one lemma or step for each action; TLC checked them on the runs' instances first. What a
recursive function computes is proved by induction: the library's induction rules cannot
be used here, but a least counterexample can be had from `NatLessThanWellFounded` and
`WFMin` (`SetInduction`), which is enough for `ParseFile`.

Every safety property of the passing runs is proved. Only model-checked: the five liveness
properties (`RequestsAnswered`, `UnbrokenOperationsEnd`, `UndisturbedGoneIsNoticed`,
`UndisturbedExchangesEnd`, `ClientsGoOn`), which are outside the prover's reach, and that
the two violated properties are violated.

## 6. Abstractions, and what is not modelled

- *Composition*: the components are checked one by one. What one takes from another is a
  definition of its own there, mapped to the other's code (the server's side of
  `WriteClient`, `Renames` and `Scanned` in `NameSpace`, `ServeCommand` in
  `ServerRegistry`).
- *Storage server*: one document; reading a whole file and writing a backup or a
  checkpoint are one step each; `write_file_content` can fail (`DiskFails`), other
  opens succeed; `lock_time` is stored, and nothing depends on it. When a merge
  finds fewer sentences in the session than its recorded count, the model copies
  nothing, where the code may also write outside its array. READ and STREAM are
  left out: what they can see is *torn*.
- *Text*: positions of words, escapes and tokenisation are reduced to five kinds of
  content.
- *Cache*: an eviction's scan for its slot is part of `Place`; it is never reached.
- *Sessions*: requests of a logged-in client are in `FileMetadata`.
- *Metadata*: one name in `FileMetadata`; times and sizes are left out. Servers are active
  and always answer. An approved request leaves the array when the handler takes
  `request_mutex` rather than when it gives it back: nobody looks in between. MOVE's
  two reads of the entry are one. The cache is an atomic map, with room: what
  becomes of that in `cache.c` is `LRUCache`'s subject.
- *Name space*: a request is one step, the cache and the size of an ACL are left out, a
  folder has no folders in it. The server keeps `.undo` beside a file; checkpoints
  and temp files, which the scan registers as files of their own, are left out.
- *Registry*: starting and a client's connection happen only while numbers are left to
  give out (`Fds` bounds them), where `accept` would fail; starting (both connections and MSG_REG_SS) is one step, as are HB_INIT's
  sending and handling; the round robin is any known server; inserting the entry
  belongs to the end of the exchange. A registry that is full turns a server away in
  `Register`; with one server that does not happen in the runs. A watcher thread of an
  earlier run that finds its server active again lives on, as in the code. A server that
  lost power leaves its connections open; a file it has acknowledged is on its disk.
- *Client*: one sentence, the name server's part of a reconnection is a choice between
  success and failure, a request is handled in one step. The other commands are one
  request and its answer.
- *Not modelled*: READ, STREAM, EXEC, LIST, VIEWFOLDER, which change nothing; the
  serialisation of messages; logging. `PROJECT.json` lists the hazards there that no
  property covers.

## 7. Plan

Done: storage server write path, cache, sessions, metadata of one file, registry and
heartbeats, the name space over restarts with several files and folders, the
client's WRITE.

Next, in this order:

1. Several documents in `StorageServer`: `file_locks[MAX_FILES]` and the array of
   commit queues as tables that fill up (`ss.c:748`).
2. `WriteClient` over the steps of `StorageServer`: what a client that reconnects
   meets when its old thread is in the middle of a commit.
3. Words and their positions in `SentenceText`.
