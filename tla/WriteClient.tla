---------------------------- MODULE WriteClient ----------------------------
(***************************************************************************)
(* The WRITE command of the client (handle_write in client.c) with all that *)
(* it does when the connection to the storage server breaks or the user     *)
(* presses Ctrl-C, against the storage server's answers to its requests.    *)
(*                                                                          *)
(* Several users edit one sentence, each with a client. A connection is a   *)
(* pair of queues; the server has a thread for each, which outlives the     *)
(* client's end: what was sent before the client closed may be handled      *)
(* later. Each request is handled in one step here (StorageServer has the   *)
(* steps). A word is named by who typed it, in which edit and in which line.*)
(***************************************************************************)
EXTENDS Naturals, Sequences, FiniteSets, SequencesExt

CONSTANTS
    Clients,
    Nobody,         \* the holder of a free lock
    NoTemp,         \* the temp file of a user without a write session
    NoWord,         \* the word of a request other than WRITE
    MaxRetries,     \* 5: reconnections for one line
    MaxEdits,       \* bound: WRITE commands of each user
    MaxLines,       \* bound: lines of each edit
    MaxFaults       \* bound: lost connections, interrupts, restarts and vanished clients

\* A word: who typed it, in which edit and in which line of it.
Words == Clients \X (Nat \ {0}) \X (Nat \ {0})

ASSUME NamesAssumption == Nobody \notin Clients /\ NoTemp \notin Seq(Words)
ASSUME BoundsAssumption ==
    /\ MaxRetries \in Nat \ {0}
    /\ MaxEdits \in [Clients -> Nat] /\ MaxLines \in [Clients -> Nat] /\ MaxFaults \in Nat

VARIABLES
    \* The clients
    pc,         \* what each client does, or what answer it waits for
    edit, line, \* the edit it is in, and the lines typed in it
    retries,    \* retry_count of the line
    writes,     \* the words of the edit that were written (write_count)
    status,
    sigint,     \* sigint_received
    conns,      \* its connections in the order they were opened, until both ends are done
    \* The storage server
    lock,       \* the user who has the sentence
    temp,       \* each user's temp file
    file,       \* the sentence in the file
    \* History, read by no guard
    reported,   \* the words of the edits that were reported as successful
    cancelled,  \* the edits that the user has interrupted
    races,      \* what has happened to each client
    faults      \* what is left of MaxFaults

client == <<pc, edit, line, retries, writes, status, sigint>>
server == <<lock, temp, file>>
vars   == <<client, conns, server, reported, cancelled, races, faults>>

Requests == [type : {"lock", "write", "unlock", "cancel"}, word : Words \cup {NoWord}]
Connections == [link : {"up", "cut", "closed"}, requests : Seq(Requests),
                replies : Seq(BOOLEAN), stale : BOOLEAN]

Word(c, n) == <<c, edit[c], n>>
Request(type) == [type |-> type, word |-> NoWord]
WriteOf(c, n) == [type |-> "write", word |-> Word(c, n)]

Goto(c, label) == pc' = [pc EXCEPT ![c] = label]
Note(c, kinds) == races' = [races EXCEPT ![c] = @ \cup kinds]

-----------------------------------------------------------------------------
(* Connections *)

\* current_ss_sock > 0; the client's connection is then the one it opened last.
Connected(c) == conns[c] # <<>> /\ Last(conns[c]).link # "closed"
LinkUp(c)    == Connected(c) /\ Last(conns[c]).link = "up"
Answer(c)    == Head(Last(conns[c]).replies)
HasAnswer(c) == Connected(c) /\ Last(conns[c]).replies # <<>>

\* The client's connections with the last one changed.
WithLast(c, conn) == [conns EXCEPT ![c] = Append(Front(@), conn)]

\* connect_to_ss and a first request.
Opened(c, request) ==
    [conns EXCEPT ![c] =
        Append(@, [link |-> "up", requests |-> <<request>>, replies |-> <<>>, stale |-> FALSE])]

Sent(c, request)  == WithLast(c, [Last(conns[c]) EXCEPT !.requests = Append(@, request)])
Received(c)       == WithLast(c, [Last(conns[c]) EXCEPT !.replies = Tail(@)])

\* A connection is forgotten when the client has closed it and its requests are handled.
Over(conn) == conn.link = "closed" /\ conn.requests = <<>>
Forget(sequence, i) == IF Over(sequence[i]) THEN RemoveAt(sequence, i) ELSE sequence

\* close(ss_sock); the answers that are under way are lost.
Closed(conn) == [conn EXCEPT !.link = "closed", !.replies = <<>>]
Hung(c) ==
    IF Connected(c)
    THEN [conns EXCEPT ![c] = Forget(Append(Front(@), Closed(Last(@))), Len(@))]
    ELSE conns

\* recv_message fails: the connection is lost, or Ctrl-C interrupts it.
\* The connection stays as it is in the second case.
RecvFails(c) ==
    \/ /\ Connected(c) /\ ~LinkUp(c)
       /\ UNCHANGED <<sigint, faults>>
    \/ /\ LinkUp(c)
       /\ faults > 0
       /\ faults' = faults - 1
       /\ sigint' = [sigint EXCEPT ![c] = TRUE]

-----------------------------------------------------------------------------
(* The client *)

\* The name server says where the file is; the client connects and asks for the lock.
BeginEdit(c) ==
    /\ pc[c] = "idle"
    /\ edit[c] < MaxEdits[c]
    /\ edit' = [edit EXCEPT ![c] = @ + 1]
    /\ line' = [line EXCEPT ![c] = 0]
    /\ retries' = [retries EXCEPT ![c] = 0]
    /\ writes' = [writes EXCEPT ![c] = {}]
    /\ status' = [status EXCEPT ![c] = TRUE]
    /\ sigint' = [sigint EXCEPT ![c] = FALSE]
    /\ conns' = Opened(c, Request("lock"))
    /\ Goto(c, "locking")
    /\ UNCHANGED <<server, reported, cancelled, races, faults>>

\* The answer to the first LOCK_SENTENCE.
LockAnswered(c) ==
    /\ pc[c] = "locking"
    /\ HasAnswer(c)
    /\ IF Answer(c)
       THEN Goto(c, "prompt") /\ conns' = Received(c)
       ELSE Goto(c, "idle") /\ conns' = Hung(c)
    /\ UNCHANGED <<edit, line, retries, writes, status, sigint, server, reported, cancelled,
                   races, faults>>

\* The result of recv_message is not looked at: response still holds the name server's
\* answer, whose status is SUCCESS.
LockUnanswered(c) ==
    /\ pc[c] = "locking"
    /\ RecvFails(c)
    /\ Goto(c, "prompt")
    /\ UNCHANGED <<edit, line, retries, writes, status, conns, server, reported, cancelled, races>>

\* A line for the sentence; the first WRITE of its retry loop is sent.
TypeLine(c) ==
    /\ pc[c] = "prompt"
    /\ ~sigint[c]
    /\ line[c] < MaxLines[c]
    /\ line' = [line EXCEPT ![c] = @ + 1]
    /\ IF LinkUp(c)
       THEN /\ conns' = Sent(c, WriteOf(c, line[c] + 1))
            /\ retries' = [retries EXCEPT ![c] = 0]
            /\ Goto(c, "writing")
       ELSE /\ conns' = Hung(c)
            /\ retries' = [retries EXCEPT ![c] = 1]
            /\ Goto(c, "reconnect")
    /\ UNCHANGED <<edit, writes, status, sigint, server, reported, cancelled, races, faults>>

\* Both send and receive succeeded. After a refusal the loop over the lines ends only
\* if this line was not retried.
WriteAnswered(c) ==
    /\ pc[c] = "writing"
    /\ HasAnswer(c)
    /\ conns' = Received(c)
    /\ IF Answer(c)
       THEN writes' = [writes EXCEPT ![c] = @ \cup {Word(c, line[c])}] /\ UNCHANGED status
       ELSE status' = [status EXCEPT ![c] = FALSE] /\ UNCHANGED writes
    /\ Goto(c, IF ~Answer(c) /\ retries[c] = 0 THEN "closing" ELSE "prompt")
    /\ UNCHANGED <<edit, line, retries, sigint, server, reported, cancelled, races, faults>>

\* The answer to a WRITE does not come: close the connection and try another.
WriteUnanswered(c) ==
    /\ pc[c] = "writing"
    /\ RecvFails(c)
    /\ conns' = Hung(c)
    /\ retries' = [retries EXCEPT ![c] = @ + 1]
    /\ Goto(c, "reconnect")
    /\ UNCHANGED <<edit, line, writes, status, server, reported, cancelled, races>>

\* MUTANT: a failed attempt is not counted.
AttemptUncounted(c) ==
    /\ Goto(c, "reconnect")
    /\ UNCHANGED <<retries, status>>

\* After an attempt that failed the WRITE is sent to a closed socket, which fails and
\* counts as the next lost connection.
AttemptFailed(c) ==
    IF retries[c] < MaxRetries
    THEN /\ retries' = [retries EXCEPT ![c] = @ + 1]
         /\ Goto(c, "reconnect")
         /\ UNCHANGED status
    ELSE /\ status' = [status EXCEPT ![c] = FALSE]
         /\ Goto(c, "closing")
         /\ UNCHANGED retries

\* The name server is asked again and the storage server connected again.
Reconnect(c) ==
    /\ pc[c] = "reconnect"
    /\ conns' = Opened(c, Request("lock"))
    /\ Goto(c, "relocking")
    /\ UNCHANGED <<edit, line, retries, writes, status, sigint, server, reported, cancelled,
                   races, faults>>

\* The name server cannot be reached or refuses, or the storage server cannot be reached.
NoReconnection(c) ==
    /\ pc[c] = "reconnect"
    /\ AttemptFailed(c)
    /\ UNCHANGED <<edit, line, writes, sigint, conns, server, reported, cancelled, races, faults>>

\* The lock is granted again. The WRITE is sent again, if its retries are not used up.
LockRegained(c) ==
    /\ pc[c] = "relocking"
    /\ HasAnswer(c) /\ Answer(c)
    /\ IF retries[c] < MaxRetries
       THEN /\ conns' = WithLast(c, [Last(conns[c]) EXCEPT
                            !.replies = Tail(@),
                            !.requests = Append(@, WriteOf(c, line[c]))])
            /\ Goto(c, "writing")
            /\ UNCHANGED status
       ELSE /\ conns' = Received(c)
            /\ Goto(c, "closing")
            /\ status' = [status EXCEPT ![c] = FALSE]
    /\ UNCHANGED <<edit, line, retries, writes, sigint, server, reported, cancelled, races, faults>>

\* The lock is refused, or the answer does not come.
LockNotRegained(c) ==
    /\ pc[c] = "relocking"
    /\ \/ HasAnswer(c) /\ ~Answer(c) /\ UNCHANGED <<sigint, faults>>
       \/ RecvFails(c)
    /\ conns' = Hung(c)
    /\ AttemptFailed(c)
    /\ UNCHANGED <<edit, line, writes, server, reported, cancelled, races>>

\* ETIRW, or the end of the input.
EndLines(c) ==
    /\ pc[c] = "prompt"
    /\ ~sigint[c]
    /\ Goto(c, "closing")
    /\ UNCHANGED <<edit, line, retries, writes, status, sigint, conns, server, reported,
                   cancelled, races, faults>>

\* "All writes completed successfully!", whatever became of the UNLOCK.
Report(c) ==
    /\ reported' = IF writes[c] # {} /\ status[c]
                   THEN [reported EXCEPT ![c] = @ \cup writes[c]]
                   ELSE reported
    /\ Goto(c, "idle")

\* UNLOCK_SENTENCE is sent if there is still a connection.
SendUnlock(c) ==
    /\ pc[c] = "closing"
    /\ IF LinkUp(c)
       THEN /\ conns' = Sent(c, Request("unlock"))
            /\ Goto(c, "unlocking")
            /\ UNCHANGED reported
       ELSE /\ conns' = Hung(c)
            /\ Report(c)
    /\ Note(c, IF Connected(c) THEN {} ELSE {"gaveup"})
    /\ UNCHANGED <<edit, line, retries, writes, status, sigint, server, cancelled, faults>>

\* Its answer, and the loss of it, are only printed.
EndEdit(c) ==
    /\ pc[c] = "unlocking"
    /\ \/ HasAnswer(c) /\ UNCHANGED <<sigint, faults>>
       \/ RecvFails(c)
    /\ conns' = Hung(c)
    /\ Report(c)
    /\ UNCHANGED <<edit, line, retries, writes, status, server, cancelled, races>>

\* MUTANT: an interrupted edit is ended like any other.
InterruptUnlocks(c) ==
    /\ pc[c] = "prompt"
    /\ \/ sigint[c] /\ UNCHANGED faults
       \/ faults > 0 /\ faults' = faults - 1
    /\ IF LinkUp(c)
       THEN conns' = Sent(c, Request("unlock")) /\ Goto(c, "cancelling")
       ELSE conns' = Hung(c) /\ Goto(c, "idle")
    /\ cancelled' = cancelled \cup {<<c, edit[c]>>}
    /\ UNCHANGED <<edit, line, retries, writes, status, sigint, server, reported, races>>

\* Ctrl-C at the prompt, or before the line that is typed now: perform_pending_unlock
\* cancels the edit, then the client exits. The user may start another.
Interrupt(c) ==
    /\ pc[c] = "prompt"
    /\ \/ sigint[c] /\ UNCHANGED faults
       \/ faults > 0 /\ faults' = faults - 1
    /\ IF LinkUp(c)
       THEN conns' = Sent(c, Request("cancel")) /\ Goto(c, "cancelling")
       ELSE conns' = Hung(c) /\ Goto(c, "idle")
    /\ cancelled' = cancelled \cup {<<c, edit[c]>>}
    /\ UNCHANGED <<edit, line, retries, writes, status, sigint, server, reported, races>>

Exit(c) ==
    /\ pc[c] = "cancelling"
    /\ \/ HasAnswer(c) /\ UNCHANGED <<sigint, faults>>
       \/ RecvFails(c)
    /\ conns' = Hung(c)
    /\ Goto(c, "idle")
    /\ UNCHANGED <<edit, line, retries, writes, status, server, reported, cancelled, races>>

-----------------------------------------------------------------------------
(* The storage server: handle_client_request *)

\* MUTANT: a write session that exists already is taken up again.
KeepSession(c) == IF temp[c] = NoTemp THEN file ELSE temp[c]

\* start_write_session_ss copies the file to the temp file, also for a session that
\* exists already.
CopyToTemp(c) == file

\* LOCK_SENTENCE: granted when the sentence is free, and to its holder again.
Lock(c, answer) ==
    /\ answer = (lock \in {Nobody, c})
    /\ lock' = IF answer THEN c ELSE lock
    /\ temp' = IF answer THEN [temp EXCEPT ![c] = CopyToTemp(c)] ELSE temp
    /\ UNCHANGED file

\* WRITE into the temp file; refused without a session, or for a word index out of range.
Write(c, word, answer) ==
    /\ answer => temp[c] # NoTemp
    /\ temp' = IF answer THEN [temp EXCEPT ![c] = Append(@, word)] ELSE temp
    /\ UNCHANGED <<lock, file>>

\* unlock_sentence_ss: only its holder frees the sentence.
Free(c, answer) ==
    /\ answer = (lock = c)
    /\ lock' = IF answer THEN Nobody ELSE lock

\* MUTANT: the lock is freed and the session stays.
UnlockOnly(c, answer) ==
    /\ file' = IF temp[c] = NoTemp THEN file ELSE temp[c]
    /\ Free(c, answer)
    /\ UNCHANGED temp

\* UNLOCK_SENTENCE: the sentence of the temp file replaces that of the file.
Unlock(c, answer) ==
    /\ file' = IF temp[c] = NoTemp THEN file ELSE temp[c]
    /\ temp' = [temp EXCEPT ![c] = NoTemp]
    /\ Free(c, answer)

\* MUTANT: a cancelled session gives its file back and keeps the lock.
CancelKeepsLock(c, answer) ==
    /\ answer
    /\ temp' = [temp EXCEPT ![c] = NoTemp]
    /\ UNCHANGED <<lock, file>>

\* CANCEL_WRITE.
CancelWrite(c, answer) ==
    /\ temp' = [temp EXCEPT ![c] = NoTemp]
    /\ Free(c, answer)
    /\ UNCHANGED file

Serve(c, request, answer) ==
    \/ request.type = "lock"   /\ Lock(c, answer)
    \/ request.type = "write"  /\ Write(c, request.word, answer)
    \/ request.type = "unlock" /\ Unlock(c, answer)
    \/ request.type = "cancel" /\ CancelWrite(c, answer)

\* A connection after its next request was handled. Requests that wait on an older one
\* have been overtaken.
Handled(sequence, i, answer) ==
    [j \in DOMAIN sequence |->
        IF j = i THEN [sequence[i] EXCEPT
                         !.requests = Tail(@),
                         !.replies = IF sequence[i].link = "up" THEN Append(@, answer) ELSE @]
        ELSE IF j < i THEN [sequence[j] EXCEPT !.stale = TRUE]
        ELSE sequence[j]]

\* A connection's thread takes a request, be its client there or not: it never looks
\* whether the client is still there.
Handle(c, i) ==
    /\ conns[c][i].requests # <<>>
    /\ \E answer \in BOOLEAN :
          /\ Serve(c, Head(conns[c][i].requests), answer)
          /\ conns' = [conns EXCEPT ![c] = Forget(Handled(@, i, answer), i)]
    /\ Note(c, IF conns[c][i].stale THEN {"late"} ELSE {})
    /\ UNCHANGED <<client, reported, cancelled, faults>>

-----------------------------------------------------------------------------
(* Failures *)

\* A connection is lost, and with it the answers under way; what the client has sent
\* may have arrived.
LoseConnection(c) ==
    /\ LinkUp(c)
    /\ faults > 0
    /\ faults' = faults - 1
    /\ \E arrived \in {Last(conns[c]).requests, <<>>} :
          conns' = WithLast(c, [Last(conns[c]) EXCEPT
                        !.link = "cut", !.requests = arrived, !.replies = <<>>])
    /\ Note(c, {"cut"})
    /\ UNCHANGED <<client, server, reported, cancelled>>

\* The storage server ends and is started again: locks and sessions are gone, temp
\* files are left behind and not looked at.
RestartServer ==
    /\ faults > 0
    /\ faults' = faults - 1
    /\ lock' = Nobody
    /\ temp' = [c \in Clients |-> NoTemp]
    /\ conns' = [c \in Clients |->
                    IF Connected(c)
                    THEN <<[Last(conns[c]) EXCEPT
                              !.link = "cut", !.requests = <<>>, !.replies = <<>>]>>
                    ELSE <<>>]
    /\ races' = [c \in Clients |-> IF conns[c] # <<>> THEN races[c] \cup {"cut"} ELSE races[c]]
    /\ UNCHANGED <<client, file, reported, cancelled>>

\* A client is killed, or its machine goes.
Vanish(c) ==
    /\ pc[c] # "idle"
    /\ faults > 0
    /\ faults' = faults - 1
    /\ conns' = Hung(c)
    /\ Goto(c, "idle")
    /\ Note(c, {"vanished"})
    /\ UNCHANGED <<edit, line, retries, writes, status, sigint, server, reported, cancelled>>

-----------------------------------------------------------------------------
Init ==
    /\ pc = [c \in Clients |-> "idle"]
    /\ edit = [c \in Clients |-> 0]
    /\ line = [c \in Clients |-> 0]
    /\ retries = [c \in Clients |-> 0]
    /\ writes = [c \in Clients |-> {}]
    /\ status = [c \in Clients |-> TRUE]
    /\ sigint = [c \in Clients |-> FALSE]
    /\ conns = [c \in Clients |-> <<>>]
    /\ lock = Nobody
    /\ temp = [c \in Clients |-> NoTemp]
    /\ file = <<>>
    /\ reported = [c \in Clients |-> {}]
    /\ cancelled = {}
    /\ races = [c \in Clients |-> {}]
    /\ faults = MaxFaults

\* What a client does without its user.
Continue(c) ==
    \/ LockAnswered(c) \/ LockUnanswered(c)
    \/ WriteAnswered(c) \/ WriteUnanswered(c)
    \/ Reconnect(c) \/ NoReconnection(c)
    \/ LockRegained(c) \/ LockNotRegained(c)
    \/ SendUnlock(c) \/ EndEdit(c) \/ Exit(c)

UserStep(c) == BeginEdit(c) \/ TypeLine(c) \/ EndLines(c) \/ Interrupt(c)

ServerThreads(c) == \E i \in DOMAIN conns[c] : Handle(c, i)

Next ==
    \/ \E c \in Clients :
          \/ Continue(c) \/ UserStep(c) \/ ServerThreads(c)
          \/ LoseConnection(c) \/ Vanish(c)
    \/ RestartServer

Spec == Init /\ [][Next]_vars

\* Processes and threads that can go on do so, and a connection that carries a request
\* carries its answer. No user need do anything and nothing need fail.
Fairness ==
    \A c \in Clients : /\ WF_vars(UNCHANGED faults /\ Continue(c))
                       /\ WF_vars(ServerThreads(c))

FairSpec == Spec /\ Fairness

-----------------------------------------------------------------------------
(* Properties *)

\* The types; no line is sent again more than MaxRetries times.
TypeOK ==
    /\ pc \in [Clients -> {"idle", "locking", "prompt", "writing", "reconnect", "relocking",
                          "closing", "unlocking", "cancelling"}]
    /\ edit \in [Clients -> Nat] /\ line \in [Clients -> Nat]
    /\ retries \in [Clients -> 0 .. MaxRetries]
    /\ writes \in [Clients -> SUBSET Words]
    /\ status \in [Clients -> BOOLEAN] /\ sigint \in [Clients -> BOOLEAN]
    /\ conns \in [Clients -> Seq(Connections)]
    /\ lock \in Clients \cup {Nobody}
    /\ temp \in [Clients -> Seq(Words) \cup {NoTemp}]
    /\ file \in Seq(Words)
    /\ reported \in [Clients -> SUBSET Words]
    /\ cancelled \subseteq Clients \X Nat
    /\ races \in [Clients -> SUBSET {"cut", "late", "gaveup", "vanished"}]
    /\ faults \in Nat

Undisturbed(c, kinds) == races[c] \cap kinds = {}

\* The user has sent a request of these types that is still to be handled.
Pending(c, types) ==
    \E i \in DOMAIN conns[c] :
        \E n \in DOMAIN conns[c][i].requests : conns[c][i].requests[n].type \in types

InFile(word) == \E n \in DOMAIN file : file[n] = word

\* What a client has reported as written successfully is in the file or in a commit that
\* is on its way, whatever happens to the other clients and wherever the user presses
\* Ctrl-C, if this client lost no connection and no old request of it was late.
UndisturbedReportsArrive ==
    \A c \in Clients : Undisturbed(c, {"cut", "late"}) =>
        \A word \in reported[c] : InFile(word) \/ Pending(c, {"unlock"})

\* No word is in the file twice: a WRITE that is tried again after its answer was lost
\* is not done again, unless an old connection's requests were handled after it.
UndisturbedWordsOnce ==
    \A m, n \in DOMAIN file :
        file[m] = file[n] /\ Undisturbed(file[m][1], {"late"}) => m = n

\* The words of an edit that its user has interrupted never reach the file: not through
\* retries, nor through a later edit.
UndisturbedCancelledStayOut ==
    \A n \in DOMAIN file : LET c == file[n][1] IN
        <<c, file[n][2]>> \in cancelled => ~Undisturbed(c, {"late"})

\* A user who is not in an edit has no lock, or the request that frees it is on its way:
\* the lock comes back, wherever the edit was interrupted.
UndisturbedLockComesBack ==
    \A c \in Clients :
        /\ lock = c /\ pc[c] = "idle"
        /\ Undisturbed(c, {"cut", "late", "gaveup", "vanished"})
        => Pending(c, {"unlock", "cancel"})

\* A client's command goes on to its next line or to its end, however often connections
\* break and the servers cannot be reached.
ClientsGoOn ==
    \A c \in Clients : []<>(pc[c] \in {"idle", "prompt"})

\* "All writes completed successfully!": when the server has confirmed the UNLOCK, the
\* words of which the client says so are in the file, also after a reconnection; unless
\* the server served a request of an old connection after one of a newer.
ConfirmedWritesArrive ==
    \A c \in Clients :
        pc[c] = "unlocking" /\ HasAnswer(c) /\ Answer(c) /\ status[c]
                /\ Undisturbed(c, {"late"})
            => \A word \in writes[c] : InFile(word)
=============================================================================
