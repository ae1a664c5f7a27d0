--------------------------- MODULE ServerRegistry ---------------------------
(***************************************************************************)
(* How a storage server joins the name server, is found dead, and comes     *)
(* back: the sockets it connects, its registration and heart beats (ss.c),  *)
(* the name server's thread for each of the two connections, the heartbeat  *)
(* monitor, and a handler that gives a server a command (nm.c).             *)
(*                                                                          *)
(* A run is one process of a storage server; a server comes back as a new   *)
(* run, with the id and the files of the one before. The name server's      *)
(* threads close sockets by number, whatever connection has the number by   *)
(* then: accept gives out the lowest that is free. A thread that waits in   *)
(* recv keeps its connection when another thread closes the number. Time    *)
(* passes in periods of five seconds, between two heart beats of a server   *)
(* and two rounds of the monitor.                                           *)
(***************************************************************************)
EXTENDS Naturals, FiniteSets, FiniteSetsExt

CONSTANTS
    Ids,                    \* the servers
    Runs, IdOf,             \* their runs, numbered as they are started; the server of each
    Clients,                \* the clients, of which each has one connection
    Handlers,               \* client threads with a command for a server
    Fds, NoFd,              \* socket numbers; -1
    NoConn,                 \* what a closed number stands for
    NoOne,                  \* the holder of a free mutex; no request, no answer
    MaxSS,                  \* MAX_SS
    Grace, Timeout          \* 60 s and HEARTBEAT_TIMEOUT, in periods

ASSUME NamesAssumption ==
    /\ NoFd \notin Fds
    /\ NoConn \notin Runs \X {"cmd", "hb"} \cup Clients \X {"client"}
    /\ NoOne \notin Handlers
ASSUME RunsAssumption == Runs \subseteq Nat /\ IdOf \in [Runs -> Ids]
ASSUME FdsAssumption == Fds \subseteq Nat
ASSUME TimesAssumption == Grace \in Nat \ {0} /\ Timeout \in 0 .. Grace - 1

VARIABLES
    \* The storage servers
    srv,        \* how far each run is
    disk,       \* whether each server has the file
    inbox,      \* the command that a run has received
    outbox,     \* the answer that waits on its command connection
    \* The name server
    fds,        \* the connection behind each socket number
    ss_list,    \* each server's place in the registry
    cmd, cmdFd, \* the thread of each run's command connection, and its ss_sock
    hb, hbFd,   \* the thread of its heartbeat connection, and its hb_sock
    clientFd,   \* the client_sock of each connected client
    entry,      \* the file's entry in the trie
    ss_sock_mutexes,
    pc, target, conn,   \* each handler: its next step, its server, its connection
    \* History, read by no guard
    quiet,      \* periods since each run was last heard
    races       \* the kinds of interference and failure that have happened

servers  == <<srv, inbox, outbox, quiet>>
threads  == <<cmd, cmdFd, hb, hbFd, clientFd>>
handlers == <<ss_sock_mutexes, pc, target, conn>>
files    == <<disk, entry>>
vars     == <<servers, files, fds, ss_list, threads, handlers, races>>

Cmd(r) == <<r, "cmd">>
Hb(r)  == <<r, "hb">>
Conns  == Runs \X {"cmd", "hb"} \cup Clients \X {"client"}

NoEntry == [owner |-> NoOne, ss_id |-> NoOne]

Dead == {"gone", "lost"}

\* A run with a thread for the name server's commands.
Serves(r) == srv[r] \in {"registered", "beating"}

Known == {i \in Ids : ss_list[i].known}

\* The run that registered last under server i.
Latest(i) == ss_list[i].run

-----------------------------------------------------------------------------
(* Sockets *)

\* The numbers that are free, and the two that the next connections get.
Free    == {n \in Fds : fds[n] = NoConn}
Lowest  == Min(Free)
Lowest2 == Min(Free \ {Lowest})

\* The number n stands for the connection c.
Own(n, c) == n # NoFd /\ fds[n] = c

\* The connections after close() of some numbers; NoFd is skipped or fails.
Closed(ns) == [n \in Fds |-> IF n \in ns THEN NoConn ELSE fds[n]]

\* A close of numbers meant for some connections has hit another one.
Strays(ns, meant) ==
    IF \E n \in ns \cap Fds : fds[n] \notin meant \cup {NoConn} THEN {"foreign"} ELSE {}

Note(kinds) == races' = races \cup kinds

\* The name server still has the run's command connection.
CmdOpen(r) == Own(cmdFd[r], Cmd(r)) \/ \E h \in Handlers : pc[h] = "wait" /\ conn[h] = Cmd(r)

-----------------------------------------------------------------------------
(* A storage server *)

\* connect_to_nm: both sockets; then scan_and_register_files sends MSG_REG_SS. An
\* operator starts a run when the one before has ended. Bound: only when accept has two
\* numbers to give.
Start(r) ==
    /\ srv[r] = "off"
    /\ \E m, n \in Free : m # n
    /\ \A q \in Runs : q < r => srv[q] # "off" /\ (IdOf[q] = IdOf[r] => srv[q] \in Dead)
    /\ srv' = [srv EXCEPT ![r] = "registered"]
    /\ fds' = [fds EXCEPT ![Lowest] = Cmd(r), ![Lowest2] = Hb(r)]
    /\ cmd' = [cmd EXCEPT ![r] = "reg"]
    /\ cmdFd' = [cmdFd EXCEPT ![r] = Lowest]
    /\ hb' = [hb EXCEPT ![r] = "ident"]
    /\ hbFd' = [hbFd EXCEPT ![r] = Lowest2]
    /\ UNCHANGED <<inbox, outbox, quiet, files, ss_list, clientFd, handlers, races>>

\* MUTANT: the answer is sent before the file is made, and stands for it.
AnswerFirst(r) ==
    /\ inbox[r] # NoOne
    /\ Serves(r) \/ srv[r] = "silent"
    /\ inbox' = [inbox EXCEPT ![r] = NoOne]
    /\ outbox' = [outbox EXCEPT ![r] = IF disk[IdOf[r]] THEN "exists" ELSE "ok"]
    /\ UNCHANGED <<srv, quiet, files, fds, ss_list, threads, handlers, races>>

\* handle_nm_communication takes a CREATE and answers it. The thread looks at
\* running only between two commands.
ServeCommand(r) ==
    LET i == IdOf[r] IN
    /\ inbox[r] # NoOne
    /\ Serves(r) \/ srv[r] = "silent"
    /\ inbox' = [inbox EXCEPT ![r] = NoOne]
    /\ outbox' = [outbox EXCEPT ![r] = IF disk[i] THEN "exists" ELSE "ok"]
    /\ disk' = [disk EXCEPT ![i] = TRUE]
    /\ UNCHANGED <<srv, quiet, entry, fds, ss_list, threads, handlers, races>>

\* running = 0: the command thread has lost its connection, or the heartbeat thread
\* cannot send. The process stays, in accept, and its sockets with it. recv sets no
\* errno at the end of a connection: the command thread may instead try for ever.
GoSilent(r) ==
    /\ Serves(r)
    /\ ~CmdOpen(r) \/ hb[r] = "ended"
    /\ srv' = [srv EXCEPT ![r] = "silent"]
    /\ UNCHANGED <<inbox, outbox, quiet, files, fds, ss_list, threads, handlers, races>>

\* The process ends, by the operator's hand, and its connections are closed; or its
\* host loses power, and nobody is told. An answer may not have been sent.
Stop(r, how) ==
    /\ srv[r] \notin {"off"} \cup Dead
    /\ srv' = [srv EXCEPT ![r] = how]
    /\ inbox' = [inbox EXCEPT ![r] = NoOne]
    /\ outbox' \in {outbox, [outbox EXCEPT ![r] = NoOne]}
    /\ quiet' = [quiet EXCEPT ![r] = 0]
    /\ UNCHANGED <<files, fds, ss_list, threads, handlers, races>>

-----------------------------------------------------------------------------
(* handle_ss_connection *)

\* A place in the registry for the run's server: its old one, or a new one.
HasPlace(i) == ss_list[i].known \/ Cardinality(Known) < MaxSS

\* The sockets of a server that registers again.
OldSocks(i) == IF ss_list[i].known THEN {ss_list[i].sock, ss_list[i].hb_sock} ELSE {}

OldConns(r) == {c \in Runs \X {"cmd", "hb"} : c[1] # r /\ IdOf[c[1]] = IdOf[r]}

\* The file's entry after the file list of server i: an entry that is there keeps
\* its owner, and a new one is the system's.
Listed(i) ==
    IF ~disk[i] THEN entry
    ELSE IF entry # NoEntry THEN [entry EXCEPT !.ss_id = i]
    ELSE [owner |-> "system", ss_id |-> i]

\* MUTANT: last_heartbeat keeps the time of the server's last run.
RegisteredLate(r) == [known |-> TRUE, run |-> r, sock |-> cmdFd[r], hb_sock |-> NoFd,
                      active |-> TRUE, idle |-> ss_list[IdOf[r]].idle]

\* The place of a run that has just registered.
Registered(r) == [known |-> TRUE, run |-> r, sock |-> cmdFd[r], hb_sock |-> NoFd,
                  active |-> TRUE, idle |-> 0]

\* MSG_REG_SS, in one hold of ss_mutex; a new server that finds the registry full
\* is turned away.
Register(r) ==
    LET i == IdOf[r] IN
    /\ cmd[r] = "reg"
    /\ Own(cmdFd[r], Cmd(r))
    /\ IF HasPlace(i)
       THEN /\ fds' = Closed(OldSocks(i))
            /\ ss_list' = [ss_list EXCEPT ![i] = Registered(r)]
            /\ entry' = Listed(i)
            /\ cmd' = [cmd EXCEPT ![r] = "watch"]
            /\ quiet' = [quiet EXCEPT ![r] = 0]
            /\ Note(     Strays(OldSocks(i), OldConns(r) \cup {Hb(r)})
                    \cup (IF hb[r] # "ident" THEN {"late"} ELSE {})
                    \cup (IF srv[r] \in Dead THEN {"late"} ELSE {}))
            /\ UNCHANGED cmdFd
       ELSE /\ fds' = Closed({cmdFd[r]})
            /\ cmd' = [cmd EXCEPT ![r] = "ended"]
            /\ cmdFd' = [cmdFd EXCEPT ![r] = NoFd]
            /\ UNCHANGED <<ss_list, entry, quiet, races>>
    /\ UNCHANGED <<srv, inbox, outbox, disk, hb, hbFd, clientFd, handlers>>

\* close(ss_sock) at the end of the thread.
CloseCmd(r) ==
    /\ fds' = Closed({cmdFd[r]})
    /\ cmd' = [cmd EXCEPT ![r] = "ended"]
    /\ cmdFd' = [cmdFd EXCEPT ![r] = NoFd]
    /\ Note(Strays({cmdFd[r]}, {Cmd(r)}))
    /\ UNCHANGED <<servers, files, ss_list, hb, hbFd, clientFd, handlers>>

\* The number has been closed, and recv fails.
RegisterFails(r) ==
    /\ cmd[r] = "reg"
    /\ ~Own(cmdFd[r], Cmd(r))
    /\ CloseCmd(r)

\* The thread looks every three seconds whether its server, by id, is still active.
Watch(r) ==
    /\ cmd[r] = "watch"
    /\ ~ss_list[IdOf[r]].active
    /\ CloseCmd(r)

-----------------------------------------------------------------------------
(* handle_ss_heartbeat *)

\* A message of the heartbeat connection updates the server's last_heartbeat, by id.
Heard(i) == [ss_list[i] EXCEPT !.idle = 0]

\* A second after MSG_REG_SS heartbeat_thread sends HB_INIT: the connection's number
\* is put down under the server's id.
Identify(r) ==
    LET i == IdOf[r] IN
    /\ hb[r] = "ident"
    /\ srv[r] = "registered"
    /\ Own(hbFd[r], Hb(r))
    /\ srv' = [srv EXCEPT ![r] = "beating"]
    /\ hb' = [hb EXCEPT ![r] = "beat"]
    /\ ss_list' = IF ss_list[i].known
                  THEN [ss_list EXCEPT ![i] = [Heard(i) EXCEPT !.hb_sock = hbFd[r]]]
                  ELSE ss_list
    /\ Note(IF cmd[r] = "reg" THEN {"late"} ELSE {})
    /\ UNCHANGED <<inbox, outbox, quiet, files, fds, cmd, cmdFd, hbFd, clientFd, handlers>>

\* The connection ends before HB_INIT: the thread closes its socket, and no more.
IdentifyFails(r) ==
    /\ hb[r] = "ident"
    /\ ~Own(hbFd[r], Hb(r)) \/ srv[r] = "gone"
    /\ fds' = Closed({hbFd[r]})
    /\ hb' = [hb EXCEPT ![r] = "ended"]
    /\ hbFd' = [hbFd EXCEPT ![r] = NoFd]
    /\ Note(Strays({hbFd[r]}, {Hb(r)}))
    /\ UNCHANGED <<servers, files, ss_list, cmd, cmdFd, clientFd, handlers>>

\* A heart beat. Its length is received from the connection, and its body by number:
\* when that is closed, recv fails, and when it stands for another connection by now,
\* the thread reads there.
Beat(r) ==
    LET i == IdOf[r] IN
    /\ srv[r] = "beating"
    /\ hb[r] = "beat"
    /\ IF Own(hbFd[r], Hb(r))
       THEN /\ ss_list' = IF ss_list[i].known
                          THEN [ss_list EXCEPT ![i] = Heard(i)] ELSE ss_list
            /\ quiet' = [quiet EXCEPT ![r] = 0]
            /\ UNCHANGED hb
       ELSE /\ hb' = [hb EXCEPT ![r] = IF fds[hbFd[r]] = NoConn THEN "lost" ELSE "astray"]
            /\ UNCHANGED <<ss_list, quiet>>
    /\ UNCHANGED <<srv, inbox, outbox, files, fds, cmd, cmdFd, hbFd, clientFd,
                   handlers, races>>

\* recv fails: the server's end has been closed, or the connection the thread reads by mistake.
LoseHeartbeat(r) ==
    /\ \/ hb[r] = "beat" /\ srv[r] = "gone"
       \/ hb[r] = "astray"
    /\ hb' = [hb EXCEPT ![r] = "lost"]
    /\ UNCHANGED <<servers, files, fds, ss_list, cmd, cmdFd, hbFd, clientFd, handlers, races>>

\* The server, by id, is marked inactive, and the thread's socket closed by number.
MarkInactive(r) ==
    LET i == IdOf[r] IN
    /\ hb[r] = "lost"
    /\ ss_list' = IF ss_list[i].known
                  THEN [ss_list EXCEPT ![i].hb_sock = NoFd, ![i].active = FALSE]
                  ELSE ss_list
    /\ fds' = Closed({hbFd[r]})
    /\ hb' = [hb EXCEPT ![r] = "ended"]
    /\ hbFd' = [hbFd EXCEPT ![r] = NoFd]
    /\ Note(     Strays({hbFd[r]}, {Hb(r)})
            \cup (IF ss_list[i].known /\ Latest(i) # r THEN {"late"} ELSE {}))
    /\ UNCHANGED <<servers, files, cmd, cmdFd, clientFd, handlers>>

-----------------------------------------------------------------------------
(* heartbeat_monitor *)

\* MUTANT: the two allowances add up.
LongAllowance(idle) == Grace + Timeout + 1

\* How long a server silent for so long may be silent.
Allowance(idle) == IF idle < Grace THEN Grace ELSE Timeout

Overdue == {i \in Known : ss_list[i].active /\ ss_list[i].idle > Allowance(ss_list[i].idle)}

\* MUTANT: a server without a heartbeat connection is left to handle_ss_heartbeat.
MonitorConnected ==
    /\ Overdue # {}
    /\ ss_list' = [i \in Ids |-> IF i \in Overdue /\ ss_list[i].hb_sock # NoFd
                                 THEN [ss_list[i] EXCEPT !.active = FALSE, !.hb_sock = NoFd]
                                 ELSE ss_list[i]]
    /\ fds' = Closed({ss_list[i].hb_sock : i \in Overdue})
    /\ UNCHANGED <<races, servers, files, threads, handlers>>

\* A round of the monitor, in one hold of ss_mutex.
Monitor ==
    /\ ss_list' = [i \in Ids |-> IF i \in Overdue
                                 THEN [ss_list[i] EXCEPT !.active = FALSE, !.hb_sock = NoFd]
                                 ELSE ss_list[i]]
    /\ fds' = Closed({ss_list[i].hb_sock : i \in Overdue})
    /\ Note(Strays({ss_list[i].hb_sock : i \in Overdue}, {Hb(Latest(i)) : i \in Overdue}))
    /\ UNCHANGED <<servers, files, threads, handlers>>

\* Five seconds pass; the monitor has done its round for the five before. Bound: the
\* silence of an inactive server is not counted, and quiet only up to Grace.
Tick ==
    /\ Overdue = {}
    /\ ss_list' = [i \in Ids |-> [ss_list[i] EXCEPT
                                    !.idle = IF ss_list[i].active THEN @ + 1 ELSE @]]
    /\ quiet' = [r \in Runs |-> IF ~Serves(r) THEN 0
                                 ELSE IF quiet[r] < Grace THEN quiet[r] + 1 ELSE Grace]
    /\ Note(IF \E r \in Runs : quiet'[r] = Grace THEN {"delay"} ELSE {})
    /\ UNCHANGED <<srv, inbox, outbox, files, fds, threads, handlers>>

-----------------------------------------------------------------------------
(* Clients: their connections take and give back socket numbers *)

Connect(c) ==
    /\ clientFd[c] = NoFd
    /\ Free # {}
    /\ clientFd' = [clientFd EXCEPT ![c] = Lowest]
    /\ fds' = [fds EXCEPT ![Lowest] = <<c, "client">>]
    /\ UNCHANGED <<servers, files, ss_list, cmd, cmdFd, hb, hbFd, handlers, races>>

-----------------------------------------------------------------------------
(* handle_create: a handler's exchange with a storage server *)

Goto(h, label) == pc' = [pc EXCEPT ![h] = label]

\* The file has no entry; the next server in turn is taken, active or not, and its mutex
\* as soon as that is free. The command is sent to whatever the server's sock stands for;
\* a failure is ignored.
SendCommand(h, i) ==
    LET c == fds[ss_list[i].sock]
        reached == {r \in Runs : c = Cmd(r) /\ srv[r] \notin Dead}
    IN
    /\ pc[h] = "idle"
    /\ entry = NoEntry
    /\ ss_list[i].known
    /\ ss_sock_mutexes[i] = NoOne
    /\ ss_sock_mutexes' = [ss_sock_mutexes EXCEPT ![i] = h]
    /\ target' = [target EXCEPT ![h] = i]
    /\ conn' = [conn EXCEPT ![h] = c]
    /\ inbox' = [r \in Runs |-> IF r \in reached THEN h ELSE inbox[r]]
    /\ Goto(h, "recv")
    /\ UNCHANGED <<srv, outbox, quiet, files, fds, ss_list, threads, races>>

\* recv_message reads the sock again, and waits on what it stands for now.
AwaitAnswer(h) ==
    LET c == fds[ss_list[target[h]].sock] IN
    /\ pc[h] = "recv"
    /\ conn' = [conn EXCEPT ![h] = c]
    /\ Goto(h, "wait")
    /\ Note(     (IF c \in {NoConn, conn[h]} THEN {} ELSE {"switched"})
            \cup (IF \E r \in Runs : c = Cmd(r) /\ IdOf[r] # target[h]
                  THEN {"misled"} ELSE {}))
    /\ UNCHANGED <<servers, files, fds, ss_list, threads, ss_sock_mutexes, target>>

\* The exchange ends: with SUCCESS trie_insert gives the file an entry, if need be over
\* one that it has got in the meantime.
EndExchange(h, success) ==
    /\ ss_sock_mutexes' = [ss_sock_mutexes EXCEPT ![target[h]] = NoOne]
    /\ conn' = [conn EXCEPT ![h] = NoConn]
    /\ entry' = IF success THEN [owner |-> h, ss_id |-> target[h]] ELSE entry
    /\ Goto(h, "idle")
    /\ UNCHANGED target

Answered(h, r) ==
    /\ pc[h] = "wait"
    /\ conn[h] = Cmd(r)
    /\ outbox[r] # NoOne
    /\ outbox' = [outbox EXCEPT ![r] = NoOne]
    /\ EndExchange(h, outbox[r] = "ok")
    /\ UNCHANGED <<srv, inbox, quiet, disk, fds, ss_list, threads, races>>

\* MUTANT: a handler waits on for a server that has closed the connection.
GarbageIfClosedHere(h) ==
    /\ pc[h] = "wait"
    /\ conn[h] = NoConn
    /\ \E success \in BOOLEAN : EndExchange(h, success)
    /\ Note({"garbage"})
    /\ UNCHANGED <<servers, disk, fds, ss_list, threads>>

\* recv fails, on a closed number or a connection that the server has closed, or it
\* takes a message meant for another thread. ss_response has not been initialised, and
\* every request has the status SUCCESS: the status may be any.
Garbage(h) ==
    /\ pc[h] = "wait"
    /\ \/ conn[h] = NoConn
       \/ \E r \in Runs : conn[h] = Cmd(r) /\ srv[r] = "gone" /\ outbox[r] = NoOne
       \/ \E r \in Runs, c \in Clients : conn[h] \in {Hb(r), <<c, "client">>}
    /\ \E success \in BOOLEAN : EndExchange(h, success)
    /\ Note({"garbage"})
    /\ UNCHANGED <<servers, disk, fds, ss_list, threads>>

-----------------------------------------------------------------------------
Init ==
    /\ srv = [r \in Runs |-> "off"]
    /\ disk \in [Ids -> BOOLEAN]
    /\ inbox = [r \in Runs |-> NoOne]
    /\ outbox = [r \in Runs |-> NoOne]
    /\ fds = [n \in Fds |-> NoConn]
    /\ ss_list = [i \in Ids |-> [known |-> FALSE, run |-> NoOne, sock |-> NoFd,
                                 hb_sock |-> NoFd, active |-> FALSE, idle |-> 0]]
    /\ cmd = [r \in Runs |-> "none"]
    /\ cmdFd = [r \in Runs |-> NoFd]
    /\ hb = [r \in Runs |-> "none"]
    /\ hbFd = [r \in Runs |-> NoFd]
    /\ clientFd = [c \in Clients |-> NoFd]
    /\ entry = NoEntry
    /\ ss_sock_mutexes = [i \in Ids |-> NoOne]
    /\ pc = [h \in Handlers |-> "idle"]
    /\ target \in [Handlers -> Ids]
    /\ conn = [h \in Handlers |-> NoConn]
    /\ quiet = [r \in Runs |-> 0]
    /\ races = {}

ServerStep(r) ==
    \/ Start(r) \/ ServeCommand(r) \/ GoSilent(r)
    \/ Stop(r, "gone") \/ Stop(r, "lost")

CommandThread(r) == Register(r) \/ RegisterFails(r) \/ Watch(r)

HeartbeatThread(r) ==
    Identify(r) \/ IdentifyFails(r) \/ Beat(r) \/ LoseHeartbeat(r) \/ MarkInactive(r)

HandlerStep(h) ==
    \/ AwaitAnswer(h) \/ Garbage(h)
    \/ \E r \in Runs : Answered(h, r)

Next ==
    \/ \E r \in Runs : ServerStep(r) \/ CommandThread(r) \/ HeartbeatThread(r)
    \/ Monitor \/ Tick
    \/ \E c \in Clients : Connect(c)
    \/ \E h \in Handlers : HandlerStep(h) \/ \E i \in Ids : SendCommand(h, i)

Spec == Init /\ [][Next]_vars

\* Every thread that can go on does so in the end.
\* A server takes its commands while it runs, and time passes. Nothing makes an operator
\* start or stop a server.
Fairness ==
    /\ \A r \in Runs : /\ WF_vars(CommandThread(r))
                       /\ WF_vars(HeartbeatThread(r))
                       /\ WF_vars(Serves(r) /\ ServeCommand(r))
    /\ \A h \in Handlers : WF_vars(HandlerStep(h))
    /\ WF_vars(Monitor) /\ WF_vars(Tick)

FairSpec == Spec /\ Fairness

-----------------------------------------------------------------------------
(* Properties *)

\* Every variable holds a value of its kind, and the monitor lets no server be silent for
\* longer than the larger of its two allowances.
TypeOK ==
    /\ srv \in [Runs -> {"off", "registered", "beating", "silent"} \cup Dead]
    /\ disk \in [Ids -> BOOLEAN]
    /\ inbox \in [Runs -> Handlers \cup {NoOne}]
    /\ outbox \in [Runs -> {"ok", "exists", NoOne}]
    /\ fds \in [Fds -> Conns \cup {NoConn}]
    /\ ss_list \in [Ids -> [known : BOOLEAN, run : Runs \cup {NoOne}, sock : Fds \cup {NoFd},
                            hb_sock : Fds \cup {NoFd}, active : BOOLEAN, idle : 0 .. Grace + 1]]
    /\ cmd \in [Runs -> {"none", "reg", "watch", "ended"}]
    /\ cmdFd \in [Runs -> Fds \cup {NoFd}]
    /\ hb \in [Runs -> {"none", "ident", "beat", "astray", "lost", "ended"}]
    /\ hbFd \in [Runs -> Fds \cup {NoFd}]
    /\ clientFd \in [Clients -> Fds \cup {NoFd}]
    /\ entry \in [owner : Handlers \cup {"system"}, ss_id : Ids] \cup {NoEntry}
    /\ ss_sock_mutexes \in [Ids -> Handlers \cup {NoOne}]
    /\ pc \in [Handlers -> {"idle", "recv", "wait"}]
    /\ target \in [Handlers -> Ids]
    /\ conn \in [Handlers -> Conns \cup {NoConn}]
    /\ quiet \in [Runs -> 0 .. Grace]
    /\ races \subseteq {"late", "foreign", "delay", "switched", "misled", "garbage"}

Undisturbed(kinds) == races \cap kinds = {}

\* The latest run of a server, as long as it serves, is active and its sock is its own
\* command connection: a reconnection lasts. Unless a thread of an earlier run was late,
\* HB_INIT was handled before the registration, a number was closed that stood for
\* another connection, or the server was not heard for the whole grace period.
UndisturbedServerReachable ==
    Undisturbed({"late", "foreign", "delay"}) =>
        \A i \in Known : Serves(Latest(i)) =>
            ss_list[i].active /\ Own(ss_list[i].sock, Cmd(Latest(i)))

\* A file with an entry is on its server's disk, whatever servers stop and come back
\* in between, unless a handler read a status that no server sent, or waited on the
\* connection of another server, which has got its server's old socket number.
UndisturbedEntryHasFile ==
    Undisturbed({"garbage", "misled"}) => entry = NoEntry \/ disk[entry.ss_id]

\* A server whose latest run serves no more is marked inactive in the end, or registers
\* again: by its heartbeat thread, or by the monitor when that saw nothing. Unless its
\* registration came so late that the heart beats under its id are those of a later run.
UndisturbedGoneIsNoticed ==
    \A r \in Runs :
        cmd[r] = "watch" /\ Latest(IdOf[r]) = r /\ srv[r] \in {"silent"} \cup Dead
            ~> \/ ~ss_list[IdOf[r]].active
               \/ Latest(IdOf[r]) # r
               \/ ~Undisturbed({"late"})

\* An exchange with a server ends and its mutex is given back, also when the server is
\* stopped or comes back meanwhile; unless the server lost power or was cut off while
\* it ran, or a handler waited on a run that it had not asked.
UndisturbedExchangesEnd ==
    \A h \in Handlers :
        pc[h] # "idle"
            ~> \/ pc[h] = "idle"
               \/ ~Undisturbed({"late", "foreign", "delay", "switched"})
               \/ \E r \in Runs : srv[r] = "lost"
=============================================================================
