------------------------ MODULE ServerRegistry_proofs ------------------------
(***************************************************************************)
(* Proofs about the registry, for any number of servers, runs, handlers,     *)
(* clients and sockets.                                                      *)
(*                                                                           *)
(* A file with an entry is on its server's disk. The entry comes from a      *)
(* server's file list or from an answer, and the invariant is about the      *)
(* answers: one that waits on a connection tells of a file on that server's  *)
(* disk, and a handler waits on a connection of the server it has chosen,    *)
(* unless it was misled.                                                     *)
(*                                                                           *)
(* A server that runs and is known can be reached. The invariant says that   *)
(* every `close` hits the connection that was meant, unless a race records   *)
(* the other, and that a serving run is never silent for the grace period.   *)
(***************************************************************************)
EXTENDS ServerRegistry, WellFoundedInduction, TLAPS

ShapeInv ==
    /\ disk \in [Ids -> BOOLEAN]
    /\ outbox = [r \in Runs |-> outbox[r]]
    /\ entry # NoEntry => entry.ss_id \in Ids
    /\ pc = [h \in Handlers |-> pc[h]]
    /\ conn = [h \in Handlers |-> conn[h]]
    /\ target \in [Handlers -> Ids]

\* An answer is sent when the file is there.
AnswersTrue == \A r \in Runs : outbox[r] # NoOne => disk[IdOf[r]]

\* A handler waits on its server's connection.
WaitsOnOwn ==
    Undisturbed({"garbage", "misled"}) =>
        \A h \in Handlers, r \in Runs :
            pc[h] = "wait" /\ conn[h] = Cmd(r) => IdOf[r] = target[h]

EntryInv == ShapeInv /\ AnswersTrue /\ WaitsOnOwn /\ UndisturbedEntryHasFile

-----------------------------------------------------------------------------

\* The server has just started.
LEMMA InitEntryInv == Init => EntryInv
  BY RunsAssumption
  DEF Init, EntryInv, ShapeInv, AnswersTrue, WaitsOnOwn, UndisturbedEntryHasFile

\* A step that changes no entry, no disk, no answer and no handler.
LEMMA OthersStay ==
  ASSUME EntryInv, UNCHANGED <<disk, entry, outbox, pc, conn, target>>, races \subseteq races'
  PROVE  EntryInv'
  BY DEF EntryInv, ShapeInv, AnswersTrue, WaitsOnOwn, UndisturbedEntryHasFile, Undisturbed

\* The end of an exchange, with whatever success, if that is recorded or true.
LEMMA ExchangeEnds ==
  ASSUME EntryInv, NEW h \in Handlers, NEW success \in BOOLEAN, EndExchange(h, success),
         UNCHANGED disk, races \subseteq races',
         \A r \in Runs : outbox'[r] \in {outbox[r], NoOne},
         outbox' = [r \in Runs |-> outbox'[r]],
         Undisturbed({"garbage", "misled"})' /\ success => disk[target[h]]
  PROVE  EntryInv'
<1>1. ShapeInv'
  BY DEF EntryInv, ShapeInv, EndExchange, Goto
<1>2. AnswersTrue'
  BY DEF EntryInv, AnswersTrue
<1>3. WaitsOnOwn'
  BY DEF EntryInv, ShapeInv, WaitsOnOwn, Undisturbed, EndExchange, Goto
<1>4. UndisturbedEntryHasFile'
  <2> SUFFICES ASSUME Undisturbed({"garbage", "misled"})', entry' # NoEntry
               PROVE  disk[entry'.ss_id]
    BY DEF UndisturbedEntryHasFile, NoEntry
  <2>1. CASE success
    BY <2>1 DEF EndExchange
  <2>2. CASE ~success
    BY <2>2 DEF EndExchange, EntryInv, UndisturbedEntryHasFile, Undisturbed
  <2> QED
    BY <2>1, <2>2
<1> QED
  BY <1>1, <1>2, <1>3, <1>4 DEF EntryInv

\* Every step keeps the invariant.
LEMMA NextEntryInv == EntryInv /\ [Next]_vars => EntryInv'
<1> SUFFICES ASSUME EntryInv, [Next]_vars PROVE EntryInv'
  OBVIOUS
<1>1. ASSUME NEW r \in Runs, ServeCommand(r) PROVE EntryInv'
  BY <1>1, RunsAssumption
  DEF ServeCommand, handlers, EntryInv, ShapeInv, AnswersTrue, WaitsOnOwn,
      UndisturbedEntryHasFile, Undisturbed, NoEntry
<1>2. ASSUME NEW r \in Runs, NEW how \in Dead, Stop(r, how) PROVE EntryInv'
  BY <1>2
  DEF Stop, files, handlers, EntryInv, ShapeInv, AnswersTrue, WaitsOnOwn,
      UndisturbedEntryHasFile, Undisturbed
<1>3. ASSUME NEW r \in Runs, Register(r) PROVE EntryInv'
  <2> DEFINE i == IdOf[r]
  <2>1. i \in Ids
    BY RunsAssumption
  <2>2. UNCHANGED <<disk, outbox, pc, conn, target>> /\ races \subseteq races'
    BY <1>3 DEF Register, handlers, Note
  <2>3. entry' \in {entry, Listed(i)}
    BY <1>3 DEF Register
  <2>4. Listed(i) = entry \/ (disk[i] /\ Listed(i).ss_id = i)
    <3>1. CASE entry = NoEntry
      BY <3>1 DEF Listed
    <3>2. CASE entry # NoEntry
      BY <3>2 DEF Listed, EntryInv, ShapeInv
    <3> QED
      BY <3>1, <3>2
  <2> QED
    BY <2>1, <2>2, <2>3, <2>4
    DEF EntryInv, ShapeInv, AnswersTrue, WaitsOnOwn, UndisturbedEntryHasFile, Undisturbed,
        NoEntry
<1>4. ASSUME NEW h \in Handlers, NEW i \in Ids, SendCommand(h, i) PROVE EntryInv'
  BY <1>4
  DEF SendCommand, Goto, files, EntryInv, ShapeInv, AnswersTrue, WaitsOnOwn,
      UndisturbedEntryHasFile, Undisturbed
<1>5. ASSUME NEW h \in Handlers, AwaitAnswer(h) PROVE EntryInv'
  <2>1. UNCHANGED <<disk, entry, outbox, target>> /\ races \subseteq races'
    BY <1>5 DEF AwaitAnswer, servers, files, Note
  <2>2. WaitsOnOwn'
    BY <1>5 DEF AwaitAnswer, Note, Goto, EntryInv, ShapeInv, WaitsOnOwn, Undisturbed
  <2> QED
    BY <1>5, <2>1, <2>2
    DEF AwaitAnswer, Goto, EntryInv, ShapeInv, AnswersTrue, UndisturbedEntryHasFile,
        Undisturbed
<1>6. ASSUME NEW h \in Handlers, NEW r \in Runs, Answered(h, r) PROVE EntryInv'
  <2>1. Undisturbed({"garbage", "misled"})' => disk[target[h]]
    BY <1>6 DEF Answered, EntryInv, AnswersTrue, WaitsOnOwn, Undisturbed
  <2>2. UNCHANGED <<disk, races>> /\ outbox' = [outbox EXCEPT ![r] = NoOne]
          /\ EndExchange(h, outbox[r] = "ok")
    BY <1>6 DEF Answered
  <2>3. outbox' = [q \in Runs |-> outbox'[q]]
          /\ \A q \in Runs : outbox'[q] \in {outbox[q], NoOne}
    BY <2>2 DEF EntryInv, ShapeInv
  <2> QED
    BY <2>1, <2>2, <2>3, ExchangeEnds
<1>7. ASSUME NEW h \in Handlers, Garbage(h) PROVE EntryInv'
  <2>1. PICK success \in BOOLEAN : EndExchange(h, success)
    BY <1>7 DEF Garbage
  <2>2. UNCHANGED <<disk, outbox>> /\ races \subseteq races'
          /\ ~Undisturbed({"garbage", "misled"})'
    BY <1>7 DEF Garbage, servers, Note, Undisturbed
  <2> QED
    BY <2>1, <2>2, ExchangeEnds DEF EntryInv, ShapeInv
<1>8. ASSUME NEW r \in Runs,
             \/ Start(r) \/ GoSilent(r) \/ RegisterFails(r) \/ Watch(r)
             \/ HeartbeatThread(r)
      PROVE  EntryInv'
  <2>1. UNCHANGED <<disk, entry, outbox, pc, conn, target>> /\ races \subseteq races'
    BY <1>8
    DEF Start, GoSilent, RegisterFails, Watch, CloseCmd, HeartbeatThread, Identify,
        IdentifyFails, Beat, LoseHeartbeat, MarkInactive, servers, files, handlers, Note
  <2> QED
    BY <2>1, OthersStay
<1>9. CASE Monitor \/ Tick
  BY <1>9, OthersStay DEF Monitor, Tick, servers, files, handlers, Note
<1>10. ASSUME NEW c \in Clients, Connect(c) PROVE EntryInv'
  BY <1>10, OthersStay DEF Connect, servers, files, handlers
<1>11. CASE UNCHANGED vars
  BY <1>11, OthersStay DEF vars, servers, files, handlers
<1> QED
  BY <1>1, <1>2, <1>3, <1>4, <1>5, <1>6, <1>7, <1>8, <1>9, <1>10, <1>11
  DEF Next, ServerStep, CommandThread, HandlerStep, Dead

\* A file with an entry is on its server's disk, unless a handler took a status that no
\* server sent, or the word of another server: for any number of servers, of their runs,
\* of handlers and sockets.
THEOREM EntriesHaveFiles == Spec => []UndisturbedEntryHasFile
<1>1. EntryInv => UndisturbedEntryHasFile
  BY DEF EntryInv
<1> QED
  BY <1>1, InitEntryInv, NextEntryInv, PTL DEF Spec

-----------------------------------------------------------------------------
(* Types *)

Places == [known : BOOLEAN, run : Runs \cup {NoOne}, sock : Fds \cup {NoFd},
           hb_sock : Fds \cup {NoFd}, active : BOOLEAN, idle : 0 .. Grace + 1]

\* A server that is active is known, a known one has a run and a socket number, and a
\* handler has sent its command to a known one.
KnownTyped ==
    /\ \A i \in Ids : ss_list[i].active => ss_list[i].known
    /\ \A i \in Known : ss_list[i].run \in Runs /\ ss_list[i].sock \in Fds
    /\ \A h \in Handlers : pc[h] # "idle" => ss_list[target[h]].known

TypeInv == TypeOK /\ KnownTyped

\* accept gives out a number that is free.
LEMMA LeastElement ==
  ASSUME NEW T, T \subseteq Nat, T # {}
  PROVE  Min(T) \in T
<1> DEFINE R == OpToRel(<, Nat)
<1>1. IsWellFoundedOn(R, Nat)
  BY Zenon, NatLessThanWellFounded
<1>2. \A y, x \in Nat : y < x => <<y, x>> \in R
  BY Zenon DEF OpToRel
<1> HIDE DEF R
<1>3. PICK x \in T : \A y \in T : ~(<<y, x>> \in R)
  BY <1>1, WFMin
<1>4. ASSUME NEW y \in T PROVE x <= y
  <2>1. x \in Nat /\ y \in Nat
    BY <1>3
  <2>2. ~(y < x)
    BY <1>2, <1>3, <2>1
  <2> QED
    BY <2>1, <2>2
<1> QED
  BY <1>3, <1>4 DEF Min

LEMMA LowestFree ==
  ASSUME Free # {}
  PROVE  Lowest \in Fds /\ fds[Lowest] = NoConn
  BY LeastElement, FdsAssumption DEF Lowest, Free

LEMMA LowestTwo ==
  ASSUME \E m, n \in Free : m # n
  PROVE  /\ Lowest \in Fds /\ fds[Lowest] = NoConn
         /\ Lowest2 \in Fds /\ fds[Lowest2] = NoConn /\ Lowest2 # Lowest
<1>1. Free \ {Lowest} # {} /\ Free \ {Lowest} \subseteq Nat /\ Free # {}
  <2>1. Free \subseteq Nat
    BY FdsAssumption DEF Free
  <2>2. PICK m \in Free, n \in Free : m # n
    OBVIOUS
  <2>3. m \in Free \ {Lowest} \/ n \in Free \ {Lowest}
    BY <2>2
  <2> QED
    BY <2>1, <2>3
<1>2. Lowest2 \in Free \ {Lowest}
  BY <1>1, LeastElement DEF Lowest2
<1> QED
  BY <1>1, <1>2, LowestFree DEF Free

LEMMA InitTypeInv == Init => TypeInv
<1> SUFFICES ASSUME Init PROVE TypeInv
  OBVIOUS
<1>1. TypeOK
  BY TimesAssumption DEF Init, TypeOK
<1>2. KnownTyped
  BY DEF Init, KnownTyped, Known
<1> QED
  BY <1>1, <1>2 DEF TypeInv

\* What the steps do to a server's place in the registry keeps its type.
LEMMA PlaceTyped ==
  ASSUME NEW p \in Places
  PROVE  /\ [p EXCEPT !.idle = 0] \in Places
         /\ \A n \in Fds \cup {NoFd} : [p EXCEPT !.hb_sock = n] \in Places
         /\ [p EXCEPT !.hb_sock = NoFd, !.active = FALSE] \in Places
         /\ [p EXCEPT !.active = FALSE, !.hb_sock = NoFd] \in Places
         /\ (p.active => p.idle <= Grace)
                => [p EXCEPT !.idle = IF p.active THEN @ + 1 ELSE @] \in Places
<1>1. Grace \in Nat
  BY TimesAssumption
<1>2. [p EXCEPT !.idle = 0] \in Places
  BY <1>1 DEF Places
<1>3. \A n \in Fds \cup {NoFd} : [p EXCEPT !.hb_sock = n] \in Places
  BY DEF Places
<1>4. [p EXCEPT !.hb_sock = NoFd, !.active = FALSE] \in Places
  BY DEF Places
<1>5. [p EXCEPT !.active = FALSE, !.hb_sock = NoFd] \in Places
  BY DEF Places
<1>6. (p.active => p.idle <= Grace)
          => [p EXCEPT !.idle = IF p.active THEN @ + 1 ELSE @] \in Places
  BY <1>1 DEF Places
<1> QED
  BY <1>2, <1>3, <1>4, <1>5, <1>6

\* A step that changes no place in the registry and no exchange, and whose socket numbers
\* are of their type.
LEMMA PlacesStay ==
  ASSUME KnownTyped, UNCHANGED <<ss_list, pc, target>>
  PROVE  KnownTyped'
  BY DEF KnownTyped, Known

\* Nor does one that leaves a place its run and its socket, and makes no place active.
LEMMA PlacesKept ==
  ASSUME KnownTyped, UNCHANGED <<pc, target>>,
         \A i \in Ids : /\ ss_list'[i].known = ss_list[i].known /\ ss_list'[i].run = ss_list[i].run
                        /\ ss_list'[i].sock = ss_list[i].sock
                        /\ ss_list'[i].active => ss_list[i].active,
         target \in [Handlers -> Ids]
  PROVE  KnownTyped'
<1>1. Known' = Known
  BY DEF Known
<1>2. \A i \in Known : i \in Ids
  BY DEF Known
<1>3. \A i \in Ids : ss_list'[i].active => ss_list'[i].known
  BY DEF KnownTyped
<1>4. \A i \in Known' : ss_list'[i].run \in Runs /\ ss_list'[i].sock \in Fds
  BY <1>1, <1>2 DEF KnownTyped
<1>5. \A h \in Handlers : pc[h] # "idle" => ss_list'[target[h]].known
  BY DEF KnownTyped
<1> QED
  BY <1>3, <1>4, <1>5 DEF KnownTyped

LEMMA ServerTypes ==
  ASSUME TypeInv, NEW r \in Runs, ServerStep(r)
  PROVE  TypeInv'
<1>ok. IdOf[r] \in Ids
  BY RunsAssumption
<1>1. CASE Start(r)
  <2>1. Lowest \in Fds /\ Lowest2 \in Fds
    BY <1>1, LowestTwo DEF Start
  <2>2. Cmd(r) \in Conns /\ Hb(r) \in Conns
    BY DEF Cmd, Hb, Conns
  <2>3. fds' \in [Fds -> Conns \cup {NoConn}]
    BY <1>1, <2>1, <2>2 DEF Start, TypeInv, TypeOK
  <2>4. TypeOK'
    <3>1. /\ srv' = [srv EXCEPT ![r] = "registered"]
          /\ cmd' = [cmd EXCEPT ![r] = "reg"] /\ cmdFd' = [cmdFd EXCEPT ![r] = Lowest]
          /\ hb' = [hb EXCEPT ![r] = "ident"] /\ hbFd' = [hbFd EXCEPT ![r] = Lowest2]
      BY <1>1 DEF Start
    <3>2. UNCHANGED <<inbox, outbox, quiet, disk, entry, ss_list, clientFd, ss_sock_mutexes,
                      pc, target, conn, races>>
      BY <1>1 DEF Start, files, handlers
    <3> QED
      BY <2>1, <2>3, <3>1, <3>2 DEF TypeInv, TypeOK
  <2> QED
    BY <1>1, <2>4, PlacesStay DEF Start, TypeInv, handlers
<1>2. CASE ServeCommand(r) \/ GoSilent(r) \/ Stop(r, "gone") \/ Stop(r, "lost")
  <2>1. TypeOK'
    <3>1. UNCHANGED <<entry, fds, ss_list, cmd, cmdFd, hb, hbFd, clientFd, ss_sock_mutexes,
                      pc, target, conn, races>>
      BY <1>2 DEF ServeCommand, GoSilent, Stop, files, threads, handlers
    <3>2. /\ srv' \in [Runs -> {"off", "registered", "beating", "silent"} \cup Dead]
          /\ disk' \in [Ids -> BOOLEAN]
      <4>1. CASE ServeCommand(r)
        BY <1>ok, <4>1 DEF ServeCommand, TypeInv, TypeOK
      <4>2. CASE GoSilent(r)
        BY <4>2 DEF GoSilent, files, TypeInv, TypeOK
      <4>3. CASE Stop(r, "gone") \/ Stop(r, "lost")
        BY <4>3 DEF Stop, files, Dead, TypeInv, TypeOK
      <4> QED
        BY <1>2, <4>1, <4>2, <4>3
    <3>3. inbox' \in [Runs -> Handlers \cup {NoOne}] /\ outbox' \in [Runs -> {"ok", "exists", NoOne}]
      BY <1>2 DEF ServeCommand, GoSilent, Stop, TypeInv, TypeOK
    <3>4. quiet' \in [Runs -> 0 .. Grace]
      BY <1>2, TimesAssumption DEF ServeCommand, GoSilent, Stop, TypeInv, TypeOK
    <3> QED
      BY <3>1, <3>2, <3>3, <3>4 DEF TypeInv, TypeOK
  <2> QED
    BY <1>2, <2>1, PlacesStay DEF ServeCommand, GoSilent, Stop, TypeInv, handlers
<1> QED
  BY <1>1, <1>2 DEF ServerStep

LEMMA CommandThreadTypes ==
  ASSUME TypeInv, NEW r \in Runs, CommandThread(r)
  PROVE  TypeInv'
<1>ok. IdOf[r] \in Ids /\ \A ns : Closed(ns) \in [Fds -> Conns \cup {NoConn}]
  BY RunsAssumption DEF TypeInv, TypeOK, Closed
<1>1. CASE CloseCmd(r)
  <2>1. races' \subseteq {"late", "foreign", "delay", "switched", "misled", "garbage"}
    BY <1>1 DEF CloseCmd, Note, Strays, TypeInv, TypeOK
  <2>2. fds' \in [Fds -> Conns \cup {NoConn}]
    BY <1>1, <1>ok DEF CloseCmd
  <2>3. TypeOK'
    BY <1>1, <2>1, <2>2 DEF CloseCmd, TypeInv, TypeOK, servers, files, handlers
  <2> QED
    BY <1>1, <2>3, PlacesStay DEF CloseCmd, TypeInv, handlers
<1>2. CASE Register(r) /\ HasPlace(IdOf[r])
  <2> DEFINE i == IdOf[r]
  <2>1. races' \subseteq {"late", "foreign", "delay", "switched", "misled", "garbage"}
    BY <1>2 DEF Register, Note, Strays, TypeInv, TypeOK
  <2>2. fds' \in [Fds -> Conns \cup {NoConn}]
    BY <1>2, <1>ok DEF Register
  <2>3. entry' \in [owner : Handlers \cup {"system"}, ss_id : Ids] \cup {NoEntry}
    <3>1. entry' = Listed(i)
      BY <1>2 DEF Register
    <3>2. CASE entry = NoEntry
      BY <1>ok, <3>1, <3>2 DEF Listed, TypeInv, TypeOK
    <3>3. CASE entry \in [owner : Handlers \cup {"system"}, ss_id : Ids]
      BY <1>ok, <3>1, <3>3 DEF Listed, TypeInv, TypeOK
    <3> QED
      BY <3>2, <3>3 DEF TypeInv, TypeOK
  <2>4. cmdFd[r] \in Fds
    BY <1>2 DEF Register, Own, TypeInv, TypeOK
  <2>5. /\ ss_list' = [ss_list EXCEPT ![i] = Registered(r)]
        /\ Registered(r) \in Places
    BY <1>2, <2>4, TimesAssumption DEF Register, Registered, Places
  <2>6. ss_list' \in [Ids -> Places]
    BY <2>5 DEF TypeInv, TypeOK, Places
  <2>7. TypeOK'
    <3>1. /\ cmd' = [cmd EXCEPT ![r] = "watch"] /\ quiet' = [quiet EXCEPT ![r] = 0]
          /\ UNCHANGED <<srv, inbox, outbox, disk, cmdFd, hb, hbFd, clientFd, ss_sock_mutexes,
                         pc, target, conn>>
      BY <1>2 DEF Register, handlers
    <3> QED
      BY <2>1, <2>2, <2>3, <2>6, <3>1, TimesAssumption DEF TypeInv, TypeOK, Places
  <2>8. /\ \A j \in Ids \ {i} : ss_list'[j] = ss_list[j]
        /\ ss_list'[i] = Registered(r)
    BY <1>ok, <2>5 DEF TypeInv, TypeOK
  <2>9. /\ Registered(r).known /\ Registered(r).run \in Runs /\ Registered(r).sock \in Fds
    BY <2>4 DEF Registered
  <2>10. KnownTyped'
    <3>1. UNCHANGED handlers
      BY <1>2 DEF Register
    <3>2. \A j \in Ids : ss_list'[j].active => ss_list'[j].known
      BY <2>8, <2>9 DEF TypeInv, KnownTyped
    <3>3. \A j \in Ids : ss_list'[j].known => ss_list'[j].run \in Runs /\ ss_list'[j].sock \in Fds
      BY <2>8, <2>9 DEF TypeInv, KnownTyped, Known, Registered
    <3>4. \A h \in Handlers : pc'[h] # "idle" => ss_list'[target'[h]].known
      <4> TAKE h \in Handlers
      <4>1. pc'[h] = pc[h] /\ target'[h] = target[h] /\ target[h] \in Ids
        BY <3>1 DEF handlers, TypeInv, TypeOK
      <4>2. pc[h] # "idle" => ss_list[target[h]].known
        BY DEF TypeInv, KnownTyped
      <4> QED
        BY <2>8, <2>9, <4>1, <4>2
    <3> QED
      BY <3>2, <3>3, <3>4 DEF KnownTyped, Known
  <2> QED
    BY <2>7, <2>10 DEF TypeInv
<1>3. CASE Register(r) /\ ~HasPlace(IdOf[r])
  <2>1. /\ UNCHANGED <<srv, inbox, outbox, disk, hb, hbFd, clientFd, handlers, ss_list, entry, quiet, races>>
        /\ cmd' = [cmd EXCEPT ![r] = "ended"] /\ cmdFd' = [cmdFd EXCEPT ![r] = NoFd]
        /\ fds' \in [Fds -> Conns \cup {NoConn}]
    BY <1>3, <1>ok DEF Register
  <2>2. TypeOK'
    BY <2>1 DEF TypeInv, TypeOK, handlers
  <2> QED
    BY <2>1, <2>2, PlacesStay DEF TypeInv, handlers
<1> QED
  BY <1>1, <1>2, <1>3 DEF CommandThread, RegisterFails, Watch

LEMMA HeartbeatThreadTypes ==
  ASSUME TypeInv, NEW r \in Runs, HeartbeatThread(r)
  PROVE  TypeInv'
<1> DEFINE i == IdOf[r]
<1>1. /\ i \in Ids /\ \A ns : Closed(ns) \in [Fds -> Conns \cup {NoConn}]
      /\ \A j \in Ids : ss_list[j] \in Places
      /\ ss_list \in [Ids -> Places] /\ target \in [Handlers -> Ids]
      /\ hbFd \in [Runs -> Fds \cup {NoFd}]
  BY RunsAssumption DEF TypeInv, TypeOK, Closed, Places
<1>2. UNCHANGED <<inbox, outbox, disk, entry, cmd, cmdFd, clientFd, ss_sock_mutexes, pc, target, conn>>
  BY DEF HeartbeatThread, Identify, IdentifyFails, Beat, LoseHeartbeat, MarkInactive,
     servers, files, handlers
<1>3. srv' \in [Runs -> {"off", "registered", "beating", "silent"} \cup Dead]
  BY DEF HeartbeatThread, Identify, IdentifyFails, Beat, LoseHeartbeat, MarkInactive, servers,
     TypeInv, TypeOK
<1>4. hb' \in [Runs -> {"none", "ident", "beat", "astray", "lost", "ended"}]
  BY DEF HeartbeatThread, Identify, IdentifyFails, Beat, LoseHeartbeat, MarkInactive, TypeInv, TypeOK
<1>5. hbFd' \in [Runs -> Fds \cup {NoFd}]
  BY DEF HeartbeatThread, Identify, IdentifyFails, Beat, LoseHeartbeat, MarkInactive, TypeInv, TypeOK
<1>6. fds' \in [Fds -> Conns \cup {NoConn}]
  BY <1>1 DEF HeartbeatThread, Identify, IdentifyFails, Beat, LoseHeartbeat, MarkInactive, TypeInv, TypeOK
<1>7. quiet' \in [Runs -> 0 .. Grace]
  <2>1. quiet' = quiet \/ quiet' = [quiet EXCEPT ![r] = 0]
    BY DEF HeartbeatThread, Identify, IdentifyFails, Beat, LoseHeartbeat, MarkInactive, servers
  <2>2. quiet \in [Runs -> 0 .. Grace] /\ 0 \in 0 .. Grace
    BY TimesAssumption DEF TypeInv, TypeOK
  <2> QED
    BY <2>1, <2>2
<1>8. races' \subseteq {"late", "foreign", "delay", "switched", "misled", "garbage"}
  BY DEF HeartbeatThread, Identify, IdentifyFails, Beat, LoseHeartbeat, MarkInactive, Note, Strays,
     TypeInv, TypeOK
\* A heart beat, HB_INIT or the loss of the connection changes the place of the run's server.
<1>9. PICK p \in Places : /\ ss_list' = ss_list \/ ss_list' = [ss_list EXCEPT ![i] = p]
                          /\ p.known = ss_list[i].known /\ p.run = ss_list[i].run
                          /\ p.sock = ss_list[i].sock
                          /\ p.active => ss_list[i].active
  <2>1. CASE Identify(r) /\ ss_list[i].known
    <3> DEFINE q == [ss_list[i] EXCEPT !.idle = 0]
               p == [q EXCEPT !.hb_sock = hbFd[r]]
    <3>1. q \in Places
      BY <1>1, PlaceTyped, Zenon
    <3>2. hbFd[r] \in Fds \cup {NoFd}
      BY <1>1
    <3>3. p \in Places
      BY <3>1, <3>2, PlaceTyped, Zenon
    <3>4. ss_list' = [ss_list EXCEPT ![i] = p]
      BY <2>1 DEF Identify, Heard
    <3>5. p.known = ss_list[i].known /\ p.run = ss_list[i].run /\ p.sock = ss_list[i].sock
          /\ p.active = ss_list[i].active
      BY <1>1 DEF Places
    <3> HIDE DEF p
    <3> QED
      BY <3>3, <3>4, <3>5
  <2>2. CASE Beat(r) /\ Own(hbFd[r], Hb(r)) /\ ss_list[i].known
    <3> DEFINE p == [ss_list[i] EXCEPT !.idle = 0]
    <3>1. p \in Places
      BY <1>1, PlaceTyped, Zenon
    <3>2. ss_list' = [ss_list EXCEPT ![i] = p]
      BY <2>2 DEF Beat, Heard
    <3>3. p.known = ss_list[i].known /\ p.run = ss_list[i].run /\ p.sock = ss_list[i].sock
          /\ p.active = ss_list[i].active
      BY <1>1 DEF Places
    <3> HIDE DEF p
    <3> QED
      BY <3>1, <3>2, <3>3
  <2>3. CASE MarkInactive(r) /\ ss_list[i].known
    <3> DEFINE p == [ss_list[i] EXCEPT !.hb_sock = NoFd, !.active = FALSE]
    <3>1. p \in Places
      BY <1>1, PlaceTyped, Zenon
    <3>2. ss_list' = [ss_list EXCEPT ![i] = p]
      BY <1>1, <2>3 DEF MarkInactive
    <3>3. p.known = ss_list[i].known /\ p.run = ss_list[i].run /\ p.sock = ss_list[i].sock
          /\ ~p.active
      BY <1>1 DEF Places
    <3> HIDE DEF p
    <3> QED
      BY <3>1, <3>2, <3>3
  <2>4. CASE ss_list' = ss_list
    BY <1>1, <2>4
  <2> QED
    BY <2>1, <2>2, <2>3, <2>4
    DEF HeartbeatThread, Identify, IdentifyFails, Beat, LoseHeartbeat, MarkInactive
<1>10. ss_list' \in [Ids -> Places]
  BY <1>1, <1>9
<1>11. TypeOK'
  BY <1>2, <1>3, <1>4, <1>5, <1>6, <1>7, <1>8, <1>10 DEF TypeInv, TypeOK, Places
<1>12. KnownTyped'
  BY <1>1, <1>2, <1>9, PlacesKept DEF TypeInv
<1> QED
  BY <1>11, <1>12 DEF TypeInv

LEMMA MonitorTypes ==
  ASSUME TypeInv, Monitor \/ Tick
  PROVE  TypeInv'
<1>1. /\ \A ns : Closed(ns) \in [Fds -> Conns \cup {NoConn}]
      /\ \A j \in Ids : ss_list[j] \in Places
      /\ ss_list \in [Ids -> Places] /\ target \in [Handlers -> Ids]
  BY DEF TypeInv, TypeOK, Closed, Places
<1>2. UNCHANGED <<srv, inbox, outbox, disk, entry, cmd, cmdFd, hb, hbFd, clientFd, ss_sock_mutexes,
                  pc, target, conn>>
  BY DEF Monitor, Tick, servers, files, threads, handlers
<1>3. fds' \in [Fds -> Conns \cup {NoConn}]
  <2>1. CASE Monitor
    <3>1. fds' = Closed({ss_list[i].hb_sock : i \in Overdue})
      BY <2>1 DEF Monitor
    <3> QED
      BY <1>1, <3>1, Zenon
  <2>2. CASE Tick
    BY <2>2 DEF Tick, TypeInv, TypeOK
  <2> QED
    BY <2>1, <2>2
<1>4. quiet' \in [Runs -> 0 .. Grace]
  <2>1. CASE Monitor
    BY <2>1 DEF Monitor, servers, TypeInv, TypeOK
  <2>2. CASE Tick
    <3>1. quiet \in [Runs -> 0 .. Grace] /\ Grace \in Nat \ {0}
      BY TimesAssumption DEF TypeInv, TypeOK
    <3>2. quiet' = [r \in Runs |-> IF ~Serves(r) THEN 0
                                  ELSE IF quiet[r] < Grace THEN quiet[r] + 1 ELSE Grace]
      BY <2>2 DEF Tick
    <3> QED
      BY <3>1, <3>2
  <2> QED
    BY <2>1, <2>2
<1>5. races' \subseteq {"late", "foreign", "delay", "switched", "misled", "garbage"}
  BY DEF Monitor, Tick, Note, Strays, TypeInv, TypeOK
<1>6. /\ ss_list' \in [Ids -> Places]
      /\ \A i \in Ids : /\ ss_list'[i].known = ss_list[i].known /\ ss_list'[i].run = ss_list[i].run
                        /\ ss_list'[i].sock = ss_list[i].sock
                        /\ ss_list'[i].active => ss_list[i].active
  <2>1. CASE Monitor
    <3> DEFINE f == [i \in Ids |-> IF i \in Overdue
                                   THEN [ss_list[i] EXCEPT !.active = FALSE, !.hb_sock = NoFd]
                                   ELSE ss_list[i]]
    <3>1. ASSUME NEW i \in Ids
          PROVE  /\ f[i] \in Places /\ f[i].known = ss_list[i].known
                 /\ f[i].run = ss_list[i].run /\ f[i].sock = ss_list[i].sock
                 /\ f[i].active => ss_list[i].active
      <4>1. [ss_list[i] EXCEPT !.active = FALSE, !.hb_sock = NoFd] \in Places
        BY <1>1, PlaceTyped, Zenon
      <4>2. /\ [ss_list[i] EXCEPT !.active = FALSE, !.hb_sock = NoFd].known = ss_list[i].known
            /\ [ss_list[i] EXCEPT !.active = FALSE, !.hb_sock = NoFd].run = ss_list[i].run
            /\ [ss_list[i] EXCEPT !.active = FALSE, !.hb_sock = NoFd].sock = ss_list[i].sock
            /\ ~[ss_list[i] EXCEPT !.active = FALSE, !.hb_sock = NoFd].active
        BY <1>1 DEF Places
      <4>3. CASE i \in Overdue
        BY <4>1, <4>2, <4>3
      <4>4. CASE i \notin Overdue
        BY <1>1, <4>4
      <4> QED
        BY <4>3, <4>4
    <3>2. ss_list' = f /\ f = [i \in Ids |-> f[i]]
      BY <2>1 DEF Monitor
    <3> HIDE DEF f
    <3> QED
      BY <3>1, <3>2
  <2>2. CASE Tick
    <3>1. ASSUME NEW i \in Ids
          PROVE  LET p == [ss_list[i] EXCEPT !.idle = IF ss_list[i].active THEN @ + 1 ELSE @] IN
                 /\ p \in Places /\ p.known = ss_list[i].known /\ p.run = ss_list[i].run
                 /\ p.sock = ss_list[i].sock /\ p.active = ss_list[i].active
      <4>1. ss_list[i].active => ss_list[i].idle <= Grace
        BY <1>1, <2>2, TimesAssumption
        DEF Tick, Overdue, Allowance, Known, TypeInv, KnownTyped, Places
      <4>2. ss_list[i] \in Places
        BY <1>1
      <4>3. [ss_list[i] EXCEPT !.idle = IF ss_list[i].active THEN @ + 1 ELSE @] \in Places
        BY <4>1, <4>2, PlaceTyped
      <4> QED
        BY <4>2, <4>3 DEF Places
    <3> QED
      BY <2>2, <3>1 DEF Tick
  <2> QED
    BY <2>1, <2>2
<1>7. TypeOK'
  BY <1>2, <1>3, <1>4, <1>5, <1>6 DEF TypeInv, TypeOK, Places
<1>8. KnownTyped'
  BY <1>1, <1>2, <1>6, PlacesKept DEF TypeInv
<1> QED
  BY <1>7, <1>8 DEF TypeInv

LEMMA ClientTypes ==
  ASSUME TypeInv, NEW c \in Clients, Connect(c)
  PROVE  TypeInv'
<1>1. Lowest \in Fds
  BY LowestFree DEF Connect
<1>2. <<c, "client">> \in Conns
  BY DEF Conns
<1>3. /\ clientFd' = [clientFd EXCEPT ![c] = Lowest] /\ fds' = [fds EXCEPT ![Lowest] = <<c, "client">>]
      /\ UNCHANGED <<srv, inbox, outbox, quiet, disk, entry, ss_list, cmd, cmdFd, hb, hbFd,
                     ss_sock_mutexes, pc, target, conn, races>>
  BY DEF Connect, servers, files, handlers
<1>4. TypeOK'
  BY <1>1, <1>2, <1>3 DEF TypeInv, TypeOK
<1> QED
  BY <1>3, <1>4, PlacesStay DEF TypeInv

LEMMA HandlerTypes ==
  ASSUME TypeInv, NEW h \in Handlers, HandlerStep(h) \/ \E i \in Ids : SendCommand(h, i)
  PROVE  TypeInv'
<1>1. CASE \E i \in Ids : SendCommand(h, i)
  <2> PICK i \in Ids : SendCommand(h, i)
    BY <1>1
  <2>1. fds[ss_list[i].sock] \in Conns \cup {NoConn}
    BY DEF SendCommand, TypeInv, TypeOK, KnownTyped, Known
  <2>2. /\ ss_sock_mutexes' = [ss_sock_mutexes EXCEPT ![i] = h] /\ target' = [target EXCEPT ![h] = i]
        /\ conn' = [conn EXCEPT ![h] = fds[ss_list[i].sock]] /\ pc' = [pc EXCEPT ![h] = "recv"]
        /\ inbox' \in [Runs -> Handlers \cup {NoOne}]
        /\ UNCHANGED <<srv, outbox, quiet, disk, entry, fds, ss_list, cmd, cmdFd, hb, hbFd, clientFd, races>>
        /\ ss_list[i].known
    BY DEF SendCommand, Goto, files, threads, TypeInv, TypeOK
  <2>3. TypeOK'
    BY <2>1, <2>2 DEF TypeInv, TypeOK
  <2>4. KnownTyped'
    BY <2>2 DEF TypeInv, TypeOK, KnownTyped, Known
  <2> QED
    BY <2>3, <2>4 DEF TypeInv
<1>2. CASE AwaitAnswer(h)
  <2>1. fds[ss_list[target[h]].sock] \in Conns \cup {NoConn}
    <3>1. target[h] \in Known
      BY <1>2 DEF AwaitAnswer, TypeInv, TypeOK, KnownTyped, Known
    <3> QED
      BY <3>1 DEF TypeInv, TypeOK, KnownTyped, Known
  <2>2. /\ conn' = [conn EXCEPT ![h] = fds[ss_list[target[h]].sock]] /\ pc' = [pc EXCEPT ![h] = "wait"]
        /\ UNCHANGED <<srv, inbox, outbox, quiet, disk, entry, fds, ss_list, cmd, cmdFd, hb, hbFd,
                       clientFd, ss_sock_mutexes, target>>
        /\ pc[h] = "recv"
    BY <1>2 DEF AwaitAnswer, Goto, servers, files, threads
  <2>3. races' \subseteq {"late", "foreign", "delay", "switched", "misled", "garbage"}
    BY <1>2 DEF AwaitAnswer, Note, TypeInv, TypeOK
  <2>4. TypeOK'
    BY <2>1, <2>2, <2>3 DEF TypeInv, TypeOK
  <2>5. KnownTyped'
    BY <2>2 DEF TypeInv, TypeOK, KnownTyped, Known
  <2> QED
    BY <2>4, <2>5 DEF TypeInv
<1>3. CASE Garbage(h) \/ \E r \in Runs : Answered(h, r)
  <2>1. PICK success \in BOOLEAN : EndExchange(h, success)
    BY <1>3 DEF Garbage, Answered
  <2>2. /\ UNCHANGED <<srv, inbox, quiet, disk, fds, ss_list, cmd, cmdFd, hb, hbFd, clientFd>>
        /\ outbox' \in [Runs -> {"ok", "exists", NoOne}]
        /\ races' \subseteq {"late", "foreign", "delay", "switched", "misled", "garbage"}
    BY <1>3 DEF Garbage, Answered, servers, threads, Note, TypeInv, TypeOK
  <2>3. /\ ss_sock_mutexes' = [ss_sock_mutexes EXCEPT ![target[h]] = NoOne]
        /\ conn' = [conn EXCEPT ![h] = NoConn]
        /\ pc' = [pc EXCEPT ![h] = "idle"] /\ UNCHANGED target
    BY <2>1 DEF EndExchange, Goto
  <2>4. entry' \in [owner : Handlers \cup {"system"}, ss_id : Ids] \cup {NoEntry}
    BY <2>1 DEF EndExchange, TypeInv, TypeOK
  <2>5. TypeOK'
    BY <2>2, <2>3, <2>4 DEF TypeInv, TypeOK
  <2>6. KnownTyped'
    BY <2>2, <2>3 DEF TypeInv, TypeOK, KnownTyped, Known
  <2> QED
    BY <2>5, <2>6 DEF TypeInv
<1> QED
  BY <1>1, <1>2, <1>3 DEF HandlerStep

LEMMA NextTypeInv == TypeInv /\ [Next]_vars => TypeInv'
<1> SUFFICES ASSUME TypeInv, [Next]_vars PROVE TypeInv'
  OBVIOUS
<1>1. CASE UNCHANGED vars
  BY <1>1 DEF vars, servers, files, threads, handlers, TypeInv, TypeOK, KnownTyped, Known
<1> QED
  BY <1>1, ServerTypes, CommandThreadTypes, HeartbeatThreadTypes, MonitorTypes, ClientTypes,
     HandlerTypes DEF Next

\* Every variable keeps to its type, and no server is silent for longer than the monitor
\* allows.
THEOREM Types == Spec => []TypeOK
<1>1. TypeInv => TypeOK
  BY DEF TypeInv
<1> QED
  BY <1>1, InitTypeInv, NextTypeInv, PTL DEF Spec

-----------------------------------------------------------------------------
(***************************************************************************)
(* The latest run of a server can be reached as long as it serves. While no *)
(* close hits another connection than the one it was meant for, the run     *)
(* keeps its two numbers: only a later run of the server gives them up. And *)
(* the monitor counts no more periods than the server has been silent for.  *)
(***************************************************************************)

\* The thread of a run that has not been started waits for nothing; the latest run of a
\* known server is one of its runs, and has registered.
RunsInv ==
    /\ \A r \in Runs : srv[r] = "off" => cmd[r] = "none" /\ hb[r] = "none"
    /\ \A i \in Known : /\ Latest(i) \in Runs /\ IdOf[Latest(i)] = i
                        /\ srv[Latest(i)] # "off" /\ cmd[Latest(i)] \in {"watch", "ended"}

\* What a run keeps that serves and has not been disturbed.
Kept(r) ==
    LET i == IdOf[r] IN
    /\ ss_list[i].active /\ Own(ss_list[i].sock, Cmd(r))
    /\ ss_list[i].idle <= quiet[r] /\ quiet[r] < Grace
    /\ hb[r] \in {"ident", "beat", "ended"}
    /\ hb[r] = "beat" => Own(hbFd[r], Hb(r))

KeptInv ==
    Undisturbed({"late", "foreign", "delay"}) =>
        \A i \in Known : Serves(Latest(i)) => Kept(Latest(i))

ReachInv == TypeInv /\ RunsInv /\ KeptInv

\* What a run may be disturbed by.
Watched == {"late", "foreign", "delay"}

LEMMA Connections ==
  \A q, r \in Runs : /\ Cmd(q) # NoConn /\ Hb(q) # NoConn /\ Cmd(q) # Hb(r)
                     /\ q # r => Cmd(q) # Cmd(r) /\ Hb(q) # Hb(r)
  BY NamesAssumption DEF Cmd, Hb

\* A close that hits no foreign connection spares those it is not meant for.
LEMMA Spared ==
  ASSUME NEW ns, NEW meant, fds' = Closed(ns), "foreign" \notin Strays(ns, meant),
         NEW n \in Fds, fds[n] \notin meant \cup {NoConn}
  PROVE  fds'[n] = fds[n]
  BY DEF Closed, Strays

\* The state of a known server whose latest run serves.
LEMMA KeptBefore ==
  ASSUME ReachInv, races \subseteq races', (races \cap Watched)' = {},
         NEW i \in Ids, ss_list[i].known, Serves(ss_list[i].run)
  PROVE  LET r == ss_list[i].run IN
         /\ r \in Runs /\ IdOf[r] = i /\ srv[r] # "off" /\ cmd[r] \in {"watch", "ended"}
         /\ ss_list[i].active
         /\ ss_list[i].sock \in Fds /\ fds[ss_list[i].sock] = Cmd(r) /\ ss_list[i].sock # NoFd
         /\ ss_list[i].idle <= quiet[r] /\ quiet[r] < Grace
         /\ hb[r] \in {"ident", "beat", "ended"}
         /\ hb[r] = "beat" => hbFd[r] \in Fds /\ hbFd[r] # NoFd /\ fds[hbFd[r]] = Hb(r)
<1> DEFINE r == ss_list[i].run
<1>1. r \in Runs /\ IdOf[r] = i /\ srv[r] # "off" /\ cmd[r] \in {"watch", "ended"}
  BY DEF ReachInv, RunsInv, Known, Latest
<1>2. Undisturbed({"late", "foreign", "delay"})
  BY DEF Undisturbed, Watched
<1>3. Kept(r)
  BY <1>2 DEF ReachInv, KeptInv, Known, Latest
<1>4. ss_list[i].sock \in Fds \cup {NoFd} /\ hbFd[r] \in Fds \cup {NoFd}
  BY <1>1 DEF ReachInv, TypeInv, TypeOK
<1> QED
  BY <1>1, <1>3, <1>4 DEF Kept, Own

\* The latest run of a known server is kept by the step.
KeptAfter(i) ==
    LET r == ss_list'[i].run IN
    /\ ss_list'[i].active
    /\ ss_list'[i].sock # NoFd /\ fds'[ss_list'[i].sock] = Cmd(r)
    /\ ss_list'[i].idle <= quiet'[r] /\ quiet'[r] < Grace
    /\ hb'[r] \in {"ident", "beat", "ended"}
    /\ hb'[r] = "beat" => hbFd'[r] # NoFd /\ fds'[hbFd'[r]] = Hb(r)

\* A step that keeps the latest run of every known server, if that serves after it.
LEMMA StaysKept ==
  ASSUME RunsInv, RunsInv',
         \A i \in Ids :
             ss_list'[i].known /\ (races \cap Watched)' = {} /\ Serves(Latest(i))' =>
                 KeptAfter(i)
  PROVE  KeptInv'
<1> SUFFICES ASSUME (races \cap Watched)' = {}, NEW i \in Ids, ss_list'[i].known,
                    Serves(Latest(i))'
             PROVE  Kept(Latest(i))'
  BY DEF KeptInv, Known, Undisturbed, Watched
<1>1. IdOf[ss_list'[i].run] = i
  BY DEF RunsInv, Known, Latest
<1> QED
  BY <1>1 DEF Kept, KeptAfter, Own, Latest, Cmd, Hb

LEMMA ServerReach ==
  ASSUME ReachInv, NEW q \in Runs, ServerStep(q)
  PROVE  RunsInv' /\ KeptInv'
<1>1. UNCHANGED <<ss_list, races>>
  BY DEF ServerStep, Start, ServeCommand, GoSilent, Stop, threads, handlers, files
<1>2. RunsInv'
  <2>1. CASE Start(q)
    BY <1>1, <2>1 DEF Start, ReachInv, RunsInv, Known, Latest, TypeInv, TypeOK
  <2>2. CASE ~Start(q)
    <3>1. UNCHANGED <<cmd, hb>> /\ \A r \in Runs : srv'[r] = "off" <=> srv[r] = "off"
      BY <2>2 DEF ServerStep, ServeCommand, GoSilent, Stop, threads, servers, Serves, Dead,
         ReachInv, TypeInv, TypeOK
    <3> QED
      BY <1>1, <3>1 DEF ReachInv, RunsInv, Known, Latest
  <2> QED
    BY <2>1, <2>2
<1>3. ASSUME NEW i \in Ids, ss_list'[i].known, (races \cap Watched)' = {}, Serves(Latest(i))'
      PROVE  KeptAfter(i)
  <2> DEFINE r == ss_list[i].run
  <2>1. r \in Runs /\ srv[r] # "off" /\ ss_list[i].known
    BY <1>1, <1>3 DEF ReachInv, RunsInv, Known, Latest
  <2>2. Serves(r) /\ quiet'[r] = quiet[r]
    BY <1>1, <1>3, <2>1 DEF ServerStep, Start, ServeCommand, GoSilent, Stop, servers, Serves, Dead,
       Latest, ReachInv, TypeInv, TypeOK
  <2>3. /\ ss_list[i].active
        /\ ss_list[i].sock \in Fds /\ fds[ss_list[i].sock] = Cmd(r) /\ ss_list[i].sock # NoFd
        /\ ss_list[i].idle <= quiet[r] /\ quiet[r] < Grace
        /\ hb[r] \in {"ident", "beat", "ended"}
        /\ hb[r] = "beat" => hbFd[r] \in Fds /\ hbFd[r] # NoFd /\ fds[hbFd[r]] = Hb(r)
    BY <1>1, <1>3, <2>1, <2>2, KeptBefore
  <2>4. hb'[r] = hb[r] /\ hbFd'[r] = hbFd[r]
    BY <2>1 DEF ServerStep, Start, ServeCommand, GoSilent, Stop, threads, ReachInv, TypeInv, TypeOK
  <2>5. ASSUME NEW n \in Fds, fds[n] # NoConn PROVE fds'[n] = fds[n]
    BY <2>5, LowestTwo
    DEF ServerStep, Start, ServeCommand, GoSilent, Stop, ReachInv, TypeInv, TypeOK
  <2> QED
    BY <1>1, <2>1, <2>2, <2>3, <2>4, <2>5, Connections DEF KeptAfter
<1> QED
  BY <1>2, <1>3, StaysKept DEF ReachInv

LEMMA CommandThreadReach ==
  ASSUME ReachInv, NEW q \in Runs, CommandThread(q)
  PROVE  RunsInv' /\ KeptInv'
<1> DEFINE k == IdOf[q]
<1>ok. TypeInv /\ TypeInv' /\ k \in Ids
  BY CommandThreadTypes, RunsAssumption DEF ReachInv
<1>1. UNCHANGED <<srv, hb, hbFd>> /\ cmd[q] # "none" /\ races \subseteq races'
  BY DEF CommandThread, Register, RegisterFails, Watch, CloseCmd, servers, Note
<1>2. cmd' = [cmd EXCEPT ![q] = "watch"] \/ cmd' = [cmd EXCEPT ![q] = "ended"]
  BY DEF CommandThread, Register, RegisterFails, Watch, CloseCmd
\* Either the run takes its server's place, or the places stay.
<1>3. \/ Register(q) /\ HasPlace(k)
      \/ /\ UNCHANGED <<ss_list, quiet>>
         /\ fds' = Closed({cmdFd[q]})
         /\ "foreign" \notin races' => "foreign" \notin Strays({cmdFd[q]}, {Cmd(q)})
         /\ cmd[q] = "reg" \/ ~ss_list[k].active
  <2>1. CASE Register(q) /\ ~HasPlace(k)
    BY <2>1 DEF Register, Own, Strays
  <2>2. CASE RegisterFails(q) \/ Watch(q)
    BY <2>2 DEF RegisterFails, Watch, CloseCmd, Note, servers
  <2> QED
    BY <2>1, <2>2 DEF CommandThread
<1>4. CASE Register(q) /\ HasPlace(k)
  <2>1. /\ fds' = Closed(OldSocks(k)) /\ ss_list' = [ss_list EXCEPT ![k] = Registered(q)]
        /\ cmd' = [cmd EXCEPT ![q] = "watch"] /\ quiet' = [quiet EXCEPT ![q] = 0]
        /\ cmd[q] = "reg" /\ Own(cmdFd[q], Cmd(q))
        /\ (races \cap Watched)' = {} =>
               /\ "foreign" \notin Strays(OldSocks(k), OldConns(q) \cup {Hb(q)})
               /\ hb[q] = "ident" /\ srv[q] \notin Dead
    BY <1>4 DEF Register, Note, Watched
  <2>2. ASSUME NEW i \in Ids, i # k PROVE ss_list'[i] = ss_list[i]
    BY <2>1, <2>2, <1>ok DEF TypeInv, TypeOK
  <2>3. ss_list'[k] = Registered(q)
    BY <2>1, <1>ok DEF TypeInv, TypeOK
  <2>4. RunsInv'
    <3>1. \A r \in Runs : cmd'[r] = IF r = q THEN "watch" ELSE cmd[r]
      BY <2>1 DEF ReachInv, TypeInv, TypeOK
    <3>2. srv[q] # "off"
      BY <2>1 DEF ReachInv, RunsInv
    <3>3. ASSUME NEW i \in Ids, ss_list'[i].known
          PROVE  /\ ss_list'[i].run \in Runs /\ IdOf[ss_list'[i].run] = i
                 /\ srv[ss_list'[i].run] # "off" /\ cmd'[ss_list'[i].run] \in {"watch", "ended"}
      <4>1. CASE i = k
        BY <2>3, <3>1, <3>2, <4>1 DEF Registered
      <4>2. CASE i # k
        BY <2>2, <3>1, <3>3, <4>2 DEF ReachInv, RunsInv, Known, Latest
      <4> QED
        BY <4>1, <4>2
    <3> QED
      BY <1>1, <3>1, <3>2, <3>3 DEF ReachInv, RunsInv, Known, Latest
  <2>5. ASSUME NEW i \in Ids, ss_list'[i].known, (races \cap Watched)' = {}, Serves(Latest(i))'
        PROVE  KeptAfter(i)
    <3>1. CASE i = k
      <4>1. cmdFd[q] \in Fds /\ fds[cmdFd[q]] = Cmd(q) /\ cmdFd[q] # NoFd
        BY <2>1, <1>ok DEF Own, TypeInv, TypeOK
      <4>2. Cmd(q) \notin OldConns(q) \cup {Hb(q), NoConn}
        BY Connections DEF OldConns, Cmd
      <4>3. fds'[cmdFd[q]] = Cmd(q)
        BY <2>1, <2>5, <4>1, <4>2, Spared
      <4>4. quiet'[q] = 0 /\ 0 < Grace /\ Registered(q).idle = 0
        BY <2>1, <1>ok, TimesAssumption DEF TypeInv, TypeOK, Registered
      <4> QED
        BY <1>1, <2>1, <2>3, <2>5, <3>1, <4>1, <4>3, <4>4 DEF KeptAfter, Registered
    <3>2. CASE i # k
      <4> DEFINE r == ss_list[i].run
      <4>1. ss_list'[i] = ss_list[i] /\ Serves(r)
        BY <1>1, <2>2, <2>5, <3>2 DEF Serves, Latest
      <4>2. /\ r \in Runs /\ IdOf[r] = i
            /\ ss_list[i].active
            /\ ss_list[i].sock \in Fds /\ fds[ss_list[i].sock] = Cmd(r) /\ ss_list[i].sock # NoFd
            /\ ss_list[i].idle <= quiet[r] /\ quiet[r] < Grace
            /\ hb[r] \in {"ident", "beat", "ended"}
            /\ hb[r] = "beat" => hbFd[r] \in Fds /\ hbFd[r] # NoFd /\ fds[hbFd[r]] = Hb(r)
        BY <1>1, <2>5, <4>1, KeptBefore
      <4>3. r # q /\ {Cmd(r), Hb(r)} \cap (OldConns(q) \cup {Hb(q), NoConn}) = {}
        BY <3>2, <4>2, Connections DEF OldConns, Cmd, Hb
      <4>4. /\ fds'[ss_list[i].sock] = Cmd(r)
            /\ hb[r] = "beat" => fds'[hbFd[r]] = Hb(r)
        BY <2>1, <2>5, <4>2, <4>3, Spared
      <4>5. quiet'[r] = quiet[r]
        BY <2>1, <4>2, <4>3, <1>ok DEF TypeInv, TypeOK
      <4> QED
        BY <1>1, <4>1, <4>2, <4>4, <4>5 DEF KeptAfter
    <3> QED
      BY <3>1, <3>2
  <2> QED
    BY <2>4, <2>5, StaysKept DEF ReachInv
<1>5. CASE /\ UNCHANGED <<ss_list, quiet>>
           /\ fds' = Closed({cmdFd[q]})
           /\ "foreign" \notin races' => "foreign" \notin Strays({cmdFd[q]}, {Cmd(q)})
           /\ cmd[q] = "reg" \/ ~ss_list[k].active
  <2>1. RunsInv'
    <3>1. \A r \in Runs : cmd'[r] = IF r = q THEN cmd'[q] ELSE cmd[r]
      BY <1>2, <1>ok DEF TypeInv, TypeOK
    <3>2. srv[q] # "off" /\ cmd'[q] \in {"watch", "ended"}
      BY <1>1, <1>2, <1>ok DEF ReachInv, RunsInv, TypeInv, TypeOK
    <3> QED
      BY <1>1, <1>5, <3>1, <3>2 DEF ReachInv, RunsInv, Known, Latest
  <2>2. ASSUME NEW i \in Ids, ss_list'[i].known, (races \cap Watched)' = {}, Serves(Latest(i))'
        PROVE  KeptAfter(i)
    <3> DEFINE r == ss_list[i].run
    <3>1. ss_list'[i] = ss_list[i] /\ Serves(r)
      BY <1>1, <1>5, <2>2 DEF Serves, Latest
    <3>2. /\ r \in Runs /\ IdOf[r] = i /\ cmd[r] \in {"watch", "ended"}
          /\ ss_list[i].active
          /\ ss_list[i].sock \in Fds /\ fds[ss_list[i].sock] = Cmd(r) /\ ss_list[i].sock # NoFd
          /\ ss_list[i].idle <= quiet[r] /\ quiet[r] < Grace
          /\ hb[r] \in {"ident", "beat", "ended"}
          /\ hb[r] = "beat" => hbFd[r] \in Fds /\ hbFd[r] # NoFd /\ fds[hbFd[r]] = Hb(r)
      BY <1>1, <2>2, <3>1, KeptBefore
    <3>3. r # q
      BY <1>5, <3>2
    <3>4. {Cmd(r), Hb(r)} \cap {Cmd(q), NoConn} = {}
      BY <3>2, <3>3, Connections
    <3>5. /\ fds'[ss_list[i].sock] = Cmd(r)
          /\ hb[r] = "beat" => fds'[hbFd[r]] = Hb(r)
      <4>1. "foreign" \notin Strays({cmdFd[q]}, {Cmd(q)}) /\ fds' = Closed({cmdFd[q]})
        BY <1>5, <2>2 DEF Watched
      <4>2. \A n \in Fds : fds[n] \notin {Cmd(q)} \cup {NoConn} => fds'[n] = fds[n]
        BY <4>1, Spared
      <4> QED
        BY <3>2, <3>4, <4>2
    <3> QED
      BY <1>1, <1>5, <3>1, <3>2, <3>5 DEF KeptAfter
  <2> QED
    BY <2>1, <2>2, StaysKept DEF ReachInv
<1> QED
  BY <1>3, <1>4, <1>5

LEMMA HeartbeatThreadReach ==
  ASSUME ReachInv, NEW q \in Runs, HeartbeatThread(q)
  PROVE  RunsInv' /\ KeptInv'
<1> DEFINE k == IdOf[q]
<1>ok. TypeInv /\ TypeInv' /\ k \in Ids
  BY HeartbeatThreadTypes, RunsAssumption DEF ReachInv
<1>1. /\ UNCHANGED <<cmd, cmdFd>> /\ hb[q] # "none" /\ races \subseteq races'
      /\ \A r \in Runs : (srv'[r] = "off" <=> srv[r] = "off") /\ Serves(r)' = Serves(r)
      /\ \A r \in Runs : r # q => hb'[r] = hb[r] /\ hbFd'[r] = hbFd[r] /\ quiet'[r] = quiet[r]
  BY <1>ok DEF HeartbeatThread, Identify, IdentifyFails, Beat, LoseHeartbeat, MarkInactive, servers, Note,
     TypeInv, TypeOK, Serves, Dead
<1>2. \A i \in Ids : /\ ss_list'[i].known = ss_list[i].known /\ ss_list'[i].run = ss_list[i].run
                     /\ ss_list'[i].sock = ss_list[i].sock
                     /\ i # k => ss_list'[i] = ss_list[i]
  <2>1. ss_list \in [Ids -> Places] /\ k \in Ids
    BY <1>ok DEF TypeInv, TypeOK, Places
  <2>2. CASE Identify(q)
    <3>1. ss_list' = ss_list \/ ss_list' = [ss_list EXCEPT ![k] = [[ss_list[k] EXCEPT !.idle = 0]
                                                                        EXCEPT !.hb_sock = hbFd[q]]]
      BY <2>2 DEF Identify, Heard
    <3> DEFINE p == [[ss_list[k] EXCEPT !.idle = 0] EXCEPT !.hb_sock = hbFd[q]]
    <3>2. p.known = ss_list[k].known /\ p.run = ss_list[k].run /\ p.sock = ss_list[k].sock
      BY <2>1 DEF Places
    <3>3. ss_list' = ss_list \/ ss_list' = [ss_list EXCEPT ![k] = p]
      BY <3>1
    <3> HIDE DEF p
    <3> QED
      BY <2>1, <3>2, <3>3
  <2>3. CASE Beat(q)
    <3>1. ss_list' = ss_list \/ ss_list' = [ss_list EXCEPT ![k] = [ss_list[k] EXCEPT !.idle = 0]]
      BY <2>3 DEF Beat, Heard
    <3> QED
      BY <2>1, <3>1 DEF Places
  <2>4. CASE MarkInactive(q)
    <3>1. ss_list' = ss_list \/ ss_list' = [ss_list EXCEPT ![k].hb_sock = NoFd, ![k].active = FALSE]
      BY <2>4 DEF MarkInactive
    <3> QED
      BY <2>1, <3>1 DEF Places
  <2>5. CASE IdentifyFails(q) \/ LoseHeartbeat(q)
    BY <2>5 DEF IdentifyFails, LoseHeartbeat
  <2> QED
    BY <2>2, <2>3, <2>4, <2>5 DEF HeartbeatThread
<1>3. RunsInv'
  BY <1>1, <1>2 DEF ReachInv, RunsInv, Known, Latest
<1>4. ASSUME NEW i \in Ids, ss_list'[i].known, (races \cap Watched)' = {}, Serves(Latest(i))'
      PROVE  KeptAfter(i)
  <2> DEFINE r == ss_list[i].run
  <2>1. r \in Runs /\ Serves(r)
    <3>1. r \in Runs
      BY <1>2, <1>4 DEF ReachInv, RunsInv, Known, Latest
    <3>2. srv'[ss_list'[i].run] \in {"registered", "beating"}
      BY <1>4 DEF Serves, Latest
    <3> QED
      BY <1>1, <1>2, <3>1, <3>2 DEF Serves
  <2>2. /\ IdOf[r] = i
        /\ ss_list[i].active
        /\ ss_list[i].sock \in Fds /\ fds[ss_list[i].sock] = Cmd(r) /\ ss_list[i].sock # NoFd
        /\ ss_list[i].idle <= quiet[r] /\ quiet[r] < Grace
        /\ hb[r] \in {"ident", "beat", "ended"}
        /\ hb[r] = "beat" => hbFd[r] \in Fds /\ hbFd[r] # NoFd /\ fds[hbFd[r]] = Hb(r)
    BY <1>1, <1>2, <1>4, <2>1, KeptBefore
  <2>3. Cmd(r) \notin {Hb(q), NoConn} /\ (r # q => Hb(r) \notin {Hb(q), NoConn})
    BY <2>1, Connections
  \* The numbers that the thread closes, if any, are not the run's.
  <2>4. \/ fds' = fds
        \/ \A n \in Fds : fds[n] \notin {Hb(q)} \cup {NoConn} => fds'[n] = fds[n]
    <3>1. CASE IdentifyFails(q) \/ MarkInactive(q)
      <4>1. "foreign" \notin Strays({hbFd[q]}, {Hb(q)}) /\ fds' = Closed({hbFd[q]})
        BY <1>4, <3>1 DEF IdentifyFails, MarkInactive, Note, Watched
      <4> QED
        BY <4>1, Spared
    <3>2. CASE ~(IdentifyFails(q) \/ MarkInactive(q))
      BY <3>2 DEF HeartbeatThread, Identify, Beat, LoseHeartbeat
    <3> QED
      BY <3>1, <3>2
  <2>5. fds'[ss_list[i].sock] = Cmd(r)
    BY <2>2, <2>3, <2>4
  <2>6. CASE r # q
    <3>1. hb[r] = "beat" => fds'[hbFd[r]] = Hb(r)
      BY <2>2, <2>3, <2>4, <2>6
    <3>2. ss_list'[i] = ss_list[i] \/ (ss_list'[i].idle = 0 /\ ss_list'[i].active = ss_list[i].active)
      <4>1. CASE i = k
        <5>1. CASE MarkInactive(q)
          BY <1>4, <2>2, <2>6, <4>1, <5>1, <1>1, <1>2 DEF MarkInactive, Note, Watched, Latest
        <5>2. CASE ~MarkInactive(q)
          <6>1. \/ ss_list' = ss_list
                \/ ss_list' = [ss_list EXCEPT ![k] = [ss_list[k] EXCEPT !.idle = 0]]
                \/ ss_list' = [ss_list EXCEPT ![k] = [[ss_list[k] EXCEPT !.idle = 0]
                                                           EXCEPT !.hb_sock = hbFd[q]]]
            BY <5>2 DEF HeartbeatThread, Identify, IdentifyFails, Beat, LoseHeartbeat, Heard
          <6>2. ss_list \in [Ids -> Places] /\ k \in Ids
            BY <1>ok DEF TypeInv, TypeOK, Places
          <6> QED
            BY <4>1, <6>1, <6>2 DEF Places
        <5> QED
          BY <5>1, <5>2
      <4> QED
        BY <1>2, <4>1
    <3>3. 0 <= quiet[r]
      BY <2>1, <1>ok, TimesAssumption DEF TypeInv, TypeOK
    <3> QED
      <4>1. /\ ss_list'[i].run = r /\ ss_list'[i].sock = ss_list[i].sock
            /\ hb'[r] = hb[r] /\ hbFd'[r] = hbFd[r] /\ quiet'[r] = quiet[r]
        BY <1>1, <1>2, <2>1, <2>6
      <4>2. ss_list'[i].active /\ ss_list'[i].idle <= quiet[r]
        BY <2>2, <3>2, <3>3
      <4> QED
        BY <2>2, <2>5, <3>1, <4>1, <4>2 DEF KeptAfter
  <2>7. CASE r = q
    <3>1. i = k /\ ss_list[k].known /\ srv[q] \in {"registered", "beating"}
      BY <1>2, <1>4, <2>1, <2>2, <2>7 DEF Serves
    <3>2. 0 < Grace /\ quiet[q] \in Nat
      BY <1>ok, TimesAssumption DEF TypeInv, TypeOK
    <3>3. CASE Identify(q)
      <4>1. /\ ss_list'[k].idle = 0 /\ ss_list'[k].active = ss_list[k].active
            /\ hb'[q] = "beat" /\ hbFd[q] # NoFd /\ fds[hbFd[q]] = Hb(q)
            /\ hbFd' = hbFd /\ fds' = fds /\ quiet' = quiet
        BY <1>ok, <3>1, <3>3 DEF Identify, Heard, Own, TypeInv, TypeOK
      <4> QED
        BY <1>2, <2>2, <2>5, <2>7, <3>1, <3>2, <4>1 DEF KeptAfter
    <3>4. CASE IdentifyFails(q)
      <4>1. hb'[q] = "ended" /\ ss_list' = ss_list /\ quiet' = quiet
        BY <1>ok, <3>4 DEF IdentifyFails, servers, TypeInv, TypeOK
      <4> QED
        BY <2>2, <2>5, <2>7, <4>1 DEF KeptAfter
    <3>5. CASE Beat(q)
      <4>1. Own(hbFd[q], Hb(q)) /\ hb[q] = "beat"
        BY <2>2, <2>7, <3>5 DEF Beat, Own
      <4>2. /\ ss_list'[k].idle = 0 /\ ss_list'[k].active = ss_list[k].active
            /\ hb' = hb /\ hbFd' = hbFd /\ fds' = fds /\ quiet'[q] = 0
        BY <1>ok, <3>1, <3>5, <4>1 DEF Beat, Heard, TypeInv, TypeOK
      <4> QED
        BY <1>2, <2>2, <2>5, <2>7, <3>1, <3>2, <4>1, <4>2 DEF KeptAfter, Own
    <3>6. CASE LoseHeartbeat(q) \/ MarkInactive(q)
      BY <2>2, <2>7, <3>1, <3>6 DEF LoseHeartbeat, MarkInactive
    <3> QED
      BY <3>3, <3>4, <3>5, <3>6 DEF HeartbeatThread
  <2> QED
    BY <2>6, <2>7
<1> QED
  BY <1>3, <1>4, StaysKept DEF ReachInv

\* The numbers that the monitor closes, and the connections they are meant for.
OverdueSocks == {ss_list[i].hb_sock : i \in Overdue}
OverdueConns == {Hb(Latest(i)) : i \in Overdue}

LEMMA MonitorRound ==
  ASSUME Monitor, TypeInv
  PROVE  /\ \A i \in Ids : /\ ss_list'[i].known = ss_list[i].known
                           /\ ss_list'[i].run = ss_list[i].run /\ ss_list'[i].sock = ss_list[i].sock
                           /\ i \notin Overdue => ss_list'[i] = ss_list[i]
         /\ fds' = Closed(OverdueSocks) /\ races' = races \cup Strays(OverdueSocks, OverdueConns)
         /\ UNCHANGED <<srv, quiet, cmd, cmdFd, hb, hbFd>>
<1>1. fds' = Closed(OverdueSocks) /\ races' = races \cup Strays(OverdueSocks, OverdueConns)
  BY Zenon DEF Monitor, Note, OverdueSocks, OverdueConns
<1> DEFINE Lost(i) == [ss_list[i] EXCEPT !.active = FALSE, !.hb_sock = NoFd]
<1>2. ss_list' = [i \in Ids |-> IF i \in Overdue THEN Lost(i) ELSE ss_list[i]]
  BY Zenon DEF Monitor
<1>3. UNCHANGED <<srv, quiet, cmd, cmdFd, hb, hbFd>>
  <2>1. UNCHANGED <<servers, files, threads, handlers>>
    BY Zenon DEF Monitor
  <2> QED
    BY <2>1 DEF servers, files, threads, handlers
<1>4. \A i \in Ids : Lost(i).known = ss_list[i].known /\ Lost(i).run = ss_list[i].run
                     /\ Lost(i).sock = ss_list[i].sock
  BY DEF TypeInv, TypeOK
<1> HIDE DEF Lost
<1>5. ASSUME NEW i \in Ids
      PROVE  /\ ss_list'[i].known = ss_list[i].known
             /\ ss_list'[i].run = ss_list[i].run /\ ss_list'[i].sock = ss_list[i].sock
             /\ i \notin Overdue => ss_list'[i] = ss_list[i]
  BY <1>2, <1>4, <1>5
<1> QED
  BY <1>1, <1>3, <1>5

LEMMA MonitorReach ==
  ASSUME ReachInv, Monitor \/ Tick
  PROVE  RunsInv' /\ KeptInv'
<1>ok. TypeInv /\ TypeInv'
  BY MonitorTypes DEF ReachInv
<1>1. UNCHANGED <<srv, cmd, cmdFd, hb, hbFd>> /\ races \subseteq races'
  BY <1>ok, MonitorRound DEF Tick, servers, files, threads, handlers, Note
<1>2. \A i \in Ids : /\ ss_list'[i].known = ss_list[i].known /\ ss_list'[i].run = ss_list[i].run
                     /\ ss_list'[i].sock = ss_list[i].sock
  <2>1. \A i \in Ids : ss_list[i] \in Places
    BY <1>ok DEF TypeInv, TypeOK, Places
  <2>2. CASE Monitor
    BY <1>ok, <2>2, MonitorRound
  <2>3. CASE Tick
    <3>1. \A i \in Ids : ss_list'[i] = [ss_list[i] EXCEPT !.idle = IF ss_list[i].active THEN @ + 1 ELSE @]
      BY <2>3 DEF Tick
    <3> QED
      BY <2>1, <3>1 DEF Places
  <2> QED
    BY <2>2, <2>3
<1>3. RunsInv'
  BY <1>1, <1>2 DEF ReachInv, RunsInv, Known, Latest
<1>4. ASSUME NEW i \in Ids, ss_list'[i].known, (races \cap Watched)' = {}, Serves(Latest(i))'
      PROVE  KeptAfter(i)
  <2> DEFINE r == ss_list[i].run
  <2>1. r \in Runs /\ Serves(r) /\ ss_list[i].known
    BY <1>1, <1>2, <1>4 DEF Serves, Latest, ReachInv, RunsInv, Known
  <2>2. /\ IdOf[r] = i
        /\ ss_list[i].active
        /\ ss_list[i].sock \in Fds /\ fds[ss_list[i].sock] = Cmd(r) /\ ss_list[i].sock # NoFd
        /\ ss_list[i].idle <= quiet[r] /\ quiet[r] < Grace
        /\ hb[r] \in {"ident", "beat", "ended"}
        /\ hb[r] = "beat" => hbFd[r] \in Fds /\ hbFd[r] # NoFd /\ fds[hbFd[r]] = Hb(r)
    BY <1>1, <1>4, <2>1, KeptBefore
  <2>3. quiet[r] \in Nat /\ ss_list[i].idle \in Nat /\ Grace \in Nat
    BY <1>ok, <2>1, TimesAssumption DEF TypeInv, TypeOK
  <2>4. CASE Monitor
    <3>1. i \notin Overdue
      BY <2>2, <2>3 DEF Overdue, Allowance
    <3>2. "foreign" \notin Strays(OverdueSocks, OverdueConns) /\ fds' = Closed(OverdueSocks)
      BY <1>ok, <1>4, <2>4, MonitorRound DEF Watched
    <3>3. Cmd(r) \notin OverdueConns \cup {NoConn} /\ Hb(r) \notin OverdueConns \cup {NoConn}
      <4>1. ASSUME NEW j \in Overdue PROVE Latest(j) \in Runs /\ Latest(j) # r
        BY <2>2, <3>1 DEF Overdue, ReachInv, RunsInv, Known
      <4> QED
        BY <2>1, <4>1, Connections DEF OverdueConns
    <3>4. \A n \in Fds : fds[n] \notin OverdueConns \cup {NoConn} => fds'[n] = fds[n]
      BY <3>2, Spared
    <3>5. ss_list'[i] = ss_list[i] /\ quiet' = quiet
      BY <1>ok, <2>4, <3>1, MonitorRound
    <3> QED
      BY <1>1, <2>2, <3>3, <3>4, <3>5 DEF KeptAfter
  <2>5. CASE Tick
    <3>1. ss_list'[i].idle = ss_list[i].idle + 1 /\ ss_list'[i].active /\ fds' = fds
      <4>1. /\ ss_list'[i] = [ss_list[i] EXCEPT !.idle = IF ss_list[i].active THEN @ + 1 ELSE @]
            /\ fds' = fds
        BY <2>5 DEF Tick, files, threads, handlers
      <4>2. ss_list[i] \in Places
        BY <1>ok DEF TypeInv, TypeOK, Places
      <4> QED
        BY <2>2, <4>1, <4>2 DEF Places
    <3>2. quiet'[r] = quiet[r] + 1
      BY <2>1, <2>2, <2>5 DEF Tick
    <3>3. quiet'[r] # Grace
      BY <1>4, <2>1, <2>5 DEF Tick, Note, Watched
    <3> QED
      BY <1>1, <1>2, <2>2, <2>3, <3>1, <3>2, <3>3 DEF KeptAfter
  <2> QED
    BY <2>4, <2>5
<1> QED
  BY <1>3, <1>4, StaysKept DEF ReachInv

\* Every step keeps the invariant.
LEMMA NextReachInv == ReachInv /\ [Next]_vars => ReachInv'
<1> SUFFICES ASSUME ReachInv, [Next]_vars PROVE RunsInv' /\ KeptInv'
  BY NextTypeInv DEF ReachInv
<1>1. ASSUME UNCHANGED <<srv, ss_list, cmd, hb, hbFd, quiet>>, races \subseteq races',
             \A n \in Fds : fds[n] # NoConn => fds'[n] = fds[n]
      PROVE  RunsInv' /\ KeptInv'
  <2>1. RunsInv'
    BY <1>1 DEF ReachInv, RunsInv, Known, Latest
  <2>2. ASSUME NEW i \in Ids, ss_list'[i].known, (races \cap Watched)' = {}, Serves(Latest(i))'
        PROVE  KeptAfter(i)
    <3> DEFINE r == ss_list[i].run
    <3>1. r \in Runs /\ Serves(r)
      BY <1>1, <2>2 DEF Serves, Latest, ReachInv, RunsInv, Known
    <3>2. /\ ss_list[i].active
          /\ ss_list[i].sock \in Fds /\ fds[ss_list[i].sock] = Cmd(r) /\ ss_list[i].sock # NoFd
          /\ ss_list[i].idle <= quiet[r] /\ quiet[r] < Grace
          /\ hb[r] \in {"ident", "beat", "ended"}
          /\ hb[r] = "beat" => hbFd[r] \in Fds /\ hbFd[r] # NoFd /\ fds[hbFd[r]] = Hb(r)
      BY <1>1, <2>2, <3>1, KeptBefore
    <3> QED
      BY <1>1, <3>1, <3>2, Connections DEF KeptAfter
  <2> QED
    BY <2>1, <2>2, StaysKept DEF ReachInv
<1>2. ASSUME NEW c \in Clients, Connect(c) PROVE RunsInv' /\ KeptInv'
  BY <1>1, <1>2, LowestFree DEF Connect, servers, ReachInv, TypeInv, TypeOK
<1>3. ASSUME NEW h \in Handlers, HandlerStep(h) \/ \E i \in Ids : SendCommand(h, i)
      PROVE  RunsInv' /\ KeptInv'
  BY <1>1, <1>3 DEF HandlerStep, AwaitAnswer, Garbage, Answered, SendCommand, servers, threads, Note
<1>4. CASE UNCHANGED vars
  BY <1>1, <1>4 DEF vars, servers, threads
<1> QED
  BY <1>2, <1>3, <1>4, ServerReach, CommandThreadReach, HeartbeatThreadReach, MonitorReach DEF Next

\* The latest run of a server, as long as it serves, is active and its sock is its own
\* command connection: a reconnection lasts. Unless a thread of an earlier run was late,
\* HB_INIT was handled before the registration, a number was closed that stood for
\* another connection, or the server was not heard for the whole grace period.
THEOREM ServersStayReachable == Spec => []UndisturbedServerReachable
<1>1. Init => ReachInv
  BY InitTypeInv DEF Init, ReachInv, RunsInv, KeptInv, Known
<1>2. ReachInv => UndisturbedServerReachable
  BY DEF ReachInv, KeptInv, RunsInv, Kept, UndisturbedServerReachable
<1> QED
  BY <1>1, <1>2, NextReachInv, PTL DEF Spec
=============================================================================
