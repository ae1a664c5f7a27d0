--------------------------- MODULE ClientSessions ---------------------------
(***************************************************************************)
(* Logins at the name server (nm.c): the register of users, of whom each    *)
(* may have one session, and the list of connected clients. One thread      *)
(* serves each connection; a thread is known by its socket, whose           *)
(* descriptor a later connection may get once it is closed.                 *)
(***************************************************************************)
EXTENDS Naturals, FiniteSets

CONSTANTS
    Users,
    Socks,          \* the descriptors of client connections
    NoSock,         \* -1: the user has no session
    NoUser,         \* no name, or one garbled by a copy under the reader's hands
    MaxClients,     \* MAX_CLIENTS
    MaxUsers        \* MAX_CLIENTS * 10

ASSUME SocksAssumption == NoSock \notin Socks /\ NoUser \notin Users
ASSUME SizesAssumption == MaxClients \in Nat \ {0} /\ MaxUsers \in Nat

VARIABLES
    registered_users,   \* whether each user is registered, active, and on which socket
    client_list,        \* the array, with what removed clients leave behind
    client_count,       \* how many of its places are in use
    pc,                 \* what each connection's thread does next
    user,               \* the user it logged in: msg.sender
    idx,                \* the place it took in client_list
    username,           \* the name it read from there on its way out
    \* History, read by no step
    moved               \* the users whose client's place changed while they were connected

vars == <<registered_users, client_list, client_count, pc, user, idx, username, moved>>

registry == registered_users
clients  == <<client_list, client_count>>

\* The places of client_list in use.
Listed == 1 .. client_count

Registered == {u \in Users : registered_users[u].known}

\* Thread s goes on to a label.
Goto(s, label) == pc' = [pc EXCEPT ![s] = label]

-----------------------------------------------------------------------------
(* Login *)

\* A connection is accepted and its MSG_REG_CLIENT names a user.
Connect(s, u) ==
    /\ pc[s] = "closed"
    /\ user' = [user EXCEPT ![s] = u]
    /\ Goto(s, "register")
    /\ UNCHANGED <<registry, clients, idx, username, moved>>

\* MUTANT: a user with a session may log in again.
MayLogInTwice(u) == registered_users[u].known \/ Cardinality(Registered) < MaxUsers

\* A known user without a session, or a new one for whom there is room.
MayLogIn(u) ==
    IF registered_users[u].known
    THEN ~registered_users[u].active
    ELSE Cardinality(Registered) < MaxUsers

\* register_user_persistent. A user who may not log in is refused, and the
\* connection is closed.
Register(s) ==
    LET u == user[s] IN
    /\ pc[s] = "register"
    /\ IF MayLogIn(u)
       THEN /\ registered_users' = [registered_users EXCEPT
                    ![u] = [known |-> TRUE, active |-> TRUE, sock |-> s]]
            /\ moved' = moved \ {u}
            /\ Goto(s, "join")
       ELSE /\ UNCHANGED <<registry, moved>>
            /\ Goto(s, "closed")
    /\ UNCHANGED <<clients, user, idx, username>>

\* MUTANT: the list is taken to have one place more.
HasRoomForOneMore == client_count <= MaxClients

HasRoom == client_count < MaxClients

\* The threads that may be reading the name in one of these places of client_list, on
\* their way out and without the list's mutex.
Reading(places) == {t \in Socks : pc[t] = "readname" /\ idx[t] \in places}

\* Thread s writes to these places and goes on. Who reads a name there meanwhile
\* may get parts of two.
Overwrite(s, label, places) ==
    \E garbled \in SUBSET Reading(places) :
        /\ username' = [t \in Socks |-> IF t \in garbled THEN NoUser ELSE username[t]]
        /\ pc' = [t \in Socks |-> IF t = s THEN label
                                  ELSE IF t \in garbled THEN "leave" ELSE pc[t]]

\* MUTANT: a client turned away keeps its session.
JoinForgets(s) ==
    /\ pc[s] = "join"
    /\ IF HasRoom
       THEN /\ client_list' = [client_list EXCEPT
                    ![client_count + 1] = [username |-> user[s], sock |-> s]]
            /\ client_count' = client_count + 1
            /\ idx' = [idx EXCEPT ![s] = client_count + 1]
            /\ Overwrite(s, "serving", {client_count + 1})
       ELSE /\ UNCHANGED <<clients, idx, username>>
            /\ Goto(s, "closed")
    /\ UNCHANGED <<registry, user, moved>>

\* The client is added to the list, at a place that may be what a removed one has left
\* behind, or turned away when the list is full.
Join(s) ==
    /\ pc[s] = "join"
    /\ IF HasRoom
       THEN /\ client_list' = [client_list EXCEPT
                    ![client_count + 1] = [username |-> user[s], sock |-> s]]
            /\ client_count' = client_count + 1
            /\ idx' = [idx EXCEPT ![s] = client_count + 1]
            /\ Overwrite(s, "serving", {client_count + 1})
       ELSE /\ username' = [username EXCEPT ![s] = user[s]]
            /\ UNCHANGED <<clients, idx>>
            /\ Goto(s, "deregister")
    /\ UNCHANGED <<registry, user, moved>>

-----------------------------------------------------------------------------
(* Logout *)

\* The client closes its connection: the thread leaves its request loop.
Disconnect(s) ==
    /\ pc[s] = "serving"
    /\ Goto(s, "readname")
    /\ UNCHANGED <<registry, clients, user, idx, username, moved>>

\* The name is read from the place taken at login, without the list's mutex.
ReadName(s) ==
    /\ pc[s] = "readname"
    /\ username' = [username EXCEPT ![s] = client_list[idx[s]].username]
    /\ Goto(s, "leave")
    /\ UNCHANGED <<registry, clients, user, idx, moved>>

\* MUTANT: the place behind the client's is the first that is moved.
CompactedLate(k) ==
    [j \in DOMAIN client_list |->
        IF j \in k + 1 .. client_count - 1 THEN client_list[j + 1] ELSE client_list[j]]

\* The list with the client at place k removed and those behind it moved down.
Compacted(k) ==
    [j \in DOMAIN client_list |->
        IF j \in k .. client_count - 1 THEN client_list[j + 1] ELSE client_list[j]]

\* The client is removed from the list.
Leave(s) ==
    /\ pc[s] = "leave"
    /\ \E k \in Listed :
        /\ client_list[k].sock = s
        /\ client_list' = Compacted(k)
        /\ client_count' = client_count - 1
        /\ moved' = moved \cup {client_list[j].username : j \in k + 1 .. client_count}
        /\ Overwrite(s, "deregister", k .. client_count - 1)
    /\ UNCHANGED <<registry, user, idx>>

\* MUTANT: the session is ended whichever socket it is on.
EndsAnySession(s, u) == registered_users[u].known

\* The session of user u is the one on socket s.
EndsSession(s, u) == registered_users[u].known /\ registered_users[u].sock = s

\* deregister_active_session of the name read, if that user's session is on this
\* socket; then the socket is closed.
Deregister(s) ==
    LET u == username[s] IN
    /\ pc[s] = "deregister"
    /\ registered_users' =
          IF u \in Users /\ EndsSession(s, u)
          THEN [registered_users EXCEPT ![u].active = FALSE, ![u].sock = NoSock]
          ELSE registered_users
    /\ Goto(s, "closed")
    /\ UNCHANGED <<clients, user, idx, username, moved>>

-----------------------------------------------------------------------------

EmptyPlace == [username |-> NoUser, sock |-> NoSock]

Init ==
    /\ registered_users = [u \in Users |-> [known |-> FALSE, active |-> FALSE, sock |-> NoSock]]
    /\ client_list = [k \in 1 .. MaxClients |-> EmptyPlace]
    /\ client_count = 0
    /\ pc = [s \in Socks |-> "closed"]
    /\ user = [s \in Socks |-> NoUser]
    /\ idx = [s \in Socks |-> 1]
    /\ username = [s \in Socks |-> NoUser]
    /\ moved = {}

Next == \E s \in Socks :
    \/ \E u \in Users : Connect(s, u)
    \/ Register(s) \/ Join(s) \/ Disconnect(s) \/ ReadName(s) \/ Leave(s) \/ Deregister(s)

Spec == Init /\ [][Next]_vars

-----------------------------------------------------------------------------
(* Properties *)

\* The phases in which a connection has its user's session.
SessionLabels == {"join", "serving", "readname", "leave", "deregister"}

Labels == SessionLabels \cup {"closed", "register"}

\* Every variable holds a value of its kind.
TypeOK ==
    /\ registered_users \in [Users -> [known : BOOLEAN, active : BOOLEAN,
                                       sock : Socks \cup {NoSock}]]
    /\ client_list \in [1 .. MaxClients -> [username : Users \cup {NoUser},
                                            sock : Socks \cup {NoSock}]]
    /\ client_count \in 0 .. MaxClients
    /\ pc \in [Socks -> Labels]
    /\ user \in [Socks -> Users \cup {NoUser}]
    /\ idx \in [Socks -> 1 .. MaxClients]
    /\ username \in [Socks -> Users \cup {NoUser}]

\* The register knows a connection that has a session by its user, from login
\* until the socket is closed, whatever names the threads of others read on their
\* way out.
SessionIsRegistered ==
    \A s \in Socks : pc[s] \in SessionLabels =>
        /\ user[s] \in Users
        /\ registered_users[user[s]].active
        /\ registered_users[user[s]].sock = s

\* "A user cannot have multiple concurrent client sessions with the same
\* username" (notes.md).
SingleSession ==
    \A s, t \in Socks :
        pc[s] \in SessionLabels /\ pc[t] \in SessionLabels /\ user[s] = user[t] => s = t

\* client_list holds the connected clients, each once and under its own name.
ClientListExact ==
    /\ \A j, k \in Listed : client_list[j].sock = client_list[k].sock => j = k
    /\ {client_list[k] : k \in Listed} =
          {[username |-> user[s], sock |-> s] :
              s \in {t \in Socks : pc[t] \in {"serving", "readname", "leave"}}}

\* Whoever is registered as having a session has a connection, and can log in again after
\* it has ended ("when a client disconnects and reconnects again, their information is
\* preserved", notes.md), if the client's place in the list has not changed.
UnmovedNotLockedOut ==
    \A u \in Users \ moved : registered_users[u].active =>
        \E s \in Socks : pc[s] \in SessionLabels /\ user[s] = u
=============================================================================
