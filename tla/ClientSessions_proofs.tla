------------------------ MODULE ClientSessions_proofs ------------------------
(***************************************************************************)
(* No user ever has two sessions at the name server, for any number of      *)
(* users and connections and any sizes of the tables. The register holds    *)
(* one socket for a user, and a thread ends a session only if that socket   *)
(* is its own: whatever name it reads on its way out, it cannot end the     *)
(* session of another connection.                                           *)
(*                                                                          *)
(* The list of clients holds those connected, and whoever is registered has *)
(* a connection unless a removal has moved the client's place in the list.  *)
(***************************************************************************)
EXTENDS ClientSessions, TLAPS

Entry == [known : BOOLEAN, active : BOOLEAN, sock : Socks \cup {NoSock}]

\* What the argument needs of the types: the client list does not matter.
RegisterTypeOK ==
    /\ registered_users \in [Users -> Entry]
    /\ pc \in [Socks -> Labels]
    /\ user \in [Socks -> Users \cup {NoUser}]
    /\ \A s \in Socks : pc[s] # "closed" => user[s] \in Users
    /\ \A u \in Users : registered_users[u].active => registered_users[u].known

SessionInv == RegisterTypeOK /\ SessionIsRegistered

LEMMA InitSessionInv == Init => SessionInv
BY DEF Init, SessionInv, RegisterTypeOK, SessionIsRegistered, SessionLabels, Labels, Entry

\* A thread that writes to places of the list goes on, and so may those that read there.
LEMMA OverwriteStep ==
    ASSUME NEW s \in Socks, NEW label, NEW places, Overwrite(s, label, places)
    PROVE  /\ pc' = [t \in Socks |-> pc'[t]]
           /\ pc'[s] = label
           /\ \A t \in Socks \ {s} : \/ pc'[t] = pc[t]
                                     \/ pc[t] = "readname" /\ pc'[t] = "leave"
BY DEF Overwrite, Reading

\* The names of those who read elsewhere are what they were.
LEMMA OverwriteNames ==
    ASSUME NEW s \in Socks, NEW label, NEW places, Overwrite(s, label, places)
    PROVE  /\ username' = [t \in Socks |-> username'[t]]
           /\ \A t \in Socks : username'[t] \in {username[t], NoUser}
           /\ \A t \in Socks \ Reading(places) :
                 username'[t] = username[t] /\ (t # s => pc'[t] = pc[t])
BY DEF Overwrite

\* The steps of a thread that stays within its session leave the register alone.
LEMMA QuietSteps ==
    ASSUME SessionInv, NEW s \in Socks, Join(s) \/ Disconnect(s) \/ ReadName(s) \/ Leave(s)
    PROVE  SessionInv'
<1>1. /\ registered_users' = registered_users
      /\ user' = user
      /\ pc' \in [Socks -> Labels]
      /\ \A t \in Socks : pc'[t] \in SessionLabels => pc[t] \in SessionLabels
      /\ \A t \in Socks : pc'[t] # "closed" => pc[t] # "closed"
  <2>1. CASE Join(s)
    <3>1. pc[s] = "join" /\ UNCHANGED <<registry, user>>
      BY <2>1 DEF Join
    <3>2. CASE Overwrite(s, "serving", {client_count + 1})
      BY <3>1, <3>2, OverwriteStep DEF SessionInv, RegisterTypeOK, SessionLabels, Labels, registry
    <3>3. CASE Goto(s, "deregister")
      BY <3>1, <3>3 DEF Goto, SessionInv, RegisterTypeOK, SessionLabels, Labels, registry
    <3> QED BY <2>1, <3>2, <3>3 DEF Join
  <2>2. CASE Disconnect(s)
    BY <2>2 DEF Disconnect, Goto, SessionInv, RegisterTypeOK, SessionLabels, Labels, registry
  <2>3. CASE ReadName(s)
    BY <2>3 DEF ReadName, Goto, SessionInv, RegisterTypeOK, SessionLabels, Labels, registry
  <2>4. CASE Leave(s)
    <3>1. pc[s] = "leave" /\ UNCHANGED <<registry, user>>
      BY <2>4 DEF Leave
    <3>2. PICK places : Overwrite(s, "deregister", places)
      BY <2>4 DEF Leave
    <3> QED
      BY <3>1, <3>2, OverwriteStep DEF SessionInv, RegisterTypeOK, SessionLabels, Labels, registry
  <2> QED BY <2>1, <2>2, <2>3, <2>4
<1> QED BY <1>1 DEF SessionInv, RegisterTypeOK, SessionIsRegistered

\* Nobody is in a session of a user who may log in: it would be registered, and active.
LEMMA LoginIsAlone ==
    ASSUME SessionInv, NEW u \in Users, MayLogIn(u),
           NEW t \in Socks, pc[t] \in SessionLabels
    PROVE  user[t] # u
BY SocksAssumption DEF MayLogIn, SessionInv, RegisterTypeOK, SessionIsRegistered, Registered

LEMMA NextSessionInv == SessionInv /\ [Next]_vars => SessionInv'
<1> SUFFICES ASSUME SessionInv, [Next]_vars PROVE SessionInv'
  OBVIOUS
<1>1. CASE UNCHANGED vars
  BY <1>1 DEF vars, registry, SessionInv, RegisterTypeOK, SessionIsRegistered
<1>2. ASSUME NEW s \in Socks, NEW u \in Users, Connect(s, u) PROVE SessionInv'
  BY <1>2 DEF Connect, Goto, registry, SessionInv, RegisterTypeOK, SessionIsRegistered,
              SessionLabels, Labels
<1>3. ASSUME NEW s \in Socks, Register(s) PROVE SessionInv'
  <2> DEFINE u == user[s]
  <2>1. u \in Users /\ pc[s] = "register"
    BY <1>3 DEF Register, SessionInv, RegisterTypeOK
  <2>2. CASE MayLogIn(u)
    <3>1. /\ registered_users' = [registered_users EXCEPT
                                    ![u] = [known |-> TRUE, active |-> TRUE, sock |-> s]]
          /\ pc' = [pc EXCEPT ![s] = "join"]
          /\ user' = user
      BY <1>3, <2>2 DEF Register, Goto
    <3>2. RegisterTypeOK'
      BY <2>1, <3>1 DEF SessionInv, RegisterTypeOK, Labels, SessionLabels, Entry
    <3>3. ASSUME NEW t \in Socks \ {s}, pc[t] \in SessionLabels PROVE user[t] # u
      BY <2>1, <2>2, <3>3, LoginIsAlone
    <3>4. SessionIsRegistered'
      BY <2>1, <3>1, <3>3 DEF SessionInv, RegisterTypeOK, SessionIsRegistered, SessionLabels
    <3> QED BY <3>2, <3>4 DEF SessionInv
  <2>3. CASE ~MayLogIn(u)
    <3>1. /\ registered_users' = registered_users
          /\ pc' = [pc EXCEPT ![s] = "closed"]
          /\ user' = user
      BY <1>3, <2>3 DEF Register, Goto, registry
    <3> QED BY <3>1 DEF SessionInv, RegisterTypeOK, SessionIsRegistered, SessionLabels, Labels
  <2> QED BY <2>2, <2>3
<1>4. ASSUME NEW s \in Socks, Deregister(s) PROVE SessionInv'
  <2> DEFINE u == username[s]
  <2>1. pc[s] = "deregister" /\ pc' = [pc EXCEPT ![s] = "closed"] /\ user' = user
    BY <1>4 DEF Deregister, Goto
  <2>2. CASE u \in Users /\ EndsSession(s, u)
    <3>1. registered_users' = [registered_users EXCEPT ![u].active = FALSE, ![u].sock = NoSock]
      BY <1>4, <2>2 DEF Deregister
    <3>2. RegisterTypeOK'
      BY <2>1, <2>2, <3>1, ZenonT(30) DEF SessionInv, RegisterTypeOK, Labels, SessionLabels, Entry
    \* The register has socket s for u, so no other connection is in a session of u.
    <3>3. ASSUME NEW t \in Socks \ {s}, pc[t] \in SessionLabels PROVE user[t] # u
      BY <2>2, <3>3 DEF EndsSession, SessionInv, SessionIsRegistered
    <3>4. SessionIsRegistered'
      BY <2>1, <2>2, <3>1, <3>3 DEF SessionInv, RegisterTypeOK, SessionIsRegistered, SessionLabels
    <3> QED BY <3>2, <3>4 DEF SessionInv
  <2>3. CASE ~(u \in Users /\ EndsSession(s, u))
    <3>1. registered_users' = registered_users
      BY <1>4, <2>3 DEF Deregister
    <3> QED BY <2>1, <3>1 DEF SessionInv, RegisterTypeOK, SessionIsRegistered, SessionLabels, Labels
  <2> QED BY <2>2, <2>3
<1> QED BY <1>1, <1>2, <1>3, <1>4, QuietSteps DEF Next

\* Every connection in a session is the one the register has for its user
\* (register_user_persistent, deregister_active_session), for any number of users,
\* connections and places.
THEOREM SessionsAreRegistered == Spec => []SessionIsRegistered
<1>1. SessionInv => SessionIsRegistered
  BY DEF SessionInv
<1> QED BY InitSessionInv, NextSessionInv, <1>1, PTL DEF Spec

\* No user has two sessions at a time: "a user cannot have multiple concurrent
\* client sessions with the same username" (notes.md).
THEOREM OneSessionPerUser == Spec => []SingleSession
<1>1. SessionIsRegistered => SingleSession
  BY DEF SessionIsRegistered, SingleSession
<1> QED BY SessionsAreRegistered, <1>1, PTL
-----------------------------------------------------------------------------
(* Types *)

\* Removing a place, and moving down those behind it, gives a list of the same kind.
LEMMA CompactedType ==
    ASSUME TypeOK, NEW k \in Listed
    PROVE  Compacted(k) \in [1 .. MaxClients -> [username : Users \cup {NoUser},
                                                  sock : Socks \cup {NoSock}]]
<1>1. \A j \in k .. client_count - 1 : j + 1 \in 1 .. MaxClients
  BY SizesAssumption DEF TypeOK, Listed
<1> QED BY <1>1 DEF TypeOK, Compacted

\* Phases and names keep their kinds when places are written to.
LEMMA OverwriteType ==
    ASSUME TypeOK, NEW s \in Socks, NEW label \in Labels, NEW places,
           Overwrite(s, label, places)
    PROVE  pc' \in [Socks -> Labels] /\ username' \in [Socks -> Users \cup {NoUser}]
<1>1. \A t \in Socks : pc'[t] \in Labels
  BY OverwriteStep DEF TypeOK, Labels, SessionLabels
<1>2. \A t \in Socks : username'[t] \in Users \cup {NoUser}
  BY OverwriteNames DEF TypeOK
<1> QED BY <1>1, <1>2, OverwriteStep, OverwriteNames

LEMMA InitTypeOK == Init => TypeOK
BY SizesAssumption DEF Init, TypeOK, EmptyPlace, Labels

LEMMA NextTypeOK == TypeOK /\ [Next]_vars => TypeOK'
<1> SUFFICES ASSUME TypeOK, [Next]_vars PROVE TypeOK'
  OBVIOUS
<1>1. CASE UNCHANGED vars
  BY <1>1 DEF vars, TypeOK
<1>2. ASSUME NEW s \in Socks, NEW u \in Users, Connect(s, u) PROVE TypeOK'
  BY <1>2 DEF Connect, Goto, TypeOK, registry, clients, Labels
<1>3. ASSUME NEW s \in Socks, Register(s) PROVE TypeOK'
  <2>1. CASE MayLogIn(user[s])
    <3>1. registered_users' = [registered_users EXCEPT
              ![user[s]] = [known |-> TRUE, active |-> TRUE, sock |-> s]]
      BY <1>3, <2>1 DEF Register
    <3>2. pc' = [pc EXCEPT ![s] = "join"] /\ UNCHANGED <<clients, user, idx, username>>
      BY <1>3, <2>1 DEF Register, Goto
    <3> QED BY <3>1, <3>2 DEF TypeOK, clients, Labels, SessionLabels
  <2>2. CASE ~MayLogIn(user[s])
    <3>1. pc' = [pc EXCEPT ![s] = "closed"]
          /\ UNCHANGED <<registry, clients, user, idx, username>>
      BY <1>3, <2>2 DEF Register, Goto
    <3> QED BY <3>1 DEF TypeOK, registry, clients, Labels
  <2> QED BY <2>1, <2>2
<1>4. ASSUME NEW s \in Socks, Join(s) PROVE TypeOK'
  <2>1. CASE HasRoom
    <3>1. client_count + 1 \in 1 .. MaxClients
      BY <2>1, SizesAssumption DEF HasRoom, TypeOK
    <3>2. client_list' \in [1 .. MaxClients -> [username : Users \cup {NoUser},
                                              sock : Socks \cup {NoSock}]]
      <4>1. [username |-> user[s], sock |-> s] \in [username : Users \cup {NoUser},
                                                    sock : Socks \cup {NoSock}]
        BY DEF TypeOK
      <4>2. client_list' = [client_list EXCEPT
                ![client_count + 1] = [username |-> user[s], sock |-> s]]
        BY <1>4, <2>1 DEF Join
      <4> QED BY <4>1, <4>2 DEF TypeOK
    <3>3. idx' \in [Socks -> 1 .. MaxClients]
      BY <1>4, <2>1, <3>1 DEF Join, TypeOK
    <3>4. client_count' \in 0 .. MaxClients
      BY <1>4, <2>1, <3>1, SizesAssumption DEF Join
    <3>5. UNCHANGED <<registry, user>>
      BY <1>4, <2>1 DEF Join
    <3>6. pc' \in [Socks -> Labels] /\ username' \in [Socks -> Users \cup {NoUser}]
      <4>1. Overwrite(s, "serving", {client_count + 1})
        BY <1>4, <2>1 DEF Join
      <4> QED BY <4>1, OverwriteType DEF Labels, SessionLabels
    <3> QED BY <3>2, <3>3, <3>4, <3>5, <3>6 DEF TypeOK, registry
  <2>2. CASE ~HasRoom
    BY <1>4, <2>2 DEF Join, Goto, TypeOK, registry, clients, Labels, SessionLabels
  <2> QED BY <2>1, <2>2
<1>5. ASSUME NEW s \in Socks, Disconnect(s) PROVE TypeOK'
  BY <1>5 DEF Disconnect, Goto, TypeOK, registry, clients, Labels, SessionLabels
<1>6. ASSUME NEW s \in Socks, ReadName(s) PROVE TypeOK'
  BY <1>6 DEF ReadName, Goto, TypeOK, registry, clients, Labels, SessionLabels
<1>7. ASSUME NEW s \in Socks, Leave(s) PROVE TypeOK'
  <2>1. PICK k \in Listed : client_list' = Compacted(k) /\ client_count' = client_count - 1
    BY <1>7 DEF Leave
  <2>2. client_count' \in 0 .. MaxClients
    BY <2>1, SizesAssumption DEF TypeOK, Listed
  <2>3. username' \in [Socks -> Users \cup {NoUser}] /\ pc' \in [Socks -> Labels]
    <3>1. PICK places : Overwrite(s, "deregister", places)
      BY <1>7 DEF Leave
    <3> QED BY <3>1, OverwriteType DEF Labels, SessionLabels
  <2> QED BY <1>7, <2>1, <2>2, <2>3, CompactedType DEF Leave, TypeOK, registry
<1>8. ASSUME NEW s \in Socks, Deregister(s) PROVE TypeOK'
  <2>1. \/ UNCHANGED registered_users
        \/ username[s] \in Users /\ registered_users' = [registered_users EXCEPT ![username[s]].active = FALSE,
                                                        ![username[s]].sock = NoSock]
    BY <1>8 DEF Deregister
  <2> DEFINE Kinds == [known : BOOLEAN, active : BOOLEAN, sock : Socks \cup {NoSock}]
  <2>2. registered_users' \in [Users -> Kinds]
    <3>1. registered_users \in [Users -> Kinds]
      BY DEF TypeOK
    <3>2. \A e \in Kinds : [e EXCEPT !.active = FALSE, !.sock = NoSock] \in Kinds
      OBVIOUS
    <3> QED BY <2>1, <3>1, <3>2, ZenonT(30)
  <2>3. pc' = [pc EXCEPT ![s] = "closed"] /\ UNCHANGED <<clients, user, idx, username>>
    BY <1>8 DEF Deregister, Goto
  <2> QED BY <2>2, <2>3 DEF TypeOK, clients, Labels
<1> QED BY <1>1, <1>2, <1>3, <1>4, <1>5, <1>6, <1>7, <1>8 DEF Next

\* The register, the list and the threads' variables keep their kinds; above all the
\* list never gets more clients than it has places.
THEOREM SessionTypes == Spec => []TypeOK
BY InitTypeOK, NextTypeOK, PTL DEF Spec

-----------------------------------------------------------------------------
(* The list of clients *)

\* The phases in which a connection is in the list.
ListedLabels == {"serving", "readname", "leave"}

\* A place in use holds a connection that is in the list, under its user's name.
PlacesAreClients ==
    \A k \in Listed : /\ client_list[k].sock \in Socks
                      /\ pc[client_list[k].sock] \in ListedLabels
                      /\ client_list[k].username = user[client_list[k].sock]

\* No connection has two places.
PlacesDiffer == \A j, k \in Listed : client_list[j].sock = client_list[k].sock => j = k

\* A connection in the list has a place.
ClientsHavePlaces ==
    \A s \in Socks : pc[s] \in ListedLabels => \E k \in Listed : client_list[k].sock = s

ListInv == TypeOK /\ PlacesAreClients /\ PlacesDiffer /\ ClientsHavePlaces

\* A step of thread s that changes neither the list nor whether s is in it.
LEMMA ListFrame ==
    ASSUME ListInv, TypeOK', NEW s \in Socks, UNCHANGED clients,
           \A t \in Socks \ {s} : pc'[t] = pc[t] /\ user'[t] = user[t],
           pc'[s] \in ListedLabels <=> pc[s] \in ListedLabels,
           pc[s] \in ListedLabels => user'[s] = user[s]
    PROVE  ListInv'
BY DEF ListInv, PlacesAreClients, PlacesDiffer, ClientsHavePlaces, Listed, clients

\* A client that joins gets the place behind the last.
LEMMA JoinListInv ==
    ASSUME ListInv, TypeOK', NEW s \in Socks, Join(s), HasRoom
    PROVE  ListInv'
<1> DEFINE n == client_count + 1
<1>1. /\ Listed' = Listed \cup {n}
      /\ n \notin Listed
      /\ \A k \in Listed : client_list'[k] = client_list[k]
      /\ client_list'[n] = [username |-> user[s], sock |-> s]
  BY SizesAssumption DEF Join, HasRoom, Listed, ListInv, TypeOK
<1>2. /\ pc[s] = "join" /\ pc'[s] = "serving" /\ user' = user
      /\ \A t \in Socks \ {s} : pc'[t] \in ListedLabels <=> pc[t] \in ListedLabels
  <2>1. Overwrite(s, "serving", {client_count + 1})
    BY DEF Join
  <2> QED BY <2>1, OverwriteStep DEF Join, ListedLabels
<1>3. \A k \in Listed : client_list[k].sock # s
  BY <1>2 DEF ListInv, PlacesAreClients, ListedLabels
<1> HIDE DEF n
<1>4. PlacesAreClients'
  BY <1>1, <1>2 DEF ListInv, PlacesAreClients, ListedLabels
<1>5. PlacesDiffer'
  BY <1>1, <1>3 DEF ListInv, PlacesDiffer
<1>6. ClientsHavePlaces'
  BY <1>1, <1>2 DEF ListInv, ClientsHavePlaces
<1> QED BY <1>4, <1>5, <1>6 DEF ListInv

\* What the removal of the client at place k does to the list.
LEMMA CompactedPlaces ==
    ASSUME TypeOK, NEW k \in Listed, client_list' = Compacted(k),
           client_count' = client_count - 1
    PROVE  /\ \A j \in Listed' :
                  /\ (IF j >= k THEN j + 1 ELSE j) \in Listed \ {k}
                  /\ client_list'[j] = client_list[IF j >= k THEN j + 1 ELSE j]
           /\ \A m \in Listed \ {k} :
                  /\ (IF m > k THEN m - 1 ELSE m) \in Listed'
                  /\ client_list'[IF m > k THEN m - 1 ELSE m] = client_list[m]
BY SizesAssumption DEF TypeOK, Listed, Compacted

\* A client that leaves is the only one to leave the list.
LEMMA LeaveListInv ==
    ASSUME ListInv, TypeOK', NEW s \in Socks, Leave(s)
    PROVE  ListInv'
<1>1. PICK k \in Listed : /\ client_list[k].sock = s
                          /\ client_list' = Compacted(k)
                          /\ client_count' = client_count - 1
  BY DEF Leave
<1>2. /\ pc[s] = "leave" /\ pc'[s] = "deregister" /\ user' = user
      /\ \A t \in Socks \ {s} : pc'[t] \in ListedLabels <=> pc[t] \in ListedLabels
  <2>1. PICK places : Overwrite(s, "deregister", places)
    BY DEF Leave
  <2> QED BY <2>1, OverwriteStep DEF Leave, ListedLabels
<1> DEFINE Before(j) == IF j >= k THEN j + 1 ELSE j
           After(m) == IF m > k THEN m - 1 ELSE m
<1>3. /\ \A j \in Listed' : /\ Before(j) \in Listed \ {k}
                             /\ client_list'[j] = client_list[Before(j)]
      /\ \A m \in Listed \ {k} : /\ After(m) \in Listed'
                                  /\ client_list'[After(m)] = client_list[m]
  BY <1>1, CompactedPlaces DEF ListInv
<1>4. \A i, j \in Listed' : Before(i) = Before(j) => i = j
  BY SizesAssumption DEF Listed, ListInv, TypeOK
<1> HIDE DEF Before, After
<1>5. \A m \in Listed \ {k} : client_list[m].sock # s
  BY <1>1 DEF ListInv, PlacesDiffer
<1>6. PlacesAreClients'
  BY <1>2, <1>3, <1>5 DEF ListInv, PlacesAreClients
<1>7. PlacesDiffer'
  BY <1>3, <1>4 DEF ListInv, PlacesDiffer
<1>8. ClientsHavePlaces'
  <2> SUFFICES ASSUME NEW t \in Socks, pc'[t] \in ListedLabels
               PROVE  \E j \in Listed' : client_list'[j].sock = t
    BY DEF ClientsHavePlaces
  <2>1. t # s /\ pc[t] \in ListedLabels
    BY <1>2 DEF ListedLabels
  <2>2. PICK m \in Listed : client_list[m].sock = t
    BY <2>1 DEF ListInv, ClientsHavePlaces
  <2>3. m # k
    BY <1>1, <2>1, <2>2
  <2> QED BY <1>3, <2>2, <2>3
<1> QED BY <1>6, <1>7, <1>8 DEF ListInv

LEMMA InitListInv == Init => ListInv
BY InitTypeOK DEF Init, ListInv, PlacesAreClients, PlacesDiffer, ClientsHavePlaces, Listed,
                  ListedLabels

LEMMA NextListInv == ListInv /\ [Next]_vars => ListInv'
<1> SUFFICES ASSUME ListInv, [Next]_vars PROVE ListInv'
  OBVIOUS
<1>t. TypeOK' /\ pc \in [Socks -> Labels] /\ user \in [Socks -> Users \cup {NoUser}]
  BY NextTypeOK DEF ListInv, TypeOK
<1> USE <1>t
<1>1. CASE UNCHANGED vars
  BY <1>1 DEF vars, clients, ListInv, PlacesAreClients, PlacesDiffer, ClientsHavePlaces, Listed
<1>2. ASSUME NEW s \in Socks, NEW u \in Users, Connect(s, u) PROVE ListInv'
  BY <1>2, ListFrame DEF Connect, Goto, ListedLabels
<1>3. ASSUME NEW s \in Socks, Register(s) PROVE ListInv'
  <2>1. /\ pc[s] = "register" /\ pc'[s] \in {"join", "closed"} /\ UNCHANGED <<clients, user>>
        /\ \A t \in Socks \ {s} : pc'[t] = pc[t]
    BY <1>3 DEF Register, Goto
  <2> QED BY <2>1, ListFrame DEF ListedLabels
<1>4. ASSUME NEW s \in Socks, Join(s) PROVE ListInv'
  <2>1. CASE HasRoom
    BY <1>4, <2>1, JoinListInv
  <2>2. CASE ~HasRoom
    BY <1>4, <2>2, ListFrame DEF Join, Goto, ListedLabels
  <2> QED BY <2>1, <2>2
<1>5. ASSUME NEW s \in Socks, Disconnect(s) \/ ReadName(s) PROVE ListInv'
  BY <1>5, ListFrame DEF Disconnect, ReadName, Goto, ListedLabels
<1>6. ASSUME NEW s \in Socks, Leave(s) PROVE ListInv'
  BY <1>6, LeaveListInv
<1>7. ASSUME NEW s \in Socks, Deregister(s) PROVE ListInv'
  BY <1>7, ListFrame DEF Deregister, Goto, ListedLabels
<1> QED BY <1>1, <1>2, <1>3, <1>4, <1>5, <1>6, <1>7 DEF Next

\* client_list holds exactly the clients that are connected, each once and under its
\* own name, however logins and removals interleave.
THEOREM ListIsExact == Spec => []ClientListExact
<1>1. ListInv => ClientListExact
  <2> SUFFICES ASSUME ListInv PROVE ClientListExact
    OBVIOUS
  <2> DEFINE Held == {client_list[k] : k \in Listed}
             Expected == {[username |-> user[s], sock |-> s] :
                            s \in {t \in Socks : pc[t] \in ListedLabels}}
  <2>1. \A k \in Listed : client_list[k] = [username |-> user[client_list[k].sock],
                                            sock |-> client_list[k].sock]
    BY SizesAssumption DEF ListInv, PlacesAreClients, TypeOK, Listed
  <2>2. Held \subseteq Expected
    BY <2>1 DEF ListInv, PlacesAreClients
  <2>3. Expected \subseteq Held
    <3> SUFFICES ASSUME NEW s \in Socks, pc[s] \in ListedLabels
                 PROVE  [username |-> user[s], sock |-> s] \in Held
      OBVIOUS
    <3>1. PICK k \in Listed : client_list[k].sock = s
      BY DEF ListInv, ClientsHavePlaces
    <3> QED BY <2>1, <3>1
  <2> QED BY <2>2, <2>3 DEF ListInv, PlacesDiffer, ClientListExact, ListedLabels
<1> QED BY InitListInv, NextListInv, <1>1, PTL DEF Spec
-----------------------------------------------------------------------------
(* Nobody is locked out whose place has not moved *)

\* A connection whose user's place has not moved finds itself at the place it took.
PlaceKept ==
    \A s \in Socks : pc[s] \in ListedLabels /\ user[s] \notin moved =>
        idx[s] \in Listed /\ client_list[idx[s]].sock = s

\* The name such a connection reads on its way out is its own.
OwnName ==
    \A s \in Socks : pc[s] \in {"leave", "deregister"} /\ user[s] \notin moved =>
        username[s] = user[s]

LeaveInv == SessionInv /\ ListInv /\ PlaceKept /\ OwnName /\ UnmovedNotLockedOut

LEMMA InitLeaveInv == Init => LeaveInv
BY InitSessionInv, InitListInv
   DEF Init, LeaveInv, PlaceKept, OwnName, UnmovedNotLockedOut, ListedLabels

\* A step that leaves places, names and the register alone.
LEMMA LeaveFrame ==
    ASSUME LeaveInv, SessionInv', ListInv', NEW s \in Socks,
           UNCHANGED <<registry, clients, idx, moved>>,
           \A t \in Socks \ {s} : /\ pc'[t] = pc[t] /\ user'[t] = user[t]
                                 /\ username'[t] = username[t],
           pc[s] \in SessionLabels => pc'[s] \in SessionLabels /\ user'[s] = user[s],
           pc'[s] \in ListedLabels => pc[s] \in ListedLabels,
           pc'[s] \in {"leave", "deregister"} /\ user'[s] \notin moved => username'[s] = user'[s]
    PROVE  LeaveInv'
<1>1. PlaceKept'
  BY DEF LeaveInv, PlaceKept, Listed, clients, ListedLabels, SessionLabels
<1>2. OwnName'
  BY DEF LeaveInv, OwnName
<1>3. UnmovedNotLockedOut'
  BY DEF LeaveInv, UnmovedNotLockedOut, registry
<1> QED BY <1>1, <1>2, <1>3 DEF LeaveInv

\* A user who logs in is in no other session, and so has a place that has not moved.
LEMMA RegisterLeaveInv ==
    ASSUME LeaveInv, SessionInv', ListInv', NEW s \in Socks, Register(s)
    PROVE  LeaveInv'
<1> DEFINE u == user[s]
<1>1. /\ pc[s] = "register" /\ u \in Users
      /\ UNCHANGED <<clients, user, idx, username>>
      /\ pc \in [Socks -> Labels]
  BY DEF Register, LeaveInv, SessionInv, RegisterTypeOK
<1>2. CASE MayLogIn(u)
  <2>1. /\ registered_users' = [registered_users EXCEPT
                ![u] = [known |-> TRUE, active |-> TRUE, sock |-> s]]
        /\ moved' = moved \ {u}
        /\ pc' = [pc EXCEPT ![s] = "join"]
    BY <1>2 DEF Register, Goto
  <2>2. \A t \in Socks : pc[t] \in SessionLabels => user[t] # u
    BY <1>1, <1>2, LoginIsAlone DEF LeaveInv
  <2>3. PlaceKept'
    BY <1>1, <2>1, <2>2 DEF LeaveInv, PlaceKept, Listed, clients, ListedLabels, SessionLabels
  <2>4. OwnName'
    BY <1>1, <2>1, <2>2 DEF LeaveInv, OwnName, SessionLabels
  <2>5. ASSUME NEW v \in Users \ moved', registered_users'[v].active
        PROVE  \E t \in Socks : pc'[t] \in SessionLabels /\ user'[t] = v
    <3>1. CASE v = u
      BY <1>1, <2>1, <3>1 DEF SessionLabels
    <3>2. CASE v # u
      <4>1. PICK t \in Socks : pc[t] \in SessionLabels /\ user[t] = v
        BY <2>1, <2>5, <3>2 DEF LeaveInv, SessionInv, RegisterTypeOK, UnmovedNotLockedOut
      <4> QED BY <1>1, <2>1, <4>1 DEF SessionLabels
    <3> QED BY <3>1, <3>2
  <2>6. UnmovedNotLockedOut'
    BY <2>5 DEF UnmovedNotLockedOut
  <2> QED BY <2>3, <2>4, <2>6 DEF LeaveInv
<1>3. CASE ~MayLogIn(u)
  <2>1. UNCHANGED <<registry, moved>> /\ pc' = [pc EXCEPT ![s] = "closed"]
    BY <1>3 DEF Register, Goto
  <2> QED BY <1>1, <2>1, LeaveFrame DEF SessionLabels, ListedLabels
<1> QED BY <1>2, <1>3

\* The place a client takes is the one behind the last; one turned away keeps its name.
LEMMA JoinLeaveInv ==
    ASSUME LeaveInv, SessionInv', ListInv', NEW s \in Socks, Join(s)
    PROVE  LeaveInv'
<1>1. /\ pc[s] = "join" /\ UNCHANGED <<registry, user, moved>>
      /\ pc \in [Socks -> Labels]
  BY DEF Join, LeaveInv, SessionInv, RegisterTypeOK
<1>2. CASE HasRoom
  <2> DEFINE n == client_count + 1
  <2>1. /\ Listed' = Listed \cup {n}
        /\ n \notin Listed
        /\ \A k \in Listed : client_list'[k] = client_list[k]
        /\ client_list'[n].sock = s
    BY <1>2, SizesAssumption DEF Join, HasRoom, Listed, LeaveInv, ListInv, TypeOK
  <2>2. idx' = [idx EXCEPT ![s] = n] /\ Overwrite(s, "serving", {n})
    BY <1>2 DEF Join
  <2>3. idx \in [Socks -> 1 .. MaxClients]
    BY DEF LeaveInv, ListInv, TypeOK
  <2> HIDE DEF n
  <2>4. /\ pc'[s] = "serving"
        /\ \A t \in Socks \ {s} : pc'[t] = pc[t] \/ (pc[t] = "readname" /\ pc'[t] = "leave")
    BY <2>2, OverwriteStep
  <2>5. PlaceKept'
    BY <1>1, <2>1, <2>2, <2>3, <2>4 DEF LeaveInv, PlaceKept, ListedLabels
  \* Who reads at the new place is not at a place in use, and so has been moved.
  <2>6. \A t \in Reading({n}) : user[t] \in moved
    BY <2>1 DEF LeaveInv, PlaceKept, Reading, ListedLabels
  <2>7. OwnName'
    <3> SUFFICES ASSUME NEW t \in Socks, pc'[t] \in {"leave", "deregister"}, user'[t] \notin moved'
                 PROVE  username'[t] = user'[t]
      BY DEF OwnName
    <3>1. t # s /\ t \notin Reading({n})
      BY <1>1, <2>4, <2>6
    <3>2. username'[t] = username[t] /\ pc'[t] = pc[t]
      BY <2>2, <3>1, OverwriteNames
    <3> QED BY <1>1, <3>2 DEF LeaveInv, OwnName
  <2>8. UnmovedNotLockedOut'
    <3>1. \A t \in Socks : pc[t] \in SessionLabels => pc'[t] \in SessionLabels
      BY <1>1, <2>4 DEF SessionLabels
    <3> QED BY <1>1, <3>1 DEF LeaveInv, UnmovedNotLockedOut, registry
  <2> QED BY <2>5, <2>7, <2>8 DEF LeaveInv
<1>3. CASE ~HasRoom
  <2>1. /\ UNCHANGED <<clients, idx>> /\ pc' = [pc EXCEPT ![s] = "deregister"]
        /\ username' = [username EXCEPT ![s] = user[s]]
    BY <1>3 DEF Join, Goto
  <2>2. username \in [Socks -> Users \cup {NoUser}]
    BY DEF LeaveInv, ListInv, TypeOK
  <2> QED BY <1>1, <2>1, <2>2, LeaveFrame DEF SessionLabels, ListedLabels
<1> QED BY <1>2, <1>3

\* A removal moves the places behind it, and records the users who have them: whoever
\* is not recorded keeps a place before it, which nobody touches.
LEMMA LeaveLeaveInv ==
    ASSUME LeaveInv, SessionInv', ListInv', NEW s \in Socks, Leave(s)
    PROVE  LeaveInv'
<1>1. PICK k \in Listed :
        /\ client_list[k].sock = s
        /\ client_list' = Compacted(k)
        /\ client_count' = client_count - 1
        /\ moved' = moved \cup {client_list[j].username : j \in k + 1 .. client_count}
        /\ Overwrite(s, "deregister", k .. client_count - 1)
  BY DEF Leave
<1>2. pc[s] = "leave" /\ UNCHANGED <<registry, user, idx>>
  BY DEF Leave
<1>3. /\ pc'[s] = "deregister"
      /\ \A t \in Socks \ {s} : pc'[t] = pc[t] \/ (pc[t] = "readname" /\ pc'[t] = "leave")
  BY <1>1, OverwriteStep
<1>4. k \in Nat /\ client_count \in Nat
  BY SizesAssumption DEF Listed, LeaveInv, ListInv, TypeOK
<1>5. ASSUME NEW t \in Socks, pc[t] \in ListedLabels, user[t] \notin moved', t # s
      PROVE  /\ idx[t] \in Listed /\ idx[t] < k
             /\ client_list[idx[t]].sock = t
  <2>1. idx[t] \in Listed /\ client_list[idx[t]].sock = t
    BY <1>1, <1>5 DEF LeaveInv, PlaceKept
  <2>2. client_list[idx[t]].username = user[t]
    BY <2>1 DEF LeaveInv, ListInv, PlacesAreClients
  <2>3. idx[t] \notin k + 1 .. client_count
    BY <1>1, <1>5, <2>2
  <2> QED BY <1>1, <1>4, <1>5, <2>1, <2>3 DEF Listed
<1>6. \A t \in Socks : pc'[t] \in ListedLabels => pc[t] \in ListedLabels /\ t # s
  BY <1>3 DEF ListedLabels
<1>7. PlaceKept'
  <2> SUFFICES ASSUME NEW t \in Socks, pc'[t] \in ListedLabels, user'[t] \notin moved'
               PROVE  idx'[t] \in Listed' /\ client_list'[idx'[t]].sock = t
    BY DEF PlaceKept
  <2>1. idx[t] \in Listed /\ idx[t] < k /\ client_list[idx[t]].sock = t
    BY <1>2, <1>5, <1>6
  <2>2. client_list'[idx[t]] = client_list[idx[t]]
    BY <1>1, <1>4, <2>1, SizesAssumption DEF Compacted, Listed, LeaveInv, ListInv, TypeOK
  <2>3. idx[t] \in Listed'
    BY <1>1, <1>4, <2>1 DEF Listed
  <2> QED BY <1>2, <2>1, <2>2, <2>3
<1>8. OwnName'
  <2> SUFFICES ASSUME NEW t \in Socks, pc'[t] \in {"leave", "deregister"}, user'[t] \notin moved'
               PROVE  username'[t] = user'[t]
    BY DEF OwnName
  <2>1. t \notin Reading(k .. client_count - 1)
    <3> SUFFICES ASSUME t \in Reading(k .. client_count - 1) PROVE FALSE
      OBVIOUS
    <3>1. pc[t] = "readname" /\ idx[t] \in k .. client_count - 1
      BY DEF Reading
    <3> QED BY <1>2, <1>4, <1>5, <3>1 DEF ListedLabels
  <2>2. username'[t] = username[t] /\ pc[t] \in {"leave", "deregister"}
    BY <1>1, <1>2, <2>1, OverwriteNames
  <2>3. user[t] \notin moved
    BY <1>1, <1>2
  <2> QED BY <1>2, <2>2, <2>3 DEF LeaveInv, OwnName
<1>9. UnmovedNotLockedOut'
  <2>1. \A t \in Socks : pc[t] \in SessionLabels => pc'[t] \in SessionLabels
    BY <1>2, <1>3 DEF SessionLabels
  <2>2. moved \subseteq moved'
    BY <1>1
  <2> QED BY <1>2, <2>1, <2>2 DEF LeaveInv, UnmovedNotLockedOut, registry
<1> QED BY <1>7, <1>8, <1>9 DEF LeaveInv

\* A user whose place has not moved is deregistered under the own name.
LEMMA DeregisterLeaveInv ==
    ASSUME LeaveInv, SessionInv', ListInv', NEW s \in Socks, Deregister(s)
    PROVE  LeaveInv'
<1>1. /\ pc[s] = "deregister" /\ pc' = [pc EXCEPT ![s] = "closed"]
      /\ UNCHANGED <<clients, user, idx, username, moved>>
      /\ pc \in [Socks -> Labels]
  BY DEF Deregister, Goto, LeaveInv, SessionInv, RegisterTypeOK
<1>2. PlaceKept'
  BY <1>1 DEF LeaveInv, PlaceKept, Listed, clients, ListedLabels
<1>3. OwnName'
  BY <1>1 DEF LeaveInv, OwnName
<1>4. ASSUME NEW v \in Users \ moved', registered_users'[v].active
      PROVE  \E t \in Socks : pc'[t] \in SessionLabels /\ user'[t] = v
  <2>1. registered_users[v].active
    BY <1>4 DEF Deregister, LeaveInv, SessionInv, RegisterTypeOK
  <2>2. PICK t \in Socks : pc[t] \in SessionLabels /\ user[t] = v
    BY <1>1, <1>4, <2>1 DEF LeaveInv, UnmovedNotLockedOut
  <2>3. t # s
    <3> SUFFICES ASSUME t = s PROVE FALSE
      OBVIOUS
    <3>1. username[s] = v
      BY <1>1, <1>4, <2>2 DEF LeaveInv, OwnName
    <3>2. EndsSession(s, v)
      BY <1>1, <1>4, <2>1, <2>2 DEF EndsSession, LeaveInv, SessionInv, SessionIsRegistered,
         RegisterTypeOK
    <3>3. registered_users' = [registered_users EXCEPT ![v].active = FALSE, ![v].sock = NoSock]
      BY <1>4, <3>1, <3>2 DEF Deregister
    <3> QED BY <1>4, <3>3 DEF LeaveInv, SessionInv, RegisterTypeOK, Entry
  <2> QED BY <1>1, <2>2, <2>3
<1>5. UnmovedNotLockedOut'
  BY <1>4 DEF UnmovedNotLockedOut
<1> QED BY <1>2, <1>3, <1>5 DEF LeaveInv

LEMMA NextLeaveInv == LeaveInv /\ [Next]_vars => LeaveInv'
<1> SUFFICES ASSUME LeaveInv, [Next]_vars PROVE LeaveInv'
  OBVIOUS
<1>i. /\ SessionInv' /\ ListInv' /\ pc \in [Socks -> Labels]
      /\ user \in [Socks -> Users \cup {NoUser}] /\ username \in [Socks -> Users \cup {NoUser}]
  BY NextSessionInv, NextListInv DEF LeaveInv, ListInv, TypeOK
<1> USE <1>i
<1>1. CASE UNCHANGED vars
  BY <1>1 DEF vars, registry, clients, LeaveInv, PlaceKept, OwnName, UnmovedNotLockedOut, Listed
<1>2. ASSUME NEW s \in Socks, NEW u \in Users, Connect(s, u) PROVE LeaveInv'
  BY <1>2, LeaveFrame DEF Connect, Goto, ListedLabels, SessionLabels
<1>3. ASSUME NEW s \in Socks, Register(s) PROVE LeaveInv'
  BY <1>3, RegisterLeaveInv
<1>4. ASSUME NEW s \in Socks, Join(s) PROVE LeaveInv'
  BY <1>4, JoinLeaveInv
<1>5. ASSUME NEW s \in Socks, Disconnect(s) PROVE LeaveInv'
  BY <1>5, LeaveFrame DEF Disconnect, Goto, ListedLabels, SessionLabels
<1>6. ASSUME NEW s \in Socks, ReadName(s) PROVE LeaveInv'
  <2>1. user[s] \notin moved => client_list[idx[s]].username = user[s]
    BY <1>6 DEF ReadName, LeaveInv, PlaceKept, ListInv, PlacesAreClients, ListedLabels
  <2> QED BY <1>6, <2>1, LeaveFrame DEF ReadName, Goto, ListedLabels, SessionLabels
<1>7. ASSUME NEW s \in Socks, Leave(s) PROVE LeaveInv'
  BY <1>7, LeaveLeaveInv
<1>8. ASSUME NEW s \in Socks, Deregister(s) PROVE LeaveInv'
  BY <1>8, DeregisterLeaveInv
<1> QED BY <1>1, <1>2, <1>3, <1>4, <1>5, <1>6, <1>7, <1>8 DEF Next

\* Whoever is registered as having a session has one, and so can log in once it has
\* ended, unless a removal has moved the client's place in the list: that race at the
\* reading of the name is the only way to be locked out.
THEOREM UnmovedCanReturn == Spec => []UnmovedNotLockedOut
<1>1. LeaveInv => UnmovedNotLockedOut
  BY DEF LeaveInv
<1> QED BY InitLeaveInv, NextLeaveInv, <1>1, PTL DEF Spec
=============================================================================
