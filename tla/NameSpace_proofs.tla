-------------------------- MODULE NameSpace_proofs --------------------------
(***************************************************************************)
(* The promises of NameSpace about access requests and about entries and     *)
(* files, for any number of users, files, folders and servers, and requests  *)
(* without bound. Each rests on an invariant about one step at a time: the    *)
(* shapes of the tables, that an undecided request for read access is of a    *)
(* user who cannot write, and that an entry's file is its owner's.            *)
(***************************************************************************)
EXTENDS NameSpace, TLAPS

\* The tables hold values of their kinds.
TablesOK ==
    /\ file_trie \in [Files -> Entry \cup {NoEntry}]
    /\ folder_trie \subseteq Folders
    /\ access_requests \in Seq(AccessRequest)
    /\ shown \in [Users -> Seq(AccessRequest \cup {NoRequest})]
    /\ outdated \subseteq Users
    /\ disk \in [Servers -> [Files -> [Places -> Owners \cup {NoText}]]]

\* Who has asked for read access and waits cannot write yet.
AskersCannotWrite ==
    Undisturbed({"overtaken"}) =>
        \A n \in DOMAIN access_requests :
            LET request == access_requests[n] IN
            request.access = "read" /\ Exists(request.filename) =>
                file_trie[request.filename].acl[request.username] # "readwrite"

-----------------------------------------------------------------------------
(* Shapes *)

\* A new entry is an entry.
LEMMA NewEntryShape ==
  ASSUME NEW u \in Owners, NEW s \in Servers
  PROVE  NewEntry(u, s) \in Entry
  BY DEF NewEntry, Entry, Places, Levels

\* The array stays one of requests when one is taken out.
LEMMA RemovedShape ==
  ASSUME access_requests \in Seq(AccessRequest), NEW n \in DOMAIN access_requests
  PROVE  /\ Removed(n) \in Seq(AccessRequest)
         /\ Len(Removed(n)) = Len(access_requests) - 1
         /\ \A m \in DOMAIN Removed(n) :
              /\ m \in DOMAIN access_requests
              /\ m + 1 \in DOMAIN access_requests
              /\ Removed(n)[m] = access_requests[IF m < n THEN m ELSE m + 1]
<1> DEFINE len == Len(access_requests) - 1
<1>1. len \in Nat /\ DOMAIN access_requests = 1 .. len + 1
  OBVIOUS
<1>2. \A m \in 1 .. len : (IF m < n THEN m ELSE m + 1) \in DOMAIN access_requests
  BY <1>1
<1>3. \A m \in DOMAIN access_requests : access_requests[m] \in AccessRequest
  OBVIOUS
<1>4. Removed(n) \in [1 .. len -> AccessRequest]
  BY <1>1, <1>2, <1>3 DEF Removed
<1> HIDE DEF len
<1>5. Removed(n) \in Seq(AccessRequest)
  BY <1>1, <1>4
<1>6. Len(Removed(n)) = len
  BY <1>1, <1>4, <1>5
<1> QED
  BY <1>1, <1>2, <1>4, <1>5, <1>6 DEF Removed, len

\* What the steps that decide a request do to the tables of requests.
LEMMA SettleShape ==
  ASSUME TablesOK, NEW n \in DOMAIN access_requests, Settle(n)
  PROVE  /\ access_requests' \in Seq(AccessRequest)
         /\ shown' \in [Users -> Seq(AccessRequest \cup {NoRequest})]
         /\ outdated' \subseteq Users
  BY RemovedShape DEF TablesOK, Settle

\* The tables keep their shapes.
LEMMA TablesInv == TablesOK /\ [Next]_vars => TablesOK'
<1> SUFFICES ASSUME TablesOK, [Next]_vars PROVE TablesOK'
  OBVIOUS
<1>1. ASSUME NEW u \in Users, NEW f \in Files, NEW s \in Servers, CreateFile(u, f, s)
      PROVE  TablesOK'
  <2>1. NewEntry(u, s) \in Entry
    BY NewEntryShape DEF Owners
  <2> QED
    BY <1>1, <2>1 DEF CreateFile, TablesOK, requests, Owners
<1>2. ASSUME NEW u \in Users, NEW f \in Files, DeleteFile(u, f) PROVE TablesOK'
  BY <1>2 DEF DeleteFile, TablesOK, requests
<1>3. ASSUME NEW u \in Users, NEW f \in Files, NEW p \in Places, MoveFile(u, f, p)
      PROVE  TablesOK'
  <2> DEFINE s == file_trie[f].ss_id
             from == file_trie[f].folder_path
  <2>1. file_trie[f] \in Entry
    BY <1>3 DEF MoveFile, CheckAccess, Exists, TablesOK
  <2>2. s \in Servers /\ from \in Places
    BY <2>1 DEF Entry
  <2>3. disk' \in [Servers -> [Files -> [Places -> Owners \cup {NoText}]]]
    <3> DEFINE arrived == [disk EXCEPT ![s][f][p] = disk[s][f][from]]
    <3>1. disk' = [arrived EXCEPT ![s][f][from] = NoText]
      BY <1>3 DEF MoveFile
    <3>2. disk[s][f][from] \in Owners \cup {NoText}
      BY <2>2 DEF TablesOK
    <3>3. arrived \in [Servers -> [Files -> [Places -> Owners \cup {NoText}]]]
      BY <2>2, <3>2 DEF TablesOK
    <3> HIDE DEF arrived
    <3> QED
      BY <2>2, <3>1, <3>3
  <2>4. [file_trie[f] EXCEPT !.folder_path = p] \in Entry
    BY <2>1 DEF Entry
  <2>5. file_trie' \in [Files -> Entry \cup {NoEntry}]
    BY <1>3, <2>4 DEF MoveFile, TablesOK
  <2> QED
    BY <1>3, <2>3, <2>5 DEF MoveFile, TablesOK, requests
<1>4. ASSUME NEW u \in Users, NEW f \in Files, NEW target \in Users, NEW level \in Levels,
             SetAccess(u, f, target, level)
      PROVE  TablesOK'
  <2>1. file_trie[f] \in Entry
    BY <1>4 DEF SetAccess, Exists, TablesOK
  <2>2. [file_trie[f] EXCEPT !.acl[target] = level] \in Entry
    BY <2>1 DEF Entry
  <2> QED
    BY <1>4, <2>2 DEF SetAccess, TablesOK, requests, storage
<1>5. ASSUME NEW u \in Users, NEW f \in Files, NEW level \in Levels, level # "none",
             RequestAccess(u, f, level)
      PROVE  TablesOK'
  <2>1. [username |-> u, filename |-> f, access |-> level] \in AccessRequest
    BY <1>5 DEF AccessRequest
  <2>2. access_requests' \in Seq(AccessRequest)
    BY <1>5, <2>1 DEF RequestAccess, PutLast, TablesOK
  <2> QED
    BY <1>5, <2>2 DEF RequestAccess, TablesOK, names, storage
<1>6. ASSUME NEW u \in Users, ViewRequests(u) PROVE TablesOK'
  <2> DEFINE list == [n \in DOMAIN access_requests |->
                        IF Decides(u, n) THEN access_requests[n] ELSE NoRequest]
  <2>1. \A n \in 1 .. Len(access_requests) : access_requests[n] \in AccessRequest
    BY DEF TablesOK
  <2>2. list \in [1 .. Len(access_requests) -> AccessRequest \cup {NoRequest}]
    BY <2>1 DEF TablesOK
  <2>3. Len(access_requests) \in Nat
    BY DEF TablesOK
  <2>4. list \in Seq(AccessRequest \cup {NoRequest})
    BY <2>2, <2>3
  <2> QED
    BY <1>6, <2>4 DEF ViewRequests, TablesOK, names, storage
<1>7. ASSUME NEW u \in Users, NEW n \in DOMAIN access_requests, ApproveRequest(u, n)
      PROVE  TablesOK'
  <2> DEFINE request == access_requests[n]
  <2>1. request \in AccessRequest
    BY DEF TablesOK
  <2>2. file_trie[request.filename] \in Entry
    BY <1>7, <2>1 DEF ApproveRequest, Decides, Exists, TablesOK, AccessRequest
  <2>3. [file_trie[request.filename] EXCEPT !.acl[request.username] = request.access]
          \in Entry
    BY <2>1, <2>2 DEF Entry, AccessRequest
  <2>4. file_trie' \in [Files -> Entry \cup {NoEntry}]
    BY <1>7, <2>3 DEF ApproveRequest, TablesOK
  <2>5. Settle(n)
    BY <1>7 DEF ApproveRequest
  <2> QED
    BY <1>7, <2>4, <2>5, SettleShape DEF ApproveRequest, TablesOK, storage
<1>8. ASSUME NEW u \in Users, NEW n \in DOMAIN access_requests, DenyRequest(u, n)
      PROVE  TablesOK'
  <2>1. Settle(n)
    BY <1>8 DEF DenyRequest
  <2> QED
    BY <1>8, <2>1, SettleShape DEF DenyRequest, TablesOK, names, storage
<1>9. ASSUME NEW p \in Folders, NEW s \in Servers, CreateFolder(p, s) PROVE TablesOK'
  BY <1>9 DEF CreateFolder, TablesOK, requests
<1>10. ASSUME NEW s \in Servers, RegisterServer(s) PROVE TablesOK'
  <2> DEFINE new == {f \in Scanned(s) : ~Exists(f)}
             entry(f) == IF f \in new THEN NewEntry(System, s)
                         ELSE IF f \in Scanned(s) THEN [file_trie[f] EXCEPT !.ss_id = s]
                         ELSE file_trie[f]
  <2>1. NewEntry(System, s) \in Entry
    BY NewEntryShape DEF Owners
  <2>2. \A f \in Files : entry(f) \in Entry \cup {NoEntry}
    BY <2>1 DEF TablesOK, Entry, Exists, Scanned
  <2>3. file_trie' = [f \in Files |-> entry(f)]
    BY <1>10 DEF RegisterServer
  <2>4. disk' \in [Servers -> [Files -> [Places -> Owners \cup {NoText}]]]
    BY <1>10 DEF RegisterServer, TablesOK, Owners
  <2> HIDE DEF entry
  <2>5. file_trie' \in [Files -> Entry \cup {NoEntry}]
    BY <2>2, <2>3
  <2> QED
    BY <1>10, <2>4, <2>5 DEF RegisterServer, TablesOK, requests
<1>11. ASSUME RestartNameServer PROVE TablesOK'
  <2>1. <<>> \in Seq(AccessRequest) /\ <<>> \in Seq(AccessRequest \cup {NoRequest})
    OBVIOUS
  <2> QED
    BY <1>11, <2>1 DEF RestartNameServer, TablesOK, storage
<1>12. CASE UNCHANGED vars
  BY <1>12 DEF TablesOK, vars, names, requests, storage
<1> QED
  BY <1>1, <1>2, <1>3, <1>4, <1>5, <1>6, <1>7, <1>8, <1>9, <1>10, <1>11, <1>12
  DEF Next, FileCommand, Decision

\* At the start the tables are empty.
LEMMA TablesInit == Init => TablesOK
  BY DEF Init, TablesOK

\* The tables hold values of their kinds at all times.
THEOREM TablesTyped == Spec => []TablesOK
  BY TablesInit, TablesInv, PTL DEF Spec

-----------------------------------------------------------------------------
(* Entries and files *)

\* Every step that leaves the entries and the disks alone, or a race behind.
LEMMA OwnersTextInv ==
  TablesOK /\ UndisturbedEntryNamesOwnersText /\ [Next]_vars
    => UndisturbedEntryNamesOwnersText'
<1> DEFINE OwnText(f) ==
             disk[file_trie[f].ss_id][f][file_trie[f].folder_path] = file_trie[f].owner
<1> SUFFICES ASSUME TablesOK, UndisturbedEntryNamesOwnersText, [Next]_vars,
                    Undisturbed({"redirected"})', NEW g \in Files, Exists(g)'
             PROVE  OwnText(g)'
  BY DEF UndisturbedEntryNamesOwnersText
<1> USE DEF TablesOK
<1>a. ASSUME races \subseteq races' PROVE \A f \in Files : Exists(f) => OwnText(f)
  BY <1>a DEF Undisturbed, UndisturbedEntryNamesOwnersText
<1>b. \A f \in Files : Exists(f) => file_trie[f] \in Entry
  BY DEF Exists
<1>1. ASSUME NEW u \in Users, NEW f \in Files, NEW s \in Servers, CreateFile(u, f, s)
      PROVE  OwnText(g)'
  <2>1. \A h \in Files : Exists(h) => OwnText(h)
    BY <1>1, <1>a DEF CreateFile
  <2>2. CASE g = f
    BY <1>1, <2>2 DEF CreateFile, NewEntry, Places
  <2>3. CASE g # f
    <3>1. file_trie'[g] = file_trie[g] /\ Exists(g)
      BY <1>1, <2>3 DEF CreateFile, Exists
    <3>2. file_trie[g] \in Entry
      BY <3>1, <1>b
    <3> QED
      BY <1>1, <2>1, <2>3, <3>1, <3>2 DEF CreateFile, Entry, Places
  <2> QED
    BY <2>2, <2>3
<1>2. ASSUME NEW u \in Users, NEW f \in Files, DeleteFile(u, f) PROVE OwnText(g)'
  <2>1. \A h \in Files : Exists(h) => OwnText(h)
    BY <1>2, <1>a DEF DeleteFile
  <2>2. g # f
    BY <1>2 DEF DeleteFile, Exists
  <2>3. file_trie'[g] = file_trie[g] /\ Exists(g)
    BY <1>2, <2>2 DEF DeleteFile, Exists
  <2>4. file_trie[g] \in Entry
    BY <2>3, <1>b
  <2> QED
    BY <1>2, <2>1, <2>2, <2>3, <2>4 DEF DeleteFile, Entry, Places
<1>3. ASSUME NEW u \in Users, NEW f \in Files, NEW p \in Places, MoveFile(u, f, p)
      PROVE  OwnText(g)'
  <2> DEFINE s == file_trie[f].ss_id
             from == file_trie[f].folder_path
  <2>1. \A h \in Files : Exists(h) => OwnText(h)
    BY <1>3, <1>a DEF MoveFile
  <2>2. Exists(f) /\ file_trie[f] \in Entry
    BY <1>3, <1>b DEF MoveFile, CheckAccess
  <2>3. s \in Servers /\ from \in Places /\ from # p
    BY <1>3, <2>2 DEF MoveFile, Entry
  <2>4. disk' = [disk EXCEPT ![s][f][p] = disk[s][f][from], ![s][f][from] = NoText]
    BY <1>3 DEF MoveFile
  <2>5. CASE g = f
    <3>1. file_trie'[f].ss_id = s /\ file_trie'[f].folder_path = p
            /\ file_trie'[f].owner = file_trie[f].owner
      BY <1>3, <2>2 DEF MoveFile, Entry
    <3>2. disk'[s][f][p] = disk[s][f][from]
      BY <2>3, <2>4
    <3> QED
      BY <2>1, <2>2, <2>5, <3>1, <3>2
  <2>6. CASE g # f
    <3>1. file_trie'[g] = file_trie[g] /\ Exists(g)
      BY <1>3, <2>6 DEF MoveFile, Exists
    <3>2. file_trie[g] \in Entry
      BY <3>1, <1>b
    <3>3. \A t \in Servers, q \in Places : disk'[t][g][q] = disk[t][g][q]
      BY <2>3, <2>4, <2>6
    <3> QED
      BY <2>1, <3>1, <3>2, <3>3 DEF Entry
  <2> QED
    BY <2>5, <2>6
<1>4. ASSUME NEW u \in Users, NEW f \in Files, NEW target \in Users, NEW level \in Levels,
             SetAccess(u, f, target, level)
      PROVE  OwnText(g)'
  <2>1. \A h \in Files : Exists(h) => OwnText(h)
    BY <1>4, <1>a DEF SetAccess, Note
  <2>2. Exists(f) /\ file_trie[f] \in Entry
    BY <1>4, <1>b DEF SetAccess
  <2>3. /\ file_trie'[g].ss_id = file_trie[g].ss_id
        /\ file_trie'[g].folder_path = file_trie[g].folder_path
        /\ file_trie'[g].owner = file_trie[g].owner
        /\ Exists(g)
    BY <1>4, <2>2 DEF SetAccess, Entry, Exists
  <2> QED
    BY <1>4, <2>1, <2>3 DEF SetAccess, storage
<1>5. ASSUME NEW u \in Users, NEW n \in DOMAIN access_requests, ApproveRequest(u, n)
      PROVE  OwnText(g)'
  <2> DEFINE request == access_requests[n]
  <2>1. \A h \in Files : Exists(h) => OwnText(h)
    BY <1>5, <1>a DEF ApproveRequest, Note
  <2>2. request \in AccessRequest
    OBVIOUS
  <2>3. Exists(request.filename) /\ file_trie[request.filename] \in Entry
    BY <1>5, <1>b, <2>2 DEF ApproveRequest, Decides, AccessRequest
  <2>4. /\ file_trie'[g].ss_id = file_trie[g].ss_id
        /\ file_trie'[g].folder_path = file_trie[g].folder_path
        /\ file_trie'[g].owner = file_trie[g].owner
        /\ Exists(g)
    BY <1>5, <2>2, <2>3 DEF ApproveRequest, Entry, Exists, AccessRequest
  <2> QED
    BY <1>5, <2>1, <2>4 DEF ApproveRequest, storage
<1>6. ASSUME NEW s \in Servers, RegisterServer(s) PROVE OwnText(g)'
  <2> DEFINE new == {f \in Scanned(s) : ~Exists(f)}
  <2>1. \A h \in Files : Exists(h) => OwnText(h)
    BY <1>6, <1>a DEF RegisterServer, Note
  <2>2. file_trie'[g] = IF g \in new THEN NewEntry(System, s)
                        ELSE IF g \in Scanned(s) THEN [file_trie[g] EXCEPT !.ss_id = s]
                        ELSE file_trie[g]
    BY <1>6 DEF RegisterServer
  <2>3. \A t \in Servers, p \in Places :
           disk'[t][g][p] = IF t = s /\ p = Root /\ g \in new /\ disk[s][g][p] # NoText
                            THEN System ELSE disk[t][g][p]
    BY <1>6 DEF RegisterServer
  <2>4. CASE g \in new
    <3>1. disk[s][g][Root] # NoText
      BY <2>4 DEF Scanned
    <3> QED
      BY <2>2, <2>3, <2>4, <3>1 DEF NewEntry, Places
  <2>5. CASE g \notin new /\ g \in Scanned(s)
    <3>1. Exists(g) /\ file_trie[g] \in Entry
      BY <2>5, <1>b
    <3>2. file_trie[g].ss_id = s /\ file_trie[g].folder_path = Root
      BY <1>6, <2>5, <3>1 DEF RegisterServer, Note, Undisturbed
    <3>3. /\ file_trie'[g].ss_id = s
          /\ file_trie'[g].folder_path = Root
          /\ file_trie'[g].owner = file_trie[g].owner
      BY <2>2, <2>5, <3>1, <3>2 DEF Entry
    <3>4. disk'[s][g][Root] = disk[s][g][Root]
      BY <2>3, <2>5 DEF Places
    <3> QED
      BY <2>1, <3>1, <3>2, <3>3, <3>4
  <2>6. CASE g \notin new /\ g \notin Scanned(s)
    <3>1. file_trie'[g] = file_trie[g] /\ Exists(g)
      BY <2>2, <2>6 DEF Exists
    <3>2. file_trie[g] \in Entry
      BY <3>1, <1>b
    <3> QED
      BY <2>1, <2>3, <2>6, <3>1, <3>2 DEF Entry
  <2> QED
    BY <2>4, <2>5, <2>6
<1>7. ASSUME RestartNameServer PROVE FALSE
  BY <1>7 DEF RestartNameServer, Exists
<1>8. ASSUME UNCHANGED <<file_trie, disk, races>> PROVE OwnText(g)'
  BY <1>8, <1>a DEF Exists
<1> QED
  <2>1. ASSUME NEW u \in Users, NEW f \in Files, NEW level \in Levels,
               RequestAccess(u, f, level)
        PROVE  OwnText(g)'
    BY <2>1, <1>8 DEF RequestAccess, names, storage
  <2>2. ASSUME NEW u \in Users, ViewRequests(u) PROVE OwnText(g)'
    BY <2>2, <1>8 DEF ViewRequests, names, storage
  <2>3. ASSUME NEW u \in Users, NEW n \in DOMAIN access_requests, DenyRequest(u, n)
        PROVE  OwnText(g)'
    BY <2>3, <1>8 DEF DenyRequest, names, storage
  <2>4. ASSUME NEW p \in Folders, NEW s \in Servers, CreateFolder(p, s) PROVE OwnText(g)'
    BY <2>4, <1>8 DEF CreateFolder
  <2>5. CASE UNCHANGED vars
    BY <2>5, <1>8 DEF vars, names, storage
  <2> QED
    BY <1>1, <1>2, <1>3, <1>4, <1>5, <1>6, <1>7, <2>1, <2>2, <2>3, <2>4, <2>5
    DEF Next, FileCommand, Decision

\* An entry names a file of its owner, unless a server came with another of that name: for
\* any number of files, folders and servers, and any sequence of requests and restarts.
THEOREM EntriesNameOwnersText == Spec => []UndisturbedEntryNamesOwnersText
<1>1. Init => UndisturbedEntryNamesOwnersText
  BY DEF Init, UndisturbedEntryNamesOwnersText, Exists
<1> QED
  BY <1>1, TablesTyped, OwnersTextInv, PTL DEF Spec

-----------------------------------------------------------------------------
(* What users were shown *)

\* A step that changes no list of a user and leaves what is pending at its position.
LEMMA ShownStays ==
  ASSUME UndisturbedShownStaysTrue, UNCHANGED <<shown, outdated>>,
         \A n \in DOMAIN access_requests :
            n \in DOMAIN access_requests' /\ access_requests'[n] = access_requests[n]
  PROVE  UndisturbedShownStaysTrue'
  BY DEF UndisturbedShownStaysTrue

\* A decision moves the requests behind it, and those who were shown one know.
LEMMA SettleOutdates ==
  ASSUME TablesOK, UndisturbedShownStaysTrue, NEW n \in DOMAIN access_requests, Settle(n)
  PROVE  UndisturbedShownStaysTrue'
<1> SUFFICES ASSUME NEW u \in Users \ outdated', NEW m \in DOMAIN shown[u],
                    shown[u][m] # NoRequest
             PROVE  m \in DOMAIN access_requests' /\ access_requests'[m] = shown[u][m]
  BY DEF UndisturbedShownStaysTrue, Settle
<1>1. u \notin outdated /\ ~(m >= n)
  BY DEF Settle
<1>2. m \in DOMAIN access_requests /\ access_requests[m] = shown[u][m]
  BY <1>1 DEF UndisturbedShownStaysTrue
<1>3. DOMAIN access_requests = 1 .. Len(access_requests) /\ Len(access_requests) \in Nat
  BY DEF TablesOK
<1>4. m < n
  BY <1>1, <1>2, <1>3
<1>5. m \in 1 .. Len(access_requests) - 1
  BY <1>2, <1>3, <1>4
<1> QED
  BY <1>2, <1>4, <1>5 DEF Settle, Removed

\* The lists stay true.
LEMMA ShownInv ==
  TablesOK /\ UndisturbedShownStaysTrue /\ [Next]_vars => UndisturbedShownStaysTrue'
<1> SUFFICES ASSUME TablesOK, UndisturbedShownStaysTrue, [Next]_vars
             PROVE  UndisturbedShownStaysTrue'
  OBVIOUS
<1>1. ASSUME UNCHANGED requests PROVE UndisturbedShownStaysTrue'
  BY <1>1, ShownStays DEF requests
<1>2. ASSUME NEW u \in Users, NEW f \in Files, NEW level \in Levels, level # "none",
             RequestAccess(u, f, level)
      PROVE  UndisturbedShownStaysTrue'
  <2> DEFINE request == [username |-> u, filename |-> f, access |-> level]
  <2>1. request \in AccessRequest
    BY <1>2 DEF AccessRequest
  <2>2. access_requests' = Append(access_requests, request)
    BY <1>2 DEF RequestAccess, PutLast
  <2> HIDE DEF request
  <2>3. \A n \in DOMAIN access_requests :
           n \in DOMAIN access_requests' /\ access_requests'[n] = access_requests[n]
    BY <2>1, <2>2 DEF TablesOK
  <2> QED
    BY <1>2, <2>3, ShownStays DEF RequestAccess
<1>3. ASSUME NEW u \in Users, ViewRequests(u) PROVE UndisturbedShownStaysTrue'
  BY <1>3 DEF ViewRequests, UndisturbedShownStaysTrue, TablesOK
<1>4. ASSUME NEW u \in Users, NEW n \in DOMAIN access_requests,
             ApproveRequest(u, n) \/ DenyRequest(u, n)
      PROVE  UndisturbedShownStaysTrue'
  BY <1>4, SettleOutdates DEF ApproveRequest, DenyRequest
<1>5. ASSUME RestartNameServer PROVE UndisturbedShownStaysTrue'
  BY <1>5 DEF RestartNameServer, UndisturbedShownStaysTrue
<1>6. ASSUME NEW u \in Users, NEW f \in Files, NEW s \in Servers, CreateFile(u, f, s)
      PROVE  UndisturbedShownStaysTrue'
  BY <1>1, <1>6 DEF CreateFile
<1>7. ASSUME NEW u \in Users, NEW f \in Files, DeleteFile(u, f)
      PROVE  UndisturbedShownStaysTrue'
  BY <1>1, <1>7 DEF DeleteFile
<1>8. ASSUME NEW u \in Users, NEW f \in Files, NEW p \in Places, MoveFile(u, f, p)
      PROVE  UndisturbedShownStaysTrue'
  BY <1>1, <1>8 DEF MoveFile
<1>9. ASSUME NEW u \in Users, NEW f \in Files, NEW target \in Users, NEW level \in Levels,
             SetAccess(u, f, target, level)
      PROVE  UndisturbedShownStaysTrue'
  BY <1>1, <1>9 DEF SetAccess
<1>10. ASSUME NEW p \in Folders, NEW s \in Servers, CreateFolder(p, s)
       PROVE  UndisturbedShownStaysTrue'
  BY <1>1, <1>10 DEF CreateFolder
<1>11. ASSUME NEW s \in Servers, RegisterServer(s) PROVE UndisturbedShownStaysTrue'
  BY <1>1, <1>11 DEF RegisterServer
<1>12. CASE UNCHANGED vars
  BY <1>1, <1>12 DEF vars
<1> QED
  BY <1>2, <1>3, <1>4, <1>5, <1>6, <1>7, <1>8, <1>9, <1>10, <1>11, <1>12
  DEF Next, FileCommand, Decision

\* A request is where its owner was shown it until one before it, or itself, is decided:
\* for any number of users, files and pending requests.
THEOREM ShownRequestsStay == Spec => []UndisturbedShownStaysTrue
<1>1. Init => UndisturbedShownStaysTrue
  BY DEF Init, UndisturbedShownStaysTrue
<1> QED
  BY <1>1, TablesTyped, ShownInv, PTL DEF Spec

-----------------------------------------------------------------------------
(* Approvals *)

\* Steps that grant nothing and add no request.
LEMMA AskersStay ==
  ASSUME TablesOK, AskersCannotWrite, races \subseteq races',
         access_requests' = access_requests,
         \A f \in Files, u \in Users :
            Exists(f)' => \/ file_trie'[f].acl[u] # "readwrite"
                          \/ Exists(f) /\ file_trie'[f].acl[u] = file_trie[f].acl[u]
  PROVE  AskersCannotWrite'
<1>1. \A n \in DOMAIN access_requests : /\ access_requests[n].filename \in Files
                                        /\ access_requests[n].username \in Users
  <2>1. \A n \in DOMAIN access_requests : access_requests[n] \in AccessRequest
    BY DEF TablesOK
  <2> QED
    BY <2>1 DEF AccessRequest
<1> QED
  BY <1>1 DEF AskersCannotWrite, Undisturbed

\* Nobody who waits for read access comes to write, unless a race is recorded.
LEMMA AskersInv == TablesOK /\ AskersCannotWrite /\ [Next]_vars => AskersCannotWrite'
<1> SUFFICES ASSUME TablesOK, AskersCannotWrite, [Next]_vars PROVE AskersCannotWrite'
  OBVIOUS
<1>a. \A n \in DOMAIN access_requests : access_requests[n] \in AccessRequest
  BY DEF TablesOK
<1>b. \A f \in Files : Exists(f) => file_trie[f] \in Entry
  BY DEF Exists, TablesOK
<1>1. ASSUME NEW u \in Users, NEW f \in Files, NEW s \in Servers, CreateFile(u, f, s)
      PROVE  AskersCannotWrite'
  BY <1>1, AskersStay DEF CreateFile, requests, NewEntry, Exists, TablesOK
<1>2. ASSUME NEW u \in Users, NEW f \in Files, DeleteFile(u, f) PROVE AskersCannotWrite'
  BY <1>2, AskersStay DEF DeleteFile, requests, Exists, TablesOK
<1>3. ASSUME NEW u \in Users, NEW f \in Files, NEW p \in Places, MoveFile(u, f, p)
      PROVE  AskersCannotWrite'
  <2>1. Exists(f) /\ file_trie[f] \in Entry
    BY <1>3, <1>b DEF MoveFile, CheckAccess
  <2>2. \A g \in Files : Exists(g)' => Exists(g) /\ file_trie'[g].acl = file_trie[g].acl
    BY <1>3, <2>1 DEF MoveFile, Exists, Entry, TablesOK
  <2> QED
    BY <1>3, <2>2, AskersStay DEF MoveFile, requests
<1>4. ASSUME NEW u \in Users, NEW f \in Files, NEW target \in Users, NEW level \in Levels,
             SetAccess(u, f, target, level)
      PROVE  AskersCannotWrite'
  <2> SUFFICES ASSUME Undisturbed({"overtaken"})', NEW n \in DOMAIN access_requests,
                      access_requests[n].access = "read",
                      file_trie'[access_requests[n].filename] # NoEntry
               PROVE  file_trie'[access_requests[n].filename].acl[access_requests[n].username]
                        # "readwrite"
    BY <1>4 DEF AskersCannotWrite, SetAccess, requests, Exists
  <2> DEFINE request == access_requests[n]
             g == request.filename
             v == request.username
  <2>1. g \in Files /\ v \in Users
    BY <1>a DEF AccessRequest
  <2>2. Undisturbed({"overtaken"})
    BY <1>4 DEF SetAccess, Note, Undisturbed
  <2>3. Exists(f) /\ file_trie[f] \in Entry
    BY <1>4, <1>b DEF SetAccess
  <2>4. Exists(g)
    BY <1>4, <2>1, <2>3 DEF SetAccess, Exists, TablesOK
  <2>5. file_trie[g].acl[v] # "readwrite"
    BY <2>2, <2>4 DEF AskersCannotWrite
  <2>6. CASE g = f /\ v = target
    <3>1. request = [username |-> target, filename |-> f, access |-> "read"]
      BY <1>a, <2>6 DEF AccessRequest
    <3>2. level # "readwrite"
      BY <1>4, <3>1 DEF SetAccess, Note, Overtaken, Asked, Undisturbed
    <3>3. file_trie'[f].acl[target] = level
      BY <1>4, <2>3 DEF SetAccess, TablesOK, Entry
    <3> QED
      BY <2>6, <3>2, <3>3
  <2>7. CASE ~(g = f /\ v = target)
    <3>1. file_trie'[g].acl[v] = file_trie[g].acl[v]
      BY <1>4, <2>1, <2>3, <2>7 DEF SetAccess, TablesOK, Entry
    <3> QED
      BY <2>5, <3>1
  <2> QED
    BY <2>6, <2>7
<1>5. ASSUME NEW u \in Users, NEW f \in Files, NEW level \in Levels, level # "none",
             RequestAccess(u, f, level)
      PROVE  AskersCannotWrite'
  <2> DEFINE asked == [username |-> u, filename |-> f, access |-> level]
  <2>1. asked \in AccessRequest
    BY <1>5 DEF AccessRequest
  <2>2. access_requests' = Append(access_requests, asked)
    BY <1>5 DEF RequestAccess, PutLast
  <2>3. UNCHANGED <<file_trie, races>>
    BY <1>5 DEF RequestAccess, names
  <2>4. level = "read" => file_trie[f].acl[u] # "readwrite"
    BY <1>5 DEF RequestAccess, HasAlready, CheckAccess
  <2> HIDE DEF asked
  <2>5. \A n \in DOMAIN access_requests' :
           \/ access_requests'[n] = asked
           \/ n \in DOMAIN access_requests /\ access_requests'[n] = access_requests[n]
    BY <2>1, <2>2 DEF TablesOK
  <2>6. asked.username = u /\ asked.filename = f /\ asked.access = level
    BY DEF asked
  <2> QED
    BY <2>3, <2>4, <2>5, <2>6 DEF AskersCannotWrite, Undisturbed, Exists
<1>6. ASSUME NEW u \in Users, ViewRequests(u) PROVE AskersCannotWrite'
  BY <1>6 DEF ViewRequests, names, AskersCannotWrite, Undisturbed, Exists
<1>7. ASSUME NEW u \in Users, NEW n \in DOMAIN access_requests, ApproveRequest(u, n)
      PROVE  AskersCannotWrite'
  <2> DEFINE approved == access_requests[n]
             f == approved.filename
             target == approved.username
  <2>1. /\ approved \in AccessRequest
        /\ Exists(f) /\ file_trie[f] \in Entry
    BY <1>7, <1>a, <1>b DEF ApproveRequest, Decides, AccessRequest
  <2> SUFFICES ASSUME Undisturbed({"overtaken"})', NEW m \in DOMAIN Removed(n),
                      Removed(n)[m].access = "read",
                      file_trie'[Removed(n)[m].filename] # NoEntry
               PROVE  file_trie'[Removed(n)[m].filename].acl[Removed(n)[m].username]
                        # "readwrite"
    BY <1>7 DEF AskersCannotWrite, ApproveRequest, Settle, Exists
  <2> DEFINE k == IF m < n THEN m ELSE m + 1
             request == access_requests[k]
             g == request.filename
             v == request.username
  <2>2. k \in DOMAIN access_requests /\ Removed(n)[m] = request /\ k # n
    <3>1. m \in DOMAIN access_requests /\ m + 1 \in DOMAIN access_requests
            /\ Removed(n)[m] = access_requests[k]
      BY RemovedShape DEF TablesOK
    <3>2. DOMAIN access_requests = 1 .. Len(access_requests) /\ Len(access_requests) \in Nat
      BY DEF TablesOK
    <3> QED
      BY <3>1, <3>2
  <2> HIDE DEF k
  <2>3. request \in AccessRequest /\ g \in Files /\ v \in Users
    BY <1>a, <2>2 DEF AccessRequest
  <2>4. Undisturbed({"overtaken"})
    BY <1>7 DEF ApproveRequest, Note, Undisturbed
  <2>5. Exists(g)
    BY <1>7, <2>1, <2>2, <2>3 DEF ApproveRequest, Exists, TablesOK, AccessRequest
  <2>6. file_trie[g].acl[v] # "readwrite"
    BY <2>2, <2>4, <2>5 DEF AskersCannotWrite
  <2>7. file_trie' = [file_trie EXCEPT ![f].acl[target] = approved.access]
    BY <1>7 DEF ApproveRequest
  <2>8. CASE g = f /\ v = target
    <3>1. request = [username |-> target, filename |-> f, access |-> "read"]
      BY <2>2, <2>3, <2>8 DEF AccessRequest
    <3>2. Asked(f, target, "read")
      BY <2>2, <3>1 DEF Asked
    <3>3. approved.access # "readwrite"
      BY <1>7, <3>2 DEF ApproveRequest, Note, Overtaken, Undisturbed
    <3>4. file_trie'[f].acl[target] = approved.access
      BY <2>1, <2>7 DEF TablesOK, Entry, AccessRequest
    <3> QED
      BY <2>2, <2>8, <3>3, <3>4
  <2>9. CASE ~(g = f /\ v = target)
    <3>1. file_trie'[g].acl[v] = file_trie[g].acl[v]
      BY <2>1, <2>3, <2>7, <2>9 DEF TablesOK, Entry, AccessRequest
    <3> QED
      BY <2>2, <2>6, <3>1
  <2> QED
    BY <2>8, <2>9
<1>8. ASSUME NEW u \in Users, NEW n \in DOMAIN access_requests, DenyRequest(u, n)
      PROVE  AskersCannotWrite'
  <2>1. access_requests' = Removed(n) /\ UNCHANGED <<file_trie, races>>
    BY <1>8 DEF DenyRequest, Settle, names
  <2>2. \A m \in DOMAIN Removed(n) :
           \E k \in DOMAIN access_requests : Removed(n)[m] = access_requests[k]
    BY RemovedShape DEF TablesOK
  <2> QED
    BY <2>1, <2>2 DEF AskersCannotWrite, Undisturbed, Exists
<1>9. ASSUME NEW p \in Folders, NEW s \in Servers, CreateFolder(p, s)
      PROVE  AskersCannotWrite'
  BY <1>9 DEF CreateFolder, requests, AskersCannotWrite, Undisturbed, Exists
<1>10. ASSUME NEW s \in Servers, RegisterServer(s) PROVE AskersCannotWrite'
  <2>1. ASSUME NEW f \in Files, NEW u \in Users, Exists(f)'
        PROVE  \/ file_trie'[f].acl[u] # "readwrite"
               \/ Exists(f) /\ file_trie'[f].acl[u] = file_trie[f].acl[u]
    <3>1. CASE f \in Scanned(s) /\ ~Exists(f)
      BY <1>10, <3>1 DEF RegisterServer, NewEntry
    <3>2. CASE f \in Scanned(s) /\ Exists(f)
      <4>1. file_trie'[f] = [file_trie[f] EXCEPT !.ss_id = s]
        BY <1>10, <3>2 DEF RegisterServer
      <4> QED
        BY <1>b, <3>2, <4>1 DEF Entry
    <3>3. CASE f \notin Scanned(s)
      BY <1>10, <2>1, <3>3 DEF RegisterServer, Exists
    <3> QED
      BY <3>1, <3>2, <3>3
  <2> QED
    BY <1>10, <2>1, AskersStay DEF RegisterServer, Note, requests
<1>11. ASSUME RestartNameServer PROVE AskersCannotWrite'
  BY <1>11 DEF RestartNameServer, AskersCannotWrite
<1>12. CASE UNCHANGED vars
  BY <1>12 DEF vars, names, requests, AskersCannotWrite, Undisturbed, Exists
<1> QED
  BY <1>1, <1>2, <1>3, <1>4, <1>5, <1>6, <1>7, <1>8, <1>9, <1>10, <1>11, <1>12
  DEF Next, FileCommand, Decision

\* No step but an approval changes the ACL of a user while a request leaves the array.
LEMMA ApprovalStep ==
  ASSUME TablesOK, AskersCannotWrite, [Next]_vars, NEW f \in Files, NEW u \in Users,
         Len(access_requests') < Len(access_requests), Exists(f), Exists(f)',
         Undisturbed({"overtaken"}), file_trie[f].acl[u] = "readwrite"
  PROVE  file_trie'[f].acl[u] = "readwrite"
<1>a. Len(access_requests) \in Nat
  BY DEF TablesOK
<1>1. ASSUME UNCHANGED access_requests PROVE FALSE
  BY <1>1, <1>a
<1>2. ASSUME NEW w \in Users, NEW g \in Files, NEW level \in Levels, level # "none",
             RequestAccess(w, g, level)
      PROVE  FALSE
  <2>1. [username |-> w, filename |-> g, access |-> level] \in AccessRequest
    BY <1>2 DEF AccessRequest
  <2>2. Len(access_requests') = Len(access_requests) + 1
    BY <1>2, <2>1 DEF RequestAccess, PutLast, TablesOK
  <2> QED
    BY <1>a, <2>2
<1>3. ASSUME NEW w \in Users, NEW n \in DOMAIN access_requests, ApproveRequest(w, n)
      PROVE  file_trie'[f].acl[u] = "readwrite"
  <2> DEFINE approved == access_requests[n]
  <2>1. approved \in AccessRequest
    BY DEF TablesOK
  <2>2. file_trie' = [file_trie EXCEPT ![approved.filename].acl[approved.username] =
                                          approved.access]
    BY <1>3 DEF ApproveRequest
  <2>3. file_trie[f] \in Entry
    BY DEF TablesOK, Exists
  <2>4. CASE f = approved.filename /\ u = approved.username
    <3>1. approved.access # "read"
      BY <2>4 DEF AskersCannotWrite
    <3>2. approved.access = "readwrite"
      BY <2>1, <3>1 DEF AccessRequest, Levels
    <3> QED
      BY <2>2, <2>3, <2>4, <3>2 DEF TablesOK, Entry
  <2>5. CASE ~(f = approved.filename /\ u = approved.username)
    BY <2>1, <2>2, <2>3, <2>5 DEF TablesOK, Entry, AccessRequest
  <2> QED
    BY <2>4, <2>5
<1>4. ASSUME NEW w \in Users, NEW n \in DOMAIN access_requests, DenyRequest(w, n)
      PROVE  file_trie'[f].acl[u] = "readwrite"
  BY <1>4 DEF DenyRequest, names
<1>5. ASSUME RestartNameServer PROVE FALSE
  BY <1>5 DEF RestartNameServer, Exists
<1>6. ASSUME NEW w \in Users, NEW g \in Files, DeleteFile(w, g) PROVE FALSE
  BY <1>1, <1>6 DEF DeleteFile, requests
<1>7. ASSUME NEW w \in Users, NEW g \in Files, NEW s \in Servers, CreateFile(w, g, s)
      PROVE  FALSE
  BY <1>1, <1>7 DEF CreateFile, requests
<1>8. ASSUME NEW w \in Users, NEW g \in Files, NEW p \in Places, MoveFile(w, g, p)
      PROVE  FALSE
  BY <1>1, <1>8 DEF MoveFile, requests
<1>9. ASSUME NEW w \in Users, NEW g \in Files, NEW target \in Users, NEW level \in Levels,
             SetAccess(w, g, target, level)
      PROVE  FALSE
  BY <1>1, <1>9 DEF SetAccess, requests
<1>10. ASSUME NEW p \in Folders, NEW s \in Servers, CreateFolder(p, s) PROVE FALSE
  BY <1>1, <1>10 DEF CreateFolder, requests
<1>11. ASSUME NEW s \in Servers, RegisterServer(s) PROVE FALSE
  BY <1>1, <1>11 DEF RegisterServer, requests
<1>12. ASSUME NEW w \in Users, ViewRequests(w) PROVE FALSE
  BY <1>1, <1>12 DEF ViewRequests
<1>13. CASE UNCHANGED vars
  BY <1>1, <1>13 DEF vars, requests
<1> QED
  BY <1>2, <1>3, <1>4, <1>5, <1>6, <1>7, <1>8, <1>9, <1>10, <1>11, <1>12, <1>13
  DEF Next, FileCommand, Decision

\* No approval takes an access away, in whatever order requests are made and decided, as
\* long as no pending request was overtaken: for any number of users and files.
THEOREM ApprovalsRaise == Spec => UndisturbedApprovalRaises
<1>1. Init => TablesOK /\ AskersCannotWrite
  BY TablesInit DEF Init, AskersCannotWrite
<1>2. TablesOK /\ AskersCannotWrite /\ [Next]_vars => (TablesOK /\ AskersCannotWrite)'
  BY TablesInv, AskersInv
<1>3. TablesOK /\ AskersCannotWrite /\ [Next]_vars =>
        [\A f \in Files, u \in Users :
            /\ Len(access_requests') < Len(access_requests) /\ Exists(f) /\ Exists(f)'
            /\ Undisturbed({"overtaken"})
            /\ file_trie[f].acl[u] = "readwrite"
            => file_trie'[f].acl[u] = "readwrite"]_vars
  BY ApprovalStep
<1> QED
  BY <1>1, <1>2, <1>3, PTL DEF Spec, UndisturbedApprovalRaises
=============================================================================
