----------------------------- MODULE NameSpace -----------------------------
(***************************************************************************)
(* The names of several files at the name server over their life: creation, *)
(* folders and moves, deletion, requests for access, and what becomes of    *)
(* names when storage servers and the name server come back (nm.c, and the  *)
(* storage servers' answers in ss.c).                                       *)
(*                                                                          *)
(* A request is one step: how handlers of one file overlap is the matter of *)
(* FileMetadata, how servers join and leave that of ServerRegistry. A text  *)
(* is named by whose it is: who created it, or "system" for a file that the *)
(* name server found on a server's disk.                                    *)
(***************************************************************************)
EXTENDS Naturals, Sequences, FiniteSets

CONSTANTS
    Users, System,  \* System: the owner of files found on disk
    Files, Folders, Root,
    Servers,
    NoEntry,        \* no entry in file_trie
    NoText,         \* no file
    NoRequest,      \* a line that VIEWREQUESTS does not show
    MaxRequests,    \* MAX_FILES * 10, the size of access_requests
    MaxCommands     \* bound: commands that may change something

ASSUME NamesAssumption == System \notin Users /\ Root \notin Folders

VARIABLES
    file_trie, folder_trie,
    registered,         \* the servers the name server knows
    access_requests,
    shown,              \* what VIEWREQUESTS last showed each user
    disk,               \* each server's files, by name and place
    dirs,               \* each server's directories
    commands,           \* what is left of MaxCommands
    \* History, read by no guard
    outdated,           \* the users whose list has a position that is wrong now
    races               \* what has interfered

names    == <<file_trie, folder_trie, registered>>
requests == <<access_requests, shown, outdated>>
storage  == <<disk, dirs>>
vars     == <<names, requests, storage, commands, races>>

Places == Folders \cup {Root}
Owners == Users \cup {System}
Levels == {"none", "read", "readwrite"}

Entry == [owner : Owners, ss_id : Servers, folder_path : Places, acl : [Users -> Levels]]

AccessRequest == [username : Users, filename : Files, access : Levels \ {"none"}]

NewEntry(owner, s) ==
    [owner |-> owner, ss_id |-> s, folder_path |-> Root, acl |-> [u \in Users |-> "none"]]

Exists(f) == file_trie[f] # NoEntry

\* check_access: the owner may do all, others what their entry in the ACL says.
CheckAccess(f, u, level) ==
    /\ Exists(f)
    /\ \/ file_trie[f].owner = u
       \/ file_trie[f].acl[u] \in {level, "readwrite"}

\* MUTANT: only the owner is taken to have access.
OwnsIt(f, u, level) == file_trie[f].owner = u

\* check_access of ACCESS_READWRITE knows the owner only: the ACL is compared for
\* ACCESS_READ and ACCESS_WRITE.
HasAlready(f, u, level) ==
    \/ file_trie[f].owner = u
    \/ level = "read" /\ CheckAccess(f, u, level)

Command == commands > 0 /\ commands' = commands - 1

Note(kinds) == races' = races \cup kinds

-----------------------------------------------------------------------------
(* Files and folders *)

\* CREATE: on the next server in turn, which refuses a name it has at its root.
CreateFile(u, f, s) ==
    /\ Command
    /\ ~Exists(f)
    /\ s \in registered
    /\ disk[s][f][Root] = NoText
    /\ disk' = [disk EXCEPT ![s][f][Root] = u]
    /\ file_trie' = [file_trie EXCEPT ![f] = NewEntry(u, s)]
    /\ UNCHANGED <<folder_trie, registered, requests, dirs, races>>

\* DELETE by the owner. The server looks at its root only; pending requests stay.
DeleteFile(u, f) ==
    /\ Command
    /\ Exists(f) /\ file_trie[f].owner = u
    /\ LET s == file_trie[f].ss_id IN
       /\ s \in registered
       /\ disk[s][f][Root] # NoText
       /\ disk' = [disk EXCEPT ![s][f][Root] = NoText]
    /\ file_trie' = [file_trie EXCEPT ![f] = NoEntry]
    /\ UNCHANGED <<folder_trie, registered, requests, dirs, races>>

\* CREATEFOLDER: on the next server in turn and no other.
CreateFolder(p, s) ==
    /\ Command
    /\ p \notin folder_trie
    /\ s \in registered
    /\ p \notin dirs[s]
    /\ dirs' = [dirs EXCEPT ![s] = @ \cup {p}]
    /\ folder_trie' = folder_trie \cup {p}
    /\ UNCHANGED <<file_trie, registered, requests, disk, races>>

\* rename: the file must be there, and the directory it goes to.
Renames(s, f, from, to) == disk[s][f][from] # NoText /\ to \in dirs[s] \cup {Root}

\* MOVE by one who may write. A file that is in the way is replaced.
MoveFile(u, f, to) ==
    /\ Command
    /\ CheckAccess(f, u, "readwrite")
    /\ to \in folder_trie \cup {Root}
    /\ LET s == file_trie[f].ss_id  from == file_trie[f].folder_path IN
       /\ s \in registered
       /\ from # to
       /\ Renames(s, f, from, to)
       /\ disk' = [disk EXCEPT ![s][f][to] = disk[s][f][from], ![s][f][from] = NoText]
    /\ file_trie' = [file_trie EXCEPT ![f].folder_path = to]
    /\ UNCHANGED <<folder_trie, registered, requests, dirs, races>>

-----------------------------------------------------------------------------
(* Access *)

\* The request is pending already.
Asked(f, u, level) ==
    \E n \in DOMAIN access_requests :
        access_requests[n] = [username |-> u, filename |-> f, access |-> level]

\* A user's access is raised, by another way, over a request that is still pending.
Overtaken(f, u, level) ==
    IF level = "readwrite" /\ Asked(f, u, "read") THEN {"overtaken"} ELSE {}

\* ADDACCESS and REMACCESS (level "none") by the owner, for another user.
SetAccess(u, f, target, level) ==
    /\ Command
    /\ Exists(f) /\ file_trie[f].owner = u
    /\ target # u
    /\ file_trie' = [file_trie EXCEPT ![f].acl[target] = level]
    /\ Note(Overtaken(f, target, level))
    /\ UNCHANGED <<folder_trie, registered, requests, storage>>

\* MUTANT: the newest request is listed first.
PutFirst(request) == <<request>> \o access_requests

PutLast(request) == Append(access_requests, request)

\* REQUESTACCESS, unless the user has the access or has asked for it.
RequestAccess(u, f, level) ==
    /\ Command
    /\ Exists(f)
    /\ ~HasAlready(f, u, level)
    /\ ~Asked(f, u, level)
    /\ Len(access_requests) < MaxRequests
    /\ access_requests' =
          PutLast([username |-> u, filename |-> f, access |-> level])
    /\ UNCHANGED <<names, shown, outdated, storage, races>>

\* The user owns the file of the request at a position.
Decides(u, n) ==
    /\ n \in DOMAIN access_requests
    /\ LET f == access_requests[n].filename IN Exists(f) /\ file_trie[f].owner = u

\* VIEWREQUESTS: the requests for the user's files, by their position among all.
ViewRequests(u) ==
    /\ shown' = [shown EXCEPT ![u] =
          [n \in DOMAIN access_requests |-> IF Decides(u, n) THEN access_requests[n]
                                            ELSE NoRequest]]
    /\ outdated' = outdated \ {u}
    /\ UNCHANGED <<names, access_requests, storage, commands, races>>

\* The array without the request at a position: those behind it move down.
Removed(n) ==
    [m \in 1 .. Len(access_requests) - 1 |-> access_requests[IF m < n THEN m ELSE m + 1]]

\* A request is decided and leaves the array: a user who was
\* shown it, or one behind it, has an outdated list.
Settle(n) ==
    /\ access_requests' = Removed(n)
    /\ outdated' = outdated \cup
          {u \in Users : \E m \in DOMAIN shown[u] : m >= n /\ shown[u][m] # NoRequest}
    /\ UNCHANGED shown

\* APPROVEREQUEST: the ACL entry is set to what was asked, whatever it was.
ApproveRequest(u, n) ==
    /\ Command
    /\ Decides(u, n)
    /\ LET request == access_requests[n] IN
       /\ file_trie' = [file_trie EXCEPT ![request.filename].acl[request.username] =
                                            request.access]
       /\ Note(Overtaken(request.filename, request.username, request.access))
    /\ Settle(n)
    /\ UNCHANGED <<folder_trie, registered, storage>>

\* DENYREQUEST.
DenyRequest(u, n) ==
    /\ Command
    /\ Decides(u, n)
    /\ Settle(n)
    /\ UNCHANGED <<names, storage, races>>

-----------------------------------------------------------------------------
(* Restarts *)

\* MUTANT: the folders are looked through as well.
AtAnyPlace(s) == {f \in Files : \E p \in Places : disk[s][f][p] # NoText}

\* scan_and_register_files: the files at a server's root.
Scanned(s) == {f \in Files : disk[s][f][Root] # NoText}

\* A storage server is started (again) and registers its files: of a name with an entry
\* the entry is kept and the server is now this one; other files are the system's.
RegisterServer(s) ==
    /\ Command
    /\ registered' = registered \cup {s}
    /\ LET new == {f \in Scanned(s) : ~Exists(f)} IN
       /\ file_trie' = [f \in Files |->
             IF f \in new THEN NewEntry(System, s)
             ELSE IF f \in Scanned(s) THEN [file_trie[f] EXCEPT !.ss_id = s]
             ELSE file_trie[f]]
       /\ disk' = [disk EXCEPT ![s] =
             [f \in Files |-> [p \in Places |->
                IF f \in new /\ p = Root /\ disk[s][f][p] # NoText THEN System
                ELSE disk[s][f][p]]]]
    /\ Note(IF \E f \in Scanned(s) :
                Exists(f) /\ <<file_trie[f].ss_id, file_trie[f].folder_path>> # <<s, Root>>
            THEN {"redirected"} ELSE {})
    /\ UNCHANGED <<folder_trie, requests, dirs>>

\* The name server keeps nothing on disk.
RestartNameServer ==
    /\ Command
    /\ file_trie' = [f \in Files |-> NoEntry]
    /\ folder_trie' = {}
    /\ registered' = {}
    /\ access_requests' = <<>>
    /\ shown' = [u \in Users |-> <<>>]
    /\ outdated' = {}
    /\ UNCHANGED <<storage, races>>

-----------------------------------------------------------------------------
Init ==
    /\ file_trie = [f \in Files |-> NoEntry]
    /\ folder_trie = {}
    /\ registered = {}
    /\ access_requests = <<>>
    /\ shown = [u \in Users |-> <<>>]
    /\ outdated = {}
    /\ disk = [s \in Servers |-> [f \in Files |-> [p \in Places |-> NoText]]]
    /\ dirs = [s \in Servers |-> {}]
    /\ commands = MaxCommands
    /\ races = {}

FileCommand(u, f) ==
    \/ \E s \in Servers : CreateFile(u, f, s)
    \/ DeleteFile(u, f)
    \/ \E p \in Places : MoveFile(u, f, p)
    \/ \E level \in Levels :
          \/ \E target \in Users : SetAccess(u, f, target, level)
          \/ level # "none" /\ RequestAccess(u, f, level)

Decision(u) ==
    \/ ViewRequests(u)
    \/ \E n \in DOMAIN access_requests : ApproveRequest(u, n) \/ DenyRequest(u, n)

Next ==
    \/ \E u \in Users : Decision(u) \/ \E f \in Files : FileCommand(u, f)
    \/ \E p \in Folders, s \in Servers : CreateFolder(p, s)
    \/ \E s \in Servers : RegisterServer(s)
    \/ RestartNameServer

Spec == Init /\ [][Next]_vars

-----------------------------------------------------------------------------
(* Properties *)

Undisturbed(kinds) == races \cap kinds = {}

\* What an owner was shown is still pending at the position it was shown at, whoever else
\* asks or decides meanwhile, until a request of the list or one before it is decided.
UndisturbedShownStaysTrue ==
    \A u \in Users \ outdated : \A n \in DOMAIN shown[u] :
        shown[u][n] # NoRequest =>
            n \in DOMAIN access_requests /\ access_requests[n] = shown[u][n]

\* Approving a request takes no access away, in whatever order requests were made and
\* approved, unless the user got more by another way while the request was pending.
UndisturbedApprovalRaises ==
    [][\A f \in Files, u \in Users :
          /\ Len(access_requests') < Len(access_requests) /\ Exists(f) /\ Exists(f)'
          /\ Undisturbed({"overtaken"})
          /\ file_trie[f].acl[u] = "readwrite"
          => file_trie'[f].acl[u] = "readwrite"]_vars

\* An entry names a file that is there, and it is its owner's: those whom an ACL admits
\* reach the text for which they were admitted, through moves, deletions, and restarts of
\* servers and name server, unless a server came with another file of the same name.
UndisturbedEntryNamesOwnersText ==
    Undisturbed({"redirected"}) =>
        \A f \in Files : Exists(f) =>
            disk[file_trie[f].ss_id][f][file_trie[f].folder_path] = file_trie[f].owner
=============================================================================
