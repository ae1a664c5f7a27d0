------------------------ MODULE StorageServer_proofs ------------------------
(***************************************************************************)
(* Proofs about the locks, the sessions and the commit queue of a storage   *)
(* server, for any users, sentence indices and bounds, which do not depend  *)
(* on what the documents hold; then about what the documents and the temp   *)
(* files hold. Parsing is recursive: what it yields is proved by induction  *)
(* over the pieces, and carried from there into invariants.                 *)
(***************************************************************************)
EXTENDS StorageServerProperties, NaturalsInduction, WellFoundedInduction, SequenceTheorems, TLAPS

-----------------------------------------------------------------------------
(* Types *)

\* A user's thread that goes on keeps the types of the threads' variables.
LEMMA GotoType ==
    ASSUME ThreadTypeOK, NEW u \in Users, NEW l \in Labels, Goto(u, l),
           UNCHANGED <<sent_idx, session>>
    PROVE  ThreadTypeOK'
  BY NamesAssumption DEF ThreadTypeOK, Goto, Threads

\* So does the name server's thread.
LEMMA GotoTypeNM ==
    ASSUME ThreadTypeOK, NEW l \in {"idle", "delete", "revert"}, Goto(NM, l),
           UNCHANGED <<sent_idx, session>>
    PROVE  ThreadTypeOK'
  BY NamesAssumption DEF ThreadTypeOK, Goto, Threads, Labels

\* So does a user's thread that takes up a request.
LEMMA RequestType ==
    ASSUME ThreadTypeOK, NEW u \in Users, NEW i \in Index, NEW l \in Labels, Goto(u, l),
           sent_idx' = [sent_idx EXCEPT ![u] = i], 
           \/ UNCHANGED session
           \/ \E k \in 1 .. MaxSessions : session' = [session EXCEPT ![u] = k]
    PROVE  ThreadTypeOK'
  BY NamesAssumption DEF ThreadTypeOK, Goto, Threads

\* The slots of a session lie in the array.
LEMMA SlotsInArray ==
    ASSUME SessionTypeOK, NEW u, NEW i
    PROVE  SlotsOf(u, i) \subseteq 1 .. MaxSessions
  BY BoundsAssumption DEF SessionTypeOK, SlotsOf, Active

\* Growing the lock table keeps its type.
LEMMA GrowType ==
    ASSUME LockTypeOK, NEW n \in 1 .. MaxSentence + 1, InitFileLocks(n)
    PROVE  LockTypeOK'
  BY BoundsAssumption DEF LockTypeOK, InitFileLocks, locks

\* Removing a slot keeps the type of the array.
LEMMA CompactType ==
    ASSUME SessionTypeOK, NEW u \in Users, NEW k \in Active, CompactSessions(u, k)
    PROVE  SessionTypeOK'
  BY BoundsAssumption DEF SessionTypeOK, CompactSessions, Active

\* What a step leaves alone keeps its type.
LEMMA LockFrame == LockTypeOK /\ UNCHANGED locks => LockTypeOK'
  BY DEF LockTypeOK, locks

LEMMA SessionFrame == SessionTypeOK /\ UNCHANGED sessions => SessionTypeOK'
  BY DEF SessionTypeOK, sessions, Active

\* The control variables have their types in the initial state.
LEMMA InitControlType == Init => ControlTypeOK
<1> SUFFICES ASSUME Init PROVE ControlTypeOK
  OBVIOUS
<1> USE DEF Init
<1>1. LockTypeOK
  BY BoundsAssumption DEF LockTypeOK, Unlocked
<1>2. SessionTypeOK
  BY BoundsAssumption DEF SessionTypeOK, NoSessions, EmptySlot, Index, Active
<1>3. ThreadTypeOK
  BY BoundsAssumption, NamesAssumption DEF ThreadTypeOK, AllIdle, Threads, Labels, Index
<1> QED
  BY <1>1, <1>2, <1>3 DEF ControlTypeOK

\* A step of a user's thread keeps the types of the control variables.
LEMMA StepControlType ==
    ASSUME ControlTypeOK, NEW u \in Users, Step(u)
    PROVE  ControlTypeOK'
<1> USE DEF ControlTypeOK
<1>1. CASE GetLock(u)
  <2>1. sent_idx[u] + 1 \in 1 .. MaxSentence + 1
    BY BoundsAssumption DEF ThreadTypeOK, Index
  <2> QED
    BY <1>1, <2>1, GrowType, GotoType, SessionFrame DEF GetLock, Labels, commits
<1>2. CASE TakeLock(u)
  <2>1. LockTypeOK'
    BY <1>2 DEF TakeLock, LockTypeOK
  <2>2. ThreadTypeOK'
    BY <1>2, GotoType DEF TakeLock, Labels
  <2> QED
    BY <1>2, <2>1, <2>2, SessionFrame DEF TakeLock, commits
<1>3. CASE TakeFreedLock(u)
  <2>1. LockTypeOK'
    BY <1>3 DEF TakeFreedLock, LockTypeOK
  <2>2. ThreadTypeOK'
    BY <1>3, GotoType DEF TakeFreedLock, Labels
  <2> QED
    BY <1>3, <2>1, <2>2, SessionFrame DEF TakeFreedLock, commits
<1>4. CASE StartSession(u)
  <2>1. SessionTypeOK'
    <3>1. sent_idx[u] \in Index
      BY DEF ThreadTypeOK
    <3>2. CASE UNCHANGED sessions
      BY <3>2, SessionFrame
    <3>3. CASE /\ write_session_count < MaxSessions
               /\ write_session_count' = write_session_count + 1
               /\ write_sessions' = [write_sessions EXCEPT ![write_session_count + 1]
                                       = Reused(@, u, sent_idx[u])]
      BY <3>1, <3>3, BoundsAssumption DEF SessionTypeOK, Reused, Active
    <3> QED
      BY <1>4, <3>2, <3>3 DEF StartSession
  <2>2. ThreadTypeOK'
    <3>1. SlotsOf(u, sent_idx[u]) \subseteq 1 .. MaxSessions
      BY SlotsInArray
    <3>2. \/ UNCHANGED session
          \/ \E k \in 1 .. MaxSessions : session' = [session EXCEPT ![u] = k]
      BY <1>4, <3>1, BoundsAssumption DEF StartSession, HasSession, SessionTypeOK
    <3>3. PICK l \in Labels : Goto(u, l)
      BY <1>4 DEF StartSession, Labels
    <3>4. UNCHANGED sent_idx
      BY <1>4 DEF StartSession
    <3> QED
      BY <3>2, <3>3, <3>4, NamesAssumption DEF ThreadTypeOK, Goto, Threads
  <2> QED
    BY <1>4, <2>1, <2>2, LockFrame DEF StartSession, commits
<1>5. CASE CopyToTemp(u)
  <2>1. SessionTypeOK'
    BY <1>5 DEF CopyToTemp, SessionTypeOK, ThreadTypeOK, Stamped, Active
  <2> QED
    BY <1>5, <2>1, GotoType, LockFrame DEF CopyToTemp, commits, Labels
<1>6. CASE \E kind \in WriteKinds : WriteTemp(u, kind)
  BY <1>6, GotoType, LockFrame, SessionFrame DEF WriteTemp, commits, Labels
<1>7. CASE Enqueue(u)
  <2>1. SessionTypeOK'
    BY <1>7, CompactType, SessionFrame DEF Enqueue, SlotsOf
  <2>2. ThreadTypeOK'
    BY <1>7, GotoType DEF Enqueue, Labels
  <2> QED
    BY <1>7, <2>1, <2>2, LockFrame DEF Enqueue
<1>8. CASE CloseSession(u)
  <2>1. SessionTypeOK'
    BY <1>8, CompactType DEF CloseSession, SlotsOf
  <2> QED
    BY <1>8, <2>1, GotoType, LockFrame DEF CloseSession, Labels, commits
<1>9. CASE AcquireQueue(u)
  BY <1>9, GotoType, LockFrame, SessionFrame DEF AcquireQueue, Labels
<1>10. CASE SkipCommit(u)
  BY <1>10, LockFrame, SessionFrame DEF SkipCommit, ThreadTypeOK
<1>11. CASE MergeHead(u)
  BY <1>11, GotoType, LockFrame, SessionFrame DEF MergeHead, Labels, commits
<1>12. CASE Truncate(u)
  <2>1. ThreadTypeOK'
    BY <1>12, GotoType DEF Truncate, Labels
  <2> QED
    BY <1>12, <2>1, LockFrame, SessionFrame DEF Truncate
<1>13. CASE Flush(u)
  BY <1>13, GotoType, LockFrame, SessionFrame DEF Flush, Labels
<1>14. CASE ReleaseQueue(u)
  BY <1>14, GotoType, LockFrame, SessionFrame DEF ReleaseQueue, Labels
<1>15. CASE UnlockLookup(u)
  <2>1. ThreadTypeOK'
    BY <1>15, GotoType DEF UnlockLookup, Labels
  <2> QED
    BY <1>15, <2>1, LockFrame, SessionFrame DEF UnlockLookup, commits
<1>16. CASE Release(u)
  <2>1. LockTypeOK'
    BY <1>16 DEF Release, LockTypeOK
  <2> QED
    BY <1>16, <2>1, GotoType, SessionFrame DEF Release, Labels, commits
<1>17. CASE RestoreFlush(u)
  BY <1>17, GotoType, LockFrame, SessionFrame DEF RestoreFlush, Labels, commits
<1> QED
  BY <1>1, <1>2, <1>3, <1>4, <1>5, <1>6, <1>7, <1>8, <1>9, <1>10, <1>11, <1>12, <1>13,
     <1>14, <1>15, <1>16, <1>17 DEF Step

\* So does the arrival of a request.
LEMMA RequestControlType ==
    ASSUME ControlTypeOK, NEW u \in Users, Request(u)
    PROVE  ControlTypeOK'
<1> USE DEF ControlTypeOK
<1>1. ASSUME NEW i \in Index, LockValidate(u, i) PROVE ControlTypeOK'
  BY <1>1, RequestType, LockFrame, SessionFrame DEF LockValidate, Labels, commits
<1>2. ASSUME NEW i \in Index, WriteLookup(u, i) PROVE ControlTypeOK'
  <2>1. ThreadTypeOK'
    BY <1>2, RequestType, SlotsInArray DEF WriteLookup, HasSession, Labels
  <2> QED
    BY <1>2, <2>1, LockFrame, SessionFrame DEF WriteLookup, commits
<1>3. ASSUME NEW i \in Index, CommitLookup(u, i) PROVE ControlTypeOK'
  <2>1. ThreadTypeOK'
    BY <1>3, RequestType, SlotsInArray DEF CommitLookup, HasSession, Labels
  <2> QED
    BY <1>3, <2>1, LockFrame, SessionFrame DEF CommitLookup, commits
<1>4. ASSUME NEW i \in Index, CancelWrite(u, i) PROVE ControlTypeOK'
  <2>1. SessionTypeOK'
    BY <1>4, CompactType, SessionFrame DEF CancelWrite, SlotsOf
  <2> QED
    BY <1>4, <2>1, RequestType, LockFrame DEF CancelWrite, Labels, commits
<1>5. CASE Undo(u)
  BY <1>5, GotoType, LockFrame, SessionFrame DEF Undo, Labels, commits
<1> QED
  BY <1>1, <1>2, <1>3, <1>4, <1>5 DEF Request

\* So does a step of the name server's thread.
LEMMA NMControlType ==
    ASSUME ControlTypeOK, NMStep
    PROVE  ControlTypeOK'
<1> USE DEF ControlTypeOK
<1>1. CASE CheckLocks
  BY <1>1, GotoTypeNM, LockFrame, SessionFrame DEF CheckLocks, commits
<1>2. CASE Delete
  BY <1>2, GotoTypeNM, LockFrame, SessionFrame DEF Delete, commits
<1>3. CASE Create
  <2>1. 1 \in 1 .. MaxSentence + 1
    BY BoundsAssumption
  <2> QED
    BY <1>3, <2>1, GrowType, SessionFrame DEF Create, ThreadTypeOK, commits
<1>4. CASE Checkpoint
  BY <1>4, LockFrame, SessionFrame DEF Checkpoint, ThreadTypeOK, commits
<1>5. CASE Revert
  BY <1>5, GotoTypeNM, LockFrame, SessionFrame DEF Revert, commits
<1>6. CASE RevertFlush
  BY <1>6, GotoTypeNM, LockFrame, SessionFrame DEF RevertFlush, commits
<1> QED
  BY <1>1, <1>2, <1>3, <1>4, <1>5, <1>6 DEF NMStep

\* So does a restart.
LEMMA RestartControlType == ControlTypeOK /\ Restart => ControlTypeOK'
<1> SUFFICES ASSUME ControlTypeOK, Restart PROVE ControlTypeOK'
  OBVIOUS
<1> USE DEF Restart
<1>1. LockTypeOK'
  BY BoundsAssumption DEF LockTypeOK, Unlocked
<1>2. SessionTypeOK'
  BY BoundsAssumption DEF SessionTypeOK, NoSessions, EmptySlot, Index, Active
<1>3. ThreadTypeOK'
  BY NamesAssumption DEF ControlTypeOK, ThreadTypeOK, AllIdle, Threads, Labels
<1> QED
  BY <1>1, <1>2, <1>3 DEF ControlTypeOK

LEMMA NextControlType == ControlTypeOK /\ [Next]_vars => ControlTypeOK'
<1> SUFFICES ASSUME ControlTypeOK, [Next]_vars PROVE ControlTypeOK'
  OBVIOUS
<1>1. CASE UNCHANGED vars
  BY <1>1, LockFrame, SessionFrame DEF ControlTypeOK, ThreadTypeOK, vars, commits
<1> QED
  BY <1>1, StepControlType, RequestControlType, NMControlType, RestartControlType DEF Next

\* The variables that control the threads keep their types, and so every slot of
\* write_sessions that is in use belongs to a user: whatever sequence of requests,
\* commands and restarts the server meets.
THEOREM ControlTypes == Spec => []ControlTypeOK
  BY InitControlType, NextControlType, PTL DEF Spec

-----------------------------------------------------------------------------
(* Locks and sessions *)

\* History is never forgotten.
LEMMA RacesGrow == [Next]_vars => races \subseteq races'
<1> SUFFICES ASSUME [Next]_vars PROVE races \subseteq races'
  OBVIOUS
<1> USE DEF Note, history
<1>1. ASSUME NEW u \in Users, Step(u) PROVE races \subseteq races'
  <2>1. CASE \/ GetLock(u) \/ TakeLock(u) \/ TakeFreedLock(u) \/ StartSession(u)
             \/ CopyToTemp(u) \/ \E kind \in WriteKinds : WriteTemp(u, kind)
    BY <2>1 DEF GetLock, TakeLock, TakeFreedLock, StartSession, CopyToTemp, WriteTemp
  <2>2. CASE Enqueue(u) \/ CloseSession(u)
    BY <2>2 DEF Enqueue, CloseSession, CompactSessions
  <2>3. CASE AcquireQueue(u) \/ SkipCommit(u) \/ MergeHead(u) \/ Truncate(u)
    BY <2>3 DEF AcquireQueue, SkipCommit, MergeHead, Truncate
  <2>4. CASE Flush(u) \/ ReleaseQueue(u) \/ UnlockLookup(u) \/ Release(u) \/ RestoreFlush(u)
    BY <2>4 DEF Flush, ReleaseQueue, UnlockLookup, Release, RestoreFlush
  <2> QED
    BY <1>1, <2>1, <2>2, <2>3, <2>4 DEF Step
<1>2. ASSUME NEW u \in Users, Request(u) PROVE races \subseteq races'
  BY <1>2 DEF Request, LockValidate, WriteLookup, CommitLookup, CancelWrite, CompactSessions, Undo
<1>3. CASE NMStep
  BY <1>3 DEF NMStep, CheckLocks, Delete, Create, Checkpoint, Revert, RevertFlush
<1>4. CASE Restart
  BY <1>4 DEF Restart
<1>5. CASE UNCHANGED vars
  BY <1>5 DEF vars
<1> QED
  BY <1>1, <1>2, <1>3, <1>4, <1>5 DEF Next

LEMMA InitLockInv == Init => LockInv
<1> SUFFICES ASSUME Init PROVE LockInv
  OBVIOUS
<1>1. ControlTypeOK
  BY InitControlType
<1>2. Active = {}
  BY DEF Init, Active
<1>3. \A u \in Users : pc[u] = "idle"
  BY DEF Init, AllIdle, Threads
<1> QED
  BY <1>1, <1>2, <1>3 DEF LockInv, LockGuardsSession, OneSessionPerSentence,
     ClosedBeforeRelease, HoldingLabels, ClosedLabels

\* A restart forgets locks and sessions together.
LEMMA RestartLockInv == LockInv /\ Restart => LockInv'
<1> SUFFICES ASSUME LockInv, Restart PROVE LockInv'
  OBVIOUS
<1>1. ControlTypeOK'
  BY RestartControlType DEF LockInv
<1>2. Active' = {}
  BY DEF Restart, Active
<1>3. \A u \in Users : pc'[u] = "idle"
  BY DEF Restart, AllIdle, Threads
<1> QED
  BY <1>1, <1>2, <1>3 DEF LockInv, LockGuardsSession, OneSessionPerSentence,
     ClosedBeforeRelease, HoldingLabels, ClosedLabels

\* A step of thread t that leaves locks and sessions alone keeps the invariant, if t
\* goes where it may.
LEMMA QuietStep ==
    ASSUME LockInv, ControlTypeOK', NEW t \in Threads,
           UNCHANGED <<locked_by, sessions>>,
           \A v \in Users \ {t} : pc'[v] = pc[v] /\ sent_idx'[v] = sent_idx[v],
           t \in Users =>
              /\ pc'[t] \in HoldingLabels => locked_by[sent_idx'[t]] = t
              /\ pc'[t] \in ClosedLabels => ~HasSession(t, sent_idx'[t])
    PROVE  LockInv'
<1>1. LockGuardsSession'
  BY DEF LockInv, LockGuardsSession, sessions, Active
<1>2. OneSessionPerSentence'
  BY DEF LockInv, OneSessionPerSentence, sessions, Active
<1>3. ClosedBeforeRelease'
  BY DEF LockInv, ClosedBeforeRelease, HasSession, SlotsOf, sessions, Active
<1> QED
  BY <1>1, <1>2, <1>3 DEF LockInv

\* Behind a removed slot every slot holds what another held before.
LEMMA CompactSlots ==
    ASSUME SessionTypeOK, NEW u \in Users, NEW k \in Active, CompactSessions(u, k),
           NEW j \in Active'
    PROVE  /\ (IF j >= k THEN j + 1 ELSE j) \in Active \ {k}
           /\ write_sessions'[j] = write_sessions[IF j >= k THEN j + 1 ELSE j]
  BY BoundsAssumption DEF SessionTypeOK, CompactSessions, Active

\* Removing the slot of user u's session on the sentence of its request.
LEMMA CompactStep ==
    ASSUME LockInv, ControlTypeOK', NEW u \in Users,
           NEW k \in SlotsOf(u, sent_idx'[u]), CompactSessions(u, k),
           UNCHANGED locked_by,
           \A v \in Users \ {u} : pc'[v] = pc[v] /\ sent_idx'[v] = sent_idx[v],
           pc'[u] \in HoldingLabels => locked_by[sent_idx'[u]] = u
    PROVE  LockInv'
<1> DEFINE Before(j) == IF j >= k THEN j + 1 ELSE j
<1>1. \A j \in Active' : /\ Before(j) \in Active \ {k}
                         /\ write_sessions'[j] = write_sessions[Before(j)]
  BY CompactSlots DEF LockInv, ControlTypeOK, SlotsOf
<1>2. \A i, j \in Active' : Before(i) = Before(j) => i = j
  BY BoundsAssumption DEF LockInv, ControlTypeOK, SessionTypeOK, Active, SlotsOf, CompactSessions
<1> HIDE DEF Before
<1>3. LockGuardsSession'
  BY <1>1 DEF LockInv, LockGuardsSession
<1>4. OneSessionPerSentence'
  BY <1>1, <1>2 DEF LockInv, OneSessionPerSentence
<1>5. ASSUME NEW v \in Users, pc'[v] \in ClosedLabels,
             NEW j \in Active', write_sessions'[j].user = v, write_sessions'[j].idx = sent_idx'[v]
      PROVE  FALSE
  <2>1. /\ Before(j) \in Active \ {k}
        /\ write_sessions[Before(j)].user = v
        /\ write_sessions[Before(j)].idx = sent_idx'[v]
    BY <1>1, <1>5
  <2>2. CASE v = u
    BY <2>1, <2>2 DEF LockInv, OneSessionPerSentence, SlotsOf
  <2>3. CASE v # u
    BY <1>5, <2>1, <2>3 DEF LockInv, ClosedBeforeRelease, HasSession, SlotsOf
  <2> QED
    BY <2>2, <2>3
<1> QED
  BY <1>3, <1>4, <1>5 DEF LockInv, ClosedBeforeRelease, HasSession, SlotsOf

\* lock_sentence_ss takes a free lock, or the one its user has.
LEMMA TakeLockStep ==
    ASSUME LockInv, ControlTypeOK', NEW u \in Users, TakeLock(u)
    PROVE  LockInv'
<1> DEFINE i == sent_idx[u]
<1>1. i \in Index
  BY DEF LockInv, ControlTypeOK, ThreadTypeOK
<1>2. /\ pc[u] = "takelock"
      /\ pc' = [pc EXCEPT ![u] = pc'[u]]
      /\ UNCHANGED <<sent_idx, sessions>>
  BY DEF TakeLock, Goto, LockInv, ControlTypeOK, ThreadTypeOK, Threads
<1>3. CASE MayLock(u, i)
  <2>1. locked_by' = [locked_by EXCEPT ![i] = u] /\ pc'[u] = "start"
    BY <1>3 DEF TakeLock, Goto, LockInv, ControlTypeOK, ThreadTypeOK, Threads
  <2>2. \A k \in Active : write_sessions[k].idx = i => write_sessions[k].user = u
    BY <1>3, NamesAssumption
       DEF MayLock, LockInv, LockGuardsSession, ControlTypeOK, SessionTypeOK
  <2>3. \A v \in Users \ {u} : pc[v] \in HoldingLabels => sent_idx[v] # i
    BY <1>3, NamesAssumption DEF MayLock, LockInv, LockGuardsSession
  <2>4. LockGuardsSession'
    BY <1>1, <1>2, <2>1, <2>2, <2>3
       DEF LockInv, LockGuardsSession, ControlTypeOK, LockTypeOK, SessionTypeOK, ThreadTypeOK,
           Threads, sessions, Active
  <2>5. OneSessionPerSentence'
    BY <1>2 DEF LockInv, OneSessionPerSentence, sessions, Active
  <2>6. ClosedBeforeRelease'
    BY <1>2, <2>1 DEF LockInv, ClosedBeforeRelease, ClosedLabels, HasSession, SlotsOf, sessions,
       Active, ControlTypeOK, ThreadTypeOK, Threads
  <2> QED
    BY <1>2, <2>4, <2>5, <2>6 DEF LockInv
<1>4. CASE ~MayLock(u, i)
  BY <1>4, QuietStep DEF TakeLock, Goto, LockInv, ControlTypeOK, ThreadTypeOK, Threads, sessions,
     HoldingLabels, ClosedLabels
<1> QED
  BY <1>3, <1>4

\* unlock_sentence_ss frees a lock whose session is gone.
LEMMA ReleaseStep ==
    ASSUME LockInv, ControlTypeOK', NEW u \in Users, Release(u)
    PROVE  LockInv'
<1> DEFINE i == sent_idx[u]
<1>1. i \in Index
  BY DEF LockInv, ControlTypeOK, ThreadTypeOK
<1>2. /\ pc[u] = "release"
      /\ pc' = [pc EXCEPT ![u] = "idle"]
      /\ UNCHANGED <<sent_idx, sessions>>
  BY DEF Release, Goto, LockInv
<1>3. CASE MayUnlock(u, i)
  <2>1. locked_by' = [locked_by EXCEPT ![i] = NoUser] /\ locked_by[i] = u
    BY <1>3 DEF Release, MayUnlock
  <2>2. \A k \in Active : write_sessions[k].idx # i
    BY <1>2, <2>1 DEF LockInv, LockGuardsSession, ClosedBeforeRelease, ClosedLabels, HasSession,
       SlotsOf
  <2>3. \A v \in Users \ {u} : pc[v] \in HoldingLabels => sent_idx[v] # i
    BY <2>1 DEF LockInv, LockGuardsSession
  <2>4. LockGuardsSession'
    <3>1. \A k \in Active : write_sessions[k].idx \in Index /\ write_sessions[k].idx # i
      <4>1. \A k \in Active : k \in 1 .. MaxSessions
        BY BoundsAssumption DEF LockInv, ControlTypeOK, SessionTypeOK, Active
      <4> QED BY <2>2, <4>1 DEF LockInv, ControlTypeOK, SessionTypeOK
    <3>2. \A j \in Index \ {i} : locked_by'[j] = locked_by[j]
      BY <1>1, <2>1 DEF LockInv, ControlTypeOK, LockTypeOK
    <3>3. Active' = Active /\ write_sessions' = write_sessions /\ sent_idx' = sent_idx
      BY <1>2 DEF Active, sessions
    <3>4. \A k \in Active : locked_by'[write_sessions[k].idx] = write_sessions[k].user
      BY <3>1, <3>2 DEF LockInv, LockGuardsSession
    <3>5. \A v \in Users : pc'[v] \in HoldingLabels => v # u /\ pc[v] \in HoldingLabels
      BY <1>2 DEF LockInv, ControlTypeOK, ThreadTypeOK, Threads, HoldingLabels
    <3>6. ASSUME NEW v \in Users, pc'[v] \in HoldingLabels
          PROVE  locked_by'[sent_idx[v]] = v
      <4>1. sent_idx[v] \in Index \ {i} /\ locked_by[sent_idx[v]] = v
        BY <2>3, <3>5, <3>6 DEF LockInv, LockGuardsSession, ControlTypeOK, ThreadTypeOK
      <4> QED BY <3>2, <4>1
    <3>7. HoldingLabels' = HoldingLabels
      BY DEF HoldingLabels
    <3> QED BY <3>3, <3>4, <3>6, <3>7 DEF LockGuardsSession
  <2>5. OneSessionPerSentence'
    BY <1>2 DEF LockInv, OneSessionPerSentence, sessions, Active
  <2>6. ClosedBeforeRelease'
    BY <1>2 DEF LockInv, ClosedBeforeRelease, ClosedLabels, HasSession, SlotsOf, sessions,
       Active, ControlTypeOK, ThreadTypeOK, Threads
  <2> QED
    BY <1>2, <2>4, <2>5, <2>6 DEF LockInv
<1>4. CASE ~MayUnlock(u, i)
  BY <1>2, <1>4, QuietStep DEF Release, LockInv, ControlTypeOK, ThreadTypeOK, Threads,
     HoldingLabels, ClosedLabels
<1> QED
  BY <1>3, <1>4

\* start_write_session_ss opens a session only for the holder of the lock, and only
\* if there is none.
LEMMA StartSessionStep ==
    ASSUME LockInv, ControlTypeOK', NEW u \in Users, StartSession(u)
    PROVE  LockInv'
<1> DEFINE i == sent_idx[u]
<1>1. /\ pc[u] = "start"
      /\ locked_by[i] = u
      /\ UNCHANGED <<sent_idx, locked_by>>
      /\ \A v \in Users \ {u} : pc'[v] = pc[v]
      /\ pc'[u] \in {"copy", "unlock"}
  BY DEF StartSession, Goto, locks, LockInv, LockGuardsSession, HoldingLabels, ControlTypeOK,
     ThreadTypeOK, Threads
<1>2. CASE UNCHANGED sessions
  <2>1. Goto(u, "copy") \/ (Goto(u, "unlock") /\ ~HasSession(u, i))
    BY DEF StartSession
  <2>2. pc'[u] = "copy" \/ (pc'[u] = "unlock" /\ ~HasSession(u, i))
    BY <2>1 DEF Goto, LockInv, ControlTypeOK, ThreadTypeOK, Threads
  <2> QED
    BY <1>1, <1>2, <2>2, QuietStep DEF Threads, HoldingLabels, ClosedLabels
<1>3. CASE /\ ~HasSession(u, i)
           /\ write_session_count < MaxSessions
           /\ write_session_count' = write_session_count + 1
           /\ write_sessions' = [write_sessions EXCEPT ![write_session_count + 1]
                                   = Reused(@, u, i)]
           /\ pc'[u] = "copy"
  <2> DEFINE n == write_session_count + 1
  <2>1. /\ Active' = Active \cup {n}
        /\ n \notin Active
        /\ \A k \in Active : write_sessions'[k] = write_sessions[k]
        /\ write_sessions'[n].user = u
        /\ write_sessions'[n].idx = i
    BY <1>3 DEF Active, LockInv, ControlTypeOK, SessionTypeOK, Reused
  <2> HIDE DEF n
  <2>2. LockGuardsSession'
    BY <1>1, <1>3, <2>1 DEF LockInv, LockGuardsSession, HoldingLabels
  <2>3. \A k \in Active : write_sessions[k].idx # i
    BY <1>1, <1>3 DEF LockInv, LockGuardsSession, HasSession, SlotsOf
  <2>4. OneSessionPerSentence'
    BY <2>1, <2>3 DEF LockInv, OneSessionPerSentence
  <2>5. ClosedBeforeRelease'
    BY <1>1, <1>3, <2>1 DEF LockInv, ClosedBeforeRelease, ClosedLabels, HasSession, SlotsOf
  <2> QED
    BY <1>1, <2>2, <2>4, <2>5 DEF LockInv
<1> QED
  BY <1>2, <1>3 DEF StartSession, Goto, LockInv, ControlTypeOK, ThreadTypeOK, Threads

\* Storing the count in a slot changes neither its user nor its
\* sentence, whichever slot the pointer leads to.
LEMMA CopyStep ==
    ASSUME LockInv, ControlTypeOK', NEW u \in Users, CopyToTemp(u)
    PROVE  LockInv'
<1>1. /\ Active' = Active
      /\ \A k \in Active : /\ write_sessions'[k].user = write_sessions[k].user
                           /\ write_sessions'[k].idx = write_sessions[k].idx
  BY DEF CopyToTemp, Active, Stamped, LockInv, ControlTypeOK, SessionTypeOK, ThreadTypeOK
<1>2. /\ UNCHANGED <<locked_by, sent_idx>>
      /\ \A v \in Users \ {u} : pc'[v] = pc[v]
      /\ pc'[u] = "idle"
  BY DEF CopyToTemp, Goto, locks, LockInv, ControlTypeOK, ThreadTypeOK, Threads
<1>3. LockGuardsSession'
  BY <1>1, <1>2 DEF LockInv, LockGuardsSession, HoldingLabels
<1>4. OneSessionPerSentence'
  BY <1>1 DEF LockInv, OneSessionPerSentence
<1>5. ClosedBeforeRelease'
  BY <1>1, <1>2 DEF LockInv, ClosedBeforeRelease, ClosedLabels, HasSession, SlotsOf
<1> QED
  BY <1>2, <1>3, <1>4, <1>5 DEF LockInv

\* The other steps of a user's thread, as long as it uses no freed lock.
LEMMA StepLockInv ==
    ASSUME LockInv, NEW u \in Users, Step(u), Undisturbed({"realloc"})'
    PROVE  LockInv'
<1>0. ControlTypeOK'
  BY StepControlType DEF LockInv
<1>pc. pc \in [Threads -> Labels \cup {"delete", "revert"}] /\ u \in Threads
  BY DEF LockInv, ControlTypeOK, ThreadTypeOK, Threads
<1> USE <1>0, <1>pc
<1>1. CASE GetLock(u)
  <2>1. UNCHANGED locked_by
    BY <1>1 DEF GetLock, InitFileLocks, locks
  <2> QED
    BY <1>1, <2>1, QuietStep DEF GetLock, Goto, HoldingLabels, ClosedLabels
<1>2. CASE TakeLock(u)
  BY <1>2, TakeLockStep
<1>3. CASE TakeFreedLock(u)
  BY <1>3 DEF TakeFreedLock, Note, Undisturbed
<1>4. CASE StartSession(u)
  BY <1>4, StartSessionStep
<1>5. CASE CopyToTemp(u)
  BY <1>5, CopyStep
<1>6. CASE \E kind \in WriteKinds : WriteTemp(u, kind)
  BY <1>6, QuietStep DEF WriteTemp, Goto, locks, HoldingLabels, ClosedLabels
<1>7. CASE Enqueue(u)
  <2>1. pc[u] = "enqueue" /\ UNCHANGED <<sent_idx, locked_by>>
    BY <1>7 DEF Enqueue, locks
  <2>2. locked_by[sent_idx[u]] = u
    BY <2>1 DEF LockInv, LockGuardsSession, HoldingLabels
  <2>3. CASE Goto(u, "close") /\ UNCHANGED sessions
    BY <2>1, <2>2, <2>3, QuietStep DEF Goto, ClosedLabels
  <2>4. CASE /\ Goto(u, "unlock")
             /\ \E k \in SlotsOf(u, sent_idx[u]) : CompactSessions(u, k)
    BY <2>1, <2>2, <2>4, CompactStep DEF Goto
  <2> QED
    BY <1>7, <2>3, <2>4 DEF Enqueue
<1>8. CASE CloseSession(u)
  <2>1. locked_by[sent_idx[u]] = u
    BY <1>8 DEF CloseSession, LockInv, LockGuardsSession, HoldingLabels
  <2> QED
    BY <1>8, <2>1, CompactStep DEF CloseSession, Goto, locks
<1>9. CASE AcquireQueue(u)
  BY <1>9, QuietStep DEF AcquireQueue, Goto, locks, LockInv, LockGuardsSession,
     ClosedBeforeRelease, HoldingLabels, ClosedLabels
<1>10. CASE SkipCommit(u)
  BY <1>10, QuietStep DEF SkipCommit, locks, LockInv, LockGuardsSession, ClosedBeforeRelease
<1>11. CASE MergeHead(u)
  BY <1>11, QuietStep DEF MergeHead, Goto, locks, LockInv, LockGuardsSession,
     ClosedBeforeRelease, HoldingLabels, ClosedLabels
<1>12. CASE Truncate(u)
  <2>1. pc[u] = "truncate" /\ (Goto(u, "flush") \/ Goto(u, "unlock"))
        /\ UNCHANGED <<locks, sessions, sent_idx>>
    BY <1>12 DEF Truncate
  <2>2. locked_by[sent_idx[u]] = u /\ ~HasSession(u, sent_idx[u])
    BY <2>1 DEF LockInv, LockGuardsSession, ClosedBeforeRelease, HoldingLabels, ClosedLabels
  <2>3. pc'[u] \in {"flush", "unlock"} /\ \A v \in Users \ {u} : pc'[v] = pc[v]
    BY <2>1 DEF Goto, Threads
  <2> QED
    BY <2>1, <2>2, <2>3, QuietStep DEF locks
<1>13. CASE Flush(u)
  BY <1>13, QuietStep DEF Flush, Goto, locks, LockInv, LockGuardsSession,
     ClosedBeforeRelease, HoldingLabels, ClosedLabels
<1>14. CASE ReleaseQueue(u)
  BY <1>14, QuietStep DEF ReleaseQueue, Goto, locks, LockInv, ClosedBeforeRelease,
     HoldingLabels, ClosedLabels
<1>15. CASE UnlockLookup(u)
  <2>1. pc[u] = "unlock" /\ (Goto(u, "release") \/ Goto(u, "idle"))
        /\ UNCHANGED <<locks, sessions, sent_idx>>
    BY <1>15 DEF UnlockLookup
  <2>2. ~HasSession(u, sent_idx[u])
    BY <2>1 DEF LockInv, ClosedBeforeRelease, ClosedLabels
  <2>3. pc'[u] \in {"release", "idle"} /\ \A v \in Users \ {u} : pc'[v] = pc[v]
    BY <2>1 DEF Goto, Threads
  <2> QED
    BY <2>1, <2>2, <2>3, QuietStep DEF locks, HoldingLabels
<1>16. CASE Release(u)
  BY <1>16, ReleaseStep
<1>17. CASE RestoreFlush(u)
  BY <1>17, QuietStep DEF RestoreFlush, Goto, locks, HoldingLabels, ClosedLabels
<1> QED
  BY <1>1, <1>2, <1>3, <1>4, <1>5, <1>6, <1>7, <1>8, <1>9, <1>10, <1>11, <1>12, <1>13,
     <1>14, <1>15, <1>16, <1>17 DEF Step

\* The arrival of a request.
LEMMA RequestLockInv ==
    ASSUME LockInv, NEW u \in Users, Request(u)
    PROVE  LockInv'
<1>0. ControlTypeOK'
  BY RequestControlType DEF LockInv
<1>pc. /\ pc \in [Threads -> Labels \cup {"delete", "revert"}]
       /\ sent_idx \in [Users -> Index]
       /\ u \in Threads
  BY DEF LockInv, ControlTypeOK, ThreadTypeOK, Threads
<1> USE <1>0, <1>pc
<1>1. ASSUME NEW i \in Index, LockValidate(u, i) PROVE LockInv'
  BY <1>1, QuietStep DEF LockValidate, Goto, locks, HoldingLabels, ClosedLabels
<1>2. ASSUME NEW i \in Index, WriteLookup(u, i) PROVE LockInv'
  <2>1. locked_by[i] = u
    BY <1>2 DEF WriteLookup, HasSession, SlotsOf, LockInv, LockGuardsSession
  <2> QED
    BY <1>2, <2>1, QuietStep DEF WriteLookup, Goto, locks, HoldingLabels, ClosedLabels
<1>3. ASSUME NEW i \in Index, CommitLookup(u, i) PROVE LockInv'
  <2>1. HasSession(u, i) => locked_by[i] = u
    BY DEF HasSession, SlotsOf, LockInv, LockGuardsSession
  <2>2. \/ Goto(u, "enqueue") /\ HasSession(u, i)
        \/ Goto(u, "unlock") /\ ~HasSession(u, i)
    BY <1>3 DEF CommitLookup
  <2>3. UNCHANGED <<locks, sessions>> /\ sent_idx' = [sent_idx EXCEPT ![u] = i]
    BY <1>3 DEF CommitLookup
  <2>4. \/ pc'[u] = "enqueue" /\ locked_by[i] = u
        \/ pc'[u] = "unlock" /\ ~HasSession(u, i)
    BY <2>1, <2>2 DEF Goto
  <2>5. \A v \in Users \ {u} : pc'[v] = pc[v]
    BY <2>2 DEF Goto, Threads
  <2> QED
    BY <2>3, <2>4, <2>5, QuietStep DEF locks, HoldingLabels, ClosedLabels
<1>4. ASSUME NEW i \in Index, CancelWrite(u, i) PROVE LockInv'
  <2>1. /\ sent_idx' = [sent_idx EXCEPT ![u] = i]
        /\ Goto(u, "unlock")
        /\ UNCHANGED locks
    BY <1>4 DEF CancelWrite
  <2>2. CASE \E k \in SlotsOf(u, i) : CompactSessions(u, k)
    BY <2>1, <2>2, CompactStep DEF Goto, locks, HoldingLabels
  <2>3. CASE ~HasSession(u, i) /\ UNCHANGED sessions
    BY <2>1, <2>3, QuietStep DEF Goto, locks, HoldingLabels
  <2> QED
    BY <1>4, <2>2, <2>3 DEF CancelWrite
<1>5. CASE Undo(u)
  BY <1>5, QuietStep DEF Undo, Goto, locks, HoldingLabels, ClosedLabels
<1> QED
  BY <1>1, <1>2, <1>3, <1>4, <1>5 DEF Request

\* The name server's commands touch neither a lock that is held nor a session.
LEMMA NMLockInv ==
    ASSUME LockInv, NMStep
    PROVE  LockInv'
<1>0. ControlTypeOK'
  BY NMControlType DEF LockInv
<1>1. UNCHANGED <<locked_by, sessions, sent_idx>>
  BY DEF NMStep, CheckLocks, Delete, Create, Checkpoint, Revert, RevertFlush, InitFileLocks, locks
<1>2. UNCHANGED pc \/ \E l \in {"idle", "delete", "revert"} : Goto(NM, l)
  BY DEF NMStep, CheckLocks, Delete, Create, Checkpoint, Revert, RevertFlush
<1>3. \A v \in Users : pc'[v] = pc[v]
  BY <1>2, NamesAssumption DEF Goto, LockInv, ControlTypeOK, ThreadTypeOK, Threads
<1> QED
  BY <1>0, <1>1, <1>3, NamesAssumption, QuietStep DEF Threads

LEMMA NextLockInv ==
    LockInv /\ [Next]_vars /\ Undisturbed({"realloc"})' => LockInv'
<1> SUFFICES ASSUME LockInv, [Next]_vars, Undisturbed({"realloc"})' PROVE LockInv'
  OBVIOUS
<1>1. CASE UNCHANGED vars
  <2>1. ControlTypeOK'
    BY NextControlType DEF LockInv
  <2>2. NM \in Threads /\ NM \notin Users
    BY NamesAssumption DEF Threads
  <2> QED
    BY <1>1, <2>1, <2>2, QuietStep DEF vars, locks
<1> QED
  BY <1>1, StepLockInv, RequestLockInv, NMLockInv, RestartLockInv DEF Next

\* The invariant as it holds whether or not realloc moves the lock table.
UndisturbedLockInv == ControlTypeOK /\ (Undisturbed({"realloc"}) => LockInv)

LEMMA InitUndisturbedLockInv == Init => UndisturbedLockInv
BY InitControlType, InitLockInv DEF UndisturbedLockInv

LEMMA NextUndisturbedLockInv == UndisturbedLockInv /\ [Next]_vars => UndisturbedLockInv'
<1>1. Undisturbed({"realloc"})' /\ [Next]_vars => Undisturbed({"realloc"})
  BY RacesGrow DEF Undisturbed
<1> QED BY <1>1, NextControlType, NextLockInv DEF UndisturbedLockInv

\* As long as nobody has used a lock in a freed table, a session exists only under its
\* user's lock, no sentence has two, and each is gone before its lock is freed.
THEOREM UndisturbedLocks == Spec => [](Undisturbed({"realloc"}) => LockInv)
<1>1. UndisturbedLockInv => (Undisturbed({"realloc"}) => LockInv)
  BY DEF UndisturbedLockInv
<1> QED BY <1>1, InitUndisturbedLockInv, NextUndisturbedLockInv, PTL DEF Spec

\* As long as nobody has used a lock through a pointer into a moved table, a session exists
\* only under its user's lock, and a commit runs to its end under it, whatever users,
\* sentences and requests there are.
THEOREM LocksGuardSessions == Spec => []UndisturbedLockGuardsSession
<1>1. (Undisturbed({"realloc"}) => LockInv) => UndisturbedLockGuardsSession
  BY DEF LockInv, UndisturbedLockGuardsSession
<1> QED
  BY <1>1, UndisturbedLocks, PTL

-----------------------------------------------------------------------------
(* The sessions of one user, which need no locks *)

\* A user has one slot for a sentence, and none once its commit goes on without it.
SessionInv == ControlTypeOK /\ OneSlotEach /\ ClosedBeforeRelease

LEMMA InitSessionInv == Init => SessionInv
<1> SUFFICES ASSUME Init PROVE SessionInv
  OBVIOUS
<1>1. Active = {} /\ \A u \in Users : pc[u] = "idle"
  BY DEF Init, Active, AllIdle, Threads
<1> QED
  BY <1>1, InitControlType DEF SessionInv, OneSlotEach, ClosedBeforeRelease, ClosedLabels

\* A step of thread t that leaves the slots with their users and sentences.
LEMMA SessionQuietStep ==
    ASSUME SessionInv, ControlTypeOK', NEW t \in Threads,
           Active' = Active,
           \A k \in Active : /\ write_sessions'[k].user = write_sessions[k].user
                             /\ write_sessions'[k].idx = write_sessions[k].idx,
           \A v \in Users \ {t} : pc'[v] = pc[v] /\ sent_idx'[v] = sent_idx[v],
           t \in Users /\ pc'[t] \in ClosedLabels => ~HasSession(t, sent_idx'[t])
    PROVE  SessionInv'
<1>1. OneSlotEach'
  BY DEF SessionInv, OneSlotEach
<1>2. \A v \in Users, i \in Index : HasSession(v, i)' = HasSession(v, i)
  BY DEF HasSession, SlotsOf
<1>3. \A v \in Users : sent_idx'[v] \in Index
  BY DEF ControlTypeOK, ThreadTypeOK
<1>4. ClosedLabels' = ClosedLabels
  BY DEF ClosedLabels
<1>5. ClosedBeforeRelease'
  <2> SUFFICES ASSUME NEW v \in Users, pc'[v] \in ClosedLabels
               PROVE  ~HasSession(v, sent_idx'[v])
    BY <1>2, <1>3, <1>4 DEF ClosedBeforeRelease, HasSession, SlotsOf
  <2> QED
    BY DEF SessionInv, ClosedBeforeRelease
<1> QED
  BY <1>1, <1>5 DEF SessionInv

\* Removing the slot of user u's session on the sentence of its request.
LEMMA SessionCompactStep ==
    ASSUME SessionInv, ControlTypeOK', NEW u \in Users,
           NEW k \in SlotsOf(u, sent_idx'[u]), CompactSessions(u, k),
           \A v \in Users \ {u} : pc'[v] = pc[v] /\ sent_idx'[v] = sent_idx[v]
    PROVE  SessionInv'
<1> DEFINE Before(j) == IF j >= k THEN j + 1 ELSE j
<1>1. \A j \in Active' : /\ Before(j) \in Active \ {k}
                         /\ write_sessions'[j] = write_sessions[Before(j)]
  BY CompactSlots DEF SessionInv, ControlTypeOK, SlotsOf
<1>2. \A i, j \in Active' : Before(i) = Before(j) => i = j
  BY BoundsAssumption DEF SessionInv, ControlTypeOK, SessionTypeOK, Active, SlotsOf,
     CompactSessions
<1> HIDE DEF Before
<1>3. OneSlotEach'
  BY <1>1, <1>2 DEF SessionInv, OneSlotEach
<1>4. ASSUME NEW v \in Users, pc'[v] \in ClosedLabels,
             NEW j \in Active', write_sessions'[j].user = v, write_sessions'[j].idx = sent_idx'[v]
      PROVE  FALSE
  <2>1. /\ Before(j) \in Active \ {k}
        /\ write_sessions[Before(j)].user = v
        /\ write_sessions[Before(j)].idx = sent_idx'[v]
    BY <1>1, <1>4
  <2>2. CASE v = u
    BY <2>1, <2>2 DEF SessionInv, OneSlotEach, SlotsOf
  <2>3. CASE v # u
    BY <1>4, <2>1, <2>3 DEF SessionInv, ClosedBeforeRelease, HasSession, SlotsOf
  <2> QED
    BY <2>2, <2>3
<1> QED
  BY <1>3, <1>4 DEF SessionInv, ClosedBeforeRelease, HasSession, SlotsOf, ClosedLabels

\* A new slot is for a sentence its user has none for.
LEMMA SessionStartStep ==
    ASSUME SessionInv, ControlTypeOK', NEW u \in Users, StartSession(u)
    PROVE  SessionInv'
<1> DEFINE i == sent_idx[u]
<1>1. /\ UNCHANGED sent_idx
      /\ \A v \in Users \ {u} : pc'[v] = pc[v]
      /\ pc' = [pc EXCEPT ![u] = pc'[u]]
      /\ pc'[u] = "copy" \/ (pc'[u] = "unlock" /\ ~HasSession(u, i))
  BY DEF StartSession, Goto, SessionInv, ControlTypeOK, ThreadTypeOK, Threads
<1>2. CASE UNCHANGED sessions
  <2>1. Active' = Active /\ write_sessions' = write_sessions
    BY <1>2 DEF sessions, Active
  <2> QED
    BY <1>1, <2>1, SessionQuietStep DEF Threads, ClosedLabels
<1>3. CASE /\ ~HasSession(u, i)
           /\ write_session_count < MaxSessions
           /\ write_session_count' = write_session_count + 1
           /\ write_sessions' = [write_sessions EXCEPT ![write_session_count + 1]
                                   = Reused(@, u, i)]
           /\ pc'[u] = "copy"
  <2> DEFINE n == write_session_count + 1
  <2>1. /\ Active' = Active \cup {n}
        /\ n \notin Active
        /\ \A k \in Active : write_sessions'[k] = write_sessions[k]
        /\ write_sessions'[n].user = u
        /\ write_sessions'[n].idx = i
    BY <1>3 DEF Active, SessionInv, ControlTypeOK, SessionTypeOK, Reused
  <2> HIDE DEF n
  <2>2. \A k \in Active : ~(write_sessions[k].user = u /\ write_sessions[k].idx = i)
    BY <1>3 DEF HasSession, SlotsOf
  <2>3. OneSlotEach'
    BY <2>1, <2>2 DEF SessionInv, OneSlotEach
  <2>4. ClosedBeforeRelease'
    BY <1>1, <1>3, <2>1 DEF SessionInv, ClosedBeforeRelease, ClosedLabels, HasSession, SlotsOf
  <2> QED
    BY <2>3, <2>4 DEF SessionInv
<1> QED
  BY <1>2, <1>3 DEF StartSession, Goto, SessionInv, ControlTypeOK, ThreadTypeOK, Threads

LEMMA StepSessionInv ==
    ASSUME SessionInv, NEW u \in Users, Step(u)
    PROVE  SessionInv'
<1> DEFINE i == sent_idx[u]
<1>0. ControlTypeOK'
  BY StepControlType DEF SessionInv
<1>pc. pc \in [Threads -> Labels \cup {"delete", "revert"}] /\ u \in Threads
  BY DEF SessionInv, ControlTypeOK, ThreadTypeOK, Threads
<1>goto. ASSUME NEW l, Goto(u, l)
         PROVE  pc'[u] = l /\ \A v \in Users \ {u} : pc'[v] = pc[v]
  BY <1>pc, <1>goto DEF Goto, Threads
<1>closed. pc[u] \in ClosedLabels => ~HasSession(u, i)
  BY DEF SessionInv, ClosedBeforeRelease
<1>quiet. ASSUME UNCHANGED <<sessions, sent_idx>>,
                 \A v \in Users \ {u} : pc'[v] = pc[v],
                 pc'[u] \in ClosedLabels => pc[u] \in ClosedLabels
          PROVE  SessionInv'
  <2>1. Active' = Active /\ write_sessions' = write_sessions
    BY <1>quiet DEF sessions, Active
  <2> QED
    BY <1>0, <1>pc, <1>closed, <1>quiet, <2>1, SessionQuietStep
<1>1. CASE \/ GetLock(u) \/ TakeLock(u) \/ TakeFreedLock(u) \/ RestoreFlush(u)
           \/ \E kind \in WriteKinds : WriteTemp(u, kind)
  <2>1. UNCHANGED <<sessions, sent_idx>>
    BY <1>1 DEF GetLock, TakeLock, TakeFreedLock, RestoreFlush, WriteTemp
  <2>2. Goto(u, "takelock") \/ Goto(u, "start") \/ Goto(u, "idle")
    BY <1>1 DEF GetLock, TakeLock, TakeFreedLock, RestoreFlush, WriteTemp
  <2> QED
    BY <1>goto, <1>quiet, <2>1, <2>2 DEF ClosedLabels
<1>2. CASE \/ MergeHead(u) \/ Truncate(u) \/ Flush(u) \/ ReleaseQueue(u)
           \/ UnlockLookup(u) \/ Release(u)
  <2>1. UNCHANGED <<sessions, sent_idx>> /\ pc[u] \in ClosedLabels
    BY <1>2 DEF MergeHead, Truncate, Flush, ReleaseQueue, UnlockLookup, Release, ClosedLabels
  <2>2. \E l \in Labels : Goto(u, l)
    BY <1>2 DEF MergeHead, Truncate, Flush, ReleaseQueue, UnlockLookup, Release, Labels
  <2> QED
    BY <1>goto, <1>quiet, <2>1, <2>2
<1>3. CASE AcquireQueue(u)
  BY <1>3, <1>goto, <1>quiet DEF AcquireQueue, ClosedLabels
<1>4. CASE SkipCommit(u)
  BY <1>4, <1>quiet DEF SkipCommit
<1>5. CASE StartSession(u)
  BY <1>0, <1>5, SessionStartStep
<1>6. CASE CopyToTemp(u)
  <2>1. /\ Active' = Active
        /\ \A k \in Active : /\ write_sessions'[k].user = write_sessions[k].user
                             /\ write_sessions'[k].idx = write_sessions[k].idx
    BY <1>6 DEF CopyToTemp, Active, Stamped, SessionInv, ControlTypeOK, SessionTypeOK, ThreadTypeOK
  <2>2. UNCHANGED sent_idx /\ Goto(u, "idle")
    BY <1>6 DEF CopyToTemp
  <2> QED
    BY <1>0, <1>pc, <1>goto, <2>1, <2>2, SessionQuietStep DEF ClosedLabels
<1>7. CASE Enqueue(u)
  <2>1. UNCHANGED sent_idx /\ i = sent_idx'[u]
    BY <1>7 DEF Enqueue
  <2>2. CASE Goto(u, "close") /\ UNCHANGED sessions
    BY <1>goto, <1>quiet, <2>1, <2>2 DEF ClosedLabels
  <2>3. CASE Goto(u, "unlock") /\ \E k \in SlotsOf(u, i) : CompactSessions(u, k)
    <3>1. PICK k \in SlotsOf(u, i) : CompactSessions(u, k)
      BY <2>3
    <3>2. k \in SlotsOf(u, sent_idx'[u])
      BY <2>1, <3>1
    <3> HIDE DEF i
    <3> QED
      BY <1>0, <1>goto, <2>1, <2>3, <3>1, <3>2, SessionCompactStep
  <2> QED
    BY <1>7, <2>2, <2>3 DEF Enqueue
<1>8. CASE CloseSession(u)
  <2>1. UNCHANGED sent_idx /\ i = sent_idx'[u] /\ Goto(u, "acquire")
    BY <1>8 DEF CloseSession
  <2>2. PICK k \in SlotsOf(u, i) : CompactSessions(u, k)
    BY <1>8 DEF CloseSession
  <2>3. k \in SlotsOf(u, sent_idx'[u])
    BY <2>1, <2>2
  <2> HIDE DEF i
  <2> QED
    BY <1>0, <1>goto, <2>1, <2>2, <2>3, SessionCompactStep
<1> QED
  BY <1>1, <1>2, <1>3, <1>4, <1>5, <1>6, <1>7, <1>8 DEF Step

LEMMA RequestSessionInv ==
    ASSUME SessionInv, NEW u \in Users, Request(u)
    PROVE  SessionInv'
<1>0. ControlTypeOK'
  BY RequestControlType DEF SessionInv
<1>pc. /\ pc \in [Threads -> Labels \cup {"delete", "revert"}]
       /\ sent_idx \in [Users -> Index]
       /\ u \in Threads
  BY DEF SessionInv, ControlTypeOK, ThreadTypeOK, Threads
<1>goto. ASSUME NEW l, Goto(u, l)
         PROVE  pc'[u] = l /\ \A v \in Users \ {u} : pc'[v] = pc[v]
  BY <1>pc, <1>goto DEF Goto, Threads
<1>same. ASSUME UNCHANGED sessions
         PROVE  Active' = Active /\ write_sessions' = write_sessions
  BY <1>same DEF sessions, Active
<1>1. ASSUME NEW i \in Index, LockValidate(u, i) \/ WriteLookup(u, i) \/ CommitLookup(u, i)
      PROVE  SessionInv'
  <2>1. UNCHANGED sessions /\ sent_idx' = [sent_idx EXCEPT ![u] = i]
    BY <1>1 DEF LockValidate, WriteLookup, CommitLookup
  <2>2. \/ Goto(u, "getlock") \/ Goto(u, "write") \/ Goto(u, "enqueue")
        \/ Goto(u, "unlock") /\ ~HasSession(u, i)
    BY <1>1 DEF LockValidate, WriteLookup, CommitLookup
  <2>3. /\ pc'[u] \in ClosedLabels => ~HasSession(u, i)
        /\ \A v \in Users \ {u} : pc'[v] = pc[v]
    BY <1>goto, <2>2 DEF ClosedLabels
  <2> QED
    BY <1>0, <1>pc, <1>same, <2>1, <2>3, SessionQuietStep
<1>2. ASSUME NEW i \in Index, CancelWrite(u, i)
      PROVE  SessionInv'
  <2>1. sent_idx' = [sent_idx EXCEPT ![u] = i] /\ Goto(u, "unlock")
    BY <1>2 DEF CancelWrite
  <2>2. CASE \E k \in SlotsOf(u, i) : CompactSessions(u, k)
    BY <1>0, <1>pc, <1>goto, <2>1, <2>2, SessionCompactStep
  <2>3. CASE ~HasSession(u, i) /\ UNCHANGED sessions
    BY <1>0, <1>pc, <1>goto, <1>same, <2>1, <2>3, SessionQuietStep
  <2> QED
    BY <1>2, <2>2, <2>3 DEF CancelWrite
<1>3. CASE Undo(u)
  <2>1. UNCHANGED <<sessions, sent_idx>> /\ Goto(u, "restore")
    BY <1>3 DEF Undo
  <2> QED
    BY <1>0, <1>pc, <1>goto, <1>same, <2>1, SessionQuietStep DEF ClosedLabels
<1> QED
  BY <1>1, <1>2, <1>3 DEF Request

LEMMA NextSessionInv == SessionInv /\ [Next]_vars => SessionInv'
<1> SUFFICES ASSUME SessionInv, [Next]_vars PROVE SessionInv'
  OBVIOUS
<1>0. ControlTypeOK'
  BY NextControlType DEF SessionInv
<1>1. CASE NMStep \/ UNCHANGED vars
  <2>1. UNCHANGED <<sessions, sent_idx>>
    BY <1>1 DEF NMStep, CheckLocks, Delete, Create, Checkpoint, Revert, RevertFlush, vars
  <2>2. UNCHANGED pc \/ \E l \in {"idle", "delete", "revert"} : Goto(NM, l)
    BY <1>1 DEF NMStep, CheckLocks, Delete, Create, Checkpoint, Revert, RevertFlush, vars
  <2>3. \A v \in Users : pc'[v] = pc[v]
    BY <2>2, NamesAssumption DEF Goto, SessionInv, ControlTypeOK, ThreadTypeOK, Threads
  <2>4. Active' = Active /\ write_sessions' = write_sessions
    BY <2>1 DEF sessions, Active
  <2>5. NM \in Threads /\ NM \notin Users
    BY NamesAssumption DEF Threads
  <2> QED
    BY <1>0, <2>1, <2>3, <2>4, <2>5, SessionQuietStep
<1>2. CASE Restart
  <2>1. Active' = {} /\ \A u \in Users : pc'[u] = "idle"
    BY <1>2 DEF Restart, Active, AllIdle, Threads
  <2> QED
    BY <1>0, <2>1 DEF SessionInv, OneSlotEach, ClosedBeforeRelease, ClosedLabels
<1> QED
  BY <1>1, <1>2, StepSessionInv, RequestSessionInv DEF Next

\* No user ever has two slots for a sentence, whatever has happened to the locks; and no two
\* users have sessions on one sentence index, as long as nobody has used a lock through a
\* pointer into a moved table.
THEOREM OneSession == Spec => []UndisturbedOneSessionPerSentence
<1>1. SessionInv /\ (Undisturbed({"realloc"}) => LockInv) => UndisturbedOneSessionPerSentence
  BY DEF SessionInv, LockInv, UndisturbedOneSessionPerSentence
<1> QED
  BY <1>1, InitSessionInv, NextSessionInv, UndisturbedLocks, PTL DEF Spec

\* A user's session is gone before its commit is merged and before its lock is freed,
\* whatever sequence of requests, commands and restarts the server meets, and whether or not
\* the lock itself has been lost.
THEOREM SessionsCloseFirst == Spec => []ClosedBeforeRelease
<1>1. SessionInv => ClosedBeforeRelease
  BY DEF SessionInv
<1> QED
  BY <1>1, InitSessionInv, NextSessionInv, PTL DEF Spec

-----------------------------------------------------------------------------
(* The locks and sessions implement SentenceLocking *)

\* Removing a session's slot closes that session and no other.
LEMMA CompactCloses ==
    ASSUME LockInv, NEW u \in Users, NEW i \in Index, NEW k \in SlotsOf(u, i),
           CompactSessions(u, k), UNCHANGED locked_by
    PROVE  Locking!Close(u, i)
<1>1. k \in Active /\ write_sessions[k].user = u /\ write_sessions[k].idx = i
  BY DEF SlotsOf
<1>2. ASSUME NEW j \in Active'
      PROVE  <<write_sessions'[j].user, write_sessions'[j].idx>> \in OpenSessions \ {<<u, i>>}
  <2> DEFINE m == IF j >= k THEN j + 1 ELSE j
  <2>1. m \in Active \ {k} /\ write_sessions'[j] = write_sessions[m]
    BY <1>1, CompactSlots DEF LockInv, ControlTypeOK
  <2>2. write_sessions[m].idx # i
    BY <1>1, <2>1 DEF LockInv, OneSessionPerSentence
  <2> HIDE DEF m
  <2> QED
    BY <2>1, <2>2 DEF OpenSessions
<1>3. ASSUME NEW j \in Active, <<write_sessions[j].user, write_sessions[j].idx>> # <<u, i>>
      PROVE  \E m \in Active' : write_sessions'[m] = write_sessions[j]
  <2>1. j # k
    BY <1>1, <1>3
  <2>2. CASE j < k
    <3>1. j \in Active' /\ write_sessions'[j] = write_sessions[j]
      BY <1>1, <2>2, BoundsAssumption
         DEF CompactSessions, Active, LockInv, ControlTypeOK, SessionTypeOK
    <3> QED
      BY <3>1
  <2>3. CASE j > k
    <3>1. j - 1 \in Active' /\ write_sessions'[j - 1] = write_sessions[j]
      BY <1>1, <2>3, BoundsAssumption
         DEF CompactSessions, Active, LockInv, ControlTypeOK, SessionTypeOK
    <3> QED
      BY <3>1
  <2> QED
    BY <1>1, <2>1, <2>2, <2>3 DEF Active, LockInv, ControlTypeOK, SessionTypeOK
<1>4. OpenSessions' = OpenSessions \ {<<u, i>>}
  <2>1. OpenSessions' \subseteq OpenSessions \ {<<u, i>>}
    BY <1>2 DEF OpenSessions
  <2>2. ASSUME NEW key \in OpenSessions, key # <<u, i>>
        PROVE  key \in OpenSessions'
    BY <1>3, <2>2 DEF OpenSessions
  <2> QED
    BY <2>1, <2>2
<1> QED
  BY <1>4 DEF Locking!Close

\* Every step of a user's thread is a step of SentenceLocking, or none.
LEMMA StepImplements ==
    ASSUME LockInv, NEW u \in Users, Step(u)
    PROVE  [Locking!Next]_Locking!vars
<1> DEFINE i == sent_idx[u]
<1>i. i \in Index
  BY DEF LockInv, ControlTypeOK, ThreadTypeOK
<1>stutter. ASSUME UNCHANGED <<locked_by, sessions>>
            PROVE  UNCHANGED Locking!vars
  BY <1>stutter DEF Locking!vars, OpenSessions, sessions, Active
<1>1. CASE GetLock(u)
  BY <1>1, <1>stutter DEF GetLock, InitFileLocks, locks
<1>2. CASE TakeLock(u)
  <2>1. CASE MayLock(u, i)
    <3>1. Locking!Acquire(u, i)
      BY <1>2, <2>1 DEF TakeLock, MayLock, Locking!Acquire, OpenSessions, sessions, Active
    <3> QED
      BY <1>i, <3>1 DEF Locking!Next
  <2>2. CASE ~MayLock(u, i)
    BY <1>2, <2>2, <1>stutter DEF TakeLock
  <2> QED
    BY <2>1, <2>2
<1>3. CASE TakeFreedLock(u)
  BY <1>3, <1>stutter DEF TakeFreedLock
<1>4. CASE StartSession(u)
  <2>1. locked_by[i] = u /\ UNCHANGED locked_by
    BY <1>4 DEF StartSession, LockInv, LockGuardsSession, HoldingLabels, locks
  <2>2. CASE UNCHANGED sessions
    BY <2>1, <2>2, <1>stutter
  <2>3. CASE /\ write_session_count < MaxSessions
             /\ write_session_count' = write_session_count + 1
             /\ write_sessions' = [write_sessions EXCEPT ![write_session_count + 1]
                                     = Reused(@, u, i)]
    <3> DEFINE n == write_session_count + 1
    <3>a. n \in 1 .. MaxSessions /\ Active' = Active \cup {n} /\ n \notin Active
      BY <2>3, BoundsAssumption DEF Active, LockInv, ControlTypeOK, SessionTypeOK
    <3>1. /\ Active' = Active \cup {n}
          /\ \A k \in Active : write_sessions'[k] = write_sessions[k]
          /\ write_sessions'[n].user = u
          /\ write_sessions'[n].idx = i
      BY <2>3, <3>a DEF LockInv, ControlTypeOK, SessionTypeOK, Reused, Active
    <3> HIDE DEF n
    <3>2. OpenSessions' = OpenSessions \cup {<<u, i>>}
      BY <3>1 DEF OpenSessions
    <3>3. Locking!Open(u, i)
      BY <2>1, <3>2 DEF Locking!Open
    <3> QED
      BY <1>i, <3>3 DEF Locking!Next
  <2> QED
    BY <1>4, <2>2, <2>3 DEF StartSession
<1>5. CASE CopyToTemp(u)
  <2>1. /\ UNCHANGED locked_by
        /\ Active' = Active
        /\ \A k \in Active : /\ write_sessions'[k].user = write_sessions[k].user
                             /\ write_sessions'[k].idx = write_sessions[k].idx
    BY <1>5 DEF CopyToTemp, locks, Active, Stamped, LockInv, ControlTypeOK, SessionTypeOK,
       ThreadTypeOK
  <2>2. OpenSessions' = OpenSessions
    BY <2>1 DEF OpenSessions
  <2> QED
    BY <2>1, <2>2 DEF Locking!vars
<1>6. CASE \E kind \in WriteKinds : WriteTemp(u, kind)
  BY <1>6, <1>stutter DEF WriteTemp, locks
<1>7. CASE Enqueue(u)
  <2>1. CASE UNCHANGED sessions
    BY <1>7, <2>1, <1>stutter DEF Enqueue, locks
  <2>2. CASE \E k \in SlotsOf(u, i) : CompactSessions(u, k)
    <3>1. Locking!Close(u, i)
      BY <1>7, <1>i, <2>2, CompactCloses DEF Enqueue, locks
    <3> QED
      BY <1>i, <3>1 DEF Locking!Next
  <2> QED
    BY <1>7, <2>1, <2>2 DEF Enqueue
<1>8. CASE CloseSession(u)
  <2>1. Locking!Close(u, i)
    BY <1>8, <1>i, CompactCloses DEF CloseSession, locks
  <2> QED
    BY <1>i, <2>1 DEF Locking!Next
<1>9. CASE AcquireQueue(u) \/ SkipCommit(u) \/ MergeHead(u) \/ Truncate(u) \/ Flush(u)
  BY <1>9, <1>stutter DEF AcquireQueue, SkipCommit, MergeHead, Truncate, Flush, locks
<1>10. CASE ReleaseQueue(u) \/ UnlockLookup(u) \/ RestoreFlush(u)
  BY <1>10, <1>stutter DEF ReleaseQueue, UnlockLookup, RestoreFlush, locks
<1>11. CASE Release(u)
  <2>1. CASE MayUnlock(u, i)
    <3>1. <<u, i>> \notin OpenSessions
      BY <1>11 DEF Release, LockInv, ClosedBeforeRelease, ClosedLabels, HasSession, SlotsOf,
         OpenSessions
    <3>2. Locking!Release(u, i)
      BY <1>11, <2>1, <3>1
         DEF Release, MayUnlock, Locking!Release, OpenSessions, sessions, Active
    <3> QED
      BY <1>i, <3>2 DEF Locking!Next
  <2>2. CASE ~MayUnlock(u, i)
    BY <1>11, <2>2, <1>stutter DEF Release
  <2> QED
    BY <2>1, <2>2
<1> QED
  BY <1>1, <1>2, <1>3, <1>4, <1>5, <1>6, <1>7, <1>8, <1>9, <1>10, <1>11 DEF Step

LEMMA NextImplements ==
    LockInv /\ [Next]_vars => [Locking!Next]_Locking!vars
<1> SUFFICES ASSUME LockInv, [Next]_vars PROVE [Locking!Next]_Locking!vars
  OBVIOUS
<1>stutter. ASSUME UNCHANGED <<locked_by, sessions>>
            PROVE  UNCHANGED Locking!vars
  BY <1>stutter DEF Locking!vars, OpenSessions, sessions, Active
<1>1. ASSUME NEW u \in Users, Request(u)
      PROVE  [Locking!Next]_Locking!vars
  <2>1. ASSUME NEW i \in Index, LockValidate(u, i) \/ WriteLookup(u, i) \/ CommitLookup(u, i)
        PROVE  [Locking!Next]_Locking!vars
    BY <2>1, <1>stutter DEF LockValidate, WriteLookup, CommitLookup, locks
  <2>2. ASSUME NEW i \in Index, CancelWrite(u, i)
        PROVE  [Locking!Next]_Locking!vars
    <3>1. CASE \E k \in SlotsOf(u, i) : CompactSessions(u, k)
      <4>1. Locking!Close(u, i)
        BY <2>2, <3>1, CompactCloses DEF CancelWrite, locks
      <4> QED
        BY <4>1 DEF Locking!Next
    <3>2. CASE UNCHANGED sessions
      BY <2>2, <3>2, <1>stutter DEF CancelWrite, locks
    <3> QED
      BY <2>2, <3>1, <3>2 DEF CancelWrite
  <2>3. CASE Undo(u)
    BY <2>3, <1>stutter DEF Undo, locks
  <2> QED
    BY <1>1, <2>1, <2>2, <2>3 DEF Request
<1>2. CASE NMStep
  BY <1>2, <1>stutter DEF NMStep, CheckLocks, Delete, Create, Checkpoint, Revert, RevertFlush,
     InitFileLocks, locks
<1>3. CASE Restart
  <2>1. Active' = {}
    BY <1>3 DEF Restart, Active
  <2>2. Locking!Reset
    BY <1>3, <2>1 DEF Restart, Unlocked, Locking!Reset, OpenSessions
  <2> QED
    BY <2>2 DEF Locking!Next
<1>4. CASE UNCHANGED vars
  BY <1>4, <1>stutter DEF vars, locks
<1> QED
  BY <1>1, <1>2, <1>3, <1>4, StepImplements DEF Next

\* The locks and sessions of a storage server implement SentenceLocking up to the first use
\* of a lock through a pointer into a moved table: every step before it, of LOCK, WRITE,
\* UNLOCK, CANCEL, the name server's commands and restarts, is one of SentenceLocking's, or
\* a stutter.
THEOREM LockingRefinement == Spec => UndisturbedImplementsLocking
<1>1. Init => Locking!Init
  BY DEF Init, Unlocked, Locking!Init, OpenSessions, Active
<1>2. ASSUME UndisturbedLockInv, [Next]_vars
      PROVE  [Undisturbed({"realloc"})' => [Locking!Next]_(Locking!vars)]_vars
  <2> SUFFICES ASSUME Undisturbed({"realloc"})' PROVE [Locking!Next]_(Locking!vars)
    OBVIOUS
  <2>1. LockInv
    BY <1>2, RacesGrow DEF Undisturbed, UndisturbedLockInv
  <2> QED
    BY <1>2, <2>1, NextImplements
<1> QED
  BY <1>1, <1>2, InitUndisturbedLockInv, NextUndisturbedLockInv, PTL
     DEF Spec, UndisturbedImplementsLocking

\* What SentenceLocking keeps: who edits a sentence holds its lock.
LockingInv == Locking!TypeOK /\ Locking!OpenIsHeld

LEMMA InitLockingInv == Locking!Init => LockingInv
  BY DEF Locking!Init, LockingInv, Locking!TypeOK, Locking!OpenIsHeld

\* A lock changes hands only through NoUser, and is given up only by one without a
\* session on its sentence.
LEMMA NextLockingInv == LockingInv /\ [Locking!Next]_Locking!vars => LockingInv'
<1> SUFFICES ASSUME LockingInv, [Locking!Next]_Locking!vars PROVE LockingInv'
  OBVIOUS
<1> USE NamesAssumption DEF LockingInv, Locking!TypeOK, Locking!OpenIsHeld
<1>1. CASE \E u \in Users, i \in Index : Locking!Acquire(u, i)
  BY <1>1 DEF Locking!Acquire
<1>2. CASE \E u \in Users, i \in Index : Locking!Open(u, i)
  BY <1>2 DEF Locking!Open
<1>3. CASE \E u \in Users, i \in Index : Locking!Close(u, i)
  BY <1>3 DEF Locking!Close
<1>4. CASE \E u \in Users, i \in Index : Locking!Release(u, i)
  <2>1. PICK u \in Users, i \in Index : Locking!Release(u, i)
    BY <1>4
  <2>2. \A key \in OpenSessions : key[2] # i
    BY <2>1 DEF Locking!Release
  <2> QED
    BY <2>1, <2>2 DEF Locking!Release
<1>5. CASE Locking!Reset
  BY <1>5 DEF Locking!Reset
<1>6. CASE UNCHANGED Locking!vars
  BY <1>6 DEF Locking!vars
<1> QED
  BY <1>1, <1>2, <1>3, <1>4, <1>5, <1>6 DEF Locking!Next

\* No two users have sessions on one sentence index: "preventing simultaneous edits to
\* the same sentence" (notes.md). SentenceLocking guarantees it in every run of its own, and
\* a storage server, by LockingRefinement, up to the first use of a lock through a pointer
\* into a moved table.
THEOREM ExclusiveEditing ==
    /\ Locking!Spec => [](Locking!OpenIsHeld /\ Locking!Exclusion)
    /\ Spec => [](Undisturbed({"realloc"}) => Locking!OpenIsHeld /\ Locking!Exclusion)
<1>1. LockingInv => Locking!OpenIsHeld /\ Locking!Exclusion
  BY DEF LockingInv, Locking!TypeOK, Locking!OpenIsHeld, Locking!Exclusion
<1>2. Locking!Spec => [](Locking!OpenIsHeld /\ Locking!Exclusion)
  BY <1>1, InitLockingInv, NextLockingInv, PTL DEF Locking!Spec
<1>3. ASSUME Undisturbed({"realloc"}) => LockingInv, [Next]_vars,
             [Undisturbed({"realloc"})' => [Locking!Next]_(Locking!vars)]_vars
      PROVE  (Undisturbed({"realloc"}) => LockingInv)'
  <2> SUFFICES ASSUME Undisturbed({"realloc"})' PROVE LockingInv'
    OBVIOUS
  <2>1. LockingInv
    BY <1>3, RacesGrow DEF Undisturbed
  <2>2. CASE [Locking!Next]_(Locking!vars)
    BY <2>1, <2>2, NextLockingInv
  <2>3. CASE UNCHANGED vars
    <3>1. UNCHANGED Locking!vars
      BY <2>3 DEF vars, locks, sessions, Locking!vars, OpenSessions, Active
    <3> QED
      BY <2>1, <3>1, NextLockingInv
  <2> QED
    BY <1>3, <2>2, <2>3
<1>4. Spec => [](Undisturbed({"realloc"}) => Locking!OpenIsHeld /\ Locking!Exclusion)
  BY <1>1, <1>3, LockingRefinement, InitLockingInv, PTL
     DEF Spec, UndisturbedImplementsLocking
<1> QED
  BY <1>2, <1>4

-----------------------------------------------------------------------------
(* The commit queue *)

LEMMA InitQueueInv == Init => QueueOwnership
  BY NamesAssumption DEF Init, AllIdle, Threads, QueueOwnership, QueueLabels

LEMMA NextQueueInv == ControlTypeOK /\ QueueOwnership /\ [Next]_vars => QueueOwnership'
<1> SUFFICES ASSUME ControlTypeOK, QueueOwnership, [Next]_vars PROVE QueueOwnership'
  OBVIOUS
<1>pc. pc \in [Threads -> Labels \cup {"delete", "revert"}]
  BY DEF ControlTypeOK, ThreadTypeOK
<1>elsewhere. ASSUME NEW t \in Threads, NEW l, Goto(t, l), UNCHANGED <<queue, queue_mutex>>,
                     t \in Users => /\ l \in QueueLabels <=> pc[t] \in QueueLabels
                                    /\ l \in {"truncate", "flush"} => queue # <<>>
              PROVE  QueueOwnership'
  BY <1>pc, <1>elsewhere DEF Goto, QueueOwnership, Threads
<1>1. ASSUME NEW u \in Users, Step(u) PROVE QueueOwnership'
  <2>u. u \in Threads
    BY DEF Threads
  <2>1. CASE AcquireQueue(u)
    BY <1>pc, <2>u, <2>1, NamesAssumption DEF AcquireQueue, Goto, QueueOwnership, QueueLabels
  <2>2. CASE SkipCommit(u)
    BY <2>2 DEF SkipCommit, QueueOwnership, QueueLabels
  <2>3. CASE MergeHead(u)
    BY <2>3, <2>u, <1>elsewhere DEF MergeHead, QueueLabels, commits
  <2>4. CASE Truncate(u)
    <3>1. pc[u] = "truncate" /\ queue_mutex = u /\ queue # <<>> /\ UNCHANGED queue
      BY <2>4 DEF Truncate, QueueOwnership, QueueLabels
    <3>2. CASE Goto(u, "flush") /\ UNCHANGED queue_mutex
      BY <2>u, <3>1, <3>2, <1>elsewhere DEF QueueLabels
    <3>3. CASE Goto(u, "unlock") /\ queue_mutex' = NoUser
      BY <1>pc, <2>u, <3>1, <3>3, NamesAssumption DEF Goto, QueueOwnership, QueueLabels
    <3> QED
      BY <2>4, <3>2, <3>3 DEF Truncate
  <2>5. CASE Flush(u)
    BY <1>pc, <2>u, <2>5 DEF Flush, Goto, QueueOwnership, QueueLabels
  <2>6. CASE ReleaseQueue(u)
    BY <1>pc, <2>u, <2>6, NamesAssumption DEF ReleaseQueue, Goto, QueueOwnership, QueueLabels
  <2>7. CASE Enqueue(u)
    <3>1. \/ queue_mutex = NoUser /\ Goto(u, "close")
          \/ UNCHANGED queue /\ Goto(u, "unlock")
      BY <2>7 DEF Enqueue
    <3>2. pc[u] = "enqueue" /\ UNCHANGED queue_mutex
      BY <2>7 DEF Enqueue
    <3>3. pc'[u] \in {"close", "unlock"} /\ \A v \in Users \ {u} : pc'[v] = pc[v]
      BY <1>pc, <2>u, <3>1 DEF Goto, Threads
    <3>4. CASE UNCHANGED queue
      BY <3>2, <3>3, <3>4 DEF QueueOwnership, QueueLabels
    <3>5. CASE queue_mutex = NoUser
      <4>1. \A v \in Users : pc[v] \notin QueueLabels
        BY <3>5, NamesAssumption DEF QueueOwnership
      <4> QED
        BY <3>2, <3>3, <3>5, <4>1 DEF QueueOwnership, QueueLabels
    <3> QED
      BY <3>1, <3>4, <3>5
  <2>8. CASE GetLock(u) \/ TakeLock(u) \/ TakeFreedLock(u) \/ StartSession(u) \/ CopyToTemp(u)
    BY <2>u, <2>8, <1>elsewhere
       DEF GetLock, TakeLock, TakeFreedLock, StartSession, CopyToTemp, commits, QueueLabels
  <2>9. CASE \/ \E kind \in WriteKinds : WriteTemp(u, kind)
             \/ CloseSession(u) \/ UnlockLookup(u) \/ Release(u) \/ RestoreFlush(u)
    BY <2>u, <2>9, <1>elsewhere
       DEF WriteTemp, CloseSession, UnlockLookup, Release, RestoreFlush, commits, QueueLabels
  <2> QED
    BY <1>1, <2>1, <2>2, <2>3, <2>4, <2>5, <2>6, <2>7, <2>8, <2>9 DEF Step
<1>2. ASSUME NEW u \in Users, Request(u) PROVE QueueOwnership'
  <2>1. UNCHANGED <<queue, queue_mutex>> /\ pc[u] = "idle"
    BY <1>2 DEF Request, LockValidate, WriteLookup, CommitLookup, CancelWrite, Undo, commits
  <2>2. \E l \in {"getlock", "write", "enqueue", "unlock", "restore"} : Goto(u, l)
    BY <1>2 DEF Request, LockValidate, WriteLookup, CommitLookup, CancelWrite, Undo
  <2> QED
    BY <2>1, <2>2, <1>elsewhere DEF Threads, QueueLabels
<1>3. CASE NMStep
  <2>1. UNCHANGED <<queue, queue_mutex>>
    BY <1>3 DEF NMStep, CheckLocks, Delete, Create, Checkpoint, Revert, RevertFlush, commits
  <2>2. UNCHANGED pc \/ \E l \in {"idle", "delete", "revert"} : Goto(NM, l)
    BY <1>3 DEF NMStep, CheckLocks, Delete, Create, Checkpoint, Revert, RevertFlush
  <2>3. NM \in Threads /\ NM \notin Users
    BY NamesAssumption DEF Threads
  <2> QED
    BY <2>1, <2>2, <2>3, <1>elsewhere DEF QueueOwnership
<1>4. CASE Restart
  BY <1>4, NamesAssumption DEF Restart, AllIdle, Threads, QueueOwnership, QueueLabels
<1>5. CASE UNCHANGED vars
  BY <1>5 DEF vars, commits, QueueOwnership
<1> QED
  BY <1>1, <1>2, <1>3, <1>4, <1>5 DEF Next

\* Only the thread that has the queue's mutex merges commits, and the commit it
\* writes is still at the queue's head when it has been written; also when the lock
\* table moves, the disk fails or the server restarts.
THEOREM QueueIsOwned == Spec => []QueueOwnership
  BY InitControlType, NextControlType, InitQueueInv, NextQueueInv, PTL DEF Spec

-----------------------------------------------------------------------------
(* No lock is leaked *)

\* A thread that is busy with a session has one.
BusyLabels == {"copy", "write", "enqueue", "close"}

SessionsKept == \A u \in Users : pc[u] \in BusyLabels => HasSession(u, sent_idx[u])

\* Nobody holds a lock the table has no entry for.
LocksInTable ==
    /\ \A i \in Index : i >= lock_count => locked_by[i] = NoUser
    /\ \A u \in Users : pc[u] = "takelock" => sent_idx[u] < lock_count

\* A lock that is held has a session behind it, or a request about it under way.
LocksAccounted ==
    \A i \in Index, u \in Users :
        locked_by[i] = u => HasSession(u, i) \/ (pc[u] \notin {"idle", "restore"} /\ sent_idx[u] = i)

LeakInv ==
    /\ ControlTypeOK
    /\ SessionsKept
    /\ LocksInTable
    /\ Undisturbed({"realloc"}) => LocksAccounted

LEMMA InitLeakInv == Init => LeakInv
<1> SUFFICES ASSUME Init PROVE LeakInv
  OBVIOUS
<1>1. ControlTypeOK
  BY InitControlType
<1>2. \A u \in Users : pc[u] = "idle"
  BY DEF Init, AllIdle, Threads
<1>3. \A i \in Index : locked_by[i] = NoUser
  BY DEF Init, Unlocked
<1> QED
  BY <1>1, <1>2, <1>3, NamesAssumption
     DEF LeakInv, SessionsKept, LocksInTable, LocksAccounted, BusyLabels

\* Removing the slot of one session leaves the others open.
LEMMA CompactKeeps ==
    ASSUME SessionTypeOK, NEW u \in Users, NEW i, NEW k \in SlotsOf(u, i), CompactSessions(u, k),
           NEW v, NEW j, HasSession(v, j), <<v, j>> # <<u, i>>
    PROVE  HasSession(v, j)'
<1>1. PICK m \in Active : write_sessions[m].user = v /\ write_sessions[m].idx = j
  BY DEF HasSession, SlotsOf
<1>2. k \in Active /\ m # k
  BY <1>1 DEF SlotsOf
<1> DEFINE n == IF m < k THEN m ELSE m - 1
<1>3. n \in Active' /\ write_sessions'[n] = write_sessions[m]
  BY <1>1, <1>2, BoundsAssumption DEF CompactSessions, Active, SessionTypeOK
<1> QED
  BY <1>1, <1>3 DEF HasSession, SlotsOf

\* A step of thread t that leaves the locks and the other sessions alone.
LEMMA QuietLeakStep ==
    ASSUME LeakInv, ControlTypeOK', NEW t \in Threads, Undisturbed({"realloc"})' => Undisturbed({"realloc"}),
           UNCHANGED <<locked_by, lock_count>>,
           \A v \in Users \ {t} : pc'[v] = pc[v] /\ sent_idx'[v] = sent_idx[v],
           \A v \in Users, i \in Index :
              HasSession(v, i) => HasSession(v, i)' \/ (v = t /\ i = sent_idx'[t]),
           t \in Users =>
              /\ pc'[t] # "takelock"
              /\ pc'[t] \in BusyLabels => HasSession(t, sent_idx[t])'
              /\ pc'[t] \in {"idle", "restore"} =>
                   \/ pc[t] \in BusyLabels \cup {"idle", "restore"} /\ HasSession(t, sent_idx[t])'
                   \/ pc[t] \in {"idle", "restore"} /\ UNCHANGED sessions
                   \/ locked_by[sent_idx[t]] # t /\ UNCHANGED sessions
              /\ sent_idx'[t] = sent_idx[t] \/ pc[t] = "idle"
    PROVE  LeakInv'
<1>1. SessionsKept'
  <2>1. ASSUME NEW v \in Users \ {t}, pc'[v] \in BusyLabels PROVE HasSession(v, sent_idx[v])'
    <3>1. HasSession(v, sent_idx[v]) /\ sent_idx[v] \in Index
      BY <2>1 DEF LeakInv, SessionsKept, ControlTypeOK, ThreadTypeOK
    <3> QED
      BY <2>1, <3>1
  <2> QED
    BY <2>1 DEF SessionsKept
<1>2. LocksInTable'
  BY DEF LeakInv, LocksInTable
<1>3. ASSUME Undisturbed({"realloc"})' PROVE LocksAccounted'
  <2> USE <1>3 DEF LeakInv, ControlTypeOK, ThreadTypeOK
  <2>1. ASSUME NEW i \in Index, NEW v \in Users \ {t}, locked_by[i] = v
        PROVE  HasSession(v, i)' \/ (pc'[v] \notin {"idle", "restore"} /\ sent_idx'[v] = i)
    BY <2>1 DEF LocksAccounted
  <2>2. ASSUME NEW i \in Index, t \in Users, locked_by[i] = t
        PROVE  HasSession(t, i)' \/ (pc'[t] \notin {"idle", "restore"} /\ sent_idx'[t] = i)
    <3>0. HasSession(t, i) => HasSession(t, i)' \/ i = sent_idx'[t]
      BY <2>2
    <3>1. CASE HasSession(t, i) /\ pc'[t] \notin {"idle", "restore"}
      BY <3>0, <3>1
    <3>2. CASE HasSession(t, i) /\ pc'[t] \in {"idle", "restore"}
      <4>1. UNCHANGED sessions => HasSession(t, i)'
        BY <3>2 DEF HasSession, SlotsOf, Active, sessions
      <4> QED
        BY <2>2, <3>0, <3>2, <4>1
    <3>3. CASE ~HasSession(t, i)
      <4>1. pc[t] \notin {"idle", "restore"} /\ sent_idx[t] = i
        BY <2>2, <3>3 DEF LocksAccounted
      <4>2. sent_idx'[t] = i
        BY <2>2, <4>1
      <4> QED
        BY <2>2, <4>1, <4>2
    <3> QED
      BY <3>1, <3>2, <3>3
  <2> QED
    BY <2>1, <2>2 DEF LocksAccounted
<1> QED
  BY <1>1, <1>2, <1>3 DEF LeakInv

\* A user's thread that goes on with its request.
LEMMA GoesOn ==
    ASSUME LeakInv, ControlTypeOK', NEW u \in Users, races \subseteq races',
           UNCHANGED <<locked_by, lock_count, sent_idx>>,
           NEW l \in Labels \ {"takelock", "idle", "restore"}, Goto(u, l),
           \A v \in Users, i \in Index :
              HasSession(v, i) => HasSession(v, i)' \/ (v = u /\ i = sent_idx[u]),
           l \in BusyLabels => HasSession(u, sent_idx[u])'
    PROVE  LeakInv'
<1>1. u \in Threads /\ pc'[u] = l /\ \A v \in Users \ {u} : pc'[v] = pc[v]
  BY DEF LeakInv, ControlTypeOK, ThreadTypeOK, Goto, Threads
<1> QED
  BY <1>1, QuietLeakStep DEF Undisturbed

\* The steps of a user's thread.
LEMMA StepLeakInv ==
    ASSUME LeakInv, NEW u \in Users, Step(u), races \subseteq races'
    PROVE  LeakInv'
<1> DEFINE i == sent_idx[u]
<1>0. ControlTypeOK' /\ LockTypeOK'
  BY StepControlType DEF LeakInv, ControlTypeOK
<1>pc. /\ pc \in [Threads -> Labels \cup {"delete", "revert"}]
       /\ sent_idx \in [Users -> Index]
       /\ u \in Threads
       /\ i \in Index
       /\ SessionTypeOK /\ LockTypeOK
  BY DEF LeakInv, ControlTypeOK, ThreadTypeOK, Threads
<1>races. Undisturbed({"realloc"})' => Undisturbed({"realloc"})
  BY DEF Undisturbed
<1>same. UNCHANGED sessions => \A v \in Users, j \in Index : HasSession(v, j) => HasSession(v, j)'
  BY DEF HasSession, SlotsOf, Active, sessions
<1>less. ASSUME NEW k \in SlotsOf(u, i), CompactSessions(u, k)
         PROVE  \A v \in Users, j \in Index : HasSession(v, j) => HasSession(v, j)' \/ (v = u /\ j = i)
  BY <1>pc, <1>less, CompactKeeps
<1> USE <1>0, <1>pc, <1>races, <1>same DEF Goto, BusyLabels
<1>1. CASE GetLock(u)
  <2>1. UNCHANGED <<locked_by, sessions, sent_idx>> /\ lock_count' >= lock_count /\ lock_count' > i
    BY <1>1, BoundsAssumption DEF GetLock, InitFileLocks, locks, LockTypeOK, Index
  <2>2. SessionsKept'
    BY <1>1, <2>1 DEF GetLock, LeakInv, SessionsKept
  <2>3. LocksInTable'
    <3>1. \A j \in Index : j >= lock_count' => j >= lock_count
      BY <2>1, BoundsAssumption DEF LockTypeOK, Index
    <3>2. \A v \in Users : pc'[v] = "takelock" => sent_idx[v] < lock_count'
      <4>1. ASSUME NEW v \in Users, v # u, pc'[v] = "takelock" PROVE sent_idx[v] < lock_count'
        <5>1. sent_idx[v] < lock_count
          BY <1>1, <4>1 DEF GetLock, LeakInv, LocksInTable
        <5> QED
          BY <2>1, <5>1, BoundsAssumption DEF LockTypeOK, Index
      <4> QED
        BY <2>1, <4>1, BoundsAssumption DEF LockTypeOK, Index
    <3> QED
      BY <2>1, <3>1, <3>2 DEF LeakInv, LocksInTable
  <2>4. Undisturbed({"realloc"})' => LocksAccounted'
    BY <1>1, <2>1 DEF GetLock, LeakInv, LocksAccounted
  <2> QED
    BY <2>2, <2>3, <2>4 DEF LeakInv
<1>2. CASE TakeLock(u)
  <2>1. CASE MayLock(u, i)
    <3>1. /\ locked_by' = [locked_by EXCEPT ![i] = u]
          /\ pc' = [pc EXCEPT ![u] = "start"]
          /\ UNCHANGED <<sessions, sent_idx, lock_count>>
          /\ locked_by[i] \in {NoUser, u} /\ i < lock_count
      BY <1>2, <2>1 DEF TakeLock, MayLock, LeakInv, LocksInTable
    <3>2. SessionsKept'
      BY <3>1 DEF LeakInv, SessionsKept
    <3>3. LocksInTable'
      BY <3>1, BoundsAssumption DEF LeakInv, LocksInTable, LockTypeOK, Index
    <3>4. Undisturbed({"realloc"})' => LocksAccounted'
      BY <3>1 DEF LeakInv, LocksAccounted, LockTypeOK
    <3> QED
      BY <3>2, <3>3, <3>4 DEF LeakInv
  <2>2. CASE ~MayLock(u, i)
    <3>1. /\ locked_by[i] # u
          /\ UNCHANGED <<locked_by, lock_count, sessions, sent_idx>>
          /\ pc[u] = "takelock" /\ pc' = [pc EXCEPT ![u] = "idle"]
      BY <1>2, <2>2 DEF TakeLock, MayLock
    <3> QED
      BY <3>1, QuietLeakStep
  <2> QED
    BY <2>1, <2>2
<1>3. CASE TakeFreedLock(u)
  <2>1. /\ UNCHANGED <<locked_by, lock_count, sessions, sent_idx>>
        /\ ~Undisturbed({"realloc"})'
        /\ pc'[u] \in {"start", "idle"}
        /\ \A v \in Users \ {u} : pc'[v] = pc[v]
    BY <1>3 DEF TakeFreedLock, Note, Undisturbed
  <2>2. SessionsKept'
    BY <2>1 DEF LeakInv, SessionsKept
  <2>3. LocksInTable'
    BY <2>1 DEF LeakInv, LocksInTable
  <2> QED
    BY <2>1, <2>2, <2>3 DEF LeakInv
<1>4. CASE StartSession(u)
  <2>1. /\ UNCHANGED <<locked_by, lock_count, sent_idx>>
        /\ \A v \in Users \ {u} : pc'[v] = pc[v]
    BY <1>4 DEF StartSession, locks, Threads
  <2>2. CASE UNCHANGED sessions
    <3>1. (Goto(u, "copy") /\ HasSession(u, i)) \/ Goto(u, "unlock")
      BY <1>4, <2>2, BoundsAssumption DEF StartSession, sessions, SessionTypeOK
    <3>2. HasSession(u, i) => HasSession(u, sent_idx[u])'
      BY <2>1, <2>2
    <3> QED
      BY <2>1, <2>2, <3>1, <3>2, GoesOn DEF Labels
  <2>3. CASE /\ write_session_count < MaxSessions
             /\ write_session_count' = write_session_count + 1
             /\ write_sessions' = [write_sessions EXCEPT ![write_session_count + 1]
                                     = Reused(@, u, i)]
             /\ pc'[u] = "copy"
    <3> DEFINE n == write_session_count + 1
    <3>1. /\ Active' = Active \cup {n}
          /\ \A k \in Active : write_sessions'[k] = write_sessions[k]
          /\ write_sessions'[n].user = u
          /\ write_sessions'[n].idx = i
      BY <2>3, BoundsAssumption DEF SessionTypeOK, Reused, Active
    <3> HIDE DEF n
    <3>2. HasSession(u, i)' /\ \A v \in Users, j \in Index : HasSession(v, j) => HasSession(v, j)'
      BY <2>1, <3>1 DEF HasSession, SlotsOf
    <3> QED
      BY <2>1, <2>3, <3>2, QuietLeakStep
  <2> QED
    BY <1>4, <2>2, <2>3 DEF StartSession
<1>5. CASE CopyToTemp(u)
  <2>1. /\ Active' = Active
        /\ \A k \in Active : /\ write_sessions'[k].user = write_sessions[k].user
                             /\ write_sessions'[k].idx = write_sessions[k].idx
    BY <1>5 DEF CopyToTemp, Active, Stamped, LeakInv, ControlTypeOK, SessionTypeOK, ThreadTypeOK
  <2>2. \A v \in Users, j \in Index : HasSession(v, j) => HasSession(v, j)'
    BY <2>1 DEF HasSession, SlotsOf
  <2>3. HasSession(u, i)
    BY <1>5 DEF CopyToTemp, LeakInv, SessionsKept
  <2>4. HasSession(u, sent_idx[u])'
    BY <1>5, <2>2, <2>3 DEF CopyToTemp
  <2> QED
    BY <1>5, <2>2, <2>4, QuietLeakStep DEF CopyToTemp, locks
<1>6. CASE \E kind \in WriteKinds : WriteTemp(u, kind)
  <2>1. /\ UNCHANGED <<locked_by, lock_count, sessions, sent_idx>>
        /\ pc' = [pc EXCEPT ![u] = "idle"] /\ pc[u] = "write"
    BY <1>6 DEF WriteTemp, locks
  <2>2. HasSession(u, sent_idx[u])'
    BY <2>1 DEF LeakInv, SessionsKept
  <2> QED
    BY <2>1, <2>2, QuietLeakStep
<1>7. CASE Enqueue(u)
  <2>1. UNCHANGED <<locked_by, lock_count, sent_idx>> /\ pc[u] = "enqueue"
    BY <1>7 DEF Enqueue, locks
  <2>2. CASE Goto(u, "close") /\ UNCHANGED sessions
    <3>1. HasSession(u, sent_idx[u])'
      BY <2>1, <2>2 DEF LeakInv, SessionsKept
    <3> QED
      BY <2>1, <2>2, <3>1, QuietLeakStep
  <2>3. CASE Goto(u, "unlock") /\ \E k \in SlotsOf(u, i) : CompactSessions(u, k)
    BY <2>1, <2>3, <1>less, QuietLeakStep
  <2> QED
    BY <1>7, <2>2, <2>3 DEF Enqueue
<1>8. CASE CloseSession(u)
  BY <1>8, <1>less, QuietLeakStep DEF CloseSession, locks
<1>9. CASE AcquireQueue(u) \/ MergeHead(u) \/ Flush(u) \/ ReleaseQueue(u)
  <2>1. UNCHANGED <<locked_by, lock_count, sessions, sent_idx>>
    BY <1>9 DEF AcquireQueue, MergeHead, Flush, ReleaseQueue, locks
  <2>2. Goto(u, "process") \/ Goto(u, "truncate") \/ Goto(u, "unlock")
    BY <1>9 DEF AcquireQueue, MergeHead, Flush, ReleaseQueue
  <2> QED
    BY <2>1, <2>2, GoesOn DEF Labels
<1>10. CASE SkipCommit(u)
  BY <1>10, QuietLeakStep DEF SkipCommit, locks
<1>11. CASE Truncate(u)
  <2>1. UNCHANGED <<locked_by, lock_count, sessions, sent_idx>>
    BY <1>11 DEF Truncate, locks
  <2>2. Goto(u, "flush") \/ Goto(u, "unlock")
    BY <1>11 DEF Truncate
  <2> QED
    BY <2>1, <2>2, GoesOn DEF Labels
<1>12. CASE UnlockLookup(u)
  <2>1. /\ UNCHANGED <<locked_by, lock_count, sessions, sent_idx>>
        /\ pc[u] = "unlock"
        /\ pc' = [pc EXCEPT ![u] = IF i < lock_count THEN "release" ELSE "idle"]
    BY <1>12 DEF UnlockLookup, locks
  <2>2. CASE i < lock_count
    BY <2>1, <2>2, QuietLeakStep
  <2>3. CASE ~(i < lock_count)
    <3>1. i >= lock_count
      BY <2>3, BoundsAssumption DEF LockTypeOK, Index
    <3>2. locked_by[i] # u
      BY <3>1, NamesAssumption DEF LeakInv, LocksInTable
    <3> QED
      BY <2>1, <2>3, <3>2, QuietLeakStep
  <2> QED
    BY <2>2, <2>3
<1>13. CASE Release(u)
  <2>1. CASE u \in dangling \/ locked_by[i] # u
    <3>1. UNCHANGED <<locked_by, lock_count, sessions, sent_idx>>
      BY <1>13, <2>1 DEF Release, MayUnlock
    <3>2. pc[u] = "release" /\ pc' = [pc EXCEPT ![u] = "idle"]
      BY <1>13 DEF Release
    <3>3. SessionsKept'
      BY <3>1, <3>2 DEF LeakInv, SessionsKept
    <3>4. LocksInTable'
      BY <3>1, <3>2 DEF LeakInv, LocksInTable
    <3>5. CASE u \in dangling
      <4>1. ~Undisturbed({"realloc"})'
        BY <1>13, <3>5 DEF Release, Note, Undisturbed
      <4> QED
        BY <3>3, <3>4, <4>1 DEF LeakInv
    <3>6. CASE locked_by[i] # u
      BY <3>1, <3>2, <3>6, QuietLeakStep
    <3> QED
      BY <2>1, <3>5, <3>6
  <2>2. CASE u \notin dangling /\ locked_by[i] = u
    <3>1. /\ locked_by' = [locked_by EXCEPT ![i] = NoUser]
          /\ UNCHANGED <<lock_count, sessions, sent_idx>>
          /\ pc[u] = "release" /\ pc' = [pc EXCEPT ![u] = "idle"]
      BY <1>13, <2>2 DEF Release, MayUnlock
    <3>2. SessionsKept'
      BY <3>1 DEF LeakInv, SessionsKept
    <3>3. LocksInTable'
      BY <3>1 DEF LeakInv, LocksInTable, LockTypeOK
    <3>4. ASSUME Undisturbed({"realloc"})', NEW j \in Index, NEW v \in Users, locked_by'[j] = v
          PROVE  HasSession(v, j)' \/ (pc'[v] \notin {"idle", "restore"} /\ sent_idx'[v] = j)
      <4>1. locked_by[j] = v /\ j # i
        BY <3>1, <3>4, NamesAssumption DEF LockTypeOK
      <4>2. HasSession(v, j) \/ (pc[v] \notin {"idle", "restore"} /\ sent_idx[v] = j)
        BY <3>4, <4>1 DEF LeakInv, LocksAccounted
      <4> QED
        BY <3>1, <4>1, <4>2
    <3> QED
      BY <3>2, <3>3, <3>4 DEF LeakInv, LocksAccounted
  <2> QED
    BY <2>1, <2>2
<1>14. CASE RestoreFlush(u)
  BY <1>14, QuietLeakStep DEF RestoreFlush, locks
<1> QED
  BY <1>1, <1>2, <1>3, <1>4, <1>5, <1>6, <1>7, <1>8, <1>9, <1>10, <1>11, <1>12, <1>13, <1>14
     DEF Step

\* The arrival of a request.
LEMMA RequestLeakInv ==
    ASSUME LeakInv, NEW u \in Users, Request(u), races \subseteq races'
    PROVE  LeakInv'
<1>0. ControlTypeOK'
  BY RequestControlType DEF LeakInv
<1>pc. /\ pc \in [Threads -> Labels \cup {"delete", "revert"}]
       /\ sent_idx \in [Users -> Index]
       /\ u \in Threads
       /\ SessionTypeOK
  BY DEF LeakInv, ControlTypeOK, ThreadTypeOK, Threads
<1>races. Undisturbed({"realloc"})' => Undisturbed({"realloc"})
  BY DEF Undisturbed
<1>same. UNCHANGED sessions => \A v \in Users, j \in Index : HasSession(v, j) => HasSession(v, j)'
  BY DEF HasSession, SlotsOf, Active, sessions
<1>1. ASSUME NEW i \in Index, LockValidate(u, i) \/ WriteLookup(u, i) \/ CommitLookup(u, i)
      PROVE  LeakInv'
  <2>1. /\ UNCHANGED <<locked_by, lock_count, sessions>>
        /\ sent_idx' = [sent_idx EXCEPT ![u] = i]
        /\ pc[u] = "idle"
    BY <1>1 DEF LockValidate, WriteLookup, CommitLookup, locks
  <2>2. \/ Goto(u, "getlock") \/ Goto(u, "unlock")
        \/ (Goto(u, "write") \/ Goto(u, "enqueue")) /\ HasSession(u, i)
    BY <1>1 DEF LockValidate, WriteLookup, CommitLookup
  <2>3. HasSession(u, i) => HasSession(u, sent_idx[u])'
    BY <1>pc, <1>same, <2>1
  <2>4. \/ pc'[u] \in {"getlock", "unlock"}
        \/ pc'[u] \in {"write", "enqueue"} /\ HasSession(u, sent_idx[u])'
    BY <1>pc, <2>2, <2>3 DEF Goto
  <2>5. \A v \in Users \ {u} : pc'[v] = pc[v] /\ sent_idx'[v] = sent_idx[v]
    BY <1>pc, <2>1, <2>2 DEF Goto, Threads
  <2> QED
    BY <1>0, <1>pc, <1>races, <1>same, <2>1, <2>4, <2>5, QuietLeakStep DEF BusyLabels
<1>2. ASSUME NEW i \in Index, CancelWrite(u, i) PROVE LeakInv'
  <2>1. /\ UNCHANGED <<locked_by, lock_count>>
        /\ sent_idx' = [sent_idx EXCEPT ![u] = i]
        /\ pc[u] = "idle"
        /\ pc' = [pc EXCEPT ![u] = "unlock"]
    BY <1>2 DEF CancelWrite, Goto, locks
  <2>2. \A v \in Users, j \in Index : HasSession(v, j) => HasSession(v, j)' \/ (v = u /\ j = i)
    BY <1>pc, <1>same, <1>2, CompactKeeps DEF CancelWrite
  <2> QED
    BY <1>0, <1>pc, <1>races, <2>1, <2>2, QuietLeakStep DEF BusyLabels
<1>3. CASE Undo(u)
  BY <1>0, <1>pc, <1>races, <1>same, <1>3, QuietLeakStep DEF Undo, Goto, locks, BusyLabels
<1> QED
  BY <1>1, <1>2, <1>3 DEF Request

\* The name server's thread may lengthen the lock table.
LEMMA NMLeakInv ==
    ASSUME LeakInv, NMStep, races \subseteq races'
    PROVE  LeakInv'
<1>0. ControlTypeOK'
  BY NMControlType DEF LeakInv
<1>1. UNCHANGED <<locked_by, sessions, sent_idx>>
  BY DEF NMStep, CheckLocks, Delete, Create, Checkpoint, Revert, RevertFlush, InitFileLocks, locks
<1>2. UNCHANGED pc \/ \E l \in {"idle", "delete", "revert"} : Goto(NM, l)
  BY DEF NMStep, CheckLocks, Delete, Create, Checkpoint, Revert, RevertFlush
<1>3. \A v \in Users : pc'[v] = pc[v]
  BY <1>2, NamesAssumption DEF Goto, LeakInv, ControlTypeOK, ThreadTypeOK, Threads
<1>4. lock_count' >= lock_count
  <2>1. lock_count \in Nat
    BY BoundsAssumption DEF LeakInv, ControlTypeOK, LockTypeOK
  <2> QED
    BY <2>1 DEF NMStep, CheckLocks, Delete, Create, Checkpoint, Revert, RevertFlush, InitFileLocks,
       locks
<1>5. SessionsKept'
  BY <1>1, <1>3 DEF LeakInv, SessionsKept, HasSession, SlotsOf, Active, sessions
<1>6. LocksInTable'
  <2>1. /\ lock_count \in Nat /\ lock_count' \in Nat /\ Index \subseteq Nat
        /\ sent_idx \in [Users -> Index]
    BY <1>0, BoundsAssumption DEF LeakInv, ControlTypeOK, LockTypeOK, ThreadTypeOK, Index
  <2>2. \A i \in Index : i >= lock_count' => i >= lock_count
    BY <1>4, <2>1
  <2>3. ASSUME NEW u \in Users, pc[u] = "takelock" PROVE sent_idx[u] < lock_count'
    <3>1. sent_idx[u] < lock_count /\ sent_idx[u] \in Nat
      BY <2>1, <2>3 DEF LeakInv, LocksInTable
    <3> QED
      BY <1>4, <2>1, <3>1
  <2> QED
    BY <1>1, <1>3, <2>2, <2>3 DEF LeakInv, LocksInTable
<1>7. Undisturbed({"realloc"})' => LocksAccounted'
  BY <1>1, <1>3 DEF LeakInv, LocksAccounted, Undisturbed, HasSession, SlotsOf, Active, sessions
<1> QED
  BY <1>0, <1>5, <1>6, <1>7 DEF LeakInv

LEMMA NextLeakInv == LeakInv /\ [Next]_vars => LeakInv'
<1> SUFFICES ASSUME LeakInv, [Next]_vars PROVE LeakInv'
  OBVIOUS
<1>races. races \subseteq races'
  BY RacesGrow
<1>0. ControlTypeOK'
  BY NextControlType DEF LeakInv
<1>1. CASE Restart
  <2>1. /\ \A u \in Users : pc'[u] = "idle"
        /\ \A i \in Index : locked_by'[i] = NoUser
    BY <1>1 DEF Restart, AllIdle, Unlocked, Threads
  <2> QED
    BY <1>0, <2>1, NamesAssumption
       DEF LeakInv, SessionsKept, LocksInTable, LocksAccounted, BusyLabels
<1>2. CASE UNCHANGED vars
  BY <1>0, <1>2 DEF vars, locks, sessions, history, LeakInv, SessionsKept, LocksInTable,
     LocksAccounted, Undisturbed, HasSession, SlotsOf, Active
<1> QED
  BY <1>races, <1>1, <1>2, StepLeakInv, RequestLeakInv, NMLeakInv DEF Next

\* No path through LOCK, UNLOCK or CANCEL, whatever fails on it, leaves a lock with neither
\* a session nor a request of its holder behind it, as long as nobody has used a lock in a
\* freed table.
THEOREM NoLockLeaks == Spec => []NoLeakedLock
<1>1. LeakInv => NoLeakedLock
  BY DEF LeakInv, LocksAccounted, NoLeakedLock
<1> QED
  BY <1>1, InitLeakInv, NextLeakInv, PTL DEF Spec

-----------------------------------------------------------------------------
(* Parsing *)

\* Induction over the naturals, for a set.
LEMMA SetInduction ==
    ASSUME NEW T, 0 \in T, \A n \in Nat : n \in T => n + 1 \in T
    PROVE  Nat \subseteq T
<1> SUFFICES ASSUME Nat \ T # {} PROVE FALSE
  OBVIOUS
<1> DEFINE R == OpToRel(<, Nat)
<1>1. IsWellFoundedOn(R, Nat)
  BY Zenon, NatLessThanWellFounded
<1>2. \A y, x \in Nat : y < x => <<y, x>> \in R
  BY Zenon DEF OpToRel
<1> HIDE DEF R
<1>3. PICK x \in Nat \ T : \A y \in Nat \ T : ~(<<y, x>> \in R)
  BY <1>1, WFMin
<1>4. x - 1 \in Nat /\ x - 1 < x
  BY <1>3
<1>5. x - 1 \in T
  BY <1>2, <1>3, <1>4
<1>6. (x - 1) + 1 \in T
  BY <1>4, <1>5
<1> QED
  BY <1>3, <1>6

\* What parse_file has found in the first n pieces, for each n up to m.
ParsesTo(g, pieces, m) ==
    g = [n \in 0 .. m |-> IF n = 0 THEN <<>> ELSE ParsePiece(g[n - 1], pieces[n])]

LEMMA ParsesExist ==
    ASSUME NEW pieces
    PROVE  \A m \in Nat : \E g : ParsesTo(g, pieces, m)
<1> DEFINE T == {m \in Nat : \E g : ParsesTo(g, pieces, m)}
<1>1. 0 \in T
  <2>1. ParsesTo([n \in 0 .. 0 |-> <<>>], pieces, 0)
    BY DEF ParsesTo
  <2> QED
    BY <2>1
<1>2. ASSUME NEW m \in Nat, m \in T PROVE m + 1 \in T
  <2>1. PICK g : ParsesTo(g, pieces, m)
    BY <1>2
  <2> DEFINE h == [n \in 0 .. m + 1 |-> IF n <= m THEN g[n] ELSE ParsePiece(g[m], pieces[m + 1])]
  <2>2. ASSUME NEW n \in 0 .. m + 1
        PROVE  h[n] = IF n = 0 THEN <<>> ELSE ParsePiece(h[n - 1], pieces[n])
    <3>1. CASE n = 0
      BY <2>1, <3>1 DEF ParsesTo
    <3>2. CASE n \in 1 .. m
      <4>1. h[n] = g[n] /\ h[n - 1] = g[n - 1]
        BY <3>2
      <4>2. g[n] = ParsePiece(g[n - 1], pieces[n])
        BY <2>1, <3>2 DEF ParsesTo
      <4> QED
        BY <3>2, <4>1, <4>2
    <3>3. CASE n = m + 1
      BY <3>3
    <3> QED
      BY <3>1, <3>2, <3>3
  <2> HIDE DEF h
  <2>3. DOMAIN h = 0 .. m + 1 /\ h = [n \in 0 .. m + 1 |-> h[n]]
    BY DEF h
  <2>4. ParsesTo(h, pieces, m + 1)
    BY <2>2, <2>3 DEF ParsesTo
  <2> QED
    BY <2>4
<1> HIDE DEF T
<1>3. Nat \subseteq T
  BY <1>1, <1>2, SetInduction
<1> QED
  BY <1>3 DEF T

\* The recursion of ParseFile, unfolded.
LEMMA ParseFileUnfolds ==
    ASSUME NEW pieces, Len(pieces) \in Nat
    PROVE  \E g : ParsesTo(g, pieces, Len(pieces)) /\ ParseFile(pieces) = g[Len(pieces)]
<1> DEFINE F == CHOOSE g : ParsesTo(g, pieces, Len(pieces))
<1>1. ParsesTo(F, pieces, Len(pieces))
  BY ParsesExist
<1>2. ParseFile(pieces) = F[Len(pieces)]
  BY DEF ParseFile, ParsesTo
<1> QED
  BY <1>1, <1>2

\* One more piece keeps a text parsed, and adds that piece's words.
LEMMA PieceParsed ==
    ASSUME NEW text, IsParsed(text), NEW piece \in Sentence
    PROVE  /\ IsParsed(ParsePiece(text, piece))
           /\ Marks(ParsePiece(text, piece)) = Marks(text) \cup piece.by
           /\ ParsePiece(text, piece) # <<>>
<1> DEFINE n == Len(text)
           result == ParsePiece(text, piece)
<1>1. n \in Nat /\ text \in Seq(Sentence)
  BY DEF IsParsed
<1>2. CASE n > 0 /\ text[n].end # "delim"
  <2>1. text # <<>> /\ text[n] \in Sentence
    BY <1>1, <1>2
  <2>2. Fuse(text[n], piece) \in Sentence /\ Fuse(text[n], piece).by = text[n].by \cup piece.by
    BY <2>1 DEF Fuse, Sentence
  <2>3. result = [text EXCEPT ![n] = Fuse(text[n], piece)]
    BY <1>1, <1>2, <2>1 DEF ParsePiece
  <2>4. /\ result \in Seq(Sentence) /\ Len(result) = n
        /\ \A m \in 1 .. n - 1 : result[m] = text[m]
        /\ result[n] = Fuse(text[n], piece)
    BY <1>1, <1>2, <2>2, <2>3
  <2>5. IsParsed(result)
    BY <1>1, <2>4 DEF IsParsed
  <2>6. Marks(result) = Marks(text) \cup piece.by
    <3>1. DOMAIN result = 1 .. n /\ DOMAIN text = 1 .. n
      BY <1>1, <2>4
    <3>2. result[n].by = text[n].by \cup piece.by /\ \A m \in 1 .. n : m # n => result[m].by = text[m].by
      BY <1>1, <2>2, <2>4
    <3> HIDE DEF result, n
    <3> QED
      BY <1>1, <1>2, <3>1, <3>2 DEF Marks
  <2> QED
    BY <1>2, <2>4, <2>5, <2>6
<1>3. CASE ~(n > 0 /\ text[n].end # "delim")
  <2>1. result = Append(text, piece)
    BY <1>1, <1>3 DEF ParsePiece
  <2>2. /\ result \in Seq(Sentence) /\ Len(result) = n + 1
        /\ \A m \in 1 .. n : result[m] = text[m]
        /\ result[n + 1] = piece
    BY <1>1, <2>1
  <2>3. IsParsed(result)
    <3>1. \A m \in 1 .. n : text[m].end = "delim"
      BY <1>1, <1>3 DEF IsParsed
    <3> QED
      BY <1>1, <2>2, <3>1 DEF IsParsed
  <2>4. Marks(result) = Marks(text) \cup piece.by
    <3>1. DOMAIN result = 1 .. n + 1 /\ DOMAIN text = 1 .. n
      BY <1>1, <2>2
    <3> HIDE DEF result, n
    <3> QED
      BY <1>1, <2>2, <3>1 DEF Marks
  <2> QED
    BY <1>1, <2>2, <2>3, <2>4
<1> QED
  BY <1>2, <1>3

\* Whatever pieces a file is put together from, parse_file finds a parsed text in it, with
\* the words of the pieces and no others.
LEMMA ParsedFile ==
    ASSUME NEW pieces \in Seq(Sentence)
    PROVE  /\ IsParsed(ParseFile(pieces))
           /\ Marks(ParseFile(pieces)) = Marks(pieces)
           /\ pieces # <<>> => ParseFile(pieces) # <<>>
<1> DEFINE last == Len(pieces)
<1>0. last \in Nat /\ DOMAIN pieces = 1 .. last
  OBVIOUS
<1>1. PICK g : ParsesTo(g, pieces, last) /\ ParseFile(pieces) = g[last]
  BY ParseFileUnfolds
<1> DEFINE Found(n) == /\ IsParsed(g[n])
                       /\ Marks(g[n]) = UNION {pieces[m].by : m \in 1 .. n}
                       /\ n > 0 => g[n] # <<>>
           T == {n \in Nat : n <= last => Found(n)}
<1>2. 0 \in T
  <2>1. g[0] = <<>>
    BY <1>0, <1>1 DEF ParsesTo
  <2>2. IsParsed(<<>>)
    BY DEF IsParsed
  <2>3. Marks(<<>>) = {}
    BY DEF Marks
  <2> QED
    BY <2>1, <2>2, <2>3
<1>3. ASSUME NEW n \in Nat, n \in T PROVE n + 1 \in T
  <2> SUFFICES ASSUME n + 1 <= last PROVE Found(n + 1)
    OBVIOUS
  <2>1. Found(n)
    BY <1>0, <1>3
  <2>2. g[n + 1] = ParsePiece(g[n], pieces[n + 1]) /\ pieces[n + 1] \in Sentence
    BY <1>0, <1>1 DEF ParsesTo
  <2>3. /\ IsParsed(g[n + 1])
        /\ Marks(g[n + 1]) = Marks(g[n]) \cup pieces[n + 1].by
        /\ g[n + 1] # <<>>
    BY <2>1, <2>2, PieceParsed
  <2>4. UNION {pieces[m].by : m \in 1 .. n + 1}
          = (UNION {pieces[m].by : m \in 1 .. n}) \cup pieces[n + 1].by
    <3>1. 1 .. n + 1 = (1 .. n) \cup {n + 1}
      OBVIOUS
    <3> QED
      BY <3>1
  <2> QED
    BY <2>1, <2>3, <2>4
<1> HIDE DEF T
<1>4. Nat \subseteq T
  BY <1>2, <1>3, SetInduction
<1>5. last \in T
  BY <1>0, <1>4
<1>6. Found(last)
  <2> HIDE DEF Found, last
  <2> QED
    BY <1>5 DEF T
<1>7. pieces # <<>> => last > 0
  OBVIOUS
<1> HIDE DEF last
<1> QED
  BY <1>0, <1>1, <1>6, <1>7 DEF Marks

-----------------------------------------------------------------------------
(* Inserting and merging *)

\* The words of texts put one behind the other.
LEMMA MarksOfConcat ==
    ASSUME NEW s \in Seq(Sentence), NEW t \in Seq(Sentence)
    PROVE  s \o t \in Seq(Sentence) /\ Marks(s \o t) = Marks(s) \cup Marks(t)
<1>1. /\ s \o t \in Seq(Sentence) 
      /\ Len(s) \in Nat /\ Len(t) \in Nat
      /\ DOMAIN s = 1 .. Len(s) /\ DOMAIN t = 1 .. Len(t)
      /\ DOMAIN (s \o t) = 1 .. Len(s) + Len(t)
      /\ \A i \in 1 .. Len(s) + Len(t) :
            (s \o t)[i] = IF i <= Len(s) THEN s[i] ELSE t[i - Len(s)]
  BY ConcatProperties, LenProperties
<1>2. \A i \in DOMAIN s : i \in DOMAIN (s \o t) /\ (s \o t)[i] = s[i]
  BY <1>1
<1>3. \A i \in DOMAIN t : Len(s) + i \in DOMAIN (s \o t) /\ (s \o t)[Len(s) + i] = t[i]
  <2> SUFFICES ASSUME NEW i \in DOMAIN t
               PROVE  Len(s) + i \in DOMAIN (s \o t) /\ (s \o t)[Len(s) + i] = t[i]
    OBVIOUS
  <2>1. i \in 1 .. Len(t) /\ Len(s) + i \in 1 .. Len(s) + Len(t) /\ ~(Len(s) + i <= Len(s))
        /\ (Len(s) + i) - Len(s) = i
    BY <1>1
  <2> QED
    BY <1>1, <2>1
<1>4. \A i \in DOMAIN (s \o t) :
        \/ i \in DOMAIN s /\ (s \o t)[i] = s[i]
        \/ i - Len(s) \in DOMAIN t /\ (s \o t)[i] = t[i - Len(s)]
  BY <1>1
<1>5. ASSUME NEW w \in Marks(s) \cup Marks(t) PROVE w \in Marks(s \o t)
  <2>1. CASE w \in Marks(s)
    <3>1. PICK i \in DOMAIN s : w \in s[i].by
      BY <2>1 DEF Marks
    <3> QED
      BY <1>2, <3>1 DEF Marks
  <2>2. CASE w \in Marks(t)
    <3>1. PICK i \in DOMAIN t : w \in t[i].by
      BY <2>2 DEF Marks
    <3> QED
      BY <1>3, <3>1 DEF Marks
  <2> QED
    BY <1>5, <2>1, <2>2
<1>6. ASSUME NEW w \in Marks(s \o t) PROVE w \in Marks(s) \cup Marks(t)
  <2>1. PICK i \in DOMAIN (s \o t) : w \in (s \o t)[i].by
    BY <1>6 DEF Marks
  <2> QED
    BY <1>4, <2>1 DEF Marks
<1> QED
  BY <1>1, <1>5, <1>6

\* A text marks users only.
LEMMA MarksTyped == \A s : IsParsed(s) => Marks(s) \in SUBSET Users
<1> SUFFICES ASSUME NEW s, IsParsed(s) PROVE Marks(s) \subseteq Users
  OBVIOUS
<1>1. s \in Seq(Sentence)
  BY DEF IsParsed
<1>2. \A n \in DOMAIN s : s[n] \in Sentence
  BY <1>1
<1>3. \A n \in DOMAIN s : s[n].by \subseteq Users
  BY <1>2 DEF Sentence
<1> QED
  BY <1>3 DEF Marks

LEMMA MarksOfOne == \A s : Marks(<<s>>) = s.by
  BY DEF Marks

\* A stretch of a text.
LEMMA Stretch ==
    ASSUME NEW s \in Seq(Sentence), NEW m \in Nat \ {0}, NEW n \in Int, n <= Len(s)
    PROVE  /\ SubSeq(s, m, n) \in Seq(Sentence)
           /\ Marks(SubSeq(s, m, n)) = UNION {s[j].by : j \in m .. n}
<1>1. \A j \in m .. n : s[j] \in Sentence
  BY ElementOfSeq, LenProperties
<1>2. /\ SubSeq(s, m, n) \in Seq(Sentence)
      /\ Len(SubSeq(s, m, n)) = IF m <= n THEN n - m + 1 ELSE 0
      /\ \A i \in 1 .. n - m + 1 : SubSeq(s, m, n)[i] = s[m + i - 1]
  BY <1>1, SubSeqProperties
<1>3. DOMAIN SubSeq(s, m, n) = 1 .. n - m + 1
  BY <1>2, LenProperties
<1>4. ASSUME NEW j \in m .. n
      PROVE  j - m + 1 \in 1 .. n - m + 1 /\ SubSeq(s, m, n)[j - m + 1] = s[j]
  <2>1. j - m + 1 \in 1 .. n - m + 1 /\ m + (j - m + 1) - 1 = j
    OBVIOUS
  <2> QED
    BY <1>2, <2>1
<1>5. ASSUME NEW i \in 1 .. n - m + 1
      PROVE  m + i - 1 \in m .. n /\ SubSeq(s, m, n)[i] = s[m + i - 1]
  BY <1>2
<1>6. ASSUME NEW w \in Marks(SubSeq(s, m, n)) PROVE w \in UNION {s[j].by : j \in m .. n}
  <2>1. PICK i \in 1 .. n - m + 1 : w \in SubSeq(s, m, n)[i].by
    BY <1>3 DEF Marks
  <2> QED
    BY <1>5, <2>1
<1>7. ASSUME NEW w \in UNION {s[j].by : j \in m .. n} PROVE w \in Marks(SubSeq(s, m, n))
  <2>1. PICK j \in m .. n : w \in s[j].by
    OBVIOUS
  <2> QED
    BY <1>3, <1>4, <2>1 DEF Marks
<1> QED
  BY <1>2, <1>6, <1>7

\* The pieces a WRITE leaves in place of a sentence hold its words and the user's.
LEMMA PiecesTyped ==
    ASSUME NEW s \in Sentence, NEW u \in Users, NEW kind \in EditKinds
    PROVE  /\ PiecesOf(s, u, kind) \in Seq(Sentence)
           /\ PiecesOf(s, u, kind) # <<>>
           /\ Marks(PiecesOf(s, u, kind)) = s.by \cup {u}
<1>1. Mark(s, u) \in Sentence /\ Mark(s, u).by = s.by \cup {u}
  BY DEF Mark, Sentence
<1>2. \A e \in Ends : /\ [Mark(s, u) EXCEPT !.end = e] \in Sentence
                      /\ [Mark(s, u) EXCEPT !.end = e].by = s.by \cup {u}
                      /\ NewSentence(u, e) \in Sentence
                      /\ NewSentence(u, e).by = {u}
  BY <1>1 DEF Sentence, NewSentence
<1>3. /\ [Mark(s, u) EXCEPT !.src = {}, !.end = "delim"] \in Sentence
      /\ [Mark(s, u) EXCEPT !.src = {}, !.end = "delim"].by = s.by \cup {u}
  BY <1>1 DEF Sentence, Ends
<1>4. PICK t \in Sentence :
         \/ PiecesOf(s, u, kind) = <<t>> /\ t.by = s.by \cup {u}
         \/ PiecesOf(s, u, kind) = <<t, s>> /\ t.by = s.by \cup {u}
         \/ PiecesOf(s, u, kind) = <<s, t>> /\ t.by = {u}
  BY <1>1, <1>2, <1>3 DEF PiecesOf, EditKinds, Ends
<1>5. \A a, b \in Sentence : <<a, b>> \in Seq(Sentence) /\ <<a, b>> # <<>> /\ Marks(<<a, b>>) = a.by \cup b.by
  BY DEF Marks
<1>6. \A a \in Sentence : <<a>> \in Seq(Sentence) /\ <<a>> # <<>> /\ Marks(<<a>>) = a.by
  BY DEF Marks
<1> QED
  BY <1>4, <1>5, <1>6

LEMMA BlankTyped == Blank \in Sentence /\ Blank.by = {}
  BY DEF Blank, Sentence, Ends

\* A WRITE leaves a parsed text that holds the words it found, the user's if it puts any
\* in, and no others.
LEMMA InsertTyped ==
    ASSUME NEW text, IsParsed(text), NEW i \in Nat, NEW u \in Users, NEW kind \in EditKinds,
           i <= Len(text) \/ (text = <<>> /\ i = 1)
    PROVE  /\ IsParsed(InsertWord(text, i, u, kind))
           /\ Marks(text) \subseteq Marks(InsertWord(text, i, u, kind))
           /\ Marks(InsertWord(text, i, u, kind)) \subseteq Marks(text) \cup {u}
           /\ ~(text = <<>> /\ i = 1) => u \in Marks(InsertWord(text, i, u, kind))
<1>1. text \in Seq(Sentence) /\ Len(text) \in Nat
  BY DEF IsParsed
<1>2. CASE text = <<>> /\ i = 1
  <2>1. NewSentence(u, "delim") \in Sentence
    BY DEF NewSentence, Sentence, Ends
  <2>2. /\ IsParsed(<<NewSentence(u, "delim")>>)
        /\ Marks(<<NewSentence(u, "delim")>>) = {u}
        /\ IsParsed(<<>>) /\ Marks(<<>>) = {}
    BY <2>1 DEF IsParsed, Marks, NewSentence
  <2> QED
    BY <1>2, <2>2 DEF InsertWord
<1>3. CASE ~(text = <<>> /\ i = 1)
  <2> DEFINE base == IF i = Len(text) THEN Append(text, Blank) ELSE text
             pieces == PiecesOf(base[i + 1], u, kind)
             slot == IF /\ kind \in {"split", "end"}
                        /\ i + 1 = Len(base)
                        /\ pieces[Len(pieces)].end = "delim"
                     THEN <<Blank>> ELSE <<>>
             front == SubSeq(base, 1, i)
             rest == SubSeq(base, i + 2, Len(base))
  <2>1. InsertWord(text, i, u, kind) = ParseFile(front \o pieces \o slot \o rest)
    BY <1>3 DEF InsertWord
  <2>2. base \in Seq(Sentence) /\ Marks(base) = Marks(text) /\ i + 1 \in 1 .. Len(base)
    <3>1. CASE i = Len(text)
      <4>1. <<Blank>> \in Seq(Sentence) /\ Marks(<<Blank>>) = {}
        BY BlankTyped, MarksOfOne
      <4>2. text \o <<Blank>> \in Seq(Sentence) /\ Marks(text \o <<Blank>>) = Marks(text) \cup {}
        BY <1>1, <4>1, MarksOfConcat, ZenonT(30)
      <4>3. Len(base) = Len(text) + 1
        BY <1>1, <3>1, BlankTyped, AppendProperties
      <4>4. base = text \o <<Blank>>
        BY <1>1, <3>1, BlankTyped, AppendIsConcat
      <4> HIDE DEF base
      <4> QED
        BY <1>1, <3>1, <4>2, <4>3, <4>4
    <3>2. CASE i # Len(text)
      BY <1>1, <1>3, <3>2
    <3> QED
      BY <3>1, <3>2
  <2> HIDE DEF base
  <2>3. Len(base) \in Nat /\ base[i + 1] \in Sentence
    BY <2>2
  <2>4. pieces \in Seq(Sentence) /\ Marks(pieces) = base[i + 1].by \cup {u}
    BY <2>3, PiecesTyped
  <2> HIDE DEF pieces
  <2>5. slot \in Seq(Sentence) /\ Marks(slot) = {}
    <3>1. <<Blank>> \in Seq(Sentence) /\ Marks(<<Blank>>) = {} /\ <<>> \in Seq(Sentence) /\ Marks(<<>>) = {}
      BY BlankTyped DEF Marks
    <3> QED
      BY <3>1
  <2> HIDE DEF slot
  <2>6. front \in Seq(Sentence) /\ Marks(front) = UNION {base[j].by : j \in 1 .. i}
    BY <2>2, <2>3, Stretch
  <2>7. rest \in Seq(Sentence) /\ Marks(rest) = UNION {base[j].by : j \in i + 2 .. Len(base)}
    BY <2>2, <2>3, Stretch
  <2>8. Marks(base) = Marks(front) \cup base[i + 1].by \cup Marks(rest)
    <3>1. DOMAIN base = (1 .. i) \cup {i + 1} \cup (i + 2 .. Len(base))
      <4>1. DOMAIN base = 1 .. Len(base)
        BY <2>2, LenProperties
      <4>2. \A n \in Nat : i + 1 \in 1 .. n => 1 .. n = (1 .. i) \cup {i + 1} \cup (i + 2 .. n)
        OBVIOUS
      <4> QED
        BY <2>2, <2>3, <4>1, <4>2
    <3> HIDE DEF front, rest
    <3>2. Marks(base) = UNION {base[j].by : j \in (1 .. i) \cup {i + 1} \cup (i + 2 .. Len(base))}
      BY <3>1 DEF Marks
    <3> QED
      BY <2>6, <2>7, <3>2
  <2> HIDE DEF front, rest
  <2>9. /\ front \o pieces \o slot \o rest \in Seq(Sentence)
        /\ Marks(front \o pieces \o slot \o rest)
             = Marks(front) \cup base[i + 1].by \cup {u} \cup Marks(rest)
    <3>1. /\ front \o pieces \in Seq(Sentence)
          /\ Marks(front \o pieces) = Marks(front) \cup Marks(pieces)
      BY <2>4, <2>6, MarksOfConcat
    <3>2. /\ (front \o pieces) \o slot \in Seq(Sentence)
          /\ Marks((front \o pieces) \o slot) = (Marks(front) \cup Marks(pieces)) \cup {}
      BY <2>5, <3>1, MarksOfConcat
    <3>3. /\ ((front \o pieces) \o slot) \o rest \in Seq(Sentence)
          /\ Marks(((front \o pieces) \o slot) \o rest) = Marks(front) \cup Marks(pieces) \cup Marks(rest)
      <4>1. PICK q : q = (front \o pieces) \o slot
        OBVIOUS
      <4>2. q \in Seq(Sentence) /\ Marks(q) = Marks(front) \cup Marks(pieces)
        BY <3>2, <4>1
      <4>3. rest \in Seq(Sentence)
        BY <2>7
      <4>4. q \o rest \in Seq(Sentence) /\ Marks(q \o rest) = Marks(q) \cup Marks(rest)
        BY <4>2, <4>3, MarksOfConcat
      <4> QED
        BY <4>1, <4>2, <4>4
    <3> QED
      BY <2>4, <3>3
  <2>10. /\ IsParsed(InsertWord(text, i, u, kind))
         /\ Marks(InsertWord(text, i, u, kind))
              = Marks(front) \cup base[i + 1].by \cup {u} \cup Marks(rest)
    BY <2>1, <2>9, ParsedFile
  <2> QED
    BY <1>3, <2>2, <2>8, <2>10
<1> QED
  BY <1>2, <1>3

\* A merge leaves a parsed text, in which everything comes from the document or the session.
LEMMA MergeTyped ==
    ASSUME NEW current, IsParsed(current), NEW text, IsParsed(text),
           NEW original \in Nat, NEW i \in Nat, ~SkipsCommit(current, original, i)
    PROVE  /\ IsParsed(MergeCommit(current, text, original, i))
           /\ Marks(MergeCommit(current, text, original, i)) \subseteq Marks(current) \cup Marks(text)
<1> DEFINE adjusted == AdjustedIndex(current, original, i)
           modified == 1 + (Len(text) - original)
           last == IF i + modified < Len(text) THEN i + modified ELSE Len(text)
<1>1. /\ current \in Seq(Sentence) /\ Len(current) \in Nat
      /\ text \in Seq(Sentence) /\ Len(text) \in Nat
  BY DEF IsParsed
<1>2. CASE current = <<>>
  BY <1>2 DEF MergeCommit
<1>3. CASE current # <<>>
  <2>1. adjusted \in Nat /\ adjusted < Len(current)
    BY <1>1, <1>3 DEF SkipsCommit, AdjustedIndex
  <2>2. last \in Int /\ last <= Len(text)
    BY <1>1
  <2> DEFINE front == SubSeq(current, 1, adjusted)
             own == SubSeq(text, i + 1, last)
             rest == SubSeq(current, adjusted + 2, Len(current))
  <2>3. MergeCommit(current, text, original, i) = ParseFile(front \o own \o rest)
    BY <1>3 DEF MergeCommit
  <2> HIDE DEF adjusted, last
  <2>4. front \in Seq(Sentence) /\ Marks(front) \subseteq Marks(current)
    <3>1. 1 .. adjusted \subseteq DOMAIN current
      BY <1>1, <2>1
    <3>2. front \in Seq(Sentence) /\ Marks(front) = UNION {current[j].by : j \in 1 .. adjusted}
      <4>1. current \in Seq(Sentence) /\ 1 \in Nat \ {0} /\ adjusted \in Int /\ adjusted <= Len(current)
        BY <1>1, <2>1
      <4> QED
        BY <4>1, Stretch, Zenon
    <3> QED
      BY <3>1, <3>2, Zenon DEF Marks
  <2>5. own \in Seq(Sentence) /\ Marks(own) \subseteq Marks(text)
    <3>1. i + 1 .. last \subseteq DOMAIN text
      BY <1>1, <2>2
    <3>2. own \in Seq(Sentence) /\ Marks(own) = UNION {text[j].by : j \in i + 1 .. last}
      BY <1>1, <2>2, Stretch
    <3> QED
      BY <3>1, <3>2, Zenon DEF Marks
  <2>6. rest \in Seq(Sentence) /\ Marks(rest) \subseteq Marks(current)
    <3>1. adjusted + 2 .. Len(current) \subseteq DOMAIN current
      BY <1>1, <2>1
    <3>2. rest \in Seq(Sentence) /\ Marks(rest) = UNION {current[j].by : j \in adjusted + 2 .. Len(current)}
      <4>1. /\ current \in Seq(Sentence) /\ adjusted + 2 \in Nat \ {0}
            /\ Len(current) \in Int /\ Len(current) <= Len(current)
        BY <1>1, <2>1
      <4> QED
        BY <4>1, Stretch, Zenon
    <3> QED
      BY <3>1, <3>2, Zenon DEF Marks
  <2> HIDE DEF front, own, rest
  <2>7. front \o own \in Seq(Sentence) /\ Marks(front \o own) = Marks(front) \cup Marks(own)
    BY <2>4, <2>5, MarksOfConcat
  <2>8. /\ (front \o own) \o rest \in Seq(Sentence)
        /\ Marks((front \o own) \o rest) = Marks(front) \cup Marks(own) \cup Marks(rest)
    BY <2>6, <2>7, MarksOfConcat
  <2> QED
    BY <2>3, <2>4, <2>5, <2>6, <2>8, ParsedFile
<1> QED
  BY <1>2, <1>3

\* So does a writer that flushes over what another has flushed: its own words are all there.
LEMMA OverlayTyped ==
    ASSUME NEW old, IsParsed(old), NEW new, IsParsed(new)
    PROVE  /\ IsParsed(Overlay(old, new))
           /\ Marks(new) \subseteq Marks(Overlay(old, new))
<1>1. /\ old \in Seq(Sentence) /\ Len(old) \in Nat
      /\ new \in Seq(Sentence) /\ Len(new) \in Nat
  BY DEF IsParsed
<1>2. SubSeq(old, Len(new) + 1, Len(old)) \in Seq(Sentence)
  BY <1>1, Stretch
<1>3. PICK rest : rest = SubSeq(old, Len(new) + 1, Len(old))
  OBVIOUS
<1>4. new \o rest \in Seq(Sentence) /\ Marks(new) \subseteq Marks(new \o rest)
  BY <1>1, <1>2, <1>3, MarksOfConcat
<1>5. IsParsed(ParseFile(new \o rest)) /\ Marks(ParseFile(new \o rest)) = Marks(new \o rest)
  BY <1>4, ParsedFile
<1> QED
  BY <1>3, <1>4, <1>5 DEF Overlay

\* Over an empty file, its text is put there as it is.
LEMMA ParsedIsParsed ==
    ASSUME NEW text, IsParsed(text)
    PROVE  ParseFile(text) = text
<1>1. text \in Seq(Sentence) /\ Len(text) \in Nat
  BY DEF IsParsed
<1>2. PICK g : ParsesTo(g, text, Len(text)) /\ ParseFile(text) = g[Len(text)]
  BY <1>1, ParseFileUnfolds
<1> DEFINE T == {n \in Nat : n <= Len(text) => g[n] = SubSeq(text, 1, n)}
<1>3. 0 \in T
  BY <1>1, <1>2, SubSeqEmpty DEF ParsesTo
<1>4. ASSUME NEW n \in Nat, n \in T PROVE n + 1 \in T
  <2> SUFFICES ASSUME n + 1 <= Len(text) PROVE g[n + 1] = SubSeq(text, 1, n + 1)
    OBVIOUS
  <2>1. g[n] = SubSeq(text, 1, n)
    BY <1>1, <1>4
  <2>2. g[n + 1] = ParsePiece(g[n], text[n + 1])
    BY <1>1, <1>2 DEF ParsesTo
  <2>3. /\ SubSeq(text, 1, n) \in Seq(Sentence) /\ Len(SubSeq(text, 1, n)) = n
        /\ \A j \in 1 .. n : SubSeq(text, 1, n)[j] = text[j]
    BY <1>1
  <2>4. n > 0 => text[n].end = "delim"
    BY <1>1 DEF IsParsed
  <2>5. g[n + 1] = Append(SubSeq(text, 1, n), text[n + 1])
    BY <2>1, <2>2, <2>3, <2>4 DEF ParsePiece
  <2> QED
    BY <1>1, <2>3, <2>5
<1> HIDE DEF T
<1>5. Len(text) \in T
  BY <1>1, <1>3, <1>4, SetInduction
<1>6. SubSeq(text, 1, Len(text)) = text
  BY <1>1, SubSeqFull
<1> QED
  BY <1>1, <1>2, <1>5, <1>6 DEF T

-----------------------------------------------------------------------------
(* Types *)

\* The phases in which a thread uses the WriteSession* it has looked up.
PointerLabels == {"copy", "write", "enqueue"}

\* Wherever a slot that has moved has left a pointer, it leads to a slot that is or was in
\* use.
PointersTyped ==
    \A u \in Users : pc[u] \in PointerLabels => write_sessions[session[u]].user \in Users

TypeInv == TypeOK /\ PointersTyped /\ QueueOwnership

LEMMA EmptyParsed == IsParsed(<<>>)
  BY DEF IsParsed

LEMMA InitTypeInv == Init => TypeInv
<1> SUFFICES ASSUME Init PROVE TypeInv
  OBVIOUS
<1>1. ControlTypeOK
  BY InitControlType
<1>2. TextTypeOK
  BY EmptyParsed, FilesAssumption DEF Init, TextTypeOK, IsFile, NothingOpen
<1>3. CommitTypeOK
  BY BoundsAssumption DEF Init, CommitTypeOK, NoSessions, EmptySlot, Slot, Index
<1>4. HistoryTypeOK
  BY DEF Init, HistoryTypeOK
<1>5. PointersTyped
  BY DEF Init, PointersTyped, AllIdle, Threads, PointerLabels
<1> QED
  BY <1>1, <1>2, <1>3, <1>4, <1>5, InitQueueInv DEF TypeInv, TypeOK

\* A pointer leads to a temp file of some user.
LEMMA PathTyped ==
    ASSUME TypeInv, NEW u \in Users, pc[u] \in PointerLabels
    PROVE  TempPath(session[u]) \in Keys
  BY DEF TypeInv, TypeOK, ControlTypeOK, ThreadTypeOK, SessionTypeOK, PointersTyped, TempPath, Keys

\* A read yields parsed text.
LEMMA ContentTyped == \A f : IsFile(f) => IsParsed(ContentOf(f))
  BY EmptyParsed DEF IsFile, ContentOf

\* What a thread flushes is parsed, whatever is on disk by then.
LEMMA FlushTyped ==
    ASSUME TextTypeOK, NEW t \in Threads, FlushMerged(t)
    PROVE  /\ IsFile(file')
           /\ DOMAIN merged' = Threads /\ \A v \in Threads : IsParsed(merged'[v])
<1>1. IsFile(file')
  BY OverlayTyped DEF TextTypeOK, FlushMerged, IsFile
<1>2. DOMAIN merged' = Threads /\ \A v \in Threads : IsParsed(merged'[v])
  BY EmptyParsed DEF TextTypeOK, FlushMerged
<1> QED
  BY <1>1, <1>2

\* A temp file that is written or removed.
LEMMA TempTyped ==
    ASSUME TextTypeOK, NEW path, NEW text, IsFile(text), temp' = [temp EXCEPT ![path] = text]
    PROVE  DOMAIN temp' = Keys /\ \A key \in Keys : IsFile(temp'[key])
  BY DEF TextTypeOK

LEMMA GoneIsFile == IsFile(NoFile) /\ IsFile(<<>>)
  BY EmptyParsed DEF IsFile

\* Every step of a user's thread leaves parsed text.
LEMMA StepTextType ==
    ASSUME TypeInv, NEW u \in Users, Step(u)
    PROVE  TextTypeOK'
<1>0. TextTypeOK /\ u \in Threads
  BY DEF TypeInv, TypeOK, Threads
<1>files. IsFile(file) /\ IsFile(undo) /\ IsFile(checkpoint) /\ IsFile(previous)
  BY <1>0 DEF TextTypeOK
<1>1. CASE \/ GetLock(u) \/ TakeLock(u) \/ TakeFreedLock(u) \/ StartSession(u)
           \/ CloseSession(u) \/ UnlockLookup(u) \/ Release(u) \/ ReleaseQueue(u)
  <2>1. UNCHANGED <<disk, merged, previous>>
    BY <1>1 DEF GetLock, TakeLock, TakeFreedLock, StartSession, CloseSession, UnlockLookup, Release,
       ReleaseQueue, history
  <2> QED
    BY <1>0, <2>1 DEF TextTypeOK, disk
<1>2. CASE CopyToTemp(u)
  <2>1. IsFile(ContentOf(file))
    BY <1>files, ContentTyped DEF IsFile
  <2>2. UNCHANGED <<file, undo, checkpoint, previous, merged>>
    BY <1>2 DEF CopyToTemp
  <2>3. DOMAIN temp' = Keys /\ \A key \in Keys : IsFile(temp'[key])
    BY <1>0, <1>2, <2>1, TempTyped DEF CopyToTemp
  <2> QED
    BY <1>0, <2>2, <2>3 DEF TextTypeOK
<1>3. ASSUME NEW kind \in WriteKinds, WriteTemp(u, kind)
      PROVE  TextTypeOK'
  <2> DEFINE path == TempPath(session[u])
             text == ContentOf(temp[path])
             i == sent_idx[u]
  <2>1. path \in Keys /\ IsParsed(text)
    BY <1>0, <1>3, PathTyped, ContentTyped DEF WriteTemp, PointerLabels, TextTypeOK
  <2>2. i \in Nat /\ kind \in EditKinds
    BY BoundsAssumption DEF TypeInv, TypeOK, ControlTypeOK, ThreadTypeOK, Index
  <2>3. UNCHANGED <<file, undo, checkpoint, previous, merged>>
    BY <1>3 DEF WriteTemp
  <2>4. CASE i <= Len(text) \/ (text = <<>> /\ i = 1)
    <3>1. IsFile(InsertWord(text, i, u, kind))
      BY <2>1, <2>2, <2>4, InsertTyped DEF IsFile
    <3>2. temp' = [temp EXCEPT ![path] = InsertWord(text, i, u, kind)]
      BY <1>3, <2>4 DEF WriteTemp
    <3>3. DOMAIN temp' = Keys /\ \A key \in Keys : IsFile(temp'[key])
      BY <1>0, <3>1, <3>2, TempTyped
    <3> QED
      BY <1>0, <2>3, <3>3 DEF TextTypeOK
  <2>5. CASE ~(i <= Len(text) \/ (text = <<>> /\ i = 1))
    <3>1. UNCHANGED temp
      BY <1>3, <2>5 DEF WriteTemp
    <3> QED
      BY <1>0, <2>3, <3>1 DEF TextTypeOK
  <2> QED
    BY <2>4, <2>5
<1>4. CASE Enqueue(u)
  <2>1. UNCHANGED <<file, undo, checkpoint, previous, merged>>
    BY <1>4 DEF Enqueue
  <2>2. UNCHANGED temp \/ \E path : temp' = [temp EXCEPT ![path] = NoFile]
    BY <1>4 DEF Enqueue
  <2>3. DOMAIN temp' = Keys /\ \A key \in Keys : IsFile(temp'[key])
    BY <1>0, <2>2, TempTyped, GoneIsFile DEF TextTypeOK
  <2> QED
    BY <1>0, <2>1, <2>3 DEF TextTypeOK
<1>5. CASE AcquireQueue(u)
  BY <1>0, <1>5 DEF AcquireQueue, BackedUp, TextTypeOK
<1>6. CASE SkipCommit(u)
  <2>1. UNCHANGED <<file, undo, checkpoint, previous, merged>>
    BY <1>6 DEF SkipCommit
  <2>2. DOMAIN temp' = Keys /\ \A key \in Keys : IsFile(temp'[key])
    BY <1>0, <1>6, TempTyped, GoneIsFile DEF SkipCommit
  <2> QED
    BY <1>0, <2>1, <2>2 DEF TextTypeOK
<1>7. CASE MergeHead(u)
  <2> DEFINE e == Head(queue)
  <2>1. e \in CommitEntry /\ ~DropsCommit(e)
    BY <1>7 DEF MergeHead, TypeInv, TypeOK, CommitTypeOK
  <2>2. /\ e.temp \in Keys /\ e.count \in Nat /\ e.idx \in Nat
    BY <2>1, BoundsAssumption DEF CommitEntry, Index
  <2>3. temp[e.temp] # NoFile /\ ~SkipsCommit(ContentOf(file), e.count, e.idx)
    BY <2>1 DEF DropsCommit
  <2>4. IsParsed(temp[e.temp]) /\ IsParsed(ContentOf(file))
    BY <1>0, <1>files, <2>2, <2>3, ContentTyped DEF TextTypeOK, IsFile
  <2>5. IsParsed(MergeCommit(ContentOf(file), temp[e.temp], e.count, e.idx))
    BY <2>2, <2>3, <2>4, MergeTyped
  <2>6. /\ merged' = [merged EXCEPT ![u] = MergeCommit(ContentOf(file), temp[e.temp], e.count, e.idx)]
        /\ previous' = file
        /\ UNCHANGED disk
    BY <1>7 DEF MergeHead
  <2> QED
    BY <1>0, <2>5, <2>6 DEF TextTypeOK, disk
<1>8. CASE Truncate(u)
  <2>1. file' = <<>> \/ UNCHANGED file
    BY <1>8 DEF Truncate
  <2>2. UNCHANGED <<undo, checkpoint, temp, merged, previous>>
    BY <1>8 DEF Truncate
  <2> QED
    BY <1>0, <2>1, <2>2, GoneIsFile DEF TextTypeOK
<1>9. CASE Flush(u)
  <2>1. FlushMerged(u) /\ UNCHANGED <<undo, checkpoint, previous>>
    BY <1>9 DEF Flush, history
  <2>2. DOMAIN temp' = Keys /\ \A key \in Keys : IsFile(temp'[key])
    BY <1>0, <1>9, TempTyped, GoneIsFile DEF Flush
  <2> QED
    BY <1>0, <2>1, <2>2, FlushTyped DEF TextTypeOK
<1>10. CASE RestoreFlush(u)
  <2>1. FlushMerged(u) /\ undo' = NoFile /\ UNCHANGED <<checkpoint, temp, previous>>
    BY <1>10 DEF RestoreFlush
  <2> QED
    BY <1>0, <2>1, FlushTyped, GoneIsFile DEF TextTypeOK
<1> QED
  BY <1>1, <1>2, <1>3, <1>4, <1>5, <1>6, <1>7, <1>8, <1>9, <1>10 DEF Step

\* So does every other step.
LEMMA NextTextType == TypeInv /\ [Next]_vars => TextTypeOK'
<1> SUFFICES ASSUME TypeInv, [Next]_vars PROVE TextTypeOK'
  OBVIOUS
<1>0. TextTypeOK
  BY DEF TypeInv, TypeOK
<1>files. IsFile(file) /\ IsFile(undo) /\ IsFile(checkpoint) /\ IsFile(previous)
  BY <1>0 DEF TextTypeOK
<1>1. ASSUME NEW u \in Users, NEW i \in Index, LockValidate(u, i) \/ WriteLookup(u, i) \/ CommitLookup(u, i)
      PROVE  TextTypeOK'
  <2>1. UNCHANGED <<disk, merged, previous>>
    BY <1>1 DEF LockValidate, WriteLookup, CommitLookup, history
  <2> QED
    BY <1>0, <2>1 DEF TextTypeOK, disk
<1>2. ASSUME NEW u \in Users, NEW i \in Index, CancelWrite(u, i)
      PROVE  TextTypeOK'
  <2>1. UNCHANGED <<file, undo, checkpoint, previous, merged>>
    BY <1>2 DEF CancelWrite
  <2>2. UNCHANGED temp \/ \E path : temp' = [temp EXCEPT ![path] = NoFile]
    BY <1>2 DEF CancelWrite
  <2>3. DOMAIN temp' = Keys /\ \A key \in Keys : IsFile(temp'[key])
    BY <1>0, <2>2, TempTyped, GoneIsFile DEF TextTypeOK
  <2> QED
    BY <1>0, <2>1, <2>3 DEF TextTypeOK
<1>3. ASSUME NEW u \in Users, Undo(u)
      PROVE  TextTypeOK'
  <2>1. IsParsed(undo)
    BY <1>files, <1>3 DEF Undo, IsFile
  <2>2. merged' = [merged EXCEPT ![u] = undo] /\ file' = <<>> /\ UNCHANGED <<undo, checkpoint, temp, previous>>
    BY <1>3 DEF Undo
  <2> QED
    BY <1>0, <2>1, <2>2, GoneIsFile DEF TextTypeOK
<1>4. CASE CheckLocks
  BY <1>0, <1>4 DEF CheckLocks, TextTypeOK, disk, history
<1>5. CASE Delete
  BY <1>0, <1>5, GoneIsFile DEF Delete, TextTypeOK
<1>6. CASE Create
  BY <1>0, <1>6, GoneIsFile DEF Create, TextTypeOK
<1>7. CASE Checkpoint
  BY <1>0, <1>7 DEF Checkpoint, TextTypeOK, history
<1>8. CASE Revert
  <2>1. IsParsed(checkpoint)
    BY <1>files, <1>8 DEF Revert, IsFile
  <2>2. /\ merged' = [merged EXCEPT ![NM] = checkpoint] /\ file' = <<>> /\ undo' = BackedUp
        /\ previous' = file /\ UNCHANGED <<checkpoint, temp>>
    BY <1>8 DEF Revert
  <2> QED
    BY <1>0, <2>1, <2>2, GoneIsFile DEF TextTypeOK, BackedUp
<1>9. CASE RevertFlush
  <2>1. FlushMerged(NM) /\ UNCHANGED <<undo, checkpoint, temp, previous>> /\ NM \in Threads
    BY <1>9 DEF RevertFlush, Threads
  <2> QED
    BY <1>0, <2>1, FlushTyped DEF TextTypeOK
<1>10. CASE Restart
  <2>1. UNCHANGED <<disk, previous>> /\ merged' = NothingOpen
    BY <1>10 DEF Restart
  <2> QED
    BY <1>0, <2>1, EmptyParsed DEF TextTypeOK, NothingOpen, disk
<1>11. CASE UNCHANGED vars
  BY <1>0, <1>11 DEF TextTypeOK, vars, disk, history
<1> QED
  BY <1>1, <1>2, <1>3, <1>4, <1>5, <1>6, <1>7, <1>8, <1>9, <1>10, <1>11, StepTextType
     DEF Next, Request, NMStep

\* Removing a slot keeps the slots' types, and a slot that was in use is one still.
LEMMA CompactCommitType ==
    ASSUME TypeInv, NEW u \in Users, NEW k \in Active, CompactSessions(u, k)
    PROVE  /\ write_sessions' \in [1 .. MaxSessions -> Slot]
           /\ \A j \in 1 .. MaxSessions :
                 write_sessions[j].user \in Users => write_sessions'[j].user \in Users
<1>1. write_sessions \in [1 .. MaxSessions -> Slot] /\ SessionTypeOK
  BY DEF TypeInv, TypeOK, CommitTypeOK, ControlTypeOK
<1>2. ASSUME NEW j \in 1 .. MaxSessions
      PROVE  /\ write_sessions'[j] \in Slot
             /\ write_sessions[j].user \in Users => write_sessions'[j].user \in Users
  <2>1. CASE j \in k .. write_session_count - 1
    <3>1. write_sessions'[j] = write_sessions[j + 1] /\ j + 1 \in Active /\ j + 1 \in 1 .. MaxSessions
      BY <1>1, <2>1, BoundsAssumption DEF CompactSessions, Active, SessionTypeOK
    <3> QED
      BY <1>1, <3>1 DEF SessionTypeOK
  <2>2. CASE j \notin k .. write_session_count - 1
    BY <1>1, <2>2 DEF CompactSessions
  <2> QED
    BY <2>1, <2>2
<1>3. write_sessions' = [j \in 1 .. MaxSessions |-> write_sessions'[j]]
  BY DEF CompactSessions
<1> QED
  BY <1>2, <1>3

\* A step of a thread t that uses no pointer it has not just set to a slot in use.
LEMMA PointersStay ==
    ASSUME TypeInv, NEW t \in Threads,
           \A v \in Users \ {t} : pc'[v] = pc[v] /\ session'[v] = session[v],
           \A j \in 1 .. MaxSessions :
              write_sessions[j].user \in Users => write_sessions'[j].user \in Users,
           t \in Users /\ pc'[t] \in PointerLabels => write_sessions'[session'[t]].user \in Users
    PROVE  PointersTyped'
  BY DEF PointersTyped, TypeInv, TypeOK, ControlTypeOK, ThreadTypeOK

\* Every step of a user's thread keeps the types of sessions and commits.
LEMMA StepCommitType ==
    ASSUME TypeInv, NEW u \in Users, Step(u)
    PROVE  CommitTypeOK' /\ PointersTyped'
<1> DEFINE i == sent_idx[u]
<1>0. /\ CommitTypeOK /\ TextTypeOK /\ SessionTypeOK
      /\ pc \in [Threads -> Labels \cup {"delete", "revert"}]
      /\ session \in [Users -> 1 .. MaxSessions]
      /\ i \in Index
      /\ u \in Threads
  BY DEF TypeInv, TypeOK, ControlTypeOK, ThreadTypeOK, Threads
<1>ptr. pc[u] \in PointerLabels => write_sessions[session[u]].user \in Users
  BY DEF TypeInv, PointersTyped
<1>1. CASE \/ GetLock(u) \/ TakeLock(u) \/ TakeFreedLock(u) \/ AcquireQueue(u) \/ MergeHead(u)
           \/ Truncate(u) \/ ReleaseQueue(u) \/ UnlockLookup(u) \/ Release(u) \/ RestoreFlush(u)
           \/ \E kind \in WriteKinds : WriteTemp(u, kind)
  <2>1. UNCHANGED <<write_sessions, parsed, queue, session>>
    BY <1>1 DEF GetLock, TakeLock, TakeFreedLock, AcquireQueue, MergeHead, Truncate, ReleaseQueue,
       UnlockLookup, Release, RestoreFlush, WriteTemp, sessions, commits
  <2>2. \E l \in Labels \ PointerLabels : Goto(u, l)
    BY <1>1 DEF GetLock, TakeLock, TakeFreedLock, AcquireQueue, MergeHead, Truncate, ReleaseQueue,
       UnlockLookup, Release, RestoreFlush, WriteTemp, Labels, PointerLabels
  <2>3. pc'[u] \notin PointerLabels /\ \A v \in Users \ {u} : pc'[v] = pc[v]
    BY <1>0, <2>2 DEF Goto, Threads
  <2>4. CommitTypeOK'
    BY <1>0, <2>1 DEF CommitTypeOK
  <2> QED
    BY <1>0, <2>1, <2>3, <2>4, PointersStay
<1>2. CASE StartSession(u)
  <2>1. parsed' \in [Users -> Nat]
    <3>1. IsParsed(ContentOf(file))
      BY <1>0, ContentTyped DEF TextTypeOK
    <3> QED
      BY <1>0, <1>2, <3>1 DEF StartSession, CommitTypeOK, IsParsed
  <2>2. UNCHANGED queue /\ \A v \in Users \ {u} : pc'[v] = pc[v] /\ session'[v] = session[v]
    BY <1>0, <1>2 DEF StartSession, Goto, commits, Threads
  <2>3. CASE HasSession(u, i) /\ UNCHANGED sessions
    <3>1. session'[u] \in SlotsOf(u, i)
      BY <1>0, <1>2, <2>3 DEF StartSession, HasSession
    <3>2. write_sessions'[session'[u]].user \in Users /\ UNCHANGED write_sessions
      BY <2>3, <3>1 DEF SlotsOf, sessions
    <3> QED
      BY <1>0, <2>1, <2>2, <3>2, PointersStay DEF CommitTypeOK
  <2>4. CASE /\ write_session_count < MaxSessions
             /\ write_sessions' = [write_sessions EXCEPT ![write_session_count + 1] = Reused(@, u, i)]
             /\ session' = [session EXCEPT ![u] = write_session_count + 1]
    <3> DEFINE n == write_session_count + 1
    <3>1. n \in 1 .. MaxSessions
      BY <1>0, <2>4, BoundsAssumption DEF SessionTypeOK
    <3> HIDE DEF n
    <3>2. Reused(write_sessions[n], u, i) \in Slot /\ Reused(write_sessions[n], u, i).user = u
      BY <1>0, <3>1 DEF CommitTypeOK, Slot, Reused
    <3>3. write_sessions' \in [1 .. MaxSessions -> Slot] /\ write_sessions'[n].user = u
      BY <1>0, <2>4, <3>1, <3>2 DEF CommitTypeOK, n
    <3>4. \A j \in 1 .. MaxSessions : j # n => write_sessions'[j] = write_sessions[j]
      BY <1>0, <2>4 DEF CommitTypeOK, n
    <3>5. session'[u] = n
      BY <1>0, <2>4 DEF n
    <3> QED
      BY <1>0, <2>1, <2>2, <3>3, <3>4, <3>5, PointersStay DEF CommitTypeOK
  <2>5. CASE UNCHANGED sessions /\ Goto(u, "unlock")
    <3>1. pc'[u] = "unlock" /\ UNCHANGED write_sessions
      BY <1>0, <2>5 DEF Goto, sessions
    <3> QED
      BY <1>0, <2>1, <2>2, <3>1, PointersStay DEF CommitTypeOK, PointerLabels
  <2> QED
    BY <1>2, <2>3, <2>4, <2>5 DEF StartSession
<1>3. CASE CopyToTemp(u)
  <2> DEFINE k == session[u]
  <2>1. k \in 1 .. MaxSessions /\ Stamped(write_sessions[k], parsed[u]) \in Slot
        /\ Stamped(write_sessions[k], parsed[u]).user = write_sessions[k].user
    BY <1>0 DEF CommitTypeOK, Slot, Stamped
  <2>2. /\ write_sessions' = [write_sessions EXCEPT ![k] = Stamped(write_sessions[k], parsed[u])]
        /\ UNCHANGED <<queue, parsed, session>>
        /\ pc' = [pc EXCEPT ![u] = "idle"]
    BY <1>3 DEF CopyToTemp, commits, Goto
  <2>3. CommitTypeOK'
    BY <1>0, <2>1, <2>2 DEF CommitTypeOK
  <2>4. \A j \in 1 .. MaxSessions : write_sessions'[j].user = write_sessions[j].user
    BY <1>0, <2>1, <2>2 DEF CommitTypeOK
  <2> QED
    BY <1>0, <2>2, <2>3, <2>4, PointersStay DEF PointerLabels
<1>4. CASE Enqueue(u)
  <2>1. /\ UNCHANGED <<parsed, session>>
        /\ pc'[u] \notin PointerLabels
        /\ \A v \in Users \ {u} : pc'[v] = pc[v]
    BY <1>0, <1>4 DEF Enqueue, Goto, PointerLabels, Threads
  <2>2. CASE /\ queue' = Append(queue, [user |-> u, idx |-> i,
                                        count |-> write_sessions[session[u]].count,
                                        temp |-> TempPath(session[u])])
             /\ UNCHANGED sessions
    <3>1. TempPath(session[u]) \in Keys
      BY <1>4, PathTyped DEF Enqueue, PointerLabels
    <3>2. write_sessions[session[u]].count \in Nat
      BY <1>0 DEF CommitTypeOK, Slot
    <3>3. [user |-> u, idx |-> i, count |-> write_sessions[session[u]].count,
           temp |-> TempPath(session[u])] \in CommitEntry
      BY <1>0, <3>1, <3>2 DEF CommitEntry
    <3>4. queue' \in Seq(CommitEntry) /\ UNCHANGED write_sessions
      BY <1>0, <2>2, <3>3 DEF CommitTypeOK, sessions
    <3> QED
      BY <1>0, <2>1, <3>4, PointersStay DEF CommitTypeOK
  <2>3. CASE (\E k \in SlotsOf(u, i) : CompactSessions(u, k)) /\ UNCHANGED queue
    BY <1>0, <2>1, <2>3, CompactCommitType, PointersStay DEF CommitTypeOK, SlotsOf
  <2> QED
    BY <1>4, <2>2, <2>3 DEF Enqueue
<1>5. CASE CloseSession(u)
  <2>1. /\ UNCHANGED <<parsed, session, queue>>
        /\ pc'[u] \notin PointerLabels
        /\ \A v \in Users \ {u} : pc'[v] = pc[v]
        /\ \E k \in SlotsOf(u, i) : CompactSessions(u, k)
    BY <1>0, <1>5 DEF CloseSession, Goto, PointerLabels, Threads, commits
  <2> QED
    BY <1>0, <2>1, CompactCommitType, PointersStay DEF CommitTypeOK, SlotsOf
<1>6. CASE SkipCommit(u) \/ Flush(u)
  <2>1. /\ UNCHANGED <<write_sessions, parsed, session>>
        /\ queue' = Tail(queue)
        /\ UNCHANGED pc \/ Goto(u, "process")
        /\ pc[u] \in {"process", "flush"}
    BY <1>6 DEF SkipCommit, Flush, sessions
  <2>2. queue # <<>>
    BY <1>6 DEF SkipCommit, Flush, TypeInv, QueueOwnership
  <2>3. queue' \in Seq(CommitEntry)
    BY <1>0, <2>1, <2>2 DEF CommitTypeOK
  <2>4. pc'[u] \notin PointerLabels /\ \A v \in Users \ {u} : pc'[v] = pc[v]
    BY <1>0, <1>6, <2>1 DEF Goto, PointerLabels, Threads, SkipCommit, Flush
  <2> QED
    BY <1>0, <2>1, <2>3, <2>4, PointersStay DEF CommitTypeOK
<1> QED
  BY <1>1, <1>2, <1>3, <1>4, <1>5, <1>6 DEF Step

\* So does every other step.
LEMMA NextCommitType == TypeInv /\ [Next]_vars => CommitTypeOK' /\ PointersTyped'
<1> SUFFICES ASSUME TypeInv, [Next]_vars PROVE CommitTypeOK' /\ PointersTyped'
  OBVIOUS
<1>0. /\ CommitTypeOK /\ PointersTyped
      /\ pc \in [Threads -> Labels \cup {"delete", "revert"}]
      /\ session \in [Users -> 1 .. MaxSessions]
  BY DEF TypeInv, TypeOK, ControlTypeOK, ThreadTypeOK
<1>1. ASSUME NEW u \in Users, NEW i \in Index, LockValidate(u, i) \/ WriteLookup(u, i) \/ CommitLookup(u, i)
      PROVE  CommitTypeOK' /\ PointersTyped'
  <2>1. UNCHANGED <<write_sessions, parsed, queue>> /\ u \in Threads
    BY <1>1 DEF LockValidate, WriteLookup, CommitLookup, sessions, commits, Threads
  <2>2. \A v \in Users \ {u} : pc'[v] = pc[v] /\ session'[v] = session[v]
    BY <1>0, <1>1 DEF LockValidate, WriteLookup, CommitLookup, Goto, Threads
  <2>3. pc'[u] \in PointerLabels => session'[u] \in SlotsOf(u, i)
    BY <1>0, <1>1, <2>1 DEF LockValidate, WriteLookup, CommitLookup, Goto, PointerLabels, HasSession
  <2>4. pc'[u] \in PointerLabels => write_sessions'[session'[u]].user \in Users
    BY <2>1, <2>3 DEF SlotsOf
  <2> QED
    BY <1>0, <2>1, <2>2, <2>4, PointersStay DEF CommitTypeOK
<1>2. ASSUME NEW u \in Users, NEW i \in Index, CancelWrite(u, i)
      PROVE  CommitTypeOK' /\ PointersTyped'
  <2>1. UNCHANGED <<parsed, queue, session>> /\ u \in Threads
    BY <1>2 DEF CancelWrite, commits, Threads
  <2>2. pc'[u] \notin PointerLabels /\ \A v \in Users \ {u} : pc'[v] = pc[v]
    BY <1>0, <1>2, <2>1 DEF CancelWrite, Goto, PointerLabels, Threads
  <2>3. UNCHANGED write_sessions \/ \E k \in Active : CompactSessions(u, k)
    BY <1>2 DEF CancelWrite, sessions, SlotsOf
  <2> QED
    BY <1>0, <2>1, <2>2, <2>3, CompactCommitType, PointersStay DEF CommitTypeOK
<1>3. ASSUME NEW u \in Users, Undo(u)
      PROVE  CommitTypeOK' /\ PointersTyped'
  <2>1. UNCHANGED <<write_sessions, parsed, queue, session>> /\ pc' = [pc EXCEPT ![u] = "restore"]
    BY <1>3 DEF Undo, sessions, commits, Goto
  <2> QED
    BY <1>0, <2>1 DEF CommitTypeOK, PointersTyped, PointerLabels, Threads
<1>4. CASE NMStep
  <2>1. UNCHANGED <<write_sessions, parsed, queue, session>>
    BY <1>4 DEF NMStep, CheckLocks, Delete, Create, Checkpoint, Revert, RevertFlush, sessions, commits
  <2>2. UNCHANGED pc \/ \E l \in {"idle", "delete", "revert"} : Goto(NM, l)
    BY <1>4 DEF NMStep, CheckLocks, Delete, Create, Checkpoint, Revert, RevertFlush
  <2>3. \A v \in Users : pc'[v] = pc[v]
    BY <1>0, <2>2, NamesAssumption DEF Goto, Threads
  <2> QED
    BY <1>0, <2>1, <2>3 DEF CommitTypeOK, PointersTyped
<1>5. CASE Restart
  <2>1. /\ write_sessions' = NoSessions /\ queue' = <<>> /\ pc' = AllIdle
        /\ UNCHANGED parsed
    BY <1>5 DEF Restart
  <2>2. write_sessions' \in [1 .. MaxSessions -> Slot]
    BY <2>1, BoundsAssumption DEF NoSessions, EmptySlot, Slot, Index
  <2> QED
    BY <1>0, <2>1, <2>2 DEF CommitTypeOK, PointersTyped, AllIdle, PointerLabels, Threads
<1>6. CASE UNCHANGED vars
  BY <1>0, <1>6 DEF vars, sessions, commits, CommitTypeOK, PointersTyped
<1> QED
  BY <1>1, <1>2, <1>3, <1>4, <1>5, <1>6, StepCommitType DEF Next, Request

\* The history variables keep their types.
LEMMA NextHistoryType == TypeInv /\ [Next]_vars => HistoryTypeOK'
<1> SUFFICES ASSUME TypeInv, [Next]_vars PROVE HistoryTypeOK'
  OBVIOUS
<1>0. HistoryTypeOK /\ TextTypeOK
  BY DEF TypeInv, TypeOK
<1> USE DEF Note, history
<1>1. ASSUME NEW u \in Users, Step(u)
      PROVE  HistoryTypeOK'
  <2>1. CASE \/ GetLock(u) \/ TakeLock(u) \/ TakeFreedLock(u) \/ StartSession(u) \/ CloseSession(u)
             \/ Enqueue(u) \/ AcquireQueue(u) \/ UnlockLookup(u) \/ Release(u)
             \/ \E kind \in WriteKinds : WriteTemp(u, kind)
    <3>1. UNCHANGED <<unlinked, target, carried, acked>>
      BY <2>1 DEF GetLock, TakeLock, TakeFreedLock, StartSession, CloseSession, Enqueue, AcquireQueue,
         UnlockLookup, Release, WriteTemp
    <3>2. UNCHANGED races \/ \E kinds \in SUBSET RaceKinds : races' = races \cup kinds
      BY <2>1 DEF GetLock, TakeLock, TakeFreedLock, StartSession, CloseSession, Enqueue, AcquireQueue,
         UnlockLookup, Release, WriteTemp, CompactSessions, RaceKinds
    <3> QED
      BY <1>0, <3>1, <3>2 DEF HistoryTypeOK
  <2>2. CASE CopyToTemp(u)
    <3> DEFINE content == ContentOf(file)
               i == sent_idx[u]
               own == IF i < Len(content) THEN content[i + 1].src ELSE {}
    <3>1. IsParsed(content) /\ i \in Nat
      BY <1>0, ContentTyped, BoundsAssumption
         DEF TextTypeOK, TypeInv, TypeOK, ControlTypeOK, ThreadTypeOK, Index
    <3>2. own \in SUBSET SourceIds
      <4>1. i < Len(content) => content[i + 1] \in Sentence
        BY <3>1 DEF IsParsed
      <4> QED
        BY <4>1 DEF Sentence
    <3>5. Marks(content) \in SUBSET Users
      BY <3>1, MarksTyped
    <3>3. /\ target' = [target EXCEPT ![<<u, i>>] = own]
          /\ carried' = [carried EXCEPT ![<<u, i>>] = Marks(content)]
          /\ UNCHANGED <<unlinked, acked>>
      BY <2>2 DEF CopyToTemp
    <3>4. races' \subseteq races \cup RaceKinds
      BY <2>2 DEF CopyToTemp, RaceKinds
    <3> HIDE DEF own, content
    <3> QED
      BY <1>0, <3>2, <3>3, <3>4, <3>5 DEF HistoryTypeOK
  <2>3. CASE SkipCommit(u) \/ MergeHead(u) \/ Truncate(u)
    <3>1. UNCHANGED <<unlinked, target, carried, acked>>
      BY <2>3 DEF SkipCommit, MergeHead, Truncate
    <3>2. races' \subseteq races \cup RaceKinds
      BY <2>3 DEF SkipCommit, MergeHead, Truncate, RaceKinds
    <3> QED
      BY <1>0, <3>1, <3>2 DEF HistoryTypeOK
  <2>4. CASE Flush(u) \/ ReleaseQueue(u) \/ RestoreFlush(u)
    <3>1. unlinked' \subseteq unlinked /\ acked' \subseteq acked \cup {u} /\ UNCHANGED <<target, carried>>
      BY <2>4 DEF Flush, ReleaseQueue, RestoreFlush, FlushMerged
    <3>2. races' \subseteq races \cup RaceKinds
      BY <2>4 DEF Flush, ReleaseQueue, RestoreFlush, RaceKinds
    <3> QED
      BY <1>0, <3>1, <3>2 DEF HistoryTypeOK
  <2> QED
    BY <1>1, <2>1, <2>2, <2>3, <2>4 DEF Step
<1>2. ASSUME NEW u \in Users, Request(u)
      PROVE  HistoryTypeOK'
  <2>1. UNCHANGED <<unlinked, target, carried>> /\ acked' \subseteq acked
    BY <1>2 DEF Request, LockValidate, WriteLookup, CommitLookup, CancelWrite, Undo
  <2>2. races' \subseteq races \cup RaceKinds
    BY <1>2 DEF Request, LockValidate, WriteLookup, CommitLookup, CancelWrite, CompactSessions, Undo,
       RaceKinds
  <2> QED
    BY <1>0, <2>1, <2>2 DEF HistoryTypeOK
<1>3. CASE NMStep
  <2>1. unlinked' \subseteq Threads /\ acked' \subseteq acked /\ UNCHANGED <<target, carried>>
    BY <1>0, <1>3 DEF NMStep, CheckLocks, Delete, Create, Checkpoint, Revert, RevertFlush, FlushMerged,
       HistoryTypeOK
  <2>2. races' \subseteq races \cup RaceKinds
    BY <1>3 DEF NMStep, CheckLocks, Delete, Create, Checkpoint, Revert, RevertFlush, RaceKinds
  <2> QED
    BY <1>0, <2>1, <2>2 DEF HistoryTypeOK
<1>4. CASE Restart
  BY <1>0, <1>4 DEF Restart, HistoryTypeOK, RaceKinds
<1>5. CASE UNCHANGED vars
  BY <1>0, <1>5 DEF vars, HistoryTypeOK
<1> QED
  BY <1>1, <1>2, <1>3, <1>4, <1>5 DEF Next

LEMMA NextTypeInv == TypeInv /\ [Next]_vars => TypeInv'
  BY NextControlType, NextTextType, NextCommitType, NextHistoryType, NextQueueInv DEF TypeInv, TypeOK

\* Every variable keeps its type whatever happens, with the pointers into moved slots, the
\* merges at indices computed from stale counts and the flushes of several writers over each
\* other: in particular, every document and every temp file is text in which
\* only the last sentence may lack a delimiter, and every merge is inside its bounds.
THEOREM Types == Spec => []TypeOK
<1>1. TypeInv => TypeOK
  BY DEF TypeInv
<1> QED
  BY <1>1, InitTypeInv, NextTypeInv, PTL DEF Spec

-----------------------------------------------------------------------------
(* Temp files *)

\* The session a thread has looked up is where its pointer leads.
PointersLead ==
    \A u \in Users : pc[u] \in PointerLabels => session[u] \in SlotsOf(u, sent_idx[u])

PointerInv == TypeInv /\ (Undisturbed({"pointer"}) => PointersLead)

LEMMA InitPointerInv == Init => PointerInv
<1> SUFFICES ASSUME Init PROVE PointerInv
  OBVIOUS
<1>1. TypeInv
  BY InitTypeInv
<1>2. PointersLead
  BY DEF Init, PointersLead, AllIdle, Threads, PointerLabels
<1> QED
  BY <1>1, <1>2 DEF PointerInv

\* Removing a slot leaves the other users' pointers right, or notes that it does not.
LEMMA CompactLeads ==
    ASSUME SessionTypeOK, NEW u \in Users, NEW k \in Active, CompactSessions(u, k),
           Undisturbed({"pointer"})', NEW v \in Users \ {u}, pc[v] \in PointerLabels,
           NEW i, session[v] \in SlotsOf(v, i)
    PROVE  /\ session[v] \in Active'
           /\ write_sessions'[session[v]] = write_sessions[session[v]]
<1>1. session[v] < k
  <2>1. ~(session[v] >= k)
    BY DEF CompactSessions, Note, Undisturbed, PointerLabels
  <2>2. session[v] \in Int /\ k \in Int
    BY BoundsAssumption DEF SlotsOf, Active, SessionTypeOK
  <2> QED
    BY <2>1, <2>2
<1> QED
  BY <1>1, BoundsAssumption DEF CompactSessions, SlotsOf, Active, SessionTypeOK

\* A step of thread t that leaves the slots others use in place.
LEMMA LeadStep ==
    ASSUME ControlTypeOK, PointersLead, NEW t \in Threads,
           \A v \in Users \ {t} : /\ pc'[v] = pc[v] /\ session'[v] = session[v]
                                  /\ sent_idx'[v] = sent_idx[v],
           \A v \in Users \ {t} : pc[v] \in PointerLabels =>
              /\ session[v] \in Active'
              /\ write_sessions'[session[v]].user = write_sessions[session[v]].user
              /\ write_sessions'[session[v]].idx = write_sessions[session[v]].idx,
           t \in Users /\ pc'[t] \in PointerLabels =>
              /\ session'[t] \in Active'
              /\ write_sessions'[session'[t]].user = t
              /\ write_sessions'[session'[t]].idx = sent_idx'[t]
    PROVE  PointersLead'
  BY DEF PointersLead, SlotsOf

LEMMA NextPointerInv == PointerInv /\ [Next]_vars => PointerInv'
<1> SUFFICES ASSUME PointerInv, [Next]_vars, Undisturbed({"pointer"})' PROVE PointersLead'
  BY NextTypeInv DEF PointerInv
<1>0. Undisturbed({"pointer"})
  BY RacesGrow DEF Undisturbed
<1>lead. PointersLead
  BY <1>0 DEF PointerInv
<1>type. /\ ControlTypeOK /\ SessionTypeOK
         /\ pc \in [Threads -> Labels \cup {"delete", "revert"}]
         /\ session \in [Users -> 1 .. MaxSessions]
         /\ sent_idx \in [Users -> Index]
  BY DEF PointerInv, TypeInv, TypeOK, ControlTypeOK, ThreadTypeOK
<1>active. \A v \in Users : pc[v] \in PointerLabels => session[v] \in Active
  BY <1>lead DEF PointersLead, SlotsOf
<1> USE <1>lead, <1>type
<1>same. ASSUME NEW u \in Users, UNCHANGED <<sessions, session>>,
                \A v \in Users \ {u} : pc'[v] = pc[v] /\ sent_idx'[v] = sent_idx[v],
                pc'[u] \notin PointerLabels
         PROVE  PointersLead'
  BY <1>same DEF PointersLead, SlotsOf, Active, sessions
<1>compact. ASSUME NEW u \in Users, NEW k \in Active, CompactSessions(u, k),
                   UNCHANGED session, u \in Threads,
                   \A v \in Users \ {u} : pc'[v] = pc[v] /\ sent_idx'[v] = sent_idx[v],
                   pc'[u] \notin PointerLabels
            PROVE  PointersLead'
  <2>1. \A v \in Users \ {u} : pc[v] \in PointerLabels =>
           /\ session[v] \in Active'
           /\ write_sessions'[session[v]] = write_sessions[session[v]]
    BY <1>compact, CompactLeads DEF PointersLead
  <2> QED
    BY <1>compact, <2>1, LeadStep
<1>1. ASSUME NEW u \in Users, Step(u)
      PROVE  PointersLead'
  <2> DEFINE i == sent_idx[u]
  <2>u. u \in Threads
    BY DEF Threads
  <2>1. CASE \/ GetLock(u) \/ TakeLock(u) \/ TakeFreedLock(u) \/ AcquireQueue(u) \/ MergeHead(u)
             \/ Truncate(u) \/ ReleaseQueue(u) \/ UnlockLookup(u) \/ Release(u) \/ RestoreFlush(u)
             \/ Flush(u) \/ \E kind \in WriteKinds : WriteTemp(u, kind)
    <3>1. UNCHANGED <<sessions, session, sent_idx>>
      BY <2>1 DEF GetLock, TakeLock, TakeFreedLock, AcquireQueue, MergeHead, Truncate, ReleaseQueue,
         UnlockLookup, Release, RestoreFlush, Flush, WriteTemp
    <3>2. \E l \in Labels \ PointerLabels : Goto(u, l)
      BY <2>1 DEF GetLock, TakeLock, TakeFreedLock, AcquireQueue, MergeHead, Truncate, ReleaseQueue,
         UnlockLookup, Release, RestoreFlush, Flush, WriteTemp, Labels, PointerLabels
    <3>3. pc'[u] \notin PointerLabels /\ \A v \in Users \ {u} : pc'[v] = pc[v]
      BY <2>u, <3>2 DEF Goto, Threads
    <3> QED
      BY <1>same, <3>1, <3>3
  <2>2. CASE SkipCommit(u)
    BY <1>same, <2>2 DEF SkipCommit, PointerLabels
  <2>3. CASE StartSession(u)
    <3>1. UNCHANGED sent_idx /\ \A v \in Users \ {u} : pc'[v] = pc[v] /\ session'[v] = session[v]
      BY <2>3 DEF StartSession, Goto, Threads
    <3>2. CASE HasSession(u, i) /\ UNCHANGED sessions
      <4>1. session'[u] \in SlotsOf(u, i)
        BY <2>3, <3>2 DEF StartSession, HasSession
      <4>2. UNCHANGED write_sessions /\ Active' = Active
        BY <3>2 DEF sessions, Active
      <4> QED
        BY <1>active, <2>u, <3>1, <4>1, <4>2, LeadStep DEF SlotsOf
    <3>3. CASE /\ write_session_count < MaxSessions
               /\ write_session_count' = write_session_count + 1
               /\ write_sessions' = [write_sessions EXCEPT ![write_session_count + 1] = Reused(@, u, i)]
               /\ session' = [session EXCEPT ![u] = write_session_count + 1]
      <4> DEFINE n == write_session_count + 1
      <4>1. /\ Active' = Active \cup {n} /\ n \notin Active
            /\ \A k \in Active : write_sessions'[k] = write_sessions[k]
            /\ write_sessions'[n].user = u
            /\ write_sessions'[n].idx = i
            /\ session'[u] = n
        BY <3>3, BoundsAssumption DEF SessionTypeOK, Reused, Active
      <4> HIDE DEF n
      <4> QED
        BY <1>active, <2>u, <3>1, <4>1, LeadStep
    <3>4. CASE UNCHANGED <<sessions, session>> /\ Goto(u, "unlock")
      BY <1>same, <2>u, <3>1, <3>4 DEF Goto, PointerLabels
    <3> QED
      BY <2>3, <3>2, <3>3, <3>4 DEF StartSession
  <2>4. CASE CopyToTemp(u)
    <3>1. /\ Active' = Active
          /\ \A k \in Active : /\ write_sessions'[k].user = write_sessions[k].user
                               /\ write_sessions'[k].idx = write_sessions[k].idx
      BY <2>4 DEF CopyToTemp, Active, Stamped, SessionTypeOK
    <3>2. /\ UNCHANGED <<session, sent_idx>>
          /\ pc' = [pc EXCEPT ![u] = "idle"]
      BY <2>4 DEF CopyToTemp, Goto
    <3> QED
      BY <1>active, <2>u, <3>1, <3>2, LeadStep DEF PointerLabels
  <2>5. CASE Enqueue(u)
    <3>1. /\ UNCHANGED <<session, sent_idx>>
          /\ pc'[u] \notin PointerLabels
          /\ \A v \in Users \ {u} : pc'[v] = pc[v]
      BY <2>u, <2>5 DEF Enqueue, Goto, PointerLabels, Threads
    <3>2. UNCHANGED sessions \/ \E k \in Active : CompactSessions(u, k)
      BY <2>5 DEF Enqueue, SlotsOf
    <3> QED
      BY <1>same, <1>compact, <2>u, <3>1, <3>2
  <2>6. CASE CloseSession(u)
    <3>1. /\ UNCHANGED <<session, sent_idx>>
          /\ pc'[u] \notin PointerLabels
          /\ \A v \in Users \ {u} : pc'[v] = pc[v]
          /\ \E k \in Active : CompactSessions(u, k)
      BY <2>u, <2>6 DEF CloseSession, Goto, PointerLabels, Threads, SlotsOf
    <3> QED
      BY <1>compact, <2>u, <3>1
  <2> QED
    BY <1>1, <2>1, <2>2, <2>3, <2>4, <2>5, <2>6 DEF Step
<1>2. ASSUME NEW u \in Users, NEW i \in Index, LockValidate(u, i) \/ WriteLookup(u, i) \/ CommitLookup(u, i)
      PROVE  PointersLead'
  <2>1. UNCHANGED sessions /\ sent_idx' = [sent_idx EXCEPT ![u] = i] /\ u \in Threads
    BY <1>2 DEF LockValidate, WriteLookup, CommitLookup, Threads
  <2>2. \A v \in Users \ {u} : pc'[v] = pc[v] /\ session'[v] = session[v]
    BY <1>2 DEF LockValidate, WriteLookup, CommitLookup, Goto, Threads
  <2>3. pc'[u] \in PointerLabels => session'[u] \in SlotsOf(u, i)
    BY <1>2, <2>1 DEF LockValidate, WriteLookup, CommitLookup, Goto, PointerLabels, HasSession
  <2>4. UNCHANGED write_sessions /\ Active' = Active
    BY <2>1 DEF sessions, Active
  <2> QED
    BY <1>active, <2>1, <2>2, <2>3, <2>4, LeadStep DEF SlotsOf
<1>3. ASSUME NEW u \in Users, NEW i \in Index, CancelWrite(u, i)
      PROVE  PointersLead'
  <2>1. UNCHANGED session /\ sent_idx' = [sent_idx EXCEPT ![u] = i] /\ u \in Threads
    BY <1>3 DEF CancelWrite, Threads
  <2>2. pc'[u] \notin PointerLabels /\ \A v \in Users \ {u} : pc'[v] = pc[v]
    BY <1>3, <2>1 DEF CancelWrite, Goto, PointerLabels, Threads
  <2>3. UNCHANGED sessions \/ \E k \in Active : CompactSessions(u, k)
    BY <1>3 DEF CancelWrite, SlotsOf
  <2> QED
    BY <1>same, <1>compact, <2>1, <2>2, <2>3
<1>4. ASSUME NEW u \in Users, Undo(u)
      PROVE  PointersLead'
  <2>1. UNCHANGED <<sessions, session, sent_idx>> /\ pc' = [pc EXCEPT ![u] = "restore"]
    BY <1>4 DEF Undo, Goto
  <2> QED
    BY <1>same, <2>1 DEF PointerLabels, Threads
<1>5. CASE NMStep \/ UNCHANGED vars
  <2>1. UNCHANGED <<sessions, session, sent_idx>>
    BY <1>5 DEF NMStep, CheckLocks, Delete, Create, Checkpoint, Revert, RevertFlush, vars
  <2>2. UNCHANGED pc \/ \E l \in {"idle", "delete", "revert"} : Goto(NM, l)
    BY <1>5 DEF NMStep, CheckLocks, Delete, Create, Checkpoint, Revert, RevertFlush, vars
  <2>3. \A v \in Users : pc'[v] = pc[v]
    BY <2>2, NamesAssumption DEF Goto, Threads
  <2> QED
    BY <2>1, <2>3 DEF PointersLead, SlotsOf, Active, sessions
<1>6. CASE Restart
  BY <1>6 DEF Restart, AllIdle, Threads, PointersLead, PointerLabels
<1> QED
  BY <1>1, <1>2, <1>3, <1>4, <1>5, <1>6 DEF Next, Request

\* A step of a user's thread writes to the temp file of its own session, or to none.
LEMMA StepIsolated ==
    ASSUME PointerInv, NEW u \in Users, Step(u), Undisturbed({"pointer"}),
           NEW v \in Users, NEW i \in Index, temp'[<<v, i>>] \notin {temp[<<v, i>>], NoFile}
    PROVE  pc[v] \in {"copy", "write"} /\ sent_idx[v] = i
<1> DEFINE key == <<v, i>>
<1>0. key \in Keys /\ DOMAIN temp = Keys
  BY DEF PointerInv, TypeInv, TypeOK, TextTypeOK, Keys
<1>lead. pc[u] \in PointerLabels => TempPath(session[u]) = <<u, sent_idx[u]>>
  BY DEF PointerInv, PointersLead, SlotsOf, TempPath
<1>gone. ~(\E path : temp' = [temp EXCEPT ![path] = NoFile])
  BY <1>0
<1>1. CASE \/ GetLock(u) \/ TakeLock(u) \/ TakeFreedLock(u) \/ StartSession(u) \/ CloseSession(u)
           \/ AcquireQueue(u) \/ MergeHead(u) \/ Truncate(u) \/ ReleaseQueue(u) \/ UnlockLookup(u)
           \/ Release(u) \/ RestoreFlush(u)
  BY <1>1 DEF GetLock, TakeLock, TakeFreedLock, StartSession, CloseSession, AcquireQueue, MergeHead,
     Truncate, ReleaseQueue, UnlockLookup, Release, RestoreFlush, disk
<1>2. CASE Enqueue(u) \/ SkipCommit(u) \/ Flush(u)
  BY <1>gone, <1>2 DEF Enqueue, SkipCommit, Flush
<1>3. CASE CopyToTemp(u) \/ \E kind \in WriteKinds : WriteTemp(u, kind)
  <2>1. pc[u] \in {"copy", "write"}
    BY <1>3 DEF CopyToTemp, WriteTemp
  <2>2. UNCHANGED temp \/ \E text : temp' = [temp EXCEPT ![TempPath(session[u])] = text]
    BY <1>3 DEF CopyToTemp, WriteTemp
  <2>3. key = <<u, sent_idx[u]>>
    BY <1>0, <1>lead, <2>1, <2>2 DEF PointerLabels
  <2> QED
    BY <2>1, <2>3
<1> QED
  BY <1>1, <1>2, <1>3 DEF Step

\* No user's thread writes to another session's temp file, whatever it knows of that session,
\* as long as no session slot has moved under a thread's pointer.
THEOREM TempsAreIsolated == Spec => UndisturbedTempIsolation
<1>1. ASSUME PointerInv, [Next]_vars
      PROVE  [\A u \in Users, i \in Index :
                 temp'[<<u, i>>] \notin {temp[<<u, i>>], NoFile} /\ Undisturbed({"pointer"})' =>
                     pc[u] \in {"copy", "write"} /\ sent_idx[u] = i]_vars
  <2> SUFFICES ASSUME NEW v \in Users, NEW i \in Index,
                      temp'[<<v, i>>] \notin {temp[<<v, i>>], NoFile}, Undisturbed({"pointer"})'
               PROVE  pc[v] \in {"copy", "write"} /\ sent_idx[v] = i
    OBVIOUS
  <2>0. Undisturbed({"pointer"})
    BY <1>1, RacesGrow DEF Undisturbed
  <2>1. ASSUME NEW u \in Users, Step(u)
        PROVE  pc[v] \in {"copy", "write"} /\ sent_idx[v] = i
    BY <1>1, <2>0, <2>1, StepIsolated
  <2>2. ASSUME UNCHANGED temp PROVE FALSE
    BY <2>2
  <2>3. ASSUME NEW path, temp' = [temp EXCEPT ![path] = NoFile] PROVE FALSE
    <3>1. <<v, i>> \in DOMAIN temp
      BY <1>1 DEF PointerInv, TypeInv, TypeOK, TextTypeOK, Keys
    <3> QED
      BY <2>3, <3>1
  <2>4. ASSUME NEW u \in Users, Request(u)
        PROVE  UNCHANGED temp \/ \E path : temp' = [temp EXCEPT ![path] = NoFile]
    BY <2>4 DEF Request, LockValidate, WriteLookup, CommitLookup, CancelWrite, Undo, disk
  <2>5. NMStep \/ Restart \/ UNCHANGED vars => UNCHANGED temp
    BY DEF NMStep, CheckLocks, Delete, Create, Checkpoint, Revert, RevertFlush, Restart, vars, disk
  <2> QED
    BY <1>1, <2>1, <2>2, <2>3, <2>4, <2>5 DEF Next
<1> QED
  BY <1>1, InitPointerInv, NextPointerInv, PTL DEF Spec, UndisturbedTempIsolation
=============================================================================
