------------------------- MODULE WriteClient_proofs -------------------------
(***************************************************************************)
(* Proofs about the client's WRITE command, for any users, numbers of       *)
(* edits, lines, retries and faults.                                        *)
(*                                                                          *)
(* A client waits for the answer to one request before it sends the next,   *)
(* so little can be under way on a connection; and a connection whose LOCK  *)
(* was handled has overtaken all older ones. The invariants say which of a  *)
(* client's requests are under way on which of its connections, and what    *)
(* the server's lock and temp file then hold.                               *)
(***************************************************************************)
EXTENDS WriteClient, SequenceTheorems, TLAPS

-----------------------------------------------------------------------------
(* The connections of a client, cs *)

On(cs)   == cs # <<>> /\ cs[Len(cs)].link # "closed"
Up(cs)   == cs # <<>> /\ cs[Len(cs)].link = "up"
Newest(cs) == cs[Len(cs)]

\* What may be under way on a connection of client c.
Only(conn, type) == Len(conn.requests) = 1 /\ conn.requests[1].type = type
TheWord(conn)    == conn.requests[1].word
LockThenCancel(conn) ==
    Len(conn.requests) = 2 /\ conn.requests[1].type = "lock" /\ conn.requests[2].type = "cancel"
UnderWay(c, conn) ==
    \/ conn.requests = <<>>
    \/ Only(conn, "lock") \/ LockThenCancel(conn) \/ Only(conn, "unlock") \/ Only(conn, "cancel")
    \/ Only(conn, "write") /\ TheWord(conn) \in Words /\ TheWord(conn)[1] = c

\* Its LOCK_SENTENCE was handled, and a later request is under way.
Begun(conn) == conn.requests # <<>> /\ conn.requests[1].type # "lock"

OlderStale(cs) == \A i \in 1 .. Len(cs) - 1 : cs[i].stale

\* Only the newest connection is the client's; what has begun has overtaken older ones.
ConnsOK(c, cs) ==
    /\ \A i \in 1 .. Len(cs) :
          /\ UnderWay(c, cs[i])
          /\ cs[i].link # "up" => cs[i].replies = <<>>
          /\ cs[i].link = "cut" => "cut" \in races[c]
          /\ i < Len(cs) => cs[i].link = "closed"
    /\ \A i, j \in 1 .. Len(cs) : i < j /\ Begun(cs[j]) => cs[i].stale
    /\ On(cs) => ~Newest(cs).stale

Waiting(conn, type) == Only(conn, type) /\ conn.replies = <<>>
Answered(conn) == conn.requests = <<>> /\ Len(conn.replies) = 1
Quiet(conn)    == conn.requests = <<>> /\ conn.replies = <<>>

\* The client waits for the answer to what it has sent on its newest connection.
WaitOK(c, cs) ==
    /\ pc[c] \in {"idle", "reconnect"} => ~On(cs)
    /\ pc[c] \in {"locking", "relocking", "prompt", "writing", "unlocking", "cancelling"} => On(cs)
    /\ pc[c] \in {"writing"} => retries[c] < MaxRetries /\ line[c] # 0
    /\ pc[c] \in {"reconnect", "relocking"} => line[c] # 0
    /\ pc[c] # "idle" => edit[c] # 0
    /\ Up(cs) /\ pc[c] \in {"locking", "relocking"} =>
          Waiting(Newest(cs), "lock") \/ (Answered(Newest(cs)) /\ OlderStale(cs))
    /\ Up(cs) /\ pc[c] = "prompt" =>
          IF sigint[c]
          THEN (Newest(cs).requests = <<>> /\ OlderStale(cs)) \/ Only(Newest(cs), "lock")
          ELSE Quiet(Newest(cs)) /\ OlderStale(cs)
    /\ Up(cs) /\ pc[c] = "writing" =>
          /\ \/ Waiting(Newest(cs), "write") /\ TheWord(Newest(cs)) = Word(c, line[c])
             \/ Answered(Newest(cs))
          /\ OlderStale(cs)
    /\ Up(cs) /\ pc[c] = "closing" => Quiet(Newest(cs)) /\ OlderStale(cs)
    /\ Up(cs) /\ pc[c] = "unlocking" =>
          (Newest(cs).requests = <<>> \/ Only(Newest(cs), "unlock")) /\ OlderStale(cs)

-----------------------------------------------------------------------------
(* The server's side *)

\* Who has the lock has a temp file, which has added own words to the file.
SessionOK ==
    \A c \in Clients :
        IF lock = c
        THEN /\ temp[c] \in Seq(Words)
             /\ Len(file) <= Len(temp[c])
             /\ \A n \in 1 .. Len(file) : temp[c][n] = file[n]
             /\ \A n \in 1 .. Len(temp[c]) : n > Len(file) => temp[c][n][1] = c
        ELSE temp[c] = NoTemp

\* The words that a client has in its temp file, and in the file.
Added(c) == IF lock = c THEN {temp[c][n] : n \in Len(file) + 1 .. Len(temp[c])} ELSE {}
Filed(c) == {w \in {file[n] : n \in 1 .. Len(file)} : w[1] = c}

\* An edit that the client has ended, and whose words may be in the file.
Ended(c, e) ==
    /\ e < edit[c] \/ (e = edit[c] /\ pc[c] \in {"unlocking", "idle"})
    /\ <<c, e>> \notin cancelled

\* On the newest connection the lock was granted, and its session is the edit's.
Granted(c, cs) ==
    /\ Up(cs)
    /\ \/ pc[c] = "prompt" /\ ~sigint[c]
       \/ pc[c] \in {"writing", "closing"}
       \/ pc[c] \in {"locking", "relocking"} /\ Newest(cs).replies = <<TRUE>>

\* What has been answered on the newest connection is so.
GrantOK(c, cs) ==
    /\ Granted(c, cs) =>
          /\ lock = c
          /\ \A w \in Added(c) : w[2] = edit[c] /\ w[3] <= line[c]
          /\ pc[c] \in {"locking", "relocking"} => Added(c) = {}
    /\ Up(cs) /\ pc[c] \in {"locking", "relocking"} /\ Newest(cs).replies = <<FALSE>> => lock # c
    /\ Up(cs) /\ pc[c] = "writing" /\ Newest(cs).replies = <<TRUE>> => Word(c, line[c]) \in Added(c)

\* A word that is still to be written is in a later line than what was written, and in
\* another edit than what is in the file; what is still to be committed is of an ended edit.
PendingOK(c, conn) ==
    /\ Only(conn, "write") =>
          /\ \A v \in Added(c) : v[2] = TheWord(conn)[2] /\ v[3] < TheWord(conn)[3]
          /\ \A v \in Filed(c) : v[2] # TheWord(conn)[2]
    /\ Only(conn, "unlock") => \A v \in Added(c) : Ended(c, v[2])

\* What is in the file is of an ended edit.
FiledOK(c) == \A v \in Filed(c) : Ended(c, v[2])

\* What the words in the temp file, in the file and under way say of each other, for a
\* client none of whose requests was late.
WordsOK(c, cs) ==
    /\ GrantOK(c, cs)
    /\ \A i \in 1 .. Len(cs) : ~cs[i].stale => PendingOK(c, cs[i])
    /\ FiledOK(c)

\* A cancelled edit is over.
CancelOK(c) ==
    \A x \in cancelled : x[1] = c =>
        x[2] < edit[c] \/ (x[2] = edit[c] /\ pc[c] \in {"cancelling", "idle"})

ClientOK(c, cs) ==
    /\ ConnsOK(c, cs)
    /\ WaitOK(c, cs)
    /\ CancelOK(c)
    /\ "late" \notin races[c] => WordsOK(c, cs)

\* No two places of a text hold the same word, unless its author was late.
Apart(text) ==
    \A m, n \in 1 .. Len(text) :
        text[m] = text[n] /\ "late" \notin races[text[m][1]] => m = n

TextsOK == Apart(file) /\ \A c \in Clients : lock = c => Apart(temp[c])

WriteInv ==
    /\ TypeOK
    /\ SessionOK
    /\ \A c \in Clients : ClientOK(c, conns[c])
    /\ TextsOK

-----------------------------------------------------------------------------
(* Reports *)

\* The word is in the file, or the UNLOCK that brings it there is on its way; an UNLOCK
\* that was overtaken would be late.
Arriving(c, cs, w) ==
    \/ w \in Filed(c)
    \/ \E i \in 1 .. Len(cs) : Only(cs[i], "unlock") /\ (cs[i].stale \/ w \in Added(c))

\* What became of the words of which the client has been told, or has told its user, for a
\* client that lost no connection and was not late.
ReportOK(c, cs) ==
    /\ (pc[c] \in {"prompt", "writing"} /\ ~sigint[c]) \/ (pc[c] = "closing" /\ status[c]) =>
          Up(cs) /\ writes[c] \subseteq Added(c)
    /\ pc[c] \in {"reconnect", "relocking"} => sigint[c]
    /\ pc[c] = "locking" => writes[c] = {}
    /\ pc[c] = "unlocking" /\ status[c] =>
          \/ On(cs) /\ Only(Newest(cs), "unlock") /\ writes[c] \subseteq Added(c)
          \/ writes[c] \subseteq Filed(c)
    /\ \A w \in reported[c] : Arriving(c, cs, w)

ReportInv ==
    /\ WriteInv
    /\ \A c \in Clients : Undisturbed(c, {"cut", "late"}) => ReportOK(c, conns[c])

-----------------------------------------------------------------------------
(* The lock comes back *)

\* The requests that free the lock.
Freeing(conn) == Only(conn, "unlock") \/ Only(conn, "cancel") \/ LockThenCancel(conn)

\* The client is in an edit that it will end with one of them.
Editing(c) == pc[c] \in {"locking", "relocking", "prompt", "writing", "reconnect", "closing"}

LockOK(c, cs) ==
    /\ \A i \in 1 .. Len(cs) :
          ~cs[i].stale /\ cs[i].requests # <<>> /\ ~Begun(cs[i]) =>
              Editing(c) \/ \E j \in i .. Len(cs) : Freeing(cs[j])
    /\ lock = c => Editing(c) \/ \E j \in 1 .. Len(cs) : Freeing(cs[j])

LockInv ==
    /\ WriteInv
    /\ \A c \in Clients :
          Undisturbed(c, {"cut", "late", "gaveup", "vanished"}) => LockOK(c, conns[c])

-----------------------------------------------------------------------------
(* What the operations do to the connections *)

LEMMA EmptyIsNotOne == \A answer : <<>> # <<answer>>
<1> TAKE answer
<1>1. Len(<<answer>>) = 1 /\ Len(<<>>) = 0
  OBVIOUS
<1> QED
  BY <1>1

\* N is cs with the newest connection replaced by x.
Swapped(cs, N, x) ==
    /\ N \in Seq(Connections)
    /\ Len(N) = Len(cs) /\ Len(N) \in Nat \ {0}
    /\ N[Len(N)] = x
    /\ \A i \in 1 .. Len(N) : i < Len(N) => N[i] = cs[i]

LEMMA SwapLast ==
    ASSUME NEW cs \in Seq(Connections), cs # <<>>, NEW x \in Connections
    PROVE  Swapped(cs, Append(Front(cs), x), x)
<1> DEFINE f == SubSeq(cs, 1, Len(cs) - 1)
<1>1. Len(cs) \in Nat \ {0}
  OBVIOUS
<1>2. f \in Seq(Connections) /\ Len(f) = Len(cs) - 1 /\ \A i \in 1 .. Len(f) : f[i] = cs[i]
  BY <1>1
<1>3. Front(cs) = f
  BY DEF Front
<1> HIDE DEF f
<1>4. Append(f, x) \in Seq(Connections) /\ Len(Append(f, x)) = Len(cs)
  BY <1>1, <1>2
<1>5. Append(f, x)[Len(cs)] = x
  BY <1>1, <1>2
<1>6. \A i \in 1 .. Len(cs) : i < Len(cs) => Append(f, x)[i] = cs[i]
  BY <1>1, <1>2
<1> QED
  BY <1>1, <1>3, <1>4, <1>5, <1>6 DEF Swapped

LEMMA WithLastSwaps ==
    ASSUME TypeOK, NEW c \in Clients, conns[c] # <<>>, NEW x \in Connections
    PROVE  /\ WithLast(c, x) \in [Clients -> Seq(Connections)]
           /\ \A d \in Clients \ {c} : WithLast(c, x)[d] = conns[d]
           /\ Swapped(conns[c], WithLast(c, x)[c], x)
<1>1. conns[c] \in Seq(Connections)
  BY DEF TypeOK
<1>2. Swapped(conns[c], Append(Front(conns[c]), x), x)
  BY <1>1, SwapLast
<1>3. Append(Front(conns[c]), x) \in Seq(Connections)
  BY <1>2 DEF Swapped
<1> QED
  BY <1>2, <1>3 DEF TypeOK, WithLast

\* N is cs with a new connection x.
Longer(cs, N, x) ==
    /\ N \in Seq(Connections)
    /\ Len(N) = Len(cs) + 1 /\ Len(cs) \in Nat
    /\ N[Len(N)] = x
    /\ \A i \in 1 .. Len(N) : i < Len(N) => N[i] = cs[i]

Fresh == [link |-> "up", requests |-> <<Request("lock")>>, replies |-> <<>>, stale |-> FALSE]

LEMMA OpenedLonger ==
    ASSUME TypeOK, NEW c \in Clients
    PROVE  /\ Opened(c, Request("lock")) \in [Clients -> Seq(Connections)]
           /\ \A d \in Clients \ {c} : Opened(c, Request("lock"))[d] = conns[d]
           /\ Longer(conns[c], Opened(c, Request("lock"))[c], Fresh)
<1>1. conns[c] \in Seq(Connections)
  BY DEF TypeOK
<1>2. Request("lock") \in Requests
  BY DEF Request, Requests
<1>3. Fresh \in Connections
  BY <1>2 DEF Fresh, Connections
<1>4. Longer(conns[c], Append(conns[c], Fresh), Fresh)
  BY <1>1, <1>3 DEF Longer
<1>5. Append(conns[c], Fresh) \in Seq(Connections)
  BY <1>1, <1>3
<1>6. Opened(c, Request("lock")) = [conns EXCEPT ![c] = Append(@, Fresh)]
  BY DEF Opened, Fresh
<1>7. conns \in [Clients -> Seq(Connections)]
  BY DEF TypeOK
<1>8. Opened(c, Request("lock"))[c] = Append(conns[c], Fresh)
  BY <1>6, <1>7
<1> QED
  BY <1>4, <1>5, <1>6, <1>7, <1>8

\* N is cs after its client has hung up: nothing that was sent is taken back.
HungUp(cs, N) ==
    /\ N \in Seq(Connections)
    /\ Len(N) \in Nat /\ Len(cs) \in Nat /\ Len(N) <= Len(cs)
    /\ \A i \in 1 .. Len(N) :
          /\ N[i].link = "closed" /\ N[i].replies = <<>>
          /\ N[i].requests = cs[i].requests /\ N[i].stale = cs[i].stale
    /\ \A i \in 1 .. Len(cs) : i > Len(N) => cs[i].requests = <<>>

LEMMA HungHangsUp ==
    ASSUME TypeOK, NEW c \in Clients, ConnsOK(c, conns[c])
    PROVE  /\ Hung(c) \in [Clients -> Seq(Connections)]
           /\ \A d \in Clients \ {c} : Hung(c)[d] = conns[d]
           /\ HungUp(conns[c], Hung(c)[c])
<1> DEFINE cs == conns[c]
           x  == Closed(Last(cs))
           s  == Append(Front(cs), x)
<1>1. cs \in Seq(Connections) /\ Len(cs) \in Nat
  BY DEF TypeOK
<1>2. CASE ~Connected(c)
  <2>1. cs = <<>> \/ cs[Len(cs)].link = "closed"
    BY <1>2 DEF Connected, Last
  <2>2. \A i \in 1 .. Len(cs) : cs[i].link = "closed" /\ cs[i].replies = <<>>
    BY <1>1, <2>1 DEF ConnsOK
  <2> QED
    BY <1>1, <1>2, <2>2 DEF Hung, HungUp, TypeOK
<1>3. CASE Connected(c)
  <2>1. cs # <<>> /\ Len(cs) >= 1 /\ Last(cs) = cs[Len(cs)] /\ cs[Len(cs)] \in Connections
    BY <1>1, <1>3 DEF Connected, Last
  <2>2. x \in Connections /\ x.link = "closed" /\ x.replies = <<>>
        /\ x.requests = cs[Len(cs)].requests /\ x.stale = cs[Len(cs)].stale
    <3>1. <<>> \in Seq(BOOLEAN)
      OBVIOUS
    <3> QED
      BY <2>1, <3>1 DEF Closed, Connections
  <2>3. Swapped(cs, s, x)
    BY <1>1, <2>1, <2>2, SwapLast
  <2>4. s \in Seq(Connections) /\ Len(s) = Len(cs) /\ s[Len(cs)] = x
        /\ \A i \in 1 .. Len(s) : i < Len(s) => s[i] = cs[i]
    BY <2>3 DEF Swapped
  <2>5. Hung(c) = [conns EXCEPT ![c] = Forget(s, Len(cs))]
    BY <1>3 DEF Hung
  <2>6. \A i \in 1 .. Len(cs) : i < Len(cs) => cs[i].link = "closed" /\ cs[i].replies = <<>>
    BY DEF ConnsOK
  <2> HIDE DEF s, x, cs
  <2>7. HungUp(cs, Forget(s, Len(cs)))
    <3>1. CASE Over(x)
      <4> DEFINE f == SubSeq(s, 1, Len(cs) - 1)
      <4>1. Forget(s, Len(cs)) = f \o SubSeq(s, Len(cs) + 1, Len(cs))
        BY <2>4, <3>1 DEF Forget, RemoveAt
      <4>2. f \in Seq(Connections) /\ Len(f) = Len(cs) - 1
            /\ \A i \in 1 .. Len(f) : f[i] = s[i]
        BY <1>1, <2>1, <2>4
      <4>3. SubSeq(s, Len(cs) + 1, Len(cs)) = <<>>
        BY <1>1, <2>4
      <4> HIDE DEF f
      <4>4. Forget(s, Len(cs)) = f
        BY <4>1, <4>2, <4>3
      <4>5. \A i \in 1 .. Len(f) : f[i] = cs[i] /\ cs[i].link = "closed" /\ cs[i].replies = <<>>
        BY <1>1, <2>4, <2>6, <4>2
      <4>6. cs[Len(cs)].requests = <<>>
        BY <2>2, <3>1 DEF Over
      <4> QED
        BY <1>1, <2>1, <4>2, <4>4, <4>5, <4>6 DEF HungUp
    <3>2. CASE ~Over(x)
      <4>1. Forget(s, Len(cs)) = s
        BY <2>4, <3>2 DEF Forget
      <4> QED
        BY <1>1, <2>1, <2>2, <2>4, <2>6, <4>1 DEF HungUp
    <3> QED
      BY <3>1, <3>2
  <2>8. Forget(s, Len(cs)) \in Seq(Connections)
    BY <2>7 DEF HungUp
  <2> QED
    BY <2>5, <2>7, <2>8 DEF TypeOK, cs
<1> QED
  BY <1>2, <1>3

\* N is cs without its connection i, on which nothing is left to do.
Removed(cs, N, i) ==
    /\ cs \in Seq(Connections) /\ N \in Seq(Connections)
    /\ Len(cs) \in Nat /\ Len(N) \in Nat /\ Len(N) + 1 = Len(cs)
    /\ i \in 1 .. Len(cs)
    /\ Over(cs[i])
    /\ \A k \in 1 .. Len(N) : N[k] = cs[IF k < i THEN k ELSE k + 1]

LEMMA ForgetRemoves ==
    ASSUME NEW cs \in Seq(Connections), NEW i \in 1 .. Len(cs), Over(cs[i])
    PROVE  Removed(cs, Forget(cs, i), i)
<1> DEFINE f == SubSeq(cs, 1, i - 1)
           g == SubSeq(cs, i + 1, Len(cs))
<1>1. Forget(cs, i) = f \o g
  BY DEF Forget, RemoveAt
<1>2. Len(cs) \in Nat /\ i \in Nat /\ 1 <= i /\ i <= Len(cs)
  OBVIOUS
<1>3. f \in Seq(Connections) /\ Len(f) = i - 1 /\ \A k \in 1 .. Len(f) : f[k] = cs[k]
  BY <1>2
<1>4. g \in Seq(Connections) /\ Len(g) = Len(cs) - i /\ \A k \in 1 .. Len(g) : g[k] = cs[i + k]
  BY <1>2
<1> HIDE DEF f, g
<1>5. /\ f \o g \in Seq(Connections) /\ Len(f \o g) = Len(f) + Len(g)
      /\ \A k \in 1 .. Len(f) + Len(g) : (f \o g)[k] = IF k <= Len(f) THEN f[k] ELSE g[k - Len(f)]
  BY <1>3, <1>4, ConcatProperties, Zenon
<1>7. ASSUME NEW k \in 1 .. Len(cs) - 1
      PROVE  (f \o g)[k] = cs[IF k < i THEN k ELSE k + 1]
  <2>1. CASE k < i
    <3>1. k \in 1 .. Len(f) /\ k \in 1 .. Len(f) + Len(g) /\ k <= Len(f)
      BY <1>2, <1>3, <1>4, <2>1
    <3> QED
      BY <1>3, <1>5, <2>1, <3>1
  <2>2. CASE ~(k < i)
    <3>1. k - Len(f) \in 1 .. Len(g) /\ i + (k - Len(f)) = k + 1
      BY <1>2, <1>3, <1>4, <2>2
    <3>2. k \in 1 .. Len(f) + Len(g) /\ ~(k <= Len(f))
      BY <1>2, <1>3, <1>4, <2>2
    <3>3. (f \o g)[k] = g[k - Len(f)]
      BY <1>5, <3>2
    <3>4. g[k - Len(f)] = cs[k + 1]
      BY <1>4, <3>1
    <3> QED
      BY <2>2, <3>3, <3>4
  <2> QED
    BY <2>1, <2>2
<1> QED
  BY <1>1, <1>2, <1>3, <1>4, <1>5, <1>7 DEF Removed

\* The client's connection stays, and none that something is under way on goes.
LEMMA RemovedRest ==
    ASSUME NEW c \in Clients, NEW cs, NEW N, NEW i, Removed(cs, N, i), ConnsOK(c, cs)
    PROVE  /\ On(N) <=> On(cs)
           /\ Up(N) <=> Up(cs)
           /\ On(cs) => Newest(N) = Newest(cs)
           /\ OlderStale(cs) => OlderStale(N)
           /\ \A j \in 1 .. Len(cs) : cs[j].requests # <<>> =>
                 \E k \in 1 .. Len(N) : N[k] = cs[j] /\ (k = j \/ k = j - 1)
<1>1. Len(cs) \in Nat /\ Len(N) \in Nat /\ Len(N) = Len(cs) - 1 /\ i \in 1 .. Len(cs)
      /\ cs[i].link = "closed" /\ cs[i].requests = <<>>
  BY DEF Removed, Over
<1>2. \A k \in 1 .. Len(N) : N[k] = cs[IF k < i THEN k ELSE k + 1]
  BY DEF Removed
<1>3. cs \in Seq(Connections) /\ N \in Seq(Connections)
  BY DEF Removed
<1>4. \A k \in 1 .. Len(cs) : k < Len(cs) => cs[k].link = "closed"
  BY DEF ConnsOK
<1>5. cs # <<>> /\ (N = <<>> <=> Len(N) = 0)
  BY <1>1, <1>3
<1>6. On(cs) => i < Len(cs)
  BY <1>1 DEF On
<1> DEFINE Rest == /\ On(N) <=> On(cs)
                   /\ Up(N) <=> Up(cs)
                   /\ On(cs) => Newest(N) = Newest(cs)
<1>7. ASSUME i < Len(cs) PROVE Rest
  <2>1. Len(N) \in 1 .. Len(N) /\ N[Len(N)] = cs[Len(cs)]
    BY <1>1, <1>2, <1>7
  <2> QED
    BY <1>1, <1>5, <2>1 DEF On, Up, Newest
<1>8. ASSUME i = Len(cs) PROVE Rest
  <2>1. ~On(cs) /\ ~Up(cs)
    BY <1>1, <1>8 DEF On, Up
  <2>2. Len(N) # 0 => N[Len(N)].link = "closed"
    BY <1>1, <1>2, <1>4, <1>8
  <2>3. ~On(N) /\ ~Up(N)
    BY <1>5, <2>2 DEF On, Up
  <2> QED
    BY <2>1, <2>3
<1>9. OlderStale(cs) => OlderStale(N)
  BY <1>1, <1>2 DEF OlderStale
<1>10. ASSUME NEW j \in 1 .. Len(cs), cs[j].requests # <<>>
       PROVE  \E k \in 1 .. Len(N) : N[k] = cs[j] /\ (k = j \/ k = j - 1)
  <2>1. CASE j < i
    BY <1>1, <1>2, <2>1
  <2>2. CASE j > i
    <3>1. j - 1 \in 1 .. Len(N) /\ ~(j - 1 < i) /\ (j - 1) + 1 = j
      BY <1>1, <2>2
    <3> QED
      BY <1>2, <3>1
  <2> QED
    BY <1>1, <1>10, <2>1, <2>2
<1> QED
  BY <1>1, <1>7, <1>8, <1>9, <1>10

LEMMA RemovedConns ==
    ASSUME NEW c \in Clients, NEW cs, NEW N, NEW i, Removed(cs, N, i), ConnsOK(c, cs)
    PROVE  ConnsOK(c, N)
<1>1. Len(cs) \in Nat /\ Len(N) \in Nat /\ Len(N) = Len(cs) - 1 /\ i \in 1 .. Len(cs)
  BY DEF Removed
<1> DEFINE m(k) == IF k < i THEN k ELSE k + 1
<1>2. \A k \in 1 .. Len(N) : N[k] = cs[m(k)]
  BY DEF Removed
<1>3. \A k \in 1 .. Len(N) : m(k) \in 1 .. Len(cs) /\ (k < Len(N) => m(k) < Len(cs))
  BY <1>1
<1>4. \A j, k \in 1 .. Len(N) : j < k => m(j) < m(k)
  BY <1>1
<1> HIDE DEF m
<1>5. ASSUME NEW k \in 1 .. Len(N)
      PROVE  /\ UnderWay(c, N[k])
             /\ N[k].link # "up" => N[k].replies = <<>>
             /\ N[k].link = "cut" => "cut" \in races[c]
             /\ k < Len(N) => N[k].link = "closed"
  BY <1>2, <1>3 DEF ConnsOK
<1>6. ASSUME NEW j \in 1 .. Len(N), NEW k \in 1 .. Len(N), j < k, Begun(N[k])
      PROVE  N[j].stale
  <2>1. N[j] = cs[m(j)] /\ N[k] = cs[m(k)] /\ m(j) < m(k)
        /\ m(j) \in 1 .. Len(cs) /\ m(k) \in 1 .. Len(cs)
    BY <1>2, <1>3, <1>4, <1>6
  <2> QED
    BY <1>6, <2>1 DEF ConnsOK
<1>7. On(N) => ~Newest(N).stale
  BY RemovedRest DEF ConnsOK
<1> QED
  BY <1>5, <1>6, <1>7 DEF ConnsOK

LEMMA RemovedWords ==
    ASSUME NEW c \in Clients, NEW cs, NEW N, NEW i, Removed(cs, N, i), ConnsOK(c, cs),
           WordsOK(c, cs), WaitOK(c, cs)
    PROVE  WordsOK(c, N)
<1>1. Len(cs) \in Nat /\ Len(N) \in Nat /\ Len(N) = Len(cs) - 1 /\ i \in 1 .. Len(cs)
  BY DEF Removed
<1>2. \A k \in 1 .. Len(N) : \E j \in 1 .. Len(cs) : N[k] = cs[j]
  BY <1>1 DEF Removed
<1>3. (Up(N) <=> Up(cs)) /\ (Up(cs) => Newest(N) = Newest(cs))
  BY RemovedRest DEF On, Up
<1>4. GrantOK(c, N)
  BY <1>3 DEF WordsOK, GrantOK, Granted
<1> QED
  BY <1>2, <1>4 DEF WordsOK

LEMMA RemovedWait ==
    ASSUME NEW c \in Clients, NEW cs, NEW N, NEW i, Removed(cs, N, i), ConnsOK(c, cs),
           WaitOK(c, cs)
    PROVE  WaitOK(c, N)
<1>1. (On(N) <=> On(cs)) /\ (Up(N) <=> Up(cs)) /\ (Up(cs) => Newest(N) = Newest(cs))
      /\ (OlderStale(cs) => OlderStale(N))
  BY RemovedRest DEF On, Up
<1> QED
  BY <1>1 DEF WaitOK

LEMMA RemovedClient ==
    ASSUME NEW c \in Clients, NEW cs, NEW N, NEW i, Removed(cs, N, i), ClientOK(c, cs)
    PROVE  ClientOK(c, N)
  BY RemovedConns, RemovedWait, RemovedWords DEF ClientOK

LEMMA RemovedReport ==
    ASSUME NEW c \in Clients, NEW cs, NEW N, NEW i, Removed(cs, N, i), ConnsOK(c, cs),
           ReportOK(c, cs)
    PROVE  ReportOK(c, N)
<1>1. (On(N) <=> On(cs)) /\ (Up(N) <=> Up(cs)) /\ (On(cs) => Newest(N) = Newest(cs))
      /\ (Up(cs) => On(cs))
  BY RemovedRest DEF On, Up
<1>2. \A j \in 1 .. Len(cs) : Only(cs[j], "unlock") => \E k \in 1 .. Len(N) : N[k] = cs[j]
  BY RemovedRest DEF Only
<1> QED
  BY <1>1, <1>2 DEF ReportOK, Arriving

LEMMA RemovedLock ==
    ASSUME NEW c \in Clients, NEW cs, NEW N, NEW i, Removed(cs, N, i), ConnsOK(c, cs),
           LockOK(c, cs)
    PROVE  LockOK(c, N)
<1>1. Len(cs) \in Nat /\ Len(N) \in Nat /\ Len(N) = Len(cs) - 1 /\ i \in 1 .. Len(cs)
  BY DEF Removed
<1> DEFINE m(k) == IF k < i THEN k ELSE k + 1
<1>2. \A k \in 1 .. Len(N) : N[k] = cs[m(k)] /\ m(k) \in 1 .. Len(cs)
  BY <1>1 DEF Removed
<1>3. \A j \in 1 .. Len(cs) : Freeing(cs[j]) => cs[j].requests # <<>>
  BY DEF Freeing, Only, LockThenCancel
<1>4. ASSUME NEW j \in 1 .. Len(cs), Freeing(cs[j]), NEW k \in 1 .. Len(N), m(k) <= j
      PROVE  \E l \in k .. Len(N) : Freeing(N[l])
  <2>1. PICK l \in 1 .. Len(N) : N[l] = cs[j] /\ (l = j \/ l = j - 1)
    BY <1>3, <1>4, RemovedRest
  <2>2. N[j] = cs[m(j)] \/ j > Len(N)
    BY <1>1, <1>2
  <2>3. CASE l >= k
    BY <1>1, <1>4, <2>1, <2>3
  <2>4. CASE l < k
    <3>1. l = j - 1 /\ k = j /\ m(k) = k
      BY <1>1, <1>4, <2>1, <2>4
    <3> QED
      BY <1>1, <1>2, <1>4, <3>1
  <2> QED
    BY <1>1, <2>1, <2>3, <2>4
<1>5. ASSUME NEW j \in 1 .. Len(cs), Freeing(cs[j])
      PROVE  \E l \in 1 .. Len(N) : Freeing(N[l])
  BY <1>3, <1>5, RemovedRest
<1> HIDE DEF m
<1>6. ASSUME NEW k \in 1 .. Len(N), ~N[k].stale, N[k].requests # <<>>, ~Begun(N[k]), ~Editing(c)
      PROVE  \E l \in k .. Len(N) : Freeing(N[l])
  <2>1. \E j \in m(k) .. Len(cs) : Freeing(cs[j])
    BY <1>2, <1>6 DEF LockOK
  <2>2. PICK j \in 1 .. Len(cs) : m(k) <= j /\ Freeing(cs[j])
    BY <1>1, <1>2, <2>1
  <2> QED
    BY <1>4, <2>2
<1>7. lock = c => Editing(c) \/ \E l \in 1 .. Len(N) : Freeing(N[l])
  BY <1>5 DEF LockOK
<1> QED
  BY <1>6, <1>7 DEF LockOK

-----------------------------------------------------------------------------
(* What a step of one client leaves alone *)

Untouched(d) ==
    /\ pc'[d] = pc[d] /\ edit'[d] = edit[d] /\ line'[d] = line[d] /\ retries'[d] = retries[d]
    /\ writes'[d] = writes[d] /\ status'[d] = status[d] /\ sigint'[d] = sigint[d]
    /\ conns'[d] = conns[d] /\ reported'[d] = reported[d] /\ races'[d] = races[d]
    /\ \A e : <<d, e>> \in cancelled' <=> <<d, e>> \in cancelled

\* The server has the same of the client's.
Served(d) == /\ lock' = d <=> lock = d
             /\ Added(d)' = Added(d)
             /\ Filed(d)' = Filed(d)

LEMMA UntouchedConns ==
    ASSUME NEW d \in Clients, Untouched(d), ConnsOK(d, conns[d])
    PROVE  ConnsOK(d, conns[d])'
  BY DEF Untouched, ConnsOK

LEMMA UntouchedWait ==
    ASSUME NEW d \in Clients, Untouched(d), WaitOK(d, conns[d])
    PROVE  WaitOK(d, conns[d])'
<1>1. \A n : Word(d, n)' = Word(d, n)
  BY DEF Untouched, Word
<1> QED
  BY <1>1 DEF Untouched, WaitOK

LEMMA UntouchedWords ==
    ASSUME NEW d \in Clients, Untouched(d), Served(d), WordsOK(d, conns[d])
    PROVE  WordsOK(d, conns[d])'
<1>1. \A n : Word(d, n)' = Word(d, n)
  BY DEF Untouched, Word
<1>2. \A e : Ended(d, e)' <=> Ended(d, e)
  BY DEF Untouched, Ended
<1>3. Granted(d, conns[d])' <=> Granted(d, conns[d])
  BY DEF Untouched, Granted
<1>4. GrantOK(d, conns[d])'
  BY <1>1, <1>3 DEF Untouched, Served, WordsOK, GrantOK
<1>5. ASSUME NEW i \in 1 .. Len(conns'[d]), ~conns'[d][i].stale
      PROVE  PendingOK(d, conns[d][i])'
  <2>1. PendingOK(d, conns[d][i])
    BY <1>5 DEF Untouched, WordsOK
  <2> QED
    BY <2>1, <1>2 DEF Served, PendingOK, Untouched
<1> QED
  BY <1>2, <1>4, <1>5 DEF WordsOK, FiledOK, Served

LEMMA UntouchedClient ==
    ASSUME TypeOK, TypeOK', NEW d \in Clients, Untouched(d), Served(d), ClientOK(d, conns[d])
    PROVE  ClientOK(d, conns[d])'
<1>1. \A x \in cancelled' : x[1] = d => x \in cancelled
  BY DEF TypeOK, Untouched
<1>2. CancelOK(d)'
  BY <1>1 DEF ClientOK, CancelOK, Untouched
<1>3. ConnsOK(d, conns[d])' /\ WaitOK(d, conns[d])'
  BY UntouchedConns, UntouchedWait DEF ClientOK
<1>4. "late" \notin races'[d] => WordsOK(d, conns[d])'
  BY UntouchedWords DEF ClientOK, Untouched
<1> QED
  BY <1>2, <1>3, <1>4 DEF ClientOK

LEMMA UntouchedReport ==
    ASSUME NEW d \in Clients, Untouched(d), Served(d), ReportOK(d, conns[d])
    PROVE  ReportOK(d, conns[d])'
  BY DEF Untouched, Served, ReportOK, Arriving

LEMMA UntouchedLock ==
    ASSUME NEW d \in Clients, Untouched(d), Served(d), LockOK(d, conns[d])
    PROVE  LockOK(d, conns[d])'
<1>1. Editing(d)' <=> Editing(d)
  BY DEF Untouched, Editing
<1> QED
  BY <1>1 DEF Untouched, Served, LockOK

\* A step of a client's own changes nothing of the others' and nothing of the server's.
OwnStep(c) ==
    /\ UNCHANGED server
    /\ \A d \in Clients \ {c} : Untouched(d)
    /\ races[c] \subseteq races'[c]

LEMMA ServerSame ==
    ASSUME UNCHANGED server
    PROVE  /\ SessionOK => SessionOK'
           /\ \A d \in Clients : Served(d)
<1>1. lock' = lock /\ temp' = temp /\ file' = file
  BY DEF server
<1> QED
  BY <1>1 DEF SessionOK, Served, Added, Filed

LEMMA OwnStepKeeps ==
    ASSUME WriteInv, TypeOK', NEW c \in Clients, OwnStep(c), ClientOK(c, conns[c])'
    PROVE  WriteInv'
<1>1. SessionOK' /\ \A d \in Clients : Served(d)
  BY ServerSame DEF OwnStep, WriteInv
<1>2. \A d \in Clients \ {c} : ClientOK(d, conns[d])'
  BY <1>1, UntouchedClient DEF OwnStep, WriteInv
<1>3. \A d \in Clients : "late" \notin races'[d] => "late" \notin races[d]
  BY DEF OwnStep, Untouched
<1>4. lock' = lock /\ temp' = temp /\ file' = file
  BY DEF OwnStep, server
<1>5. \A n \in 1 .. Len(file) : file[n][1] \in Clients
  <2>1. file \in Seq(Words)
    BY DEF WriteInv, TypeOK
  <2>2. \A n \in 1 .. Len(file) : file[n] \in Words
    BY <2>1
  <2> QED
    BY <2>2 DEF Words
<1>6. \A d \in Clients : lock = d => \A n \in 1 .. Len(temp[d]) : temp[d][n][1] \in Clients
  BY DEF WriteInv, SessionOK, Words
<1>7. TextsOK'
  BY <1>3, <1>4, <1>5, <1>6 DEF WriteInv, TextsOK, Apart
<1> QED
  BY <1>1, <1>2, <1>7 DEF WriteInv

-----------------------------------------------------------------------------
(* What a step does to its own client *)

\* An edit stays ended, and a cancelled one over.
EndsStay(c) ==
    /\ CancelOK(c)'
    /\ \A e \in Nat : Ended(c, e) => Ended(c, e)'

LEMMA WordsTyped ==
    ASSUME TypeOK, SessionOK, NEW c \in Clients
    PROVE  Added(c) \subseteq Words /\ Filed(c) \subseteq Words
<1>1. file \in Seq(Words) /\ Len(file) \in Nat
  BY DEF TypeOK
<1>2. lock = c => temp[c] \in Seq(Words)
  BY DEF SessionOK
<1> QED
  BY <1>1, <1>2 DEF Added, Filed

\* What is pending stays in order if nothing is added to it.
LEMMA PendingStays ==
    ASSUME TypeOK, SessionOK, NEW c \in Clients, EndsStay(c), Served(c),
           NEW old, NEW new, new.requests = old.requests, PendingOK(c, old)
    PROVE  PendingOK(c, new)'
<1>1. \A v \in Added(c) : v[2] \in Nat
  BY WordsTyped DEF Words
<1>2. Only(new, "write") => Only(old, "write")
  BY DEF Only
<1>3. Only(new, "unlock") => Only(old, "unlock")
  BY DEF Only
<1>4. TheWord(new) = TheWord(old)
  BY DEF TheWord
<1> QED
  BY <1>1, <1>2, <1>3, <1>4 DEF PendingOK, EndsStay, Served

LEMMA FiledStay ==
    ASSUME TypeOK, SessionOK, NEW c \in Clients, EndsStay(c), Served(c), FiledOK(c)
    PROVE  FiledOK(c)'
<1>1. \A v \in Filed(c) : v[2] \in Nat
  BY WordsTyped DEF Words
<1> QED
  BY <1>1 DEF EndsStay, Served, FiledOK

\* The client hangs up.
LEMMA HangingUp ==
    ASSUME TypeOK, SessionOK, NEW c \in Clients, ClientOK(c, conns[c]),
           HungUp(conns[c], conns'[c]), UNCHANGED server,
           races[c] \subseteq races'[c], EndsStay(c),
           pc'[c] \in {"idle", "reconnect", "closing"},
           pc'[c] = "reconnect" => line'[c] # 0,
           pc'[c] # "idle" => edit'[c] # 0
    PROVE  ClientOK(c, conns[c])'
<1> DEFINE cs == conns[c]
           N  == conns'[c]
<1>1. /\ Len(N) \in Nat /\ Len(cs) \in Nat /\ Len(N) <= Len(cs)
      /\ \A i \in 1 .. Len(N) : /\ N[i].link = "closed" /\ N[i].replies = <<>>
                                /\ N[i].requests = cs[i].requests /\ N[i].stale = cs[i].stale
      /\ N \in Seq(Connections)
  BY DEF HungUp
<1>2. ~On(N) /\ ~Up(N)
  BY <1>1 DEF On, Up
<1>3. ConnsOK(c, cs) /\ ("late" \notin races'[c] => WordsOK(c, cs))
  BY DEF ClientOK
<1>4. ConnsOK(c, conns[c])'
  <2>1. ASSUME NEW i \in 1 .. Len(N) PROVE UnderWay(c, N[i])
    <3>1. UnderWay(c, cs[i])
      BY <1>1, <1>3 DEF ConnsOK
    <3> QED
      BY <1>1, <3>1 DEF UnderWay, Only, TheWord, LockThenCancel
  <2>2. ASSUME NEW i \in 1 .. Len(N), NEW j \in 1 .. Len(N), i < j, Begun(N[j]) PROVE N[i].stale
    <3>1. Begun(cs[j]) /\ i \in 1 .. Len(cs) /\ j \in 1 .. Len(cs)
      BY <1>1, <2>2 DEF Begun
    <3>2. cs[i].stale
      BY <1>3, <2>2, <3>1 DEF ConnsOK
    <3> QED
      BY <1>1, <3>2
  <2> QED
    BY <1>1, <1>2, <2>1, <2>2 DEF ConnsOK
<1>5. WaitOK(c, conns[c])'
  BY <1>2 DEF WaitOK
<1>6. Served(c)
  BY ServerSame
<1>7. ASSUME "late" \notin races'[c] PROVE WordsOK(c, conns[c])'
  <2>1. GrantOK(c, conns[c])'
    BY <1>2 DEF GrantOK, Granted
  <2>2. ASSUME NEW i \in 1 .. Len(N), ~N[i].stale PROVE PendingOK(c, conns[c][i])'
    <3>1. PendingOK(c, cs[i]) /\ N[i].requests = cs[i].requests
      BY <1>1, <1>3, <1>7, <2>2 DEF WordsOK
    <3>2. PICK x : x = N[i]
      OBVIOUS
    <3>3. PendingOK(c, x)'
      BY <1>6, <3>1, <3>2, PendingStays
    <3> QED
      BY <3>2, <3>3 DEF PendingOK
  <2>3. FiledOK(c)'
    BY <1>3, <1>6, <1>7, FiledStay DEF WordsOK
  <2> QED
    BY <2>1, <2>2, <2>3 DEF WordsOK
<1> QED
  BY <1>4, <1>5, <1>7 DEF ClientOK, EndsStay

\* The client opens a new connection, having hung up the last one.
LEMMA OpeningNew ==
    ASSUME TypeOK, SessionOK, NEW c \in Clients, ClientOK(c, conns[c]),
           Longer(conns[c], conns'[c], Fresh), ~On(conns[c]), UNCHANGED server,
           races[c] \subseteq races'[c], EndsStay(c),
           pc'[c] \in {"locking", "relocking"},
           pc'[c] = "relocking" => line'[c] # 0,
           edit'[c] # 0
    PROVE  ClientOK(c, conns[c])'
<1> DEFINE cs == conns[c]
           N  == conns'[c]
<1>1. /\ Len(N) \in Nat \ {0} /\ Len(cs) \in Nat /\ Len(N) = Len(cs) + 1
      /\ N[Len(N)] = Fresh
      /\ \A i \in 1 .. Len(N) : i < Len(N) => N[i] = cs[i]
      /\ N # <<>>
  BY DEF Longer
<1>2. /\ Fresh.link = "up" /\ Fresh.replies = <<>> /\ Fresh.stale = FALSE
      /\ Only(Fresh, "lock") /\ ~Begun(Fresh)
  BY DEF Fresh, Only, Begun, Request
<1>3. Newest(N) = Fresh /\ On(N) /\ Up(N)
  BY <1>1, <1>2 DEF On, Up, Newest
<1>4. ConnsOK(c, cs) /\ ("late" \notin races'[c] => WordsOK(c, cs))
  BY DEF ClientOK
<1>5. \A i \in 1 .. Len(cs) : cs[i].link = "closed"
  BY <1>1, <1>4 DEF ConnsOK, On
<1> HIDE DEF N, cs
<1>6. ConnsOK(c, conns[c])'
  <2>1. ASSUME NEW i \in 1 .. Len(N)
        PROVE  /\ UnderWay(c, N[i])
               /\ N[i].link # "up" => N[i].replies = <<>>
               /\ N[i].link = "cut" => "cut" \in races'[c]
               /\ i < Len(N) => N[i].link = "closed"
    <3>1. CASE i < Len(N)
      BY <1>1, <1>4, <1>5, <3>1 DEF ConnsOK
    <3>2. CASE i = Len(N)
      BY <1>1, <1>2, <3>2 DEF UnderWay
    <3> QED
      BY <1>1, <3>1, <3>2
  <2>2. ASSUME NEW i \in 1 .. Len(N), NEW j \in 1 .. Len(N), i < j, Begun(N[j]) PROVE N[i].stale
    BY <1>1, <1>2, <1>4, <2>2 DEF ConnsOK
  <2> QED
    BY <1>2, <1>3, <2>1, <2>2 DEF ConnsOK, N
<1>7. WaitOK(c, conns[c])'
  BY <1>2, <1>3 DEF WaitOK, Waiting, N
<1>8. Served(c)
  BY ServerSame
<1>9. ASSUME "late" \notin races'[c] PROVE WordsOK(c, conns[c])'
  <2>1. GrantOK(c, conns[c])'
    <3>1. Newest(N).replies # <<TRUE>> /\ Newest(N).replies # <<FALSE>>
      BY <1>2, <1>3, EmptyIsNotOne
    <3>2. pc'[c] # "writing" /\ ~Granted(c, conns[c])'
      BY <3>1 DEF Granted, N
    <3> QED
      BY <3>1, <3>2 DEF GrantOK, N
  <2>2. ASSUME NEW i \in 1 .. Len(N), ~N[i].stale PROVE PendingOK(c, conns[c][i])'
    <3>1. CASE i < Len(N)
      <4>1. PendingOK(c, cs[i]) /\ N[i].requests = cs[i].requests
        BY <1>1, <1>4, <1>9, <2>2, <3>1 DEF WordsOK
      <4>2. PICK x : x = N[i]
        OBVIOUS
      <4>3. PendingOK(c, x)'
        BY <1>8, <4>1, <4>2, PendingStays
      <4> QED
        BY <4>2, <4>3 DEF PendingOK, N
    <3>2. CASE i = Len(N)
      <4>1. ~Only(N[i], "write") /\ ~Only(N[i], "unlock")
        BY <1>1, <1>2, <3>2 DEF Only
      <4> QED
        BY <4>1 DEF PendingOK, N
    <3> QED
      BY <1>1, <3>1, <3>2
  <2>3. FiledOK(c)'
    BY <1>4, <1>8, <1>9, FiledStay DEF WordsOK
  <2> QED
    BY <2>1, <2>2, <2>3 DEF WordsOK, N
<1> QED
  BY <1>6, <1>7, <1>9 DEF ClientOK, EndsStay, N

\* The newest connection becomes x.
LEMMA SwappedConns ==
    ASSUME NEW c \in Clients, NEW x, Swapped(conns[c], conns'[c], x), ConnsOK(c, conns[c]),
           races[c] \subseteq races'[c],
           UnderWay(c, x), x.link # "up" => x.replies = <<>>, x.link = "cut" => "cut" \in races'[c],
           ~x.stale, Begun(x) => OlderStale(conns[c])
    PROVE  ConnsOK(c, conns[c])'
<1> DEFINE cs == conns[c]
           N  == conns'[c]
<1>1. /\ Len(N) \in Nat \ {0} /\ Len(cs) = Len(N)
      /\ N[Len(N)] = x
      /\ \A i \in 1 .. Len(N) : i < Len(N) => N[i] = cs[i]
      /\ Newest(N) = x
  BY DEF Swapped, Newest
<1> HIDE DEF N, cs
<1>2. ASSUME NEW i \in 1 .. Len(N)
      PROVE  /\ UnderWay(c, N[i])
             /\ N[i].link # "up" => N[i].replies = <<>>
             /\ N[i].link = "cut" => "cut" \in races'[c]
             /\ i < Len(N) => N[i].link = "closed"
  <2>1. CASE i < Len(N)
    BY <1>1, <2>1 DEF ConnsOK, cs
  <2>2. CASE i = Len(N)
    BY <1>1, <2>2
  <2> QED
    BY <1>1, <2>1, <2>2
<1>3. ASSUME NEW i \in 1 .. Len(N), NEW j \in 1 .. Len(N), i < j, Begun(N[j]) PROVE N[i].stale
  <2>1. CASE j < Len(N)
    BY <1>1, <1>3, <2>1 DEF ConnsOK, cs
  <2>2. CASE j = Len(N)
    BY <1>1, <1>3, <2>2 DEF OlderStale, cs
  <2> QED
    BY <1>1, <2>1, <2>2
<1> QED
  BY <1>1, <1>2, <1>3 DEF ConnsOK, N

LEMMA SwappedWords ==
    ASSUME TypeOK, SessionOK, NEW c \in Clients, NEW x, Swapped(conns[c], conns'[c], x),
           WordsOK(c, conns[c]), UNCHANGED server, EndsStay(c),
           GrantOK(c, conns[c])', PendingOK(c, x)'
    PROVE  WordsOK(c, conns[c])'
<1> DEFINE cs == conns[c]
           N  == conns'[c]
<1>1. /\ Len(N) \in Nat \ {0} /\ Len(cs) = Len(N)
      /\ N[Len(N)] = x
      /\ \A i \in 1 .. Len(N) : i < Len(N) => N[i] = cs[i]
  BY DEF Swapped
<1>2. Served(c)
  BY ServerSame
<1> HIDE DEF N, cs
<1>3. ASSUME NEW i \in 1 .. Len(N), ~N[i].stale PROVE PendingOK(c, conns[c][i])'
  <2>1. CASE i < Len(N)
    <3>1. PendingOK(c, cs[i]) /\ N[i].requests = cs[i].requests
      BY <1>1, <1>3, <2>1 DEF WordsOK, cs
    <3>2. PICK y : y = N[i]
      OBVIOUS
    <3>3. PendingOK(c, y)'
      BY <1>2, <3>1, <3>2, PendingStays
    <3> QED
      BY <3>2, <3>3 DEF PendingOK, N
  <2>2. CASE i = Len(N)
    <3>1. N[i] = x
      BY <1>1, <2>2
    <3> QED
      BY <3>1 DEF PendingOK, N
  <2> QED
    BY <1>1, <2>1, <2>2
<1>4. FiledOK(c)'
  BY <1>2, FiledStay DEF WordsOK
<1> QED
  BY <1>3, <1>4 DEF WordsOK, N

LEMMA SwappedRest ==
    ASSUME NEW cs, NEW N, NEW x, Swapped(cs, N, x)
    PROVE  /\ Newest(N) = x
           /\ OlderStale(N) <=> OlderStale(cs)
           /\ On(N) <=> x.link # "closed"
           /\ Up(N) <=> x.link = "up"
<1>1. N # <<>>
  BY DEF Swapped
<1> QED
  BY <1>1 DEF Swapped, Newest, OlderStale, On, Up

\* An edit of which the phase goes on, and which is not cancelled, ends no other.
LEMMA EndsGoOn ==
    ASSUME TypeOK, NEW c \in Clients, CancelOK(c), cancelled' = cancelled, edit'[c] = edit[c],
           pc[c] \in {"cancelling", "idle"} => pc'[c] = "idle",
           pc[c] = "unlocking" => pc'[c] = "idle"
    PROVE  EndsStay(c)
  BY DEF EndsStay, CancelOK, Ended

-----------------------------------------------------------------------------
(* The newest connection *)

LEMMA NewestIs ==
    ASSUME NEW c \in Clients
    PROVE  /\ Connected(c) <=> On(conns[c])
           /\ LinkUp(c) <=> Up(conns[c])
           /\ Last(conns[c]) = Newest(conns[c])
  BY DEF Connected, LinkUp, On, Up, Last, Newest

LEMMA NewestTyped ==
    ASSUME TypeOK, NEW c \in Clients, conns[c] # <<>>
    PROVE  /\ Len(conns[c]) \in Nat \ {0}
           /\ Newest(conns[c]) \in Connections
           /\ Newest(conns[c]).requests \in Seq(Requests)
           /\ Newest(conns[c]).replies \in Seq(BOOLEAN)
<1>1. conns[c] \in Seq(Connections)
  BY DEF TypeOK
<1>2. Len(conns[c]) \in Nat \ {0} /\ conns[c][Len(conns[c])] \in Connections
  BY <1>1
<1> QED
  BY <1>2 DEF Newest, Connections

\* What the connections' invariant says of the newest one.
LEMMA NewestOK ==
    ASSUME TypeOK, NEW c \in Clients, ConnsOK(c, conns[c]), On(conns[c])
    PROVE  LET k == Newest(conns[c]) IN
           /\ UnderWay(c, k)
           /\ k.link # "up" => k.replies = <<>>
           /\ k.link = "cut" => "cut" \in races[c]
           /\ k.link \in {"up", "cut"}
           /\ k.stale = FALSE
           /\ Begun(k) => OlderStale(conns[c])
           /\ Up(conns[c]) <=> k.link = "up"
<1>1. conns[c] # <<>>
  BY DEF On
<1>2. Len(conns[c]) \in Nat \ {0} /\ Newest(conns[c]) \in Connections
  BY <1>1, NewestTyped
<1>3. Len(conns[c]) \in 1 .. Len(conns[c]) /\ Newest(conns[c]) = conns[c][Len(conns[c])]
  BY <1>2 DEF Newest
<1>4. Begun(Newest(conns[c])) => OlderStale(conns[c])
  BY <1>2, <1>3 DEF ConnsOK, OlderStale
<1>5. Up(conns[c]) <=> Newest(conns[c]).link = "up"
  BY <1>1 DEF Up, Newest
<1> QED
  BY <1>2, <1>3, <1>4, <1>5 DEF ConnsOK, Connections, On

LEMMA OneReply ==
    ASSUME NEW s \in Seq(BOOLEAN), Len(s) = 1
    PROVE  /\ s = <<Head(s)>>
           /\ Head(s) \in BOOLEAN
           /\ Tail(s) = <<>>
<1>1. s[1] \in BOOLEAN /\ Head(s) = s[1]
  OBVIOUS
<1>2. <<s[1]>> \in Seq(BOOLEAN) /\ Len(<<s[1]>>) = 1 /\ <<s[1]>>[1] = s[1]
  BY <1>1
<1>3. s = <<s[1]>>
  BY <1>2
<1>4. s # <<>>
  BY EmptyIsNotOne, <1>3
<1>5. Tail(s) \in Seq(BOOLEAN) /\ Len(Tail(s)) = Len(s) - 1
  BY <1>4, HeadTailProperties, Zenon
<1>6. Tail(s) = <<>>
  <2>1. PICK t \in Seq(BOOLEAN) : t = Tail(s)
    BY <1>5
  <2>2. Len(t) = 0
    BY <1>5, <2>1
  <2>3. t = <<>>
    BY <2>2, EmptySeq
  <2> QED
    BY <2>1, <2>3
<1> QED
  BY <1>1, <1>3, <1>6

\* An answer has come: it is the only one under way, if its request's kind says so.
After(conn) == [conn EXCEPT !.replies = Tail(@)]

LEMMA Receiving ==
    ASSUME WriteInv, NEW c \in Clients, HasAnswer(c)
    PROVE  LET k == Newest(conns[c]) IN
           /\ Up(conns[c]) /\ On(conns[c]) /\ conns[c] # <<>>
           /\ k.link = "up" /\ k.replies # <<>>
           /\ After(k) \in Connections
           /\ After(k).link = "up" /\ After(k).requests = k.requests /\ After(k).stale = FALSE
           /\ After(k).replies = Tail(k.replies)
           /\ Received(c) = WithLast(c, After(k))
           /\ Swapped(conns[c], Received(c)[c], After(k))
           /\ Answer(c) = Head(k.replies)
           /\ Answered(k) => k.replies = <<Answer(c)>> /\ Answer(c) \in BOOLEAN /\ Tail(k.replies) = <<>>
<1> DEFINE k == Newest(conns[c])
<1>1. TypeOK /\ ConnsOK(c, conns[c])
  BY DEF WriteInv, ClientOK
<1>2. On(conns[c]) /\ k.replies # <<>> /\ Last(conns[c]) = k
  BY NewestIs DEF HasAnswer
<1>3. conns[c] # <<>>
  BY <1>2 DEF On
<1>4. k.link = "up" /\ k.stale = FALSE /\ Up(conns[c])
  BY <1>1, <1>2, NewestOK
<1>5. k \in Connections /\ k.replies \in Seq(BOOLEAN)
  BY <1>1, <1>3, NewestTyped
<1>6. Tail(k.replies) \in Seq(BOOLEAN)
  BY <1>2, <1>5, HeadTailProperties, Zenon
<1>7. /\ After(k) \in Connections
      /\ After(k).link = "up" /\ After(k).requests = k.requests /\ After(k).stale = FALSE
      /\ After(k).replies = Tail(k.replies)
  BY <1>4, <1>5, <1>6 DEF After, Connections
<1>8. Received(c) = WithLast(c, After(k))
  BY <1>2 DEF Received, After
<1>9. Swapped(conns[c], Received(c)[c], After(k))
  BY <1>1, <1>3, <1>7, <1>8, WithLastSwaps
<1>10. Answer(c) = Head(k.replies)
  BY <1>2 DEF Answer
<1>11. Answered(k) => k.replies = <<Answer(c)>> /\ Answer(c) \in BOOLEAN /\ Tail(k.replies) = <<>>
  BY <1>5, <1>10, OneReply DEF Answered
<1> QED
  BY <1>2, <1>3, <1>4, <1>7, <1>8, <1>9, <1>10, <1>11

\* A request is sent.
Sending(conn, request) == [conn EXCEPT !.requests = Append(@, request)]

LEMMA SendingOn ==
    ASSUME WriteInv, NEW c \in Clients, Up(conns[c]), NEW r \in Requests
    PROVE  LET k == Newest(conns[c])
               x == Sending(k, r)
           IN
           /\ On(conns[c]) /\ conns[c] # <<>>
           /\ x \in Connections
           /\ x.link = "up" /\ x.requests = Append(k.requests, r) /\ x.stale = FALSE
           /\ x.replies = k.replies
           /\ Sent(c, r) = WithLast(c, x)
           /\ Swapped(conns[c], Sent(c, r)[c], x)
           /\ k.requests = <<>> => x.requests = <<r>> /\ Len(x.requests) = 1 /\ x.requests[1] = r
<1> DEFINE k == Newest(conns[c])
<1>1. TypeOK /\ ConnsOK(c, conns[c])
  BY DEF WriteInv, ClientOK
<1>2. On(conns[c]) /\ Last(conns[c]) = k
  BY NewestIs DEF On, Up
<1>3. conns[c] # <<>>
  BY <1>2 DEF On
<1>4. k.link = "up" /\ k.stale = FALSE
  BY <1>1, <1>2, NewestOK
<1>5. k \in Connections /\ k.requests \in Seq(Requests)
  BY <1>1, <1>3, NewestTyped
<1>6. Append(k.requests, r) \in Seq(Requests)
  BY <1>5
<1>7. /\ Sending(k, r) \in Connections
      /\ Sending(k, r).link = "up" /\ Sending(k, r).requests = Append(k.requests, r)
      /\ Sending(k, r).stale = FALSE /\ Sending(k, r).replies = k.replies
  BY <1>4, <1>5, <1>6 DEF Sending, Connections
<1>8. Sent(c, r) = WithLast(c, Sending(k, r))
  BY <1>2 DEF Sent, Sending
<1>9. Swapped(conns[c], Sent(c, r)[c], Sending(k, r))
  BY <1>1, <1>3, <1>7, <1>8, WithLastSwaps
<1>10. k.requests = <<>> => Append(k.requests, r) = <<r>> /\ Len(<<r>>) = 1 /\ <<r>>[1] = r
  OBVIOUS
<1> QED
  BY <1>2, <1>3, <1>7, <1>8, <1>9, <1>10

\* recv_message fails.
LEMMA Failing ==
    ASSUME TypeOK, NEW c \in Clients, RecvFails(c)
    PROVE  /\ On(conns[c])
           /\ sigint' \in [Clients -> BOOLEAN] /\ faults' \in Nat
           /\ \A d \in Clients \ {c} : sigint'[d] = sigint[d]
           /\ sigint'[c] \/ (~Up(conns[c]) /\ sigint'[c] = sigint[c])
<1>1. (Connected(c) <=> On(conns[c])) /\ (LinkUp(c) <=> Up(conns[c]))
  BY NewestIs
<1>2. Up(conns[c]) => On(conns[c])
  BY DEF On, Up
<1>3. CASE LinkUp(c) /\ faults > 0 /\ faults' = faults - 1 /\ sigint' = [sigint EXCEPT ![c] = TRUE]
  BY <1>1, <1>2, <1>3 DEF TypeOK
<1>4. CASE Connected(c) /\ ~LinkUp(c) /\ UNCHANGED <<sigint, faults>>
  BY <1>1, <1>4 DEF TypeOK
<1> QED
  BY <1>3, <1>4 DEF RecvFails

-----------------------------------------------------------------------------
(* The client's steps *)

\* What is shown of each step of a client.
Fine(c) == TypeOK' /\ OwnStep(c) /\ ClientOK(c, conns[c])'

LEMMA BeginEditFine ==
    ASSUME WriteInv, NEW c \in Clients, BeginEdit(c)
    PROVE  Fine(c)
<1>1. TypeOK /\ SessionOK /\ ClientOK(c, conns[c]) /\ CancelOK(c) /\ WaitOK(c, conns[c])
  BY DEF WriteInv, ClientOK
<1>2. /\ conns' \in [Clients -> Seq(Connections)]
      /\ \A d \in Clients \ {c} : conns'[d] = conns[d]
      /\ Longer(conns[c], conns'[c], Fresh)
  BY <1>1, OpenedLonger DEF BeginEdit
<1>3. pc[c] = "idle" /\ pc'[c] = "locking" /\ edit'[c] = edit[c] + 1 /\ edit'[c] # 0
      /\ ~On(conns[c])
  BY <1>1 DEF BeginEdit, Goto, TypeOK, WaitOK
<1>4. TypeOK'
  <2>1. /\ pc' = [pc EXCEPT ![c] = "locking"] /\ edit' = [edit EXCEPT ![c] = @ + 1]
        /\ line' = [line EXCEPT ![c] = 0] /\ retries' = [retries EXCEPT ![c] = 0]
        /\ writes' = [writes EXCEPT ![c] = {}] /\ status' = [status EXCEPT ![c] = TRUE]
        /\ sigint' = [sigint EXCEPT ![c] = FALSE]
        /\ UNCHANGED <<lock, temp, file, reported, cancelled, races, faults>>
    BY DEF BeginEdit, Goto, server
  <2>2. 0 \in 0 .. MaxRetries /\ edit[c] + 1 \in Nat
    BY <1>1, BoundsAssumption DEF TypeOK
  <2>3. edit' \in [Clients -> Nat] /\ line' \in [Clients -> Nat] /\ retries' \in [Clients -> 0 .. MaxRetries]
    BY <1>1, <2>1, <2>2 DEF TypeOK
  <2>4. writes' \in [Clients -> SUBSET Words] /\ status' \in [Clients -> BOOLEAN]
        /\ sigint' \in [Clients -> BOOLEAN]
    BY <1>1, <2>1 DEF TypeOK
  <2> QED
    BY <1>1, <1>2, <2>1, <2>3, <2>4 DEF TypeOK
<1>5. OwnStep(c)
  BY <1>1, <1>2 DEF TypeOK, BeginEdit, Goto, OwnStep, Untouched
<1>6. EndsStay(c)
  <2>1. edit[c] \in Nat /\ cancelled' = cancelled /\ cancelled \subseteq Clients \X Nat
    BY <1>1 DEF TypeOK, BeginEdit
  <2>2. CancelOK(c)'
    BY <1>1, <1>3, <2>1 DEF CancelOK
  <2> QED
    BY <1>3, <2>1, <2>2 DEF EndsStay, Ended
<1>7. ClientOK(c, conns[c])'
  BY <1>1, <1>2, <1>3, <1>5, <1>6, OpeningNew DEF OwnStep
<1> QED
  BY <1>4, <1>5, <1>7 DEF Fine

LEMMA LockAnsweredFine ==
    ASSUME WriteInv, NEW c \in Clients, LockAnswered(c)
    PROVE  Fine(c)
<1> DEFINE k == Newest(conns[c])
<1>1. /\ TypeOK /\ SessionOK /\ ClientOK(c, conns[c]) /\ CancelOK(c) /\ WaitOK(c, conns[c])
      /\ ConnsOK(c, conns[c])
  BY DEF WriteInv, ClientOK
<1>2. pc[c] = "locking" /\ HasAnswer(c)
  BY DEF LockAnswered
<1>3. /\ Up(conns[c]) /\ On(conns[c]) /\ conns[c] # <<>> /\ k.link = "up" /\ k.replies # <<>>
      /\ After(k) \in Connections
      /\ After(k).link = "up" /\ After(k).requests = k.requests /\ After(k).stale = FALSE
      /\ After(k).replies = Tail(k.replies)
      /\ Received(c) = WithLast(c, After(k))
      /\ Swapped(conns[c], Received(c)[c], After(k))
  BY <1>2, Receiving
<1>4. Answered(k) /\ OlderStale(conns[c])
  BY <1>1, <1>2, <1>3 DEF WaitOK, Waiting
<1>5. k.replies = <<Answer(c)>> /\ Answer(c) \in BOOLEAN /\ Tail(k.replies) = <<>>
  BY <1>2, <1>4, Receiving
<1>6. UNCHANGED <<edit, line, retries, writes, status, sigint, server, reported, cancelled,
                  races, faults>>
  BY DEF LockAnswered
<1>7. edit[c] # 0
  BY <1>1, <1>2 DEF WaitOK
<1>8. CASE Answer(c)
  <2>1. pc' = [pc EXCEPT ![c] = "prompt"] /\ conns' = Received(c)
    BY <1>8 DEF LockAnswered, Goto
  <2>2. conns' \in [Clients -> Seq(Connections)] /\ \A d \in Clients \ {c} : conns'[d] = conns[d]
    BY <1>1, <1>3, <2>1, WithLastSwaps
  <2>3. TypeOK'
    BY <1>1, <1>6, <2>1, <2>2 DEF TypeOK, server
  <2>4. OwnStep(c)
    BY <1>1, <1>6, <2>1, <2>2 DEF TypeOK, OwnStep, Untouched
  <2>5. pc'[c] = "prompt" /\ Swapped(conns[c], conns'[c], After(k))
    BY <1>1, <1>3, <2>1 DEF TypeOK
  <2>6. EndsStay(c)
    BY <1>1, <1>2, <1>6, EndsGoOn
  <2>7. UnderWay(c, After(k)) /\ (Begun(After(k)) => OlderStale(conns[c]))
    BY <1>3, <1>4 DEF UnderWay, Answered
  <2>8. ConnsOK(c, conns[c])'
    BY <1>1, <1>3, <1>6, <2>5, <2>7, SwappedConns
  <2>9. /\ Newest(conns'[c]) = After(k) /\ OlderStale(conns'[c]) /\ On(conns'[c])
        /\ Quiet(After(k))
    BY <1>3, <1>4, <1>5, <2>5, SwappedRest DEF Quiet, Answered
  <2>10. WaitOK(c, conns[c])'
    BY <1>6, <1>7, <2>5, <2>9 DEF WaitOK, Quiet
  <2>11. ASSUME "late" \notin races'[c] PROVE WordsOK(c, conns[c])'
    <3>1. WordsOK(c, conns[c])
      BY <1>1, <1>6, <2>11 DEF ClientOK
    <3>2. lock = c /\ Added(c) = {}
      BY <1>2, <1>3, <1>5, <1>8, <3>1 DEF WordsOK, GrantOK, Granted
    <3>3. Served(c)
      BY <1>6, ServerSame
    <3>4. lock' = c /\ Added(c)' = {}
      BY <3>2, <3>3 DEF Served
    <3>5. GrantOK(c, conns[c])'
      BY <2>5, <3>4 DEF GrantOK
    <3>6. PICK x : x = After(k)
      OBVIOUS
    <3>7. PendingOK(c, x)'
      BY <1>3, <1>4, <3>6 DEF PendingOK, Only, Answered
    <3>8. Swapped(conns[c], conns'[c], x)
      BY <2>5, <3>6
    <3> QED
      BY <1>1, <1>6, <2>6, <3>1, <3>5, <3>7, <3>8, SwappedWords
  <2> QED
    BY <2>3, <2>4, <2>6, <2>8, <2>10, <2>11 DEF Fine, ClientOK, EndsStay
<1>9. CASE ~Answer(c)
  <2>1. pc' = [pc EXCEPT ![c] = "idle"] /\ conns' = Hung(c)
    BY <1>9 DEF LockAnswered, Goto
  <2>2. /\ conns' \in [Clients -> Seq(Connections)]
        /\ \A d \in Clients \ {c} : conns'[d] = conns[d]
        /\ HungUp(conns[c], conns'[c])
    BY <1>1, <2>1, HungHangsUp
  <2>3. TypeOK'
    BY <1>1, <1>6, <2>1, <2>2 DEF TypeOK, server
  <2>4. OwnStep(c)
    BY <1>1, <1>6, <2>1, <2>2 DEF TypeOK, OwnStep, Untouched
  <2>5. pc'[c] = "idle"
    BY <1>1, <2>1 DEF TypeOK
  <2>6. EndsStay(c)
    BY <1>1, <1>2, <1>6, <2>5, EndsGoOn
  <2>7. ClientOK(c, conns[c])'
    BY <1>1, <1>6, <2>2, <2>5, <2>6, HangingUp
  <2> QED
    BY <2>3, <2>4, <2>7 DEF Fine
<1> QED
  BY <1>8, <1>9

\* A step of the client that leaves its connections as they are.
LEMMA StayingOn ==
    ASSUME TypeOK, SessionOK, NEW c \in Clients, ClientOK(c, conns[c]),
           conns'[c] = conns[c], UNCHANGED server, races[c] \subseteq races'[c], EndsStay(c),
           WaitOK(c, conns[c])', "late" \notin races'[c] => GrantOK(c, conns[c])'
    PROVE  ClientOK(c, conns[c])'
<1>1. ConnsOK(c, conns[c])'
  BY DEF ClientOK, ConnsOK
<1>2. Served(c)
  BY ServerSame
<1>3. ASSUME "late" \notin races'[c] PROVE WordsOK(c, conns[c])'
  <2>1. WordsOK(c, conns[c])
    BY <1>3 DEF ClientOK
  <2>2. ASSUME NEW i \in 1 .. Len(conns'[c]), ~conns'[c][i].stale
        PROVE  PendingOK(c, conns[c][i])'
    <3>1. PICK x : x = conns[c][i]
      OBVIOUS
    <3>2. PendingOK(c, x)
      BY <2>1, <2>2, <3>1 DEF WordsOK
    <3>3. PendingOK(c, x)'
      BY <1>2, <3>2, PendingStays
    <3> QED
      BY <3>1, <3>3 DEF PendingOK
  <2>3. FiledOK(c)'
    BY <1>2, <2>1, FiledStay DEF WordsOK
  <2> QED
    BY <1>3, <2>2, <2>3 DEF WordsOK
<1> QED
  BY <1>1, <1>3 DEF ClientOK, EndsStay

LEMMA LockUnansweredFine ==
    ASSUME WriteInv, NEW c \in Clients, LockUnanswered(c)
    PROVE  Fine(c)
<1>1. TypeOK /\ SessionOK /\ ClientOK(c, conns[c]) /\ CancelOK(c) /\ WaitOK(c, conns[c])
  BY DEF WriteInv, ClientOK
<1>2. pc[c] = "locking" /\ RecvFails(c) /\ pc' = [pc EXCEPT ![c] = "prompt"]
      /\ UNCHANGED <<edit, line, retries, writes, status, conns, server, reported, cancelled, races>>
  BY DEF LockUnanswered, Goto
<1>3. /\ On(conns[c])
      /\ sigint' \in [Clients -> BOOLEAN] /\ faults' \in Nat
      /\ \A d \in Clients \ {c} : sigint'[d] = sigint[d]
      /\ sigint'[c] \/ (~Up(conns[c]) /\ sigint'[c] = sigint[c])
  BY <1>1, <1>2, Failing
<1>4. TypeOK'
  BY <1>1, <1>2, <1>3 DEF TypeOK, server
<1>5. OwnStep(c)
  BY <1>1, <1>2, <1>3 DEF TypeOK, OwnStep, Untouched
<1>6. pc'[c] = "prompt"
  BY <1>1, <1>2 DEF TypeOK
<1>7. EndsStay(c)
  BY <1>1, <1>2, EndsGoOn
<1>8. WaitOK(c, conns[c])'
  BY <1>1, <1>2, <1>3, <1>6 DEF WaitOK, Waiting, Answered
<1>9. GrantOK(c, conns[c])'
  BY <1>2, <1>3, <1>6 DEF GrantOK, Granted
<1>10. ClientOK(c, conns[c])'
  BY <1>1, <1>2, <1>7, <1>8, <1>9, StayingOn
<1> QED
  BY <1>4, <1>5, <1>10 DEF Fine

\* A step of the client that changes its newest connection to x.
LEMMA SwappingClient ==
    ASSUME TypeOK, SessionOK, NEW c \in Clients, ClientOK(c, conns[c]),
           NEW x, Swapped(conns[c], conns'[c], x),
           UNCHANGED server, races[c] \subseteq races'[c], EndsStay(c),
           UnderWay(c, x), x.link # "up" => x.replies = <<>>, x.link = "cut" => "cut" \in races'[c],
           ~x.stale, Begun(x) => OlderStale(conns[c]),
           WaitOK(c, conns[c])',
           "late" \notin races'[c] => GrantOK(c, conns[c])' /\ PendingOK(c, x)'
    PROVE  ClientOK(c, conns[c])'
<1>1. ConnsOK(c, conns[c])'
  BY SwappedConns DEF ClientOK
<1>2. ASSUME "late" \notin races'[c] PROVE WordsOK(c, conns[c])'
  BY <1>2, SwappedWords DEF ClientOK
<1> QED
  BY <1>1, <1>2 DEF ClientOK, EndsStay

\* While an edit goes on, what is in the file is of earlier edits.
LEMMA EarlierFiled ==
    ASSUME NEW c \in Clients, WordsOK(c, conns[c]), pc[c] \notin {"unlocking", "idle"}
    PROVE  \A v \in Filed(c) : v[2] < edit[c]
  BY DEF WordsOK, FiledOK, Ended

\* A WRITE is sent on a connection on which all was answered and the lock granted.
LEMMA WriteRequest ==
    ASSUME TypeOK, NEW c \in Clients, edit[c] # 0, NEW n \in Nat \ {0}
    PROVE  /\ WriteOf(c, n) \in Requests
           /\ WriteOf(c, n).type = "write" /\ WriteOf(c, n).word = Word(c, n)
           /\ Word(c, n) \in Words /\ Word(c, n)[1] = c /\ Word(c, n)[2] = edit[c] /\ Word(c, n)[3] = n
<1>1. edit[c] \in Nat \ {0}
  BY DEF TypeOK
<1>2. Word(c, n) \in Words
  BY <1>1 DEF Word, Words
<1> QED
  BY <1>2 DEF WriteOf, Word, Requests

LEMMA TypeLineFine ==
    ASSUME WriteInv, NEW c \in Clients, TypeLine(c)
    PROVE  Fine(c)
<1> DEFINE k == Newest(conns[c])
<1>1. /\ TypeOK /\ SessionOK /\ ClientOK(c, conns[c]) /\ CancelOK(c) /\ WaitOK(c, conns[c])
      /\ ConnsOK(c, conns[c])
  BY DEF WriteInv, ClientOK
<1>2. /\ pc[c] = "prompt" /\ ~sigint[c] /\ line' = [line EXCEPT ![c] = @ + 1]
      /\ UNCHANGED <<edit, writes, status, sigint, server, reported, cancelled, races, faults>>
  BY DEF TypeLine
<1>3. /\ edit[c] # 0 /\ line[c] + 1 \in Nat \ {0} /\ line'[c] = line[c] + 1
      /\ line' \in [Clients -> Nat]
      /\ edit[c] \in Nat /\ line[c] \in Nat
  BY <1>1, <1>2 DEF WaitOK, TypeOK
<1>4. LinkUp(c) <=> Up(conns[c])
  BY NewestIs
<1>5. CASE LinkUp(c)
  <2>1. /\ pc' = [pc EXCEPT ![c] = "writing"] /\ conns' = Sent(c, WriteOf(c, line[c] + 1))
        /\ retries' = [retries EXCEPT ![c] = 0]
    BY <1>5 DEF TypeLine, Goto
  <2>2. PICK r \in Requests : r = WriteOf(c, line[c] + 1)
    BY <1>1, <1>3, WriteRequest
  <2>3. r.type = "write" /\ r.word = Word(c, line[c] + 1) /\ r.word \in Words
        /\ r.word[1] = c /\ r.word[2] = edit[c] /\ r.word[3] = line[c] + 1
    BY <1>1, <1>3, <2>2, WriteRequest
  <2>4. Quiet(k) /\ OlderStale(conns[c])
    BY <1>1, <1>2, <1>4, <1>5 DEF WaitOK
  <2>5. PICK x : x = Sending(k, r)
    OBVIOUS
  <2>6. /\ On(conns[c]) /\ conns[c] # <<>> /\ x \in Connections
        /\ x.link = "up" /\ x.stale = FALSE /\ x.replies = k.replies
        /\ Sent(c, r) = WithLast(c, x)
        /\ Swapped(conns[c], Sent(c, r)[c], x)
        /\ k.requests = <<>> => x.requests = <<r>> /\ Len(x.requests) = 1 /\ x.requests[1] = r
    BY <1>4, <1>5, <2>5, SendingOn
  <2>7. x.replies = <<>> /\ Len(x.requests) = 1 /\ x.requests[1] = r
    BY <2>4, <2>6 DEF Quiet
  <2>8. Only(x, "write") /\ TheWord(x) = r.word /\ ~Only(x, "unlock")
    BY <2>3, <2>7 DEF Only, TheWord
  <2>9. conns' \in [Clients -> Seq(Connections)] /\ \A d \in Clients \ {c} : conns'[d] = conns[d]
    BY <1>1, <2>1, <2>2, <2>6, WithLastSwaps
  <2>10. TypeOK'
    <3>1. 0 \in 0 .. MaxRetries
      BY BoundsAssumption
    <3>2. retries' \in [Clients -> 0 .. MaxRetries]
      BY <1>1, <2>1, <3>1 DEF TypeOK
    <3> QED
      BY <1>1, <1>2, <1>3, <2>1, <2>9, <3>2 DEF TypeOK, server
  <2>11. OwnStep(c)
    BY <1>1, <1>2, <2>1, <2>9 DEF TypeOK, OwnStep, Untouched
  <2>12. pc'[c] = "writing" /\ retries'[c] = 0 /\ Swapped(conns[c], conns'[c], x)
    BY <1>1, <2>1, <2>2, <2>6 DEF TypeOK
  <2>13. EndsStay(c)
    BY <1>1, <1>2, EndsGoOn
  <2>14. UnderWay(c, x)
    BY <2>3, <2>8 DEF UnderWay
  <2>15. /\ Newest(conns'[c]) = x /\ OlderStale(conns'[c]) /\ On(conns'[c])
    BY <2>4, <2>6, <2>12, SwappedRest
  <2>16. WaitOK(c, conns[c])'
    <3>1. Word(c, line[c])' = r.word
      BY <1>2, <1>3, <2>3 DEF Word
    <3>2. retries'[c] < MaxRetries /\ line'[c] # 0 /\ edit'[c] # 0
      BY <1>2, <1>3, <2>12, BoundsAssumption
    <3> QED
      BY <2>7, <2>8, <2>12, <2>15, <3>1, <3>2 DEF WaitOK, Waiting
  <2>17. ASSUME "late" \notin races'[c] PROVE GrantOK(c, conns[c])' /\ PendingOK(c, x)'
    <3>1. WordsOK(c, conns[c])
      BY <1>1, <1>2, <2>17 DEF ClientOK
    <3>2. lock = c /\ \A w \in Added(c) : w[2] = edit[c] /\ w[3] <= line[c] 
      BY <1>2, <1>4, <1>5, <3>1 DEF WordsOK, GrantOK, Granted
    <3>3. lock' = c /\ Added(c)' = Added(c) /\ Filed(c)' = Filed(c)
      BY <1>2, <3>2, ServerSame DEF Served
    <3>4. \A w \in Added(c) : w[3] \in Nat
      BY <1>1, WordsTyped DEF Words
    <3>5. \A w \in Added(c) : w[3] <= line[c] + 1 /\ w[3] < line[c] + 1
      BY <1>3, <3>2, <3>4
    <3>6. GrantOK(c, conns[c])'
      BY <1>2, <1>3, <2>7, <2>12, <2>15, <3>2, <3>3, <3>5, EmptyIsNotOne DEF GrantOK
    <3>7. \A v \in Filed(c) : v[2] < edit[c] /\ v[2] \in Nat
      BY <1>1, <1>2, <3>1, EarlierFiled, WordsTyped DEF Words
    <3>8. PendingOK(c, x)'
      BY <1>3, <2>3, <2>8, <3>2, <3>3, <3>5, <3>7 DEF PendingOK
    <3> QED
      BY <3>6, <3>8
  <2>18. ClientOK(c, conns[c])'
    BY <1>1, <1>2, <2>4, <2>6, <2>12, <2>13, <2>14, <2>16, <2>17, SwappingClient
  <2> QED
    BY <2>10, <2>11, <2>18 DEF Fine
<1>6. CASE ~LinkUp(c)
  <2>1. /\ pc' = [pc EXCEPT ![c] = "reconnect"] /\ conns' = Hung(c)
        /\ retries' = [retries EXCEPT ![c] = 1]
    BY <1>6 DEF TypeLine, Goto
  <2>2. /\ conns' \in [Clients -> Seq(Connections)]
        /\ \A d \in Clients \ {c} : conns'[d] = conns[d]
        /\ HungUp(conns[c], conns'[c])
    BY <1>1, <2>1, HungHangsUp
  <2>3. TypeOK'
    <3>1. 1 \in 0 .. MaxRetries
      BY BoundsAssumption
    <3>2. retries' \in [Clients -> 0 .. MaxRetries]
      BY <1>1, <2>1, <3>1 DEF TypeOK
    <3> QED
      BY <1>1, <1>2, <1>3, <2>1, <2>2, <3>2 DEF TypeOK, server
  <2>4. OwnStep(c)
    BY <1>1, <1>2, <2>1, <2>2 DEF TypeOK, OwnStep, Untouched
  <2>5. pc'[c] = "reconnect" /\ line'[c] # 0 /\ edit'[c] # 0
    BY <1>1, <1>2, <1>3, <2>1 DEF TypeOK
  <2>6. EndsStay(c)
    BY <1>1, <1>2, <2>5, EndsGoOn
  <2>7. ClientOK(c, conns[c])'
    BY <1>1, <1>2, <2>2, <2>5, <2>6, HangingUp
  <2> QED
    BY <2>3, <2>4, <2>7 DEF Fine
<1> QED
  BY <1>5, <1>6

LEMMA WriteAnsweredFine ==
    ASSUME WriteInv, NEW c \in Clients, WriteAnswered(c)
    PROVE  Fine(c)
<1> DEFINE k == Newest(conns[c])
<1>1. /\ TypeOK /\ SessionOK /\ ClientOK(c, conns[c]) /\ CancelOK(c) /\ WaitOK(c, conns[c])
      /\ ConnsOK(c, conns[c])
  BY DEF WriteInv, ClientOK
<1>2. /\ pc[c] = "writing" /\ HasAnswer(c) /\ conns' = Received(c)
      /\ pc' = [pc EXCEPT ![c] = IF ~Answer(c) /\ retries[c] = 0 THEN "closing" ELSE "prompt"]
      /\ UNCHANGED <<edit, line, retries, sigint, server, reported, cancelled, races, faults>>
  BY DEF WriteAnswered, Goto
<1>3. PICK x : x = After(k)
  OBVIOUS
<1>4. /\ Up(conns[c]) /\ On(conns[c]) /\ conns[c] # <<>> /\ k.link = "up" /\ k.replies # <<>>
      /\ x \in Connections
      /\ x.link = "up" /\ x.requests = k.requests /\ x.stale = FALSE
      /\ x.replies = Tail(k.replies)
      /\ Received(c) = WithLast(c, x)
      /\ Swapped(conns[c], Received(c)[c], x)
  BY <1>2, <1>3, Receiving
<1>5. Answered(k) /\ OlderStale(conns[c])
  BY <1>1, <1>2, <1>4 DEF WaitOK, Waiting
<1>6. Quiet(x)
  BY <1>2, <1>4, <1>5, Receiving DEF Quiet, Answered
<1>7. /\ edit[c] # 0 /\ line[c] \in Nat \ {0}
  BY <1>1, <1>2 DEF WaitOK, TypeOK
<1>8. /\ writes' \in [Clients -> SUBSET Words] /\ status' \in [Clients -> BOOLEAN]
      /\ \A d \in Clients \ {c} : writes'[d] = writes[d] /\ status'[d] = status[d]
  <2>1. Word(c, line[c]) \in Words
    BY <1>1, <1>7, WriteRequest
  <2>2. CASE Answer(c)
    <3>1. writes' = [writes EXCEPT ![c] = @ \cup {Word(c, line[c])}] /\ status' = status
      BY <2>2 DEF WriteAnswered
    <3> QED
      BY <1>1, <2>1, <3>1 DEF TypeOK
  <2>3. CASE ~Answer(c)
    <3>1. writes' = writes /\ status' = [status EXCEPT ![c] = FALSE]
      BY <2>3 DEF WriteAnswered
    <3> QED
      BY <1>1, <3>1 DEF TypeOK
  <2> QED
    BY <2>2, <2>3
<1>9. conns' \in [Clients -> Seq(Connections)] /\ \A d \in Clients \ {c} : conns'[d] = conns[d]
  BY <1>1, <1>2, <1>4, WithLastSwaps
<1>10. pc'[c] \in {"closing", "prompt"} /\ \A d \in Clients \ {c} : pc'[d] = pc[d]
  BY <1>1, <1>2 DEF TypeOK
<1>11. TypeOK'
  BY <1>1, <1>2, <1>8, <1>9 DEF TypeOK, server
<1>12. OwnStep(c)
  BY <1>1, <1>2, <1>8, <1>9, <1>10 DEF OwnStep, Untouched
<1>13. EndsStay(c)
  BY <1>1, <1>2, <1>10, EndsGoOn
<1>14. Swapped(conns[c], conns'[c], x)
  BY <1>2, <1>4
<1>15. UnderWay(c, x) /\ ~Begun(x) /\ ~Only(x, "write") /\ ~Only(x, "unlock")
  BY <1>6 DEF UnderWay, Quiet, Begun, Only
<1>16. Newest(conns'[c]) = x /\ OlderStale(conns'[c]) /\ On(conns'[c])
  BY <1>4, <1>5, <1>14, SwappedRest
<1>17. WaitOK(c, conns[c])'
  BY <1>2, <1>6, <1>7, <1>10, <1>16 DEF WaitOK, Quiet
<1>18. ASSUME "late" \notin races'[c] PROVE GrantOK(c, conns[c])' /\ PendingOK(c, x)'
  <2>1. WordsOK(c, conns[c])
    BY <1>1, <1>2, <1>18 DEF ClientOK
  <2>2. lock = c /\ \A w \in Added(c) : w[2] = edit[c] /\ w[3] <= line[c]
    BY <1>2, <1>4, <2>1 DEF WordsOK, GrantOK, Granted
  <2>3. lock' = c /\ Added(c)' = Added(c)
    BY <1>2, <2>2, ServerSame DEF Served
  <2>4. GrantOK(c, conns[c])'
    BY <1>2, <1>10, <2>2, <2>3 DEF GrantOK
  <2>5. PendingOK(c, x)'
    BY <1>15 DEF PendingOK
  <2> QED
    BY <2>4, <2>5
<1>19. ClientOK(c, conns[c])'
  BY <1>1, <1>2, <1>4, <1>5, <1>13, <1>14, <1>15, <1>17, <1>18, SwappingClient
<1> QED
  BY <1>11, <1>12, <1>19 DEF Fine

LEMMA WriteUnansweredFine ==
    ASSUME WriteInv, NEW c \in Clients, WriteUnanswered(c)
    PROVE  Fine(c)
<1>1. /\ TypeOK /\ SessionOK /\ ClientOK(c, conns[c]) /\ CancelOK(c) /\ WaitOK(c, conns[c])
      /\ ConnsOK(c, conns[c])
  BY DEF WriteInv, ClientOK
<1>2. /\ pc[c] = "writing" /\ RecvFails(c) /\ conns' = Hung(c) /\ pc' = [pc EXCEPT ![c] = "reconnect"]
      /\ retries' = [retries EXCEPT ![c] = @ + 1]
      /\ UNCHANGED <<edit, line, writes, status, server, reported, cancelled, races>>
  BY DEF WriteUnanswered, Goto
<1>3. /\ sigint' \in [Clients -> BOOLEAN] /\ faults' \in Nat
      /\ \A d \in Clients \ {c} : sigint'[d] = sigint[d]
  BY <1>1, <1>2, Failing
<1>4. /\ conns' \in [Clients -> Seq(Connections)]
      /\ \A d \in Clients \ {c} : conns'[d] = conns[d]
      /\ HungUp(conns[c], conns'[c])
  BY <1>1, <1>2, HungHangsUp
<1>5. retries[c] < MaxRetries /\ line[c] # 0 /\ edit[c] # 0
  BY <1>1, <1>2 DEF WaitOK
<1>6. retries' \in [Clients -> 0 .. MaxRetries]
  <2>1. retries[c] + 1 \in 0 .. MaxRetries
    <3>1. retries[c] \in 0 .. MaxRetries
      BY <1>1 DEF TypeOK
    <3> QED
      BY <1>5, <3>1, BoundsAssumption
  <2> QED
    BY <1>1, <1>2, <2>1 DEF TypeOK
<1>7. TypeOK'
  BY <1>1, <1>2, <1>3, <1>4, <1>6 DEF TypeOK, server
<1>8. OwnStep(c)
  BY <1>1, <1>2, <1>3, <1>4 DEF TypeOK, OwnStep, Untouched
<1>9. pc'[c] = "reconnect" /\ line'[c] # 0 /\ edit'[c] # 0
  BY <1>1, <1>2, <1>5 DEF TypeOK
<1>10. EndsStay(c)
  BY <1>1, <1>2, EndsGoOn
<1>11. ClientOK(c, conns[c])'
  BY <1>1, <1>2, <1>4, <1>9, <1>10, HangingUp
<1> QED
  BY <1>7, <1>8, <1>11 DEF Fine

LEMMA ReconnectFine ==
    ASSUME WriteInv, NEW c \in Clients, Reconnect(c)
    PROVE  Fine(c)
<1>1. TypeOK /\ SessionOK /\ ClientOK(c, conns[c]) /\ CancelOK(c) /\ WaitOK(c, conns[c])
  BY DEF WriteInv, ClientOK
<1>2. /\ pc[c] = "reconnect" /\ conns' = Opened(c, Request("lock"))
      /\ pc' = [pc EXCEPT ![c] = "relocking"]
      /\ UNCHANGED <<edit, line, retries, writes, status, sigint, server, reported, cancelled,
                     races, faults>>
  BY DEF Reconnect, Goto
<1>3. /\ conns' \in [Clients -> Seq(Connections)]
      /\ \A d \in Clients \ {c} : conns'[d] = conns[d]
      /\ Longer(conns[c], conns'[c], Fresh)
  BY <1>1, <1>2, OpenedLonger
<1>4. pc'[c] = "relocking" /\ ~On(conns[c]) /\ line'[c] # 0 /\ edit'[c] # 0
  BY <1>1, <1>2 DEF TypeOK, WaitOK
<1>5. TypeOK'
  BY <1>1, <1>2, <1>3 DEF TypeOK, server
<1>6. OwnStep(c)
  BY <1>1, <1>2, <1>3 DEF TypeOK, OwnStep, Untouched
<1>7. EndsStay(c)
  BY <1>1, <1>2, EndsGoOn
<1>8. ClientOK(c, conns[c])'
  BY <1>1, <1>2, <1>3, <1>4, <1>7, OpeningNew
<1> QED
  BY <1>5, <1>6, <1>8 DEF Fine

\* What an attempt that failed changes.
LEMMA AttemptIs ==
    ASSUME TypeOK, NEW c \in Clients, AttemptFailed(c)
    PROVE  /\ retries' \in [Clients -> 0 .. MaxRetries] /\ status' \in [Clients -> BOOLEAN]
           /\ pc' \in [Clients -> {"idle", "locking", "prompt", "writing", "reconnect", "relocking",
                          "closing", "unlocking", "cancelling"}]
           /\ \A d \in Clients \ {c} : pc'[d] = pc[d] /\ retries'[d] = retries[d] /\ status'[d] = status[d]
           /\ pc'[c] = "reconnect" \/ (pc'[c] = "closing" /\ ~status'[c])
<1>1. CASE retries[c] < MaxRetries
  <2>1. /\ retries' = [retries EXCEPT ![c] = @ + 1] /\ pc' = [pc EXCEPT ![c] = "reconnect"]
        /\ status' = status
    BY <1>1 DEF AttemptFailed, Goto
  <2>2. retries[c] + 1 \in 0 .. MaxRetries
    BY <1>1, BoundsAssumption DEF TypeOK
  <2> QED
    BY <2>1, <2>2 DEF TypeOK
<1>2. CASE ~(retries[c] < MaxRetries)
  <2>1. /\ status' = [status EXCEPT ![c] = FALSE] /\ pc' = [pc EXCEPT ![c] = "closing"]
        /\ retries' = retries
    BY <1>2 DEF AttemptFailed, Goto
  <2> QED
    BY <2>1 DEF TypeOK
<1> QED
  BY <1>1, <1>2

LEMMA NoReconnectionFine ==
    ASSUME WriteInv, NEW c \in Clients, NoReconnection(c)
    PROVE  Fine(c)
<1>1. TypeOK /\ SessionOK /\ ClientOK(c, conns[c]) /\ CancelOK(c) /\ WaitOK(c, conns[c])
  BY DEF WriteInv, ClientOK
<1>2. /\ pc[c] = "reconnect" /\ AttemptFailed(c)
      /\ UNCHANGED <<edit, line, writes, sigint, conns, server, reported, cancelled, races, faults>>
  BY DEF NoReconnection
<1>3. /\ retries' \in [Clients -> 0 .. MaxRetries] /\ status' \in [Clients -> BOOLEAN]
      /\ pc' \in [Clients -> {"idle", "locking", "prompt", "writing", "reconnect", "relocking",
                          "closing", "unlocking", "cancelling"}]
      /\ \A d \in Clients \ {c} : pc'[d] = pc[d] /\ retries'[d] = retries[d] /\ status'[d] = status[d]
      /\ pc'[c] \in {"reconnect", "closing"}
  BY <1>1, <1>2, AttemptIs
<1>4. ~On(conns[c]) /\ ~Up(conns[c]) /\ line[c] # 0 /\ edit[c] # 0
  BY <1>1, <1>2 DEF WaitOK, On, Up
<1>5. TypeOK'
  BY <1>1, <1>2, <1>3 DEF TypeOK, server
<1>6. OwnStep(c)
  BY <1>1, <1>2, <1>3 DEF OwnStep, Untouched
<1>7. EndsStay(c)
  BY <1>1, <1>2, EndsGoOn
<1>8. WaitOK(c, conns[c])'
  BY <1>2, <1>3, <1>4 DEF WaitOK
<1>9. GrantOK(c, conns[c])'
  BY <1>2, <1>3, <1>4 DEF GrantOK, Granted
<1>10. ClientOK(c, conns[c])'
  BY <1>1, <1>2, <1>7, <1>8, <1>9, StayingOn
<1> QED
  BY <1>5, <1>6, <1>10 DEF Fine

LEMMA LockRegainedFine ==
    ASSUME WriteInv, NEW c \in Clients, LockRegained(c)
    PROVE  Fine(c)
<1> DEFINE k == Newest(conns[c])
<1>1. /\ TypeOK /\ SessionOK /\ ClientOK(c, conns[c]) /\ CancelOK(c) /\ WaitOK(c, conns[c])
      /\ ConnsOK(c, conns[c])
  BY DEF WriteInv, ClientOK
<1>2. /\ pc[c] = "relocking" /\ HasAnswer(c) /\ Answer(c)
      /\ UNCHANGED <<edit, line, retries, writes, sigint, server, reported, cancelled, races, faults>>
  BY DEF LockRegained
<1>3. PICK y : y = After(k)
  OBVIOUS
<1>4. /\ Up(conns[c]) /\ On(conns[c]) /\ conns[c] # <<>> /\ k.link = "up" /\ k.replies # <<>>
      /\ y \in Connections
      /\ y.link = "up" /\ y.requests = k.requests /\ y.stale = FALSE
      /\ y.replies = Tail(k.replies)
      /\ Received(c) = WithLast(c, y)
      /\ Swapped(conns[c], Received(c)[c], y)
  BY <1>2, <1>3, Receiving
<1>5. Answered(k) /\ OlderStale(conns[c])
  BY <1>1, <1>2, <1>4 DEF WaitOK, Waiting
<1>6. Quiet(y) /\ k.requests = <<>> /\ Tail(k.replies) = <<>> /\ k.replies = <<TRUE>>
  BY <1>2, <1>4, <1>5, Receiving DEF Quiet, Answered
<1>7. edit[c] # 0 /\ line[c] \in Nat \ {0} /\ edit[c] \in Nat
  BY <1>1, <1>2 DEF WaitOK, TypeOK
<1>8. ASSUME "late" \notin races[c]
      PROVE  lock = c /\ Added(c) = {} /\ \A v \in Filed(c) : v[2] < edit[c] /\ v[2] \in Nat
  <2>1. WordsOK(c, conns[c])
    BY <1>1, <1>8 DEF ClientOK
  <2>2. lock = c /\ Added(c) = {}
    BY <1>2, <1>4, <1>6, <2>1 DEF WordsOK, GrantOK, Granted
  <2> QED
    BY <1>1, <1>2, <2>1, <2>2, EarlierFiled, WordsTyped DEF Words
<1>9. CASE retries[c] < MaxRetries
  <2>1. /\ pc' = [pc EXCEPT ![c] = "writing"] /\ status' = status
        /\ conns' = WithLast(c, [Last(conns[c]) EXCEPT
                            !.replies = Tail(@),
                            !.requests = Append(@, WriteOf(c, line[c]))])
    BY <1>9 DEF LockRegained, Goto
  <2>2. PICK r \in Requests : r = WriteOf(c, line[c])
    BY <1>1, <1>7, WriteRequest
  <2>3. r.type = "write" /\ r.word = Word(c, line[c]) /\ r.word \in Words
        /\ r.word[1] = c /\ r.word[2] = edit[c] /\ r.word[3] = line[c]
    BY <1>1, <1>7, <2>2, WriteRequest
  <2>4. PICK x : x = [k EXCEPT !.replies = Tail(@), !.requests = Append(@, r)]
    OBVIOUS
  <2>5. /\ x \in Connections
        /\ x.link = "up" /\ x.stale = FALSE /\ x.replies = <<>>
        /\ x.requests = <<r>>
    <3>1. k \in Connections /\ k.stale = FALSE
      BY <1>1, <1>4, NewestTyped, NewestOK
    <3>2. Append(<<>>, r) = <<r>> /\ <<r>> \in Seq(Requests) /\ <<>> \in Seq(BOOLEAN)
      OBVIOUS
    <3> QED
      BY <1>4, <1>6, <2>4, <3>1, <3>2 DEF Connections
  <2>6. Len(x.requests) = 1 /\ x.requests[1] = r
    BY <2>5
  <2>7. conns' = WithLast(c, x)
    BY <2>1, <2>2, <2>4, NewestIs
  <2>8. /\ conns' \in [Clients -> Seq(Connections)] /\ \A d \in Clients \ {c} : conns'[d] = conns[d]
        /\ Swapped(conns[c], conns'[c], x)
    BY <1>1, <1>4, <2>5, <2>7, WithLastSwaps
  <2>9. Only(x, "write") /\ TheWord(x) = r.word /\ ~Only(x, "unlock")
    BY <2>3, <2>6 DEF Only, TheWord
  <2>10. TypeOK'
    BY <1>1, <1>2, <2>1, <2>8 DEF TypeOK, server
  <2>11. OwnStep(c)
    BY <1>1, <1>2, <2>1, <2>8 DEF TypeOK, OwnStep, Untouched
  <2>12. pc'[c] = "writing"
    BY <1>1, <2>1 DEF TypeOK
  <2>13. EndsStay(c)
    BY <1>1, <1>2, EndsGoOn
  <2>14. UnderWay(c, x)
    BY <2>3, <2>9 DEF UnderWay
  <2>15. /\ Newest(conns'[c]) = x /\ OlderStale(conns'[c]) /\ On(conns'[c])
    BY <1>5, <2>5, <2>8, SwappedRest
  <2>16. WaitOK(c, conns[c])'
    <3>1. Word(c, line[c])' = r.word
      BY <1>2, <2>3 DEF Word
    <3>2. retries'[c] < MaxRetries /\ line'[c] # 0 /\ edit'[c] # 0
      BY <1>2, <1>7, <1>9
    <3> QED
      BY <2>5, <2>9, <2>12, <2>15, <3>1, <3>2 DEF WaitOK, Waiting
  <2>17. ASSUME "late" \notin races'[c] PROVE GrantOK(c, conns[c])' /\ PendingOK(c, x)'
    <3>1. lock = c /\ Added(c) = {} /\ \A v \in Filed(c) : v[2] < edit[c] /\ v[2] \in Nat
      BY <1>2, <1>8, <2>17
    <3>2. lock' = c /\ Added(c)' = {} /\ Filed(c)' = Filed(c)
      BY <1>2, <3>1, ServerSame DEF Served
    <3>3. GrantOK(c, conns[c])'
      BY <2>5, <2>12, <2>15, <3>2, EmptyIsNotOne DEF GrantOK
    <3>4. PendingOK(c, x)'
      BY <1>7, <2>3, <2>9, <3>1, <3>2 DEF PendingOK
    <3> QED
      BY <3>3, <3>4
  <2>18. ClientOK(c, conns[c])'
    BY <1>1, <1>2, <1>5, <2>5, <2>8, <2>13, <2>14, <2>16, <2>17, SwappingClient
  <2> QED
    BY <2>10, <2>11, <2>18 DEF Fine
<1>10. CASE ~(retries[c] < MaxRetries)
  <2>1. /\ pc' = [pc EXCEPT ![c] = "closing"] /\ status' = [status EXCEPT ![c] = FALSE]
        /\ conns' = WithLast(c, y)
    BY <1>4, <1>10 DEF LockRegained, Goto
  <2>2. /\ conns' \in [Clients -> Seq(Connections)] /\ \A d \in Clients \ {c} : conns'[d] = conns[d]
        /\ Swapped(conns[c], conns'[c], y)
    BY <1>1, <1>4, <2>1, WithLastSwaps
  <2>3. TypeOK'
    BY <1>1, <1>2, <2>1, <2>2 DEF TypeOK, server
  <2>4. OwnStep(c)
    BY <1>1, <1>2, <2>1, <2>2 DEF TypeOK, OwnStep, Untouched
  <2>5. pc'[c] = "closing"
    BY <1>1, <2>1 DEF TypeOK
  <2>6. EndsStay(c)
    BY <1>1, <1>2, EndsGoOn
  <2>7. UnderWay(c, y) /\ ~Begun(y) /\ ~Only(y, "write") /\ ~Only(y, "unlock")
    BY <1>6 DEF UnderWay, Quiet, Begun, Only
  <2>8. Newest(conns'[c]) = y /\ OlderStale(conns'[c]) /\ On(conns'[c])
    BY <1>4, <1>5, <2>2, SwappedRest
  <2>9. WaitOK(c, conns[c])'
    BY <1>2, <1>6, <1>7, <2>5, <2>8 DEF WaitOK
  <2>10. ASSUME "late" \notin races'[c] PROVE GrantOK(c, conns[c])' /\ PendingOK(c, y)'
    <3>1. lock' = c /\ Added(c)' = {}
      BY <1>2, <1>8, <2>10, ServerSame DEF Served
    <3> QED
      BY <2>5, <2>7, <3>1 DEF GrantOK, PendingOK
  <2>11. ClientOK(c, conns[c])'
    BY <1>1, <1>2, <1>4, <2>2, <2>6, <2>7, <2>9, <2>10, SwappingClient
  <2> QED
    BY <2>3, <2>4, <2>11 DEF Fine
<1> QED
  BY <1>9, <1>10

LEMMA LockNotRegainedFine ==
    ASSUME WriteInv, NEW c \in Clients, LockNotRegained(c)
    PROVE  Fine(c)
<1>1. /\ TypeOK /\ SessionOK /\ ClientOK(c, conns[c]) /\ CancelOK(c) /\ WaitOK(c, conns[c])
      /\ ConnsOK(c, conns[c])
  BY DEF WriteInv, ClientOK
<1>2. /\ pc[c] = "relocking" /\ conns' = Hung(c) /\ AttemptFailed(c)
      /\ UNCHANGED <<edit, line, writes, server, reported, cancelled, races>>
  BY DEF LockNotRegained
<1>3. /\ sigint' \in [Clients -> BOOLEAN] /\ faults' \in Nat
      /\ \A d \in Clients \ {c} : sigint'[d] = sigint[d]
  <2>1. CASE RecvFails(c)
    BY <1>1, <2>1, Failing
  <2>2. CASE UNCHANGED <<sigint, faults>>
    BY <1>1, <2>2 DEF TypeOK
  <2> QED
    BY <2>1, <2>2 DEF LockNotRegained
<1>4. /\ conns' \in [Clients -> Seq(Connections)]
      /\ \A d \in Clients \ {c} : conns'[d] = conns[d]
      /\ HungUp(conns[c], conns'[c])
  BY <1>1, <1>2, HungHangsUp
<1>5. /\ retries' \in [Clients -> 0 .. MaxRetries] /\ status' \in [Clients -> BOOLEAN]
      /\ pc' \in [Clients -> {"idle", "locking", "prompt", "writing", "reconnect", "relocking",
                          "closing", "unlocking", "cancelling"}]
      /\ \A d \in Clients \ {c} : pc'[d] = pc[d] /\ retries'[d] = retries[d] /\ status'[d] = status[d]
      /\ pc'[c] \in {"reconnect", "closing"}
  BY <1>1, <1>2, AttemptIs
<1>6. TypeOK'
  BY <1>1, <1>2, <1>3, <1>4, <1>5 DEF TypeOK, server
<1>7. OwnStep(c)
  BY <1>1, <1>2, <1>3, <1>4, <1>5 DEF OwnStep, Untouched
<1>8. line'[c] # 0 /\ edit'[c] # 0
  BY <1>1, <1>2 DEF WaitOK
<1>9. EndsStay(c)
  BY <1>1, <1>2, EndsGoOn
<1>10. ClientOK(c, conns[c])'
  BY <1>1, <1>2, <1>4, <1>5, <1>8, <1>9, HangingUp
<1> QED
  BY <1>6, <1>7, <1>10 DEF Fine

LEMMA EndLinesFine ==
    ASSUME WriteInv, NEW c \in Clients, EndLines(c)
    PROVE  Fine(c)
<1>1. TypeOK /\ SessionOK /\ ClientOK(c, conns[c]) /\ CancelOK(c) /\ WaitOK(c, conns[c])
  BY DEF WriteInv, ClientOK
<1>2. /\ pc[c] = "prompt" /\ ~sigint[c] /\ pc' = [pc EXCEPT ![c] = "closing"]
      /\ UNCHANGED <<edit, line, retries, writes, status, sigint, conns, server, reported,
                     cancelled, races, faults>>
  BY DEF EndLines, Goto
<1>3. TypeOK'
  BY <1>1, <1>2 DEF TypeOK, server
<1>4. OwnStep(c)
  BY <1>1, <1>2 DEF TypeOK, OwnStep, Untouched
<1>5. pc'[c] = "closing"
  BY <1>1, <1>2 DEF TypeOK
<1>6. EndsStay(c)
  BY <1>1, <1>2, EndsGoOn
<1>7. WaitOK(c, conns[c])'
  BY <1>1, <1>2, <1>5 DEF WaitOK
<1>8. ASSUME "late" \notin races'[c] PROVE GrantOK(c, conns[c])'
  <2>1. WordsOK(c, conns[c])
    BY <1>1, <1>2, <1>8 DEF ClientOK
  <2>2. Up(conns[c]) => lock = c /\ \A w \in Added(c) : w[2] = edit[c] /\ w[3] <= line[c]
    BY <1>2, <2>1 DEF WordsOK, GrantOK, Granted
  <2>3. Added(c)' = Added(c) /\ (lock' = c <=> lock = c)
    BY <1>2, ServerSame DEF Served
  <2> QED
    BY <1>2, <1>5, <2>2, <2>3 DEF GrantOK, Granted
<1>9. ClientOK(c, conns[c])'
  BY <1>1, <1>2, <1>6, <1>7, <1>8, StayingOn
<1> QED
  BY <1>3, <1>4, <1>9 DEF Fine

\* A client that hangs up and is done with its edit.
LEMMA LeavingFine ==
    ASSUME WriteInv, NEW c \in Clients, conns' = Hung(c), pc' = [pc EXCEPT ![c] = "idle"],
           UNCHANGED <<edit, line, retries, writes, status, server, cancelled>>,
           sigint' \in [Clients -> BOOLEAN], \A d \in Clients \ {c} : sigint'[d] = sigint[d],
           faults' \in Nat,
           reported' \in [Clients -> SUBSET Words],
           \A d \in Clients \ {c} : reported'[d] = reported[d],
           races' \in [Clients -> SUBSET {"cut", "late", "gaveup", "vanished"}],
           \A d \in Clients \ {c} : races'[d] = races[d],
           races[c] \subseteq races'[c]
    PROVE  Fine(c)
<1>1. /\ TypeOK /\ SessionOK /\ ClientOK(c, conns[c]) /\ CancelOK(c)
      /\ ConnsOK(c, conns[c])
  BY DEF WriteInv, ClientOK
<1>2. /\ conns' \in [Clients -> Seq(Connections)]
      /\ \A d \in Clients \ {c} : conns'[d] = conns[d]
      /\ HungUp(conns[c], conns'[c])
  BY <1>1, HungHangsUp
<1>3. TypeOK'
  BY <1>1, <1>2 DEF TypeOK, server
<1>4. OwnStep(c)
  BY <1>1, <1>2 DEF TypeOK, OwnStep, Untouched
<1>5. pc'[c] = "idle"
  BY <1>1 DEF TypeOK
<1>6. EndsStay(c)
  BY <1>1, <1>5, EndsGoOn
<1>7. ClientOK(c, conns[c])'
  BY <1>1, <1>2, <1>5, <1>6, HangingUp
<1> QED
  BY <1>3, <1>4, <1>7 DEF Fine

LEMMA NoteIs ==
    ASSUME TypeOK, NEW c \in Clients, NEW kinds \in SUBSET {"cut", "late", "gaveup", "vanished"},
           Note(c, kinds)
    PROVE  /\ races' \in [Clients -> SUBSET {"cut", "late", "gaveup", "vanished"}]
           /\ \A d \in Clients \ {c} : races'[d] = races[d]
           /\ races'[c] = races[c] \cup kinds
  BY DEF TypeOK, Note

LEMMA ReportIs ==
    ASSUME TypeOK, NEW c \in Clients, Report(c)
    PROVE  /\ pc' = [pc EXCEPT ![c] = "idle"]
           /\ reported' \in [Clients -> SUBSET Words]
           /\ \A d \in Clients \ {c} : reported'[d] = reported[d]
           /\ reported'[c] = IF writes[c] # {} /\ status[c]
                             THEN reported[c] \cup writes[c] ELSE reported[c]
<1>1. writes[c] \in SUBSET Words /\ reported[c] \in SUBSET Words
  BY DEF TypeOK
<1> QED
  BY <1>1 DEF TypeOK, Report, Goto

LEMMA ExitFine ==
    ASSUME WriteInv, NEW c \in Clients, Exit(c)
    PROVE  Fine(c)
<1>1. TypeOK
  BY DEF WriteInv
<1>2. /\ conns' = Hung(c) /\ pc' = [pc EXCEPT ![c] = "idle"]
      /\ UNCHANGED <<edit, line, retries, writes, status, server, reported, cancelled, races>>
  BY DEF Exit, Goto
<1>3. /\ sigint' \in [Clients -> BOOLEAN] /\ faults' \in Nat
      /\ \A d \in Clients \ {c} : sigint'[d] = sigint[d]
  <2>1. CASE RecvFails(c)
    BY <1>1, <2>1, Failing
  <2>2. CASE UNCHANGED <<sigint, faults>>
    BY <1>1, <2>2 DEF TypeOK
  <2> QED
    BY <2>1, <2>2 DEF Exit
<1>4. /\ reported' \in [Clients -> SUBSET Words]
      /\ races' \in [Clients -> SUBSET {"cut", "late", "gaveup", "vanished"}]
  BY <1>1, <1>2 DEF TypeOK
<1> QED
  BY <1>2, <1>3, <1>4, LeavingFine

LEMMA VanishFine ==
    ASSUME WriteInv, NEW c \in Clients, Vanish(c)
    PROVE  Fine(c)
<1>1. TypeOK
  BY DEF WriteInv
<1>2. /\ conns' = Hung(c) /\ pc' = [pc EXCEPT ![c] = "idle"] /\ faults > 0 /\ faults' = faults - 1
      /\ UNCHANGED <<edit, line, retries, writes, status, sigint, server, reported, cancelled>>
      /\ Note(c, {"vanished"})
  BY DEF Vanish, Goto
<1>3. /\ races' \in [Clients -> SUBSET {"cut", "late", "gaveup", "vanished"}]
      /\ \A d \in Clients \ {c} : races'[d] = races[d]
      /\ races[c] \subseteq races'[c]
  BY <1>1, <1>2, NoteIs
<1>4. faults' \in Nat /\ sigint' \in [Clients -> BOOLEAN] /\ reported' \in [Clients -> SUBSET Words]
  BY <1>1, <1>2 DEF TypeOK
<1> QED
  BY <1>2, <1>3, <1>4, LeavingFine

LEMMA EndEditFine ==
    ASSUME WriteInv, NEW c \in Clients, EndEdit(c)
    PROVE  Fine(c)
<1>1. TypeOK
  BY DEF WriteInv
<1>2. /\ conns' = Hung(c) /\ Report(c)
      /\ UNCHANGED <<edit, line, retries, writes, status, server, cancelled, races>>
  BY DEF EndEdit
<1>3. /\ sigint' \in [Clients -> BOOLEAN] /\ faults' \in Nat
      /\ \A d \in Clients \ {c} : sigint'[d] = sigint[d]
  <2>1. CASE RecvFails(c)
    BY <1>1, <2>1, Failing
  <2>2. CASE UNCHANGED <<sigint, faults>>
    BY <1>1, <2>2 DEF TypeOK
  <2> QED
    BY <2>1, <2>2 DEF EndEdit
<1>4. races' \in [Clients -> SUBSET {"cut", "late", "gaveup", "vanished"}]
  BY <1>1, <1>2 DEF TypeOK
<1>5. /\ pc' = [pc EXCEPT ![c] = "idle"]
      /\ reported' \in [Clients -> SUBSET Words]
      /\ \A d \in Clients \ {c} : reported'[d] = reported[d]
  BY <1>1, <1>2, ReportIs
<1> QED
  BY <1>2, <1>3, <1>4, <1>5, LeavingFine

LEMMA RequestTypes ==
    /\ Request("unlock") \in Requests /\ Request("unlock").type = "unlock"
    /\ Request("cancel") \in Requests /\ Request("cancel").type = "cancel"
  BY DEF Request, Requests

LEMMA SendUnlockFine ==
    ASSUME WriteInv, NEW c \in Clients, SendUnlock(c)
    PROVE  Fine(c)
<1> DEFINE k == Newest(conns[c])
<1>1. /\ TypeOK /\ SessionOK /\ ClientOK(c, conns[c]) /\ CancelOK(c) /\ WaitOK(c, conns[c])
      /\ ConnsOK(c, conns[c])
  BY DEF WriteInv, ClientOK
<1>2. /\ pc[c] = "closing"
      /\ UNCHANGED <<edit, line, retries, writes, status, sigint, server, cancelled, faults>>
      /\ Note(c, IF Connected(c) THEN {} ELSE {"gaveup"})
  BY DEF SendUnlock
<1>3. /\ races' \in [Clients -> SUBSET {"cut", "late", "gaveup", "vanished"}]
      /\ \A d \in Clients \ {c} : races'[d] = races[d]
      /\ races[c] \subseteq races'[c]
      /\ "late" \in races[c] <=> "late" \in races'[c]
  BY <1>1, <1>2, NoteIs
<1>4. LinkUp(c) <=> Up(conns[c])
  BY NewestIs
<1>5. CASE LinkUp(c)
  <2>1. /\ pc' = [pc EXCEPT ![c] = "unlocking"] /\ conns' = Sent(c, Request("unlock"))
        /\ reported' = reported
    BY <1>5 DEF SendUnlock, Goto
  <2>2. PICK r \in Requests : r = Request("unlock") /\ r.type = "unlock"
    BY RequestTypes
  <2>3. Quiet(k) /\ OlderStale(conns[c])
    BY <1>1, <1>2, <1>4, <1>5 DEF WaitOK
  <2>4. PICK x : x = Sending(k, r)
    OBVIOUS
  <2>5. /\ On(conns[c]) /\ conns[c] # <<>> /\ x \in Connections
        /\ x.link = "up" /\ x.stale = FALSE /\ x.replies = k.replies
        /\ Sent(c, r) = WithLast(c, x)
        /\ Swapped(conns[c], Sent(c, r)[c], x)
        /\ k.requests = <<>> => x.requests = <<r>> /\ Len(x.requests) = 1 /\ x.requests[1] = r
    BY <1>4, <1>5, <2>4, SendingOn
  <2>6. Only(x, "unlock") /\ ~Only(x, "write")
    BY <2>2, <2>3, <2>5 DEF Only, Quiet
  <2>7. conns' \in [Clients -> Seq(Connections)] /\ \A d \in Clients \ {c} : conns'[d] = conns[d]
    BY <1>1, <2>1, <2>2, <2>5, WithLastSwaps
  <2>8. TypeOK'
    BY <1>1, <1>2, <1>3, <2>1, <2>7 DEF TypeOK, server
  <2>9. OwnStep(c)
    BY <1>1, <1>2, <1>3, <2>1, <2>7 DEF TypeOK, OwnStep, Untouched
  <2>10. pc'[c] = "unlocking" /\ Swapped(conns[c], conns'[c], x)
    BY <1>1, <2>1, <2>2, <2>5 DEF TypeOK
  <2>11. EndsStay(c)
    BY <1>1, <1>2, EndsGoOn
  <2>12. /\ Newest(conns'[c]) = x /\ OlderStale(conns'[c]) /\ On(conns'[c])
    BY <2>3, <2>5, <2>10, SwappedRest
  <2>13. WaitOK(c, conns[c])'
    <3>1. edit'[c] # 0
      BY <1>1, <1>2 DEF WaitOK
    <3> QED
      BY <2>6, <2>10, <2>12, <3>1 DEF WaitOK
  <2>14. ASSUME "late" \notin races'[c] PROVE GrantOK(c, conns[c])' /\ PendingOK(c, x)'
    <3>1. WordsOK(c, conns[c])
      BY <1>1, <1>3, <2>14 DEF ClientOK
    <3>2. \A w \in Added(c) : w[2] = edit[c]
      BY <1>2, <1>4, <1>5, <3>1 DEF WordsOK, GrantOK, Granted
    <3>3. Added(c)' = Added(c)
      BY <1>2, ServerSame DEF Served
    <3>4. GrantOK(c, conns[c])'
      BY <2>10 DEF GrantOK, Granted
    <3>5. <<c, edit[c]>> \notin cancelled
      <4>1. ASSUME NEW y \in cancelled, y = <<c, edit[c]>> PROVE FALSE
        <5>1. y[1] = c /\ y[2] = edit[c] /\ edit[c] \in Nat
          BY <1>1, <4>1 DEF TypeOK
        <5>2. ~(y[2] < edit[c])
          BY <5>1
        <5> QED
          BY <1>1, <1>2, <5>1, <5>2 DEF CancelOK
      <4> QED
        BY <4>1
    <3>7. PICK e : e = edit[c]
      OBVIOUS
    <3>8. Ended(c, e)'
      BY <1>2, <2>10, <3>5, <3>7 DEF Ended
    <3>9. PendingOK(c, x)'
      BY <2>6, <3>2, <3>3, <3>7, <3>8 DEF PendingOK
    <3> QED
      BY <3>4, <3>9
  <2>15. UnderWay(c, x)
    BY <2>6 DEF UnderWay
  <2>16. ClientOK(c, conns[c])'
    BY <1>1, <1>2, <1>3, <2>3, <2>5, <2>10, <2>11, <2>13, <2>14, <2>15, SwappingClient
  <2> QED
    BY <2>8, <2>9, <2>16 DEF Fine
<1>6. CASE ~LinkUp(c)
  <2>1. conns' = Hung(c) /\ Report(c)
    BY <1>6 DEF SendUnlock
  <2>2. /\ pc' = [pc EXCEPT ![c] = "idle"]
        /\ reported' \in [Clients -> SUBSET Words]
        /\ \A d \in Clients \ {c} : reported'[d] = reported[d]
    BY <1>1, <2>1, ReportIs
  <2>3. faults' \in Nat /\ sigint' \in [Clients -> BOOLEAN] /\ sigint' = sigint
    BY <1>1, <1>2 DEF TypeOK
  <2> QED
    BY <1>2, <1>3, <2>1, <2>2, <2>3, LeavingFine
<1> QED
  BY <1>5, <1>6

LEMMA InterruptFine ==
    ASSUME WriteInv, NEW c \in Clients, Interrupt(c)
    PROVE  Fine(c)
<1> DEFINE k == Newest(conns[c])
<1>1. /\ TypeOK /\ SessionOK /\ ClientOK(c, conns[c]) /\ CancelOK(c) /\ WaitOK(c, conns[c])
      /\ ConnsOK(c, conns[c])
  BY DEF WriteInv, ClientOK
<1>2. /\ pc[c] = "prompt" /\ cancelled' = cancelled \cup {<<c, edit[c]>>}
      /\ UNCHANGED <<edit, line, retries, writes, status, sigint, server, reported, races>>
  BY DEF Interrupt
<1>3. faults' \in Nat
  BY <1>1 DEF Interrupt, TypeOK
<1>4. edit[c] \in Nat /\ edit[c] # 0
  BY <1>1, <1>2 DEF TypeOK, WaitOK
<1>5. cancelled' \subseteq Clients \X Nat
  BY <1>1, <1>2, <1>4 DEF TypeOK
<1>6. LinkUp(c) <=> Up(conns[c])
  BY NewestIs
<1>7. ASSUME pc'[c] \in {"cancelling", "idle"} PROVE EndsStay(c)
  <2>1. CancelOK(c)'
    BY <1>1, <1>2, <1>7 DEF CancelOK
  <2>2. \A e \in Nat : Ended(c, e) => e < edit[c] /\ <<c, e>> \notin cancelled
    BY <1>2 DEF Ended
  <2>3. \A e \in Nat : e < edit[c] => <<c, e>> # <<c, edit[c]>>
    BY <1>4
  <2> QED
    BY <1>2, <2>1, <2>2, <2>3 DEF EndsStay, Ended
<1>8. CASE LinkUp(c)
  <2>1. /\ pc' = [pc EXCEPT ![c] = "cancelling"] /\ conns' = Sent(c, Request("cancel"))
    BY <1>8 DEF Interrupt, Goto
  <2>2. PICK r \in Requests : r = Request("cancel") /\ r.type = "cancel"
    BY RequestTypes
  <2>3. (k.requests = <<>> /\ OlderStale(conns[c])) \/ Only(k, "lock")
    BY <1>1, <1>2, <1>6, <1>8 DEF WaitOK, Quiet
  <2>4. PICK x : x = Sending(k, r)
    OBVIOUS
  <2>5. /\ On(conns[c]) /\ conns[c] # <<>> /\ x \in Connections
        /\ x.link = "up" /\ x.stale = FALSE /\ x.replies = k.replies
        /\ x.requests = Append(k.requests, r)
        /\ Sent(c, r) = WithLast(c, x)
        /\ Swapped(conns[c], Sent(c, r)[c], x)
        /\ k.requests = <<>> => x.requests = <<r>> /\ Len(x.requests) = 1 /\ x.requests[1] = r
    BY <1>6, <1>8, <2>4, SendingOn
  <2>6. /\ Only(x, "cancel") \/ LockThenCancel(x)
        /\ Begun(x) => OlderStale(conns[c])
    <3>1. CASE k.requests = <<>> /\ OlderStale(conns[c])
      BY <2>2, <2>5, <3>1 DEF Only
    <3>2. CASE Only(k, "lock")
      <4>1. k.requests \in Seq(Requests)
        BY <1>1, <2>5, NewestTyped
      <4>2. Len(x.requests) = 2 /\ x.requests[1] = k.requests[1] /\ x.requests[2] = r
        BY <2>5, <3>2, <4>1 DEF Only
      <4> QED
        BY <2>2, <3>2, <4>2 DEF Only, LockThenCancel, Begun
    <3> QED
      BY <2>3, <3>1, <3>2
  <2>7. ~Only(x, "unlock") /\ ~Only(x, "write") /\ UnderWay(c, x)
    BY <2>6 DEF Only, LockThenCancel, UnderWay
  <2>8. conns' \in [Clients -> Seq(Connections)] /\ \A d \in Clients \ {c} : conns'[d] = conns[d]
    BY <1>1, <2>1, <2>2, <2>5, WithLastSwaps
  <2>9. TypeOK'
    BY <1>1, <1>2, <1>3, <1>5, <2>1, <2>8 DEF TypeOK, server
  <2>10. OwnStep(c)
    BY <1>1, <1>2, <2>1, <2>8 DEF TypeOK, OwnStep, Untouched
  <2>11. pc'[c] = "cancelling" /\ Swapped(conns[c], conns'[c], x)
    BY <1>1, <2>1, <2>2, <2>5 DEF TypeOK
  <2>12. EndsStay(c)
    BY <1>7, <2>11
  <2>13. On(conns'[c])
    BY <2>5, <2>11, SwappedRest
  <2>14. WaitOK(c, conns[c])'
    BY <1>2, <1>4, <2>11, <2>13 DEF WaitOK
  <2>15. GrantOK(c, conns[c])' /\ PendingOK(c, x)'
    BY <2>7, <2>11 DEF GrantOK, Granted, PendingOK
  <2>16. ClientOK(c, conns[c])'
    BY <1>1, <1>2, <2>5, <2>6, <2>7, <2>11, <2>12, <2>14, <2>15, SwappingClient
  <2> QED
    BY <2>9, <2>10, <2>16 DEF Fine
<1>9. CASE ~LinkUp(c)
  <2>1. pc' = [pc EXCEPT ![c] = "idle"] /\ conns' = Hung(c)
    BY <1>9 DEF Interrupt, Goto
  <2>2. /\ conns' \in [Clients -> Seq(Connections)]
        /\ \A d \in Clients \ {c} : conns'[d] = conns[d]
        /\ HungUp(conns[c], conns'[c])
    BY <1>1, <2>1, HungHangsUp
  <2>3. TypeOK'
    BY <1>1, <1>2, <1>3, <1>5, <2>1, <2>2 DEF TypeOK, server
  <2>4. OwnStep(c)
    BY <1>1, <1>2, <2>1, <2>2 DEF TypeOK, OwnStep, Untouched
  <2>5. pc'[c] = "idle"
    BY <1>1, <2>1 DEF TypeOK
  <2>6. ClientOK(c, conns[c])'
    BY <1>1, <1>2, <1>7, <2>2, <2>5, HangingUp
  <2> QED
    BY <2>3, <2>4, <2>6 DEF Fine
<1> QED
  BY <1>8, <1>9

LEMMA EndsSame ==
    ASSUME NEW c \in Clients, CancelOK(c), cancelled' = cancelled, edit'[c] = edit[c], pc'[c] = pc[c]
    PROVE  EndsStay(c)
  BY DEF EndsStay, CancelOK, Ended

LEMMA LoseConnectionFine ==
    ASSUME WriteInv, NEW c \in Clients, LoseConnection(c)
    PROVE  Fine(c)
<1> DEFINE k == Newest(conns[c])
<1>1. /\ TypeOK /\ SessionOK /\ ClientOK(c, conns[c]) /\ CancelOK(c) /\ WaitOK(c, conns[c])
      /\ ConnsOK(c, conns[c])
  BY DEF WriteInv, ClientOK
<1>2. /\ Up(conns[c]) /\ faults > 0 /\ faults' = faults - 1 /\ Note(c, {"cut"})
      /\ UNCHANGED <<pc, edit, line, retries, writes, status, sigint, server, reported, cancelled>>
  BY NewestIs DEF LoseConnection, client
<1>3. On(conns[c]) /\ conns[c] # <<>>
  BY <1>2 DEF On, Up
<1>4. /\ k \in Connections /\ k.requests \in Seq(Requests) /\ k.stale = FALSE /\ UnderWay(c, k)
      /\ Begun(k) => OlderStale(conns[c])
      /\ Len(conns[c]) \in Nat \ {0}
  BY <1>1, <1>3, NewestTyped, NewestOK
<1>5. /\ races' \in [Clients -> SUBSET {"cut", "late", "gaveup", "vanished"}]
      /\ \A d \in Clients \ {c} : races'[d] = races[d]
      /\ races[c] \subseteq races'[c] /\ "cut" \in races'[c]
  BY <1>1, <1>2, NoteIs
<1>6. PICK arrived \in {k.requests, <<>>} :
         conns' = WithLast(c, [k EXCEPT !.link = "cut", !.requests = arrived, !.replies = <<>>])
  BY NewestIs DEF LoseConnection
<1>7. PICK x : x = [k EXCEPT !.link = "cut", !.requests = arrived, !.replies = <<>>]
  OBVIOUS
<1>8. /\ x \in Connections /\ x.link = "cut" /\ x.replies = <<>> /\ x.stale = FALSE
      /\ x.requests = k.requests \/ x.requests = <<>>
  <2>1. <<>> \in Seq(Requests) /\ <<>> \in Seq(BOOLEAN)
    OBVIOUS
  <2>2. arrived \in Seq(Requests) /\ (arrived = k.requests \/ arrived = <<>>)
    BY <1>4, <2>1
  <2> HIDE DEF k
  <2>3. x.requests = arrived /\ x.link = "cut" /\ x.replies = <<>> /\ x.stale = FALSE
    BY <1>4, <1>7 DEF Connections
  <2>4. x \in Connections
    BY <1>4, <1>7, <2>1, <2>2 DEF Connections
  <2> QED
    BY <2>2, <2>3, <2>4
<1>9. /\ conns' \in [Clients -> Seq(Connections)] /\ \A d \in Clients \ {c} : conns'[d] = conns[d]
      /\ Swapped(conns[c], conns'[c], x)
  BY <1>1, <1>3, <1>6, <1>7, <1>8, WithLastSwaps
<1>10. faults' \in Nat
  BY <1>1, <1>2 DEF TypeOK
<1>11. TypeOK'
  BY <1>1, <1>2, <1>5, <1>9, <1>10 DEF TypeOK, server
<1>12. OwnStep(c)
  BY <1>2, <1>5, <1>9 DEF OwnStep, Untouched
<1>13. EndsStay(c)
  BY <1>1, <1>2, EndsSame
<1>14. UnderWay(c, x) /\ (Begun(x) => OlderStale(conns[c]))
  BY <1>4, <1>8 DEF UnderWay, Only, LockThenCancel, TheWord, Begun
<1>15. On(conns'[c]) /\ ~Up(conns'[c])
  BY <1>8, <1>9, SwappedRest
<1>16. WaitOK(c, conns[c])'
  BY <1>1, <1>2, <1>3, <1>15 DEF WaitOK
<1>17. ASSUME "late" \notin races'[c] PROVE GrantOK(c, conns[c])' /\ PendingOK(c, x)'
  <2>1. WordsOK(c, conns[c])
    BY <1>1, <1>5, <1>17 DEF ClientOK
  <2>2. PendingOK(c, k)
    BY <1>4, <2>1 DEF WordsOK, Newest
  <2>3. Served(c)
    BY <1>2, ServerSame
  <2>4. PendingOK(c, x)'
    <3>1. CASE x.requests = k.requests
      BY <1>1, <1>13, <2>2, <2>3, <3>1, PendingStays
    <3>2. CASE x.requests = <<>>
      <4>1. ~Only(x, "write") /\ ~Only(x, "unlock")
        BY <3>2 DEF Only
      <4> QED
        BY <4>1 DEF PendingOK
    <3> QED
      BY <1>8, <3>1, <3>2
  <2> QED
    BY <1>15, <2>4 DEF GrantOK, Granted
<1>18. ClientOK(c, conns[c])'
  BY <1>1, <1>2, <1>5, <1>8, <1>9, <1>13, <1>14, <1>16, <1>17, SwappingClient
<1> QED
  BY <1>11, <1>12, <1>18 DEF Fine

-----------------------------------------------------------------------------
(* The server takes a request *)

\* The connections cs after request i was handled, before an idle one is forgotten.
Taken(cs, x, i, answer) ==
    /\ cs \in Seq(Connections) /\ x \in Seq(Connections) /\ Len(x) = Len(cs) /\ Len(cs) \in Nat
    /\ i \in 1 .. Len(cs) /\ cs[i].requests # <<>>
    /\ x[i].link = cs[i].link /\ x[i].stale = cs[i].stale
    /\ x[i].requests = Tail(cs[i].requests)
    /\ x[i].replies = IF cs[i].link = "up" THEN Append(cs[i].replies, answer) ELSE cs[i].replies
    /\ \A j \in 1 .. Len(cs) :
          /\ j < i => /\ x[j].link = cs[j].link /\ x[j].requests = cs[j].requests
                      /\ x[j].replies = cs[j].replies /\ x[j].stale
          /\ j > i => x[j] = cs[j]

LEMMA HandledTakes ==
    ASSUME NEW cs \in Seq(Connections), NEW i \in 1 .. Len(cs), cs[i].requests # <<>>,
           NEW answer \in BOOLEAN
    PROVE  Taken(cs, Handled(cs, i, answer), i, answer)
<1> DEFINE k == cs[i]
           x == Handled(cs, i, answer)
<1>1. Len(cs) \in Nat /\ DOMAIN cs = 1 .. Len(cs) /\ \A j \in 1 .. Len(cs) : cs[j] \in Connections
  OBVIOUS
<1>2. PICK y : y = [k EXCEPT !.requests = Tail(@),
                            !.replies = IF k.link = "up" THEN Append(@, answer) ELSE @]
  OBVIOUS
<1>3. /\ y \in Connections
      /\ y.link = k.link /\ y.stale = k.stale
      /\ y.requests = Tail(k.requests)
      /\ y.replies = IF k.link = "up" THEN Append(k.replies, answer) ELSE k.replies
  <2>1. k \in Connections /\ k.requests \in Seq(Requests) /\ k.replies \in Seq(BOOLEAN)
    BY <1>1 DEF Connections
  <2>2. Tail(k.requests) \in Seq(Requests)
    BY <2>1, HeadTailProperties, Zenon
  <2>3. Append(k.replies, answer) \in Seq(BOOLEAN)
    BY <2>1
  <2> HIDE DEF k
  <2> QED
    BY <1>2, <2>1, <2>2, <2>3 DEF Connections
<1>4. x = [j \in 1 .. Len(cs) |-> IF j = i THEN y
                                  ELSE IF j < i THEN [cs[j] EXCEPT !.stale = TRUE] ELSE cs[j]]
  BY <1>1, <1>2 DEF Handled
<1>5. \A j \in 1 .. Len(cs) : LET z == [cs[j] EXCEPT !.stale = TRUE] IN
         /\ z \in Connections /\ z.link = cs[j].link /\ z.requests = cs[j].requests
         /\ z.replies = cs[j].replies /\ z.stale
  BY <1>1 DEF Connections
<1>6. x \in [1 .. Len(cs) -> Connections]
  BY <1>1, <1>3, <1>4, <1>5
<1>7. x \in Seq(Connections) /\ Len(x) = Len(cs)
  BY <1>1, <1>6
<1>8. x[i] = y
  BY <1>4
<1>9. \A j \in 1 .. Len(cs) :
        /\ j < i => x[j] = [cs[j] EXCEPT !.stale = TRUE]
        /\ j > i => x[j] = cs[j]
  BY <1>1, <1>4
<1> HIDE DEF x
<1>10. ASSUME NEW j \in 1 .. Len(cs)
       PROVE  /\ j < i => /\ x[j].link = cs[j].link /\ x[j].requests = cs[j].requests
                           /\ x[j].replies = cs[j].replies /\ x[j].stale
              /\ j > i => x[j] = cs[j]
  BY <1>5, <1>9
<1>11. Taken(cs, x, i, answer)
  BY <1>1, <1>3, <1>7, <1>8, <1>10 DEF Taken
<1> QED
  BY <1>11 DEF x

\* What Handle does to the connections.
LEMMA HandleTakes ==
    ASSUME TypeOK, NEW c \in Clients, NEW i \in DOMAIN conns[c], Handle(c, i)
    PROVE  \E answer \in BOOLEAN, x \in Seq(Connections) :
              /\ Serve(c, Head(conns[c][i].requests), answer)
              /\ Taken(conns[c], x, i, answer)
              /\ conns' = [conns EXCEPT ![c] = Forget(x, i)]
<1>1. conns[c] \in Seq(Connections) /\ i \in 1 .. Len(conns[c])
  BY DEF TypeOK
<1>2. PICK answer \in BOOLEAN :
         /\ Serve(c, Head(conns[c][i].requests), answer)
         /\ conns' = [conns EXCEPT ![c] = Forget(Handled(@, i, answer), i)]
  BY DEF Handle
<1>3. Taken(conns[c], Handled(conns[c], i, answer), i, answer)
  BY <1>1, HandledTakes DEF Handle
<1>4. Handled(conns[c], i, answer) \in Seq(Connections)
  BY <1>3 DEF Taken
<1>5. conns' = [conns EXCEPT ![c] = Forget(Handled(conns[c], i, answer), i)]
  BY <1>2 DEF TypeOK
<1> QED
  BY <1>2, <1>3, <1>4, <1>5

\* What is under way on a connection before and after its first request was taken.
LEMMA TakenRequests ==
    ASSUME TypeOK, NEW c \in Clients, NEW cs, NEW x, NEW i, NEW answer,
           Taken(cs, x, i, answer), UnderWay(c, cs[i])
    PROVE  LET r == Head(cs[i].requests) IN
           /\ r \in Requests /\ r = cs[i].requests[1]
           /\ r.type = "lock" =>
                 \/ Only(cs[i], "lock") /\ x[i].requests = <<>>
                 \/ LockThenCancel(cs[i]) /\ Only(x[i], "cancel")
           /\ r.type \in {"write", "unlock", "cancel"} =>
                 Only(cs[i], r.type) /\ x[i].requests = <<>> /\ Begun(cs[i])
           /\ r.type = "write" => r.word \in Words /\ r.word[1] = c /\ TheWord(cs[i]) = r.word
           /\ UnderWay(c, x[i])
           /\ ~Only(x[i], "write") /\ ~Only(x[i], "unlock")
<1> DEFINE k == cs[i]
           s == k.requests
<1>1. k \in Connections /\ s \in Seq(Requests) /\ s # <<>>
  <2>1. k \in Connections /\ s # <<>>
    BY DEF Taken
  <2>2. s \in Seq(Requests)
    BY <2>1 DEF Connections
  <2> QED
    BY <2>1, <2>2
<1>2. Head(s) = s[1] /\ Head(s) \in Requests /\ Len(s) \in Nat \ {0}
  BY <1>1
<1>3. Tail(s) \in Seq(Requests) /\ Len(Tail(s)) = Len(s) - 1
      /\ \A n \in 1 .. Len(Tail(s)) : Tail(s)[n] = s[n + 1]
  BY <1>1, HeadTailProperties, Zenon
<1>4. x[i].requests = Tail(s)
  BY DEF Taken
<1> HIDE DEF s
<1>5. PICK t \in Seq(Requests) :
         t = Tail(s) /\ Len(t) = Len(s) - 1 /\ \A n \in 1 .. Len(t) : t[n] = s[n + 1]
  BY <1>3
<1>6. ASSUME Len(s) = 1 PROVE x[i].requests = <<>> /\ UnderWay(c, x[i])
  <2>1. Len(t) = 0
    BY <1>5, <1>6
  <2>2. t = <<>>
    BY <2>1, EmptySeq
  <2> QED
    BY <1>4, <1>5, <2>2 DEF UnderWay
<1>7. ASSUME Len(s) = 2 PROVE Len(x[i].requests) = 1 /\ x[i].requests[1] = s[2]
  <2>1. Len(t) = 1
    BY <1>5, <1>7
  <2>2. 1 \in 1 .. Len(t) /\ 1 + 1 = 2
    BY <2>1
  <2>3. t[1] = s[1 + 1]
    BY <1>5, <2>2
  <2>4. t[1] = s[2]
    BY <2>2, <2>3
  <2> QED
    BY <1>4, <1>5, <2>1, <2>4
<1>8. ASSUME Only(k, k.requests[1].type)
      PROVE  x[i].requests = <<>> /\ UnderWay(c, x[i])
  BY <1>6, <1>8 DEF Only, s
<1>9. ASSUME LockThenCancel(k) PROVE Only(x[i], "cancel") /\ UnderWay(c, x[i])
  BY <1>7, <1>9 DEF LockThenCancel, Only, UnderWay, s
<1>10. \/ Only(k, k.requests[1].type) /\ k.requests[1].type \in {"lock", "unlock", "cancel", "write"}
          /\ (k.requests[1].type = "write" =>
                k.requests[1].word \in Words /\ k.requests[1].word[1] = c)
       \/ LockThenCancel(k)
  BY <1>1 DEF UnderWay, Only, LockThenCancel, TheWord, s
<1>11. x[i].requests = <<>> => ~Only(x[i], "write") /\ ~Only(x[i], "unlock")
  BY DEF Only
<1>12. Only(x[i], "cancel") => ~Only(x[i], "write") /\ ~Only(x[i], "unlock")
  BY DEF Only
<1>13. CASE LockThenCancel(k)
  <2>1. k.requests[1].type = "lock"
    BY <1>13 DEF LockThenCancel
  <2> QED
    BY <1>2, <1>9, <1>12, <1>13, <2>1 DEF s
<1>14. CASE Only(k, k.requests[1].type) /\ ~LockThenCancel(k)
  BY <1>1, <1>2, <1>8, <1>10, <1>11, <1>14 DEF s, Begun, TheWord
<1> QED
  BY <1>10, <1>13, <1>14

\* The overtaken are stale; the order and the kinds stay.
LEMMA TakenConns ==
    ASSUME TypeOK, NEW c \in Clients, NEW x, NEW i, NEW answer,
           Taken(conns[c], x, i, answer), ConnsOK(c, conns[c]), races[c] \subseteq races'[c]
    PROVE  ConnsOK(c, x)'
<1> DEFINE cs == conns[c]
<1>1. /\ Len(cs) \in Nat \ {0} /\ Len(x) = Len(cs) /\ i \in 1 .. Len(cs) /\ cs[i].requests # <<>>
      /\ x \in Seq(Connections) /\ cs \in Seq(Connections)
      /\ x[i].link = cs[i].link /\ x[i].stale = cs[i].stale
      /\ cs[i].link # "up" => x[i].replies = cs[i].replies
      /\ \A j \in 1 .. Len(cs) :
          /\ j < i => /\ x[j].link = cs[j].link /\ x[j].requests = cs[j].requests
                      /\ x[j].replies = cs[j].replies /\ x[j].stale
          /\ j > i => x[j] = cs[j]
  BY DEF Taken
<1>2. UnderWay(c, x[i])
  BY <1>1, TakenRequests DEF ConnsOK
<1> HIDE DEF cs
<1>3. \A j \in 1 .. Len(x) : x[j].link = cs[j].link
  BY <1>1
<1>4. \A j \in 1 .. Len(x) : j # i => x[j].requests = cs[j].requests /\ x[j].replies = cs[j].replies
  BY <1>1
<1>5. \A j \in 1 .. Len(x) : cs[j].stale => x[j].stale
  BY <1>1
<1>6. ASSUME NEW j \in 1 .. Len(x)
      PROVE  /\ UnderWay(c, x[j])
             /\ x[j].link # "up" => x[j].replies = <<>>
             /\ x[j].link = "cut" => "cut" \in races'[c]
             /\ j < Len(x) => x[j].link = "closed"
  <2>1. /\ UnderWay(c, cs[j])
        /\ cs[j].link # "up" => cs[j].replies = <<>>
        /\ cs[j].link = "cut" => "cut" \in races[c]
        /\ j < Len(cs) => cs[j].link = "closed"
    BY <1>1 DEF ConnsOK, cs
  <2>2. CASE j = i
    BY <1>1, <1>2, <2>1, <2>2
  <2>3. CASE j # i
    <3>1. x[j].requests = cs[j].requests /\ x[j].replies = cs[j].replies /\ x[j].link = cs[j].link
      BY <1>3, <1>4, <2>3
    <3>2. UnderWay(c, x[j])
      BY <2>1, <3>1 DEF UnderWay, Only, LockThenCancel, TheWord
    <3> QED
      BY <1>1, <2>1, <3>1, <3>2
  <2> QED
    BY <2>2, <2>3
<1>7. ASSUME NEW a \in 1 .. Len(x), NEW b \in 1 .. Len(x), a < b, Begun(x[b]) PROVE x[a].stale
  <2>1. CASE b > i
    <3>1. Begun(cs[b])
      BY <1>1, <1>7, <2>1
    <3>2. cs[a].stale
      BY <1>1, <1>7, <3>1 DEF ConnsOK, cs
    <3> QED
      BY <1>5, <3>2
  <2>2. CASE ~(b > i)
    BY <1>1, <1>7, <2>2
  <2> QED
    BY <2>1, <2>2
<1>8. On(x) => ~Newest(x).stale
  <2>1. x # <<>> /\ cs # <<>> /\ Len(x) \in 1 .. Len(cs)
    BY <1>1
  <2>2. On(x) => On(cs)
    BY <1>1, <1>3, <2>1 DEF On
  <2>3. x[Len(x)].stale = cs[Len(cs)].stale
    BY <1>1
  <2> QED
    BY <1>1, <2>2, <2>3 DEF Newest, ConnsOK, cs
<1> QED
  BY <1>6, <1>7, <1>8 DEF ConnsOK

\* The newest connection is the one that was served, which then is not overtaken, or is
\* as it was.
LEMMA TakenNewest ==
    ASSUME NEW cs, NEW x, NEW i, NEW answer, Taken(cs, x, i, answer)
    PROVE  /\ On(x) <=> On(cs)
           /\ Up(x) <=> Up(cs)
           /\ OlderStale(cs) => OlderStale(x)
           /\ i = Len(cs) => /\ OlderStale(x)
                             /\ Newest(cs) = cs[i] /\ Newest(x) = x[i]
           /\ i # Len(cs) => /\ Newest(x) = Newest(cs)
                             /\ ~cs[i].stale => ~OlderStale(cs)
<1>1. /\ Len(cs) \in Nat \ {0} /\ Len(x) = Len(cs) /\ i \in 1 .. Len(cs)
      /\ x \in Seq(Connections) /\ cs \in Seq(Connections)
      /\ x[i].link = cs[i].link /\ x[i].stale = cs[i].stale
      /\ \A j \in 1 .. Len(cs) :
          /\ j < i => x[j].link = cs[j].link /\ x[j].stale
          /\ j > i => x[j] = cs[j]
  BY DEF Taken
<1>2. x # <<>> /\ cs # <<>> /\ x[Len(x)].link = cs[Len(cs)].link
  BY <1>1
<1>3. \A j \in 1 .. Len(cs) : cs[j].stale => x[j].stale
  BY <1>1
<1> QED
  BY <1>1, <1>2, <1>3 DEF On, Up, Newest, OlderStale

LEMMA TakenWait ==
    ASSUME TypeOK, NEW c \in Clients, NEW x, NEW i, NEW answer,
           Taken(conns[c], x, i, answer), ConnsOK(c, conns[c]), WaitOK(c, conns[c]), UNCHANGED client
    PROVE  WaitOK(c, x)'
<1> DEFINE cs == conns[c]
           k  == Newest(cs)
<1>1. /\ On(x) <=> On(cs)
      /\ Up(x) <=> Up(cs)
      /\ OlderStale(cs) => OlderStale(x)
      /\ i # Len(cs) => Newest(x) = k
      /\ i = Len(cs) => OlderStale(x) /\ k = cs[i] /\ Newest(x) = x[i]
  BY TakenNewest
<1>2. /\ pc' = pc /\ edit' = edit /\ line' = line /\ retries' = retries /\ writes' = writes
      /\ sigint' = sigint
  BY DEF client
<1>3. Word(c, line[c])' = Word(c, line[c])
  BY <1>2 DEF Word
<1>4. CASE i # Len(cs)
  <2>1. Newest(x) = k
    BY <1>1, <1>4
  <2> HIDE DEF k, cs
  <2> QED
    BY <1>1, <1>2, <1>3, <2>1 DEF WaitOK, cs, k
<1>5. CASE i = Len(cs)
  <2>1. k.requests # <<>> /\ k = cs[i] /\ Newest(x) = x[i] /\ OlderStale(x)
    BY <1>1, <1>5 DEF Taken
  <2>2. UnderWay(c, k)
    BY <2>1 DEF ConnsOK, Taken
  <2>3. Only(k, "lock") \/ Only(k, "write") \/ Only(k, "unlock") => Newest(x).requests = <<>>
    BY <2>1, <2>2, TakenRequests DEF Only, LockThenCancel
  <2>4. k.replies = <<>> /\ Up(cs) => Len(Newest(x).replies) = 1
    <3>1. Up(cs) => k.link = "up"
      BY DEF Up, Newest
    <3>2. Len(Append(<<>>, answer)) = 1
      OBVIOUS
    <3> QED
      BY <2>1, <3>1, <3>2 DEF Taken
  <2> HIDE DEF k, cs
  <2>5. Up(cs) /\ pc[c] \in {"locking", "relocking"} => Answered(Newest(x))
    BY <2>1, <2>3, <2>4 DEF WaitOK, Waiting, Answered, cs, k
  <2>6. Up(cs) /\ pc[c] = "prompt" => sigint[c] /\ Newest(x).requests = <<>>
    BY <2>1, <2>3 DEF WaitOK, Quiet, cs, k
  <2>7. Up(cs) /\ pc[c] = "writing" => Answered(Newest(x))
    BY <2>1, <2>3, <2>4 DEF WaitOK, Waiting, Answered, cs, k
  <2>8. Up(cs) => pc[c] # "closing"
    BY <2>1 DEF WaitOK, Quiet, cs, k
  <2>9. Up(cs) /\ pc[c] = "unlocking" => Newest(x).requests = <<>>
    BY <2>1, <2>3 DEF WaitOK, cs, k
  <2>10. (On(x) <=> On(conns[c])) /\ (Up(x) <=> Up(cs))
    BY <1>1 DEF cs
  <2> QED
    BY <1>2, <2>1, <2>5, <2>6, <2>7, <2>8, <2>9, <2>10 DEF WaitOK
<1> QED
  BY <1>4, <1>5

-----------------------------------------------------------------------------
(* What the server's operations do *)

\* Of the client's words and those of the others.
ServerStep(c) ==
    /\ SessionOK'
    /\ lock' \in Clients \cup {Nobody} /\ temp' \in [Clients -> Seq(Words) \cup {NoTemp}]
    /\ file' \in Seq(Words)
    /\ \A d \in Clients \ {c} : Served(d)

\* The files of the sessions.
LEMMA SessionIs ==
    ASSUME TypeOK, SessionOK, NEW c \in Clients
    PROVE  /\ temp[c] # NoTemp <=> lock = c
           /\ lock = c => /\ temp[c] \in Seq(Words) /\ Len(temp[c]) \in Nat /\ Len(file) <= Len(temp[c])
                          /\ \A n \in 1 .. Len(file) : temp[c][n] = file[n]
                          /\ \A n \in 1 .. Len(temp[c]) : n > Len(file) => temp[c][n][1] = c
           /\ file \in Seq(Words) /\ Len(file) \in Nat
           /\ c # Nobody /\ NoTemp \notin Seq(Words)
<1>1. lock = c => temp[c] \in Seq(Words)
  BY DEF SessionOK
<1>2. file \in Seq(Words) /\ Len(file) \in Nat
  BY DEF TypeOK
<1>3. lock = c => Len(temp[c]) \in Nat
  BY <1>1
<1> QED
  BY <1>1, <1>2, <1>3, NamesAssumption DEF SessionOK

LEMMA LockStep ==
    ASSUME TypeOK, SessionOK, NEW c \in Clients, NEW answer \in BOOLEAN, Lock(c, answer)
    PROVE  /\ ServerStep(c)
           /\ lock' = c <=> answer
           /\ Added(c)' = {} /\ Filed(c)' = Filed(c) /\ file' = file
           /\ temp' = IF answer THEN [temp EXCEPT ![c] = file] ELSE temp
<1>1. file' = file
  BY DEF Lock
<1>2. file \in Seq(Words) /\ Len(file) \in Nat
  BY DEF TypeOK
<1>3. CASE answer
  <2>1. lock \in {Nobody, c} /\ lock' = c /\ temp' = [temp EXCEPT ![c] = file]
    BY <1>3 DEF Lock, CopyToTemp
  <2>2. temp' \in [Clients -> Seq(Words) \cup {NoTemp}]
    BY <1>2, <2>1 DEF TypeOK
  <2>3. temp'[c] = file /\ \A d \in Clients \ {c} : temp'[d] = temp[d]
    BY <2>1 DEF TypeOK
  <2>4. SessionOK'
    <3>1. ASSUME NEW d \in Clients, d # c PROVE lock' # d /\ temp'[d] = NoTemp
      BY <2>1, <2>3, <3>1, NamesAssumption DEF SessionOK
    <3>2. /\ temp'[c] \in Seq(Words) /\ Len(file') <= Len(temp'[c])
          /\ \A n \in 1 .. Len(file') : temp'[c][n] = file'[n]
          /\ \A n \in 1 .. Len(temp'[c]) : n > Len(file') => temp'[c][n][1] = c
      BY <1>1, <1>2, <2>3
    <3> QED
      BY <2>1, <3>1, <3>2 DEF SessionOK
  <2>5. Added(c)' = {}
    <3>1. \A n \in Len(file') + 1 .. Len(temp'[c]) : FALSE
      BY <1>1, <1>2, <2>3
    <3> QED
      BY <3>1 DEF Added
  <2>6. \A d \in Clients : Filed(d)' = Filed(d)
    BY <1>1 DEF Filed
  <2>7. \A d \in Clients \ {c} : Served(d)
    BY <2>1, <2>6, NamesAssumption DEF Served, Added
  <2> QED
    BY <1>1, <1>2, <1>3, <2>1, <2>2, <2>4, <2>5, <2>6, <2>7 DEF ServerStep
<1>4. CASE ~answer
  <2>1. lock # c /\ lock' = lock /\ temp' = temp
    BY <1>4 DEF Lock
  <2>2. UNCHANGED server
    BY <1>1, <2>1 DEF server
  <2>3. SessionOK' /\ \A d \in Clients : Served(d)
    BY <2>2, ServerSame
  <2>4. Added(c)' = {}
    BY <2>1 DEF Added
  <2> QED
    BY <1>1, <1>4, <2>1, <2>3, <2>4 DEF ServerStep, TypeOK, Served
<1> QED
  BY <1>3, <1>4

LEMMA WriteStep ==
    ASSUME TypeOK, SessionOK, NEW c \in Clients, NEW answer \in BOOLEAN,
           NEW word \in Words, word[1] = c, Write(c, word, answer)
    PROVE  /\ ServerStep(c)
           /\ lock' = lock /\ file' = file /\ Filed(c)' = Filed(c)
           /\ answer => lock = c /\ temp' = [temp EXCEPT ![c] = Append(temp[c], word)]
           /\ ~answer => temp' = temp
           /\ Added(c)' = IF answer THEN Added(c) \cup {word} ELSE Added(c)
<1>1. lock' = lock /\ file' = file
  BY DEF Write
<1>2. \A d \in Clients : Filed(d)' = Filed(d)
  BY <1>1 DEF Filed
<1>3. CASE answer
  <2>1. temp[c] # NoTemp /\ temp' = [temp EXCEPT ![c] = Append(temp[c], word)]
    BY <1>3 DEF Write, TypeOK
  <2>2. /\ lock = c /\ temp[c] \in Seq(Words) /\ Len(temp[c]) \in Nat /\ Len(file) <= Len(temp[c])
        /\ \A n \in 1 .. Len(file) : temp[c][n] = file[n]
        /\ \A n \in 1 .. Len(temp[c]) : n > Len(file) => temp[c][n][1] = c
        /\ Len(file) \in Nat /\ file \in Seq(Words)
    BY <2>1, SessionIs
  <2>3. PICK s : s = Append(temp[c], word)
    OBVIOUS
  <2>4. /\ s \in Seq(Words) /\ Len(s) = Len(temp[c]) + 1 /\ s[Len(temp[c]) + 1] = word
        /\ \A n \in 1 .. Len(temp[c]) : s[n] = temp[c][n]
    BY <2>2, <2>3
  <2>5. /\ temp' \in [Clients -> Seq(Words) \cup {NoTemp}]
        /\ temp'[c] = s /\ \A d \in Clients \ {c} : temp'[d] = temp[d]
    BY <2>1, <2>3, <2>4 DEF TypeOK
  <2>6. SessionOK'
    <3>1. \A d \in Clients \ {c} : lock' # d /\ temp'[d] = NoTemp
      BY <1>1, <2>2, <2>5 DEF SessionOK
    <3>2. \A n \in 1 .. Len(file) : s[n] = file[n]
      BY <2>2, <2>4
    <3>3. \A n \in 1 .. Len(s) : n > Len(file) => s[n][1] = c
      BY <2>2, <2>4
    <3>4. Len(file) <= Len(s)
      BY <2>2, <2>4
    <3> QED
      BY <1>1, <2>2, <2>4, <2>5, <3>1, <3>2, <3>3, <3>4 DEF SessionOK
  <2>7. Added(c)' = Added(c) \cup {word}
    <3>1. Added(c) = {temp[c][n] : n \in Len(file) + 1 .. Len(temp[c])}
      BY <2>2 DEF Added
    <3>2. Added(c)' = {s[n] : n \in Len(file) + 1 .. Len(s)}
      BY <1>1, <2>2, <2>5 DEF Added
    <3>3. \A n \in Len(file) + 1 .. Len(s) :
             s[n] = word \/ (n \in Len(file) + 1 .. Len(temp[c]) /\ s[n] = temp[c][n])
      BY <2>2, <2>4
    <3>4. \A n \in Len(file) + 1 .. Len(temp[c]) : n \in Len(file) + 1 .. Len(s) /\ s[n] = temp[c][n]
      BY <2>2, <2>4
    <3>5. Len(s) \in Len(file) + 1 .. Len(s) /\ s[Len(s)] = word
      BY <2>2, <2>4
    <3> QED
      BY <3>1, <3>2, <3>3, <3>4, <3>5
  <2>8. \A d \in Clients \ {c} : Served(d)
    BY <1>1, <1>2, <2>2 DEF Served, Added
  <2> QED
    BY <1>1, <1>2, <1>3, <2>1, <2>2, <2>5, <2>6, <2>7, <2>8 DEF ServerStep, TypeOK
<1>4. CASE ~answer
  <2>1. temp' = temp
    BY <1>4 DEF Write
  <2>2. SessionOK' /\ \A d \in Clients : Served(d)
    BY <1>1, <2>1, ServerSame DEF server
  <2> QED
    BY <1>1, <1>2, <1>4, <2>1, <2>2 DEF ServerStep, TypeOK, Served
<1> QED
  BY <1>3, <1>4

LEMMA FreeIs ==
    ASSUME TypeOK, NEW c \in Clients, NEW answer, Free(c, answer)
    PROVE  /\ lock' # c /\ lock' \in Clients \cup {Nobody}
           /\ \A d \in Clients \ {c} : lock' = d <=> lock = d
  BY NamesAssumption DEF TypeOK, Free

\* The file takes what the client has added.
LEMMA UnlockStep ==
    ASSUME TypeOK, SessionOK, NEW c \in Clients, NEW answer, Unlock(c, answer)
    PROVE  /\ ServerStep(c)
           /\ lock' # c /\ Added(c)' = {}
           /\ Filed(c)' = Filed(c) \cup Added(c)
           /\ file' = IF lock = c THEN temp[c] ELSE file
           /\ temp' = [temp EXCEPT ![c] = NoTemp]
<1>1. /\ lock' # c /\ lock' \in Clients \cup {Nobody}
      /\ \A d \in Clients \ {c} : lock' = d <=> lock = d
  BY FreeIs DEF Unlock
<1>2. temp' = [temp EXCEPT ![c] = NoTemp]
  BY DEF Unlock
<1>3. temp' \in [Clients -> Seq(Words) \cup {NoTemp}] /\ temp'[c] = NoTemp
      /\ \A d \in Clients \ {c} : temp'[d] = temp[d]
  BY <1>2 DEF TypeOK
<1>4. file' = IF lock = c THEN temp[c] ELSE file
  BY SessionIs DEF Unlock
<1>5. Added(c)' = {}
  BY <1>1 DEF Added
<1>6. CASE lock = c
  <2>1. /\ temp[c] \in Seq(Words) /\ Len(temp[c]) \in Nat /\ Len(file) <= Len(temp[c])
        /\ \A n \in 1 .. Len(file) : temp[c][n] = file[n]
        /\ \A n \in 1 .. Len(temp[c]) : n > Len(file) => temp[c][n][1] = c
        /\ Len(file) \in Nat /\ file \in Seq(Words) /\ file' = temp[c]
    BY <1>4, <1>6, SessionIs
  <2>2. SessionOK'
    BY <1>1, <1>3, <1>6 DEF SessionOK
  <2>3. \A n \in 1 .. Len(temp[c]) :
           (n \in 1 .. Len(file) /\ temp[c][n] = file[n])
           \/ (n \in Len(file) + 1 .. Len(temp[c]) /\ temp[c][n][1] = c)
    BY <2>1
  <2>4. \A n \in 1 .. Len(file) : n \in 1 .. Len(temp[c])
    BY <2>1
  <2>5. \A n \in Len(file) + 1 .. Len(temp[c]) : n \in 1 .. Len(temp[c]) /\ temp[c][n][1] = c
    BY <2>1
  <2>6. Filed(c)' = Filed(c) \cup Added(c)
    BY <1>6, <2>1, <2>3, <2>4, <2>5 DEF Filed, Added
  <2>7. ASSUME NEW d \in Clients \ {c} PROVE Filed(d)' = Filed(d)
    <3>1. ASSUME NEW w \in Filed(d)' PROVE w \in Filed(d)
      <4>1. PICK n \in 1 .. Len(temp[c]) : w = temp[c][n] /\ w[1] = d
        BY <2>1 DEF Filed
      <4>2. n \in 1 .. Len(file) /\ w = file[n]
        BY <2>3, <4>1
      <4> QED
        BY <4>1, <4>2 DEF Filed
    <3>2. ASSUME NEW w \in Filed(d) PROVE w \in Filed(d)'
      <4>1. PICK n \in 1 .. Len(file) : w = file[n] /\ w[1] = d
        BY DEF Filed
      <4>2. n \in 1 .. Len(temp[c]) /\ w = temp[c][n]
        BY <2>1, <2>4, <4>1
      <4> QED
        BY <2>1, <4>1, <4>2 DEF Filed
    <3> QED
      BY <3>1, <3>2 DEF Filed
  <2>8. ASSUME NEW d \in Clients \ {c} PROVE Served(d)
    <3>1. lock # d /\ lock' # d
      BY <1>1, <1>6
    <3>2. Added(d)' = Added(d)
      BY <3>1 DEF Added
    <3> QED
      BY <2>7, <3>1, <3>2 DEF Served
  <2> QED
    BY <1>1, <1>2, <1>3, <1>4, <1>5, <2>1, <2>2, <2>6, <2>8 DEF ServerStep
<1>7. CASE lock # c
  <2>1. file' = file /\ Added(c) = {}
    BY <1>4, <1>7 DEF Added
  <2>2. SessionOK'
    BY <1>1, <1>3, <2>1 DEF SessionOK
  <2>3. ASSUME NEW d \in Clients \ {c} PROVE Served(d)
    <3>1. Filed(d)' = Filed(d)
      BY <2>1 DEF Filed
    <3>2. (lock' = d <=> lock = d) /\ temp'[d] = temp[d]
      BY <1>1, <1>3
    <3>3. Added(d)' = Added(d)
      BY <2>1, <3>2 DEF Added
    <3> QED
      BY <3>1, <3>2, <3>3 DEF Served
  <2>4. Filed(c)' = Filed(c)
    BY <2>1 DEF Filed
  <2> QED
    BY <1>1, <1>2, <1>3, <1>4, <1>5, <2>1, <2>2, <2>3, <2>4 DEF ServerStep, TypeOK
<1> QED
  BY <1>6, <1>7

LEMMA CancelStep ==
    ASSUME TypeOK, SessionOK, NEW c \in Clients, NEW answer, CancelWrite(c, answer)
    PROVE  /\ ServerStep(c)
           /\ lock' # c /\ Added(c)' = {}
           /\ Filed(c)' = Filed(c) /\ file' = file
           /\ temp' = [temp EXCEPT ![c] = NoTemp]
<1>1. /\ lock' # c /\ lock' \in Clients \cup {Nobody}
      /\ \A d \in Clients \ {c} : lock' = d <=> lock = d
  BY FreeIs DEF CancelWrite
<1>2. temp' = [temp EXCEPT ![c] = NoTemp] /\ file' = file
  BY DEF CancelWrite
<1>3. temp' \in [Clients -> Seq(Words) \cup {NoTemp}] /\ temp'[c] = NoTemp
      /\ \A d \in Clients \ {c} : temp'[d] = temp[d]
  BY <1>2 DEF TypeOK
<1>4. SessionOK'
  BY <1>1, <1>2, <1>3 DEF SessionOK
<1>5. \A d \in Clients \ {c} : Served(d)
  BY <1>1, <1>2, <1>3 DEF Served, Added, Filed
<1>6. Added(c)' = {} /\ Filed(c)' = Filed(c)
  BY <1>1, <1>2 DEF Added, Filed
<1> QED
  BY <1>1, <1>2, <1>3, <1>4, <1>5, <1>6 DEF ServerStep, TypeOK

-----------------------------------------------------------------------------
(* A request is handled *)

\* Where the client was when its newest request was handled: the lock's or the word's.
LEMMA TakenWhere ==
    ASSUME TypeOK, NEW c \in Clients, NEW x, NEW i, NEW answer \in BOOLEAN,
           Taken(conns[c], x, i, answer), WaitOK(c, conns[c]), ~conns[c][i].stale, Up(conns[c])
    PROVE  LET k == conns[c][i] IN
           /\ pc[c] # "closing" /\ (pc[c] = "prompt" => sigint[c])
           /\ pc[c] = "writing" =>
                 /\ Only(k, "write") /\ TheWord(k) = Word(c, line[c])
                 /\ Newest(x).replies = <<answer>>
           /\ pc[c] \in {"locking", "relocking"} =>
                 Newest(x).replies = <<>> \/ (Only(k, "lock") /\ Newest(x).replies = <<answer>>)
<1> DEFINE cs == conns[c]
           k  == cs[i]
<1>1. /\ i = Len(cs) => Newest(cs) = k /\ Newest(x) = x[i]
      /\ i # Len(cs) => Newest(x) = Newest(cs) /\ ~OlderStale(cs)
  BY TakenNewest
<1>2. k.requests # <<>> /\ (k.link = "up" => x[i].replies = Append(k.replies, answer))
  BY DEF Taken
<1>3. <<>> \in Seq(BOOLEAN) /\ Append(<<>>, answer) = <<answer>>
  OBVIOUS
<1> HIDE DEF cs
<1>4. CASE i = Len(cs)
  <2>1. Newest(cs) = k /\ Newest(x) = x[i] /\ k.link = "up"
    BY <1>1, <1>4 DEF Up, Newest, cs
  <2>2. k.replies = <<>> => Newest(x).replies = <<answer>>
    BY <1>2, <1>3, <2>1
  <2> HIDE DEF k
  <2>3. pc[c] # "closing" /\ (pc[c] = "prompt" => sigint[c])
    BY <1>2, <2>1 DEF WaitOK, Quiet, cs, k
  <2>4. pc[c] = "writing" => Only(k, "write") /\ TheWord(k) = Word(c, line[c]) /\ k.replies = <<>>
    BY <1>2, <2>1 DEF WaitOK, Waiting, Answered, cs, k
  <2>5. pc[c] \in {"locking", "relocking"} => Only(k, "lock") /\ k.replies = <<>>
    BY <1>2, <2>1 DEF WaitOK, Waiting, Answered, cs, k
  <2> QED
    BY <2>2, <2>3, <2>4, <2>5 DEF k, cs
<1>5. CASE i # Len(cs)
  <2>1. Newest(x) = Newest(cs) /\ ~OlderStale(cs)
    BY <1>1, <1>5
  <2>2. pc[c] \notin {"closing", "writing"} /\ (pc[c] = "prompt" => sigint[c])
    BY <2>1 DEF WaitOK, cs
  <2>3. pc[c] \in {"locking", "relocking"} => Newest(x).replies = <<>>
    BY <2>1 DEF WaitOK, Waiting, cs
  <2> QED
    BY <2>2, <2>3
<1> QED
  BY <1>4, <1>5

LEMMA TakenWords ==
    ASSUME TypeOK, SessionOK, NEW c \in Clients, NEW x, NEW i, NEW answer \in BOOLEAN,
           Taken(conns[c], x, i, answer), ClientOK(c, conns[c]), WordsOK(c, conns[c]),
           UNCHANGED client, cancelled' = cancelled,
           Serve(c, Head(conns[c][i].requests), answer), ~conns[c][i].stale
    PROVE  WordsOK(c, x)'
<1> DEFINE k == conns[c][i]
           r == Head(k.requests)
<1>1. ConnsOK(c, conns[c]) /\ WaitOK(c, conns[c]) /\ CancelOK(c)
  BY DEF ClientOK
<1>2. /\ Len(conns[c]) \in Nat \ {0} /\ Len(x) = Len(conns[c]) /\ i \in 1 .. Len(conns[c])
      /\ \A j \in 1 .. Len(conns[c]) : /\ j < i => x[j].stale
                                      /\ j > i => x[j] = conns[c][j]
  BY DEF Taken
<1>3. UnderWay(c, k)
  BY <1>1, <1>2 DEF ConnsOK
<1>4. /\ r \in Requests /\ r = k.requests[1]
      /\ r.type \in {"write", "unlock", "cancel"} => Only(k, r.type)
      /\ r.type = "write" => r.word \in Words /\ r.word[1] = c /\ TheWord(k) = r.word
      /\ ~Only(x[i], "write") /\ ~Only(x[i], "unlock")
  BY <1>3, TakenRequests
<1>5. ASSUME NEW j \in 1 .. Len(x), ~x[j].stale PROVE PendingOK(c, x[j])'
  <2>1. CASE j = i
    BY <1>4, <2>1 DEF PendingOK
  <2>2. CASE j > i
    <3>1. x[j] = conns[c][j] /\ ~Begun(conns[c][j])
      BY <1>1, <1>2, <2>2 DEF ConnsOK
    <3>2. ~Only(x[j], "write") /\ ~Only(x[j], "unlock")
      <4>1. \A type : Only(x[j], type) /\ type # "lock" => Begun(x[j])
        BY DEF Only, Begun
      <4> QED
        BY <3>1, <4>1
    <3> QED
      BY <3>2 DEF PendingOK
  <2>3. CASE j < i
    <3>1. j \in 1 .. Len(conns[c])
      BY <1>2
    <3>2. x[j].stale
      BY <2>3, <3>1 DEF Taken
    <3> QED
      BY <1>5, <3>2
  <2>4. j = i \/ j > i \/ j < i
    BY <1>2
  <2> QED
    BY <2>1, <2>2, <2>3, <2>4
<1>6. EndsStay(c)
  BY <1>1, EndsSame DEF client
<1>7. PendingOK(c, k) /\ GrantOK(c, conns[c]) /\ FiledOK(c)
  BY <1>2 DEF WordsOK
<1>8. pc' = pc /\ edit' = edit /\ line' = line /\ sigint' = sigint
  BY DEF client
<1>9. Word(c, line[c])' = Word(c, line[c])
  BY <1>8 DEF Word
<1>10. (Up(x) <=> Up(conns[c])) /\ TypeOK
  BY TakenNewest
<1>11. ASSUME Up(x)
       PROVE  /\ pc[c] # "closing" /\ (pc[c] = "prompt" => sigint[c])
              /\ pc[c] = "writing" =>
                    /\ Only(k, "write") /\ TheWord(k) = Word(c, line[c])
                    /\ Newest(x).replies = <<answer>>
              /\ pc[c] \in {"locking", "relocking"} =>
                    Newest(x).replies = <<>> \/ (Only(k, "lock") /\ Newest(x).replies = <<answer>>)
  BY <1>1, <1>10, <1>11, TakenWhere
<1>12. \A b \in BOOLEAN : <<>> # <<b>> /\ (<<answer>> = <<b>> => answer = b)
  <2>1. \A b \in BOOLEAN : <<answer>> = <<b>> => <<answer>>[1] = <<b>>[1]
    OBVIOUS
  <2> QED
    BY <2>1, EmptyIsNotOne
<1> DEFINE Good == GrantOK(c, x)' /\ FiledOK(c)'
<1>13. Only(k, r.type)  => \A type : Only(k, type) => type = r.type
  BY DEF Only
<1>14. ASSUME r.type = "lock", Lock(c, answer) PROVE Good
  <2>1. (lock' = c <=> answer) /\ Added(c)' = {} /\ Filed(c)' = Filed(c)
    BY <1>14, LockStep
  <2>2. FiledOK(c)'
    <3>1. \A v \in Filed(c) : v[2] \in Nat
      BY WordsTyped DEF Words
    <3> QED
      BY <1>6, <1>7, <2>1, <3>1 DEF FiledOK, EndsStay
  <2>3. Up(x) => pc[c] # "writing"
    BY <1>4, <1>11, <1>14 DEF Only
  <2> HIDE DEF k, r
  <2>4. GrantOK(c, x)'
    BY <1>8, <1>11, <1>12, <2>1, <2>3 DEF GrantOK, Granted
  <2> QED
    BY <2>2, <2>4
<1>15. ASSUME r.type = "write", Write(c, r.word, answer) PROVE Good
  <2>1. /\ lock' = lock /\ Filed(c)' = Filed(c)
        /\ Added(c)' = IF answer THEN Added(c) \cup {r.word} ELSE Added(c)
    BY <1>4, <1>15, WriteStep
  <2>2. FiledOK(c)'
    <3>1. \A v \in Filed(c) : v[2] \in Nat
      BY WordsTyped DEF Words
    <3> QED
      BY <1>6, <1>7, <2>1, <3>1 DEF FiledOK, EndsStay
  <2>3. Only(k, "write") /\ ~Only(k, "lock") /\ TheWord(k) = r.word
    BY <1>4, <1>15 DEF Only
  <2>4. r.word = Word(c, line[c]) => r.word[2] = edit[c] /\ r.word[3] = line[c] /\ line[c] \in Nat
    BY DEF Word, TypeOK
  <2>5. Up(x) /\ pc[c] = "writing" => lock = c /\ \A w \in Added(c) : w[2] = edit[c] /\ w[3] <= line[c]
    BY <1>7, <1>10 DEF GrantOK, Granted
  <2> HIDE DEF k, r
  <2>6. Up(x) /\ pc[c] \in {"locking", "relocking"} => Newest(x).replies = <<>>
    BY <1>11, <2>3
  <2>7. Up(x) /\ pc[c] = "writing" => \A w \in Added(c)' : w[2] = edit[c] /\ w[3] <= line[c]
    BY <1>11, <2>1, <2>3, <2>4, <2>5
  <2>8. Up(x) /\ pc[c] = "writing" /\ Newest(x).replies = <<TRUE>> => Word(c, line[c]) \in Added(c)'
    BY <1>11, <1>12, <2>1, <2>3
  <2>9. GrantOK(c, x)'
    BY <1>8, <1>9, <1>11, <1>12, <2>1, <2>5, <2>6, <2>7, <2>8 DEF GrantOK, Granted
  <2> QED
    BY <2>2, <2>9
<1>16. ASSUME r.type \in {"unlock", "cancel"}, lock' # c PROVE GrantOK(c, x)'
  <2>1. ~Only(k, "write") /\ ~Only(k, "lock")
    BY <1>4, <1>16 DEF Only
  <2> HIDE DEF k, r
  <2>2. Up(x) => pc[c] # "writing" /\ (pc[c] \in {"locking", "relocking"} => Newest(x).replies = <<>>)
    BY <1>11, <2>1
  <2> QED
    BY <1>8, <1>11, <1>12, <1>16, <2>2 DEF GrantOK, Granted
<1>17. ASSUME r.type = "unlock", Unlock(c, answer) PROVE Good
  <2>1. lock' # c /\ Filed(c)' = Filed(c) \cup Added(c)
    BY <1>17, UnlockStep
  <2>2. \A v \in Filed(c) \cup Added(c) : v[2] \in Nat
    BY WordsTyped DEF Words
  <2>3. \A v \in Added(c) : Ended(c, v[2])
    BY <1>4, <1>7, <1>17 DEF PendingOK
  <2>4. FiledOK(c)'
    BY <1>6, <1>7, <2>1, <2>2, <2>3 DEF FiledOK, EndsStay
  <2> QED
    BY <1>16, <1>17, <2>1, <2>4
<1>18. ASSUME r.type = "cancel", CancelWrite(c, answer) PROVE Good
  <2>1. lock' # c /\ Filed(c)' = Filed(c)
    BY <1>18, CancelStep
  <2>2. \A v \in Filed(c) : v[2] \in Nat
    BY WordsTyped DEF Words
  <2>3. FiledOK(c)'
    BY <1>6, <1>7, <2>1, <2>2 DEF FiledOK, EndsStay
  <2> QED
    BY <1>16, <1>18, <2>1, <2>3
<1>19. Good
  BY <1>14, <1>15, <1>17, <1>18 DEF Serve
<1> QED
  BY <1>5, <1>19 DEF WordsOK

\* A text stays apart: who was late remains so.
LEMMA ApartStays ==
    ASSUME NEW s \in Seq(Words), Apart(s), \A d \in Clients : races[d] \subseteq races'[d]
    PROVE  Apart(s)'
<1>1. \A n \in 1 .. Len(s) : s[n][1] \in Clients
  <2>1. \A n \in 1 .. Len(s) : s[n] \in Words
    OBVIOUS
  <2> QED
    BY <2>1 DEF Words
<1> QED
  BY <1>1 DEF Apart

\* No text but the file's and those of the sessions, each as it was.
LEMMA TextsKept ==
    ASSUME TypeOK, SessionOK, TextsOK, \A d \in Clients : races[d] \subseteq races'[d],
           file' = file \/ \E d \in Clients : lock = d /\ file' = temp[d],
           \A d \in Clients : lock' = d => temp'[d] = file \/ (lock = d /\ temp'[d] = temp[d])
    PROVE  TextsOK'
<1> DEFINE Text(s) == s = file \/ \E d \in Clients : lock = d /\ s = temp[d]
<1>1. ASSUME NEW s, Text(s) PROVE Apart(s)'
  <2>1. s \in Seq(Words)
    BY <1>1, SessionIs DEF TypeOK
  <2>2. Apart(s)
    BY <1>1 DEF TextsOK
  <2> QED
    BY <2>1, <2>2, ApartStays
<1>2. Apart(file)'
  <2>1. PICK s : s = file'
    OBVIOUS
  <2>2. Text(s)
    BY <2>1
  <2>3. Apart(s)'
    BY <1>1, <2>2
  <2> QED
    BY <2>1, <2>3 DEF Apart
<1>3. ASSUME NEW d \in Clients, lock' = d PROVE Apart(temp[d])'
  <2>1. PICK s : s = temp'[d]
    OBVIOUS
  <2>2. Text(s)
    BY <1>3, <2>1
  <2>3. Apart(s)'
    BY <1>1, <2>2
  <2> QED
    BY <2>1, <2>3 DEF Apart
<1> QED
  BY <1>2, <1>3 DEF TextsOK

\* A word that is added to a text.
LEMMA TextsGrow ==
    ASSUME TypeOK, SessionOK, TextsOK, \A d \in Clients : races[d] \subseteq races'[d],
           NEW c \in Clients, lock = c, lock' = lock, file' = file,
           NEW word \in Words, word[1] = c,
           temp' = [temp EXCEPT ![c] = Append(temp[c], word)],
           "late" \notin races'[c] => word \notin Added(c) \cup Filed(c)
    PROVE  TextsOK'
<1>1. /\ temp[c] \in Seq(Words) /\ Len(temp[c]) \in Nat /\ Len(file) <= Len(temp[c])
      /\ \A n \in 1 .. Len(file) : temp[c][n] = file[n]
      /\ \A n \in 1 .. Len(temp[c]) : n > Len(file) => temp[c][n][1] = c
      /\ Len(file) \in Nat /\ file \in Seq(Words)
  BY SessionIs
<1>2. PICK s : s = Append(temp[c], word)
  OBVIOUS
<1>3. /\ s \in Seq(Words) /\ Len(s) = Len(temp[c]) + 1 /\ s[Len(s)] = word
      /\ \A n \in 1 .. Len(temp[c]) : s[n] = temp[c][n]
  BY <1>1, <1>2
<1>4. temp'[c] = s
  BY <1>2 DEF TypeOK
<1>5. PICK t : t = temp[c]
  OBVIOUS
<1>6. Apart(t)'
  BY <1>1, <1>5, ApartStays DEF TextsOK
<1>7. ASSUME NEW n \in 1 .. Len(t), t[n] = word PROVE "late" \in races'[c]
  <2>1. CASE n <= Len(file)
    <3>1. n \in 1 .. Len(file) /\ file[n] = word
      BY <1>1, <1>5, <1>7, <2>1
    <3>2. word \in Filed(c)
      BY <3>1 DEF Filed
    <3> QED
      BY <3>2
  <2>2. CASE n > Len(file)
    <3>1. n \in Len(file) + 1 .. Len(temp[c]) /\ temp[c][n] = word
      BY <1>1, <1>5, <1>7, <2>2
    <3>2. word \in Added(c)
      BY <3>1 DEF Added
    <3> QED
      BY <3>2
  <2> QED
    BY <1>1, <1>5, <2>1, <2>2
<1>8. Apart(s)'
  <2>1. ASSUME NEW m \in 1 .. Len(s), NEW n \in 1 .. Len(s), s[m] = s[n],
               "late" \notin races'[s[m][1]], m < n
        PROVE  FALSE
    <3>1. CASE n = Len(s)
      <4>1. m \in 1 .. Len(t) /\ t[m] = word
        BY <1>1, <1>3, <1>5, <2>1, <3>1
      <4> QED
        BY <1>3, <1>7, <2>1, <3>1, <4>1
    <3>2. CASE n # Len(s)
      <4>1. m \in 1 .. Len(t) /\ n \in 1 .. Len(t) /\ s[m] = t[m] /\ s[n] = t[n]
        BY <1>1, <1>3, <1>5, <2>1, <3>2
      <4>2. m = n
        BY <1>6, <2>1, <4>1 DEF Apart
      <4> QED
        BY <2>1, <4>2
    <3> QED
      BY <3>1, <3>2
  <2>2. \A m, n \in 1 .. Len(s) : m < n \/ n < m \/ m = n
    BY <1>3
  <2> QED
    BY <2>1, <2>2 DEF Apart
<1>9. Apart(file)'
  <2>1. PICK f : f = file
    OBVIOUS
  <2>2. Apart(f)'
    BY <1>1, <2>1, ApartStays DEF TextsOK
  <2> QED
    BY <2>1, <2>2 DEF Apart
<1>10. Apart(temp[c])'
  BY <1>4, <1>8 DEF Apart
<1> QED
  BY <1>9, <1>10 DEF TextsOK

\* The connection that is forgotten, after the step.
LEMMA RemovedClientThen ==
    ASSUME NEW c \in Clients, NEW cs, NEW N, NEW i
    PROVE  (Removed(cs, N, i) /\ ClientOK(c, cs) => ClientOK(c, N))'
<1>1. Removed(cs, N, i) /\ ClientOK(c, cs) => ClientOK(c, N)
  BY RemovedClient
<1> QED
  BY <1>1, PTL

LEMMA ForgottenClient ==
    ASSUME NEW c \in Clients, NEW x \in Seq(Connections), NEW i \in 1 .. Len(x), ClientOK(c, x)'
    PROVE  ClientOK(c, Forget(x, i))'
<1>1. CASE Over(x[i])
  <2>1. PICK N : N = Forget(x, i)
    OBVIOUS
  <2>2. Removed(x, N, i)
    BY <1>1, <2>1, ForgetRemoves
  <2>3. Removed(x, N, i)'
    BY <2>2
  <2>4. ClientOK(c, N)'
    BY <2>3, RemovedClientThen
  <2> QED
    BY <2>1, <2>4
<1>2. CASE ~Over(x[i])
  BY <1>2 DEF Forget
<1> QED
  BY <1>1, <1>2

\* What was asked is done to the locks, the sessions and the texts.
LEMMA TakenServer ==
    ASSUME TypeOK, SessionOK, TextsOK, NEW c \in Clients, NEW x, NEW i, NEW answer \in BOOLEAN,
           Taken(conns[c], x, i, answer), ClientOK(c, conns[c]),
           Serve(c, Head(conns[c][i].requests), answer),
           \A d \in Clients : races[d] \subseteq races'[d],
           "late" \notin races'[c] => ~conns[c][i].stale
    PROVE  ServerStep(c) /\ TextsOK'
<1> DEFINE k == conns[c][i]
           r == Head(k.requests)
<1>1. i \in 1 .. Len(conns[c])
  BY DEF Taken
<1>2. UnderWay(c, k)
  BY <1>1 DEF ClientOK, ConnsOK
<1>3. /\ r \in Requests /\ r = k.requests[1]
      /\ r.type \in {"write", "unlock", "cancel"} => Only(k, r.type)
      /\ r.type = "write" => r.word \in Words /\ r.word[1] = c /\ TheWord(k) = r.word
  BY <1>2, TakenRequests
<1>4. \A d \in Clients : lock = d => d # Nobody
  BY NamesAssumption
<1>5. temp \in [Clients -> Seq(Words) \cup {NoTemp}]
  BY DEF TypeOK
<1>6. ASSUME r.type = "lock", Lock(c, answer) PROVE ServerStep(c) /\ TextsOK'
  <2>1. /\ ServerStep(c) /\ (lock' = c <=> answer) /\ file' = file
        /\ temp' = IF answer THEN [temp EXCEPT ![c] = file] ELSE temp
    BY <1>6, LockStep
  <2>2. \A d \in Clients \ {c} : lock' = d => lock = d
    BY <2>1 DEF ServerStep, Served
  <2>3. ASSUME NEW d \in Clients, lock' = d
        PROVE  temp'[d] = file \/ (lock = d /\ temp'[d] = temp[d])
    <3>1. CASE d = c
      BY <1>5, <2>1, <2>3, <3>1
    <3>2. CASE d # c
      <4>1. temp'[d] = temp[d]
        BY <1>5, <2>1, <3>2
      <4> QED
        BY <2>2, <2>3, <3>2, <4>1
    <3> QED
      BY <3>1, <3>2
  <2>4. TextsOK'
    BY <2>1, <2>3, TextsKept
  <2> QED
    BY <2>1, <2>4
<1>7. ASSUME r.type = "write", Write(c, r.word, answer) PROVE ServerStep(c) /\ TextsOK'
  <2>1. /\ ServerStep(c) /\ lock' = lock /\ file' = file
        /\ answer => lock = c /\ temp' = [temp EXCEPT ![c] = Append(temp[c], r.word)]
        /\ ~answer => temp' = temp
    BY <1>3, <1>7, WriteStep
  <2>2. CASE answer
    <3>1. ASSUME "late" \notin races'[c] PROVE r.word \notin Added(c) \cup Filed(c)
      <4>1. "late" \notin races[c] /\ ~k.stale
        BY <3>1
      <4>2. PendingOK(c, k)
        BY <1>1, <4>1 DEF ClientOK, WordsOK
      <4>3. Only(k, "write") /\ TheWord(k) = r.word
        BY <1>3, <1>7
      <4>4. /\ \A v \in Added(c) : v[3] < r.word[3]
            /\ \A v \in Filed(c) : v[2] # r.word[2]
        BY <4>2, <4>3 DEF PendingOK
      <4>5. r.word[3] \in Nat
        BY <1>3, <1>7 DEF Words
      <4>6. ~(r.word[3] < r.word[3])
        BY <4>5
      <4> QED
        BY <4>4, <4>6
    <3> HIDE DEF k, r
    <3>2. TextsOK'
      BY <1>3, <1>7, <2>1, <2>2, <3>1, TextsGrow
    <3> QED
      BY <2>1, <3>2
  <2>3. CASE ~answer
    <3>1. \A d \in Clients : lock' = d => lock = d /\ temp'[d] = temp[d]
      BY <2>1, <2>3
    <3>2. TextsOK'
      BY <2>1, <3>1, TextsKept
    <3> QED
      BY <2>1, <3>2
  <2> QED
    BY <2>2, <2>3
<1>8. ASSUME ServerStep(c), lock' # c, temp' = [temp EXCEPT ![c] = NoTemp],
             file' = file \/ (lock = c /\ file' = temp[c])
      PROVE  TextsOK'
  <2>1. \A d \in Clients : lock' = d => lock = d /\ temp'[d] = temp[d]
    BY <1>5, <1>8 DEF ServerStep, Served
  <2> QED
    BY <1>8, <2>1, TextsKept
<1>9. ASSUME r.type = "unlock", Unlock(c, answer) PROVE ServerStep(c) /\ TextsOK'
  <2>1. /\ ServerStep(c) /\ lock' # c /\ temp' = [temp EXCEPT ![c] = NoTemp]
        /\ file' = IF lock = c THEN temp[c] ELSE file
    BY <1>9, UnlockStep
  <2> QED
    BY <1>8, <2>1
<1>10. ASSUME r.type = "cancel", CancelWrite(c, answer) PROVE ServerStep(c) /\ TextsOK'
  <2>1. /\ ServerStep(c) /\ lock' # c /\ temp' = [temp EXCEPT ![c] = NoTemp] /\ file' = file
    BY <1>10, CancelStep
  <2> QED
    BY <1>8, <2>1
<1> QED
  BY <1>6, <1>7, <1>9, <1>10 DEF Serve

\* What is shown of a handled request.
LEMMA HandleFine ==
    ASSUME WriteInv, NEW c \in Clients, NEW i \in DOMAIN conns[c], Handle(c, i)
    PROVE  /\ TypeOK' /\ SessionOK' /\ TextsOK'
           /\ \A d \in Clients \ {c} : Untouched(d) /\ Served(d)
           /\ ClientOK(c, conns[c])'
           /\ \A d \in Clients : races[d] \subseteq races'[d]
           /\ "late" \notin races'[c] => ~conns[c][i].stale
<1>1. TypeOK /\ SessionOK /\ TextsOK /\ ClientOK(c, conns[c]) /\ ConnsOK(c, conns[c])
      /\ WaitOK(c, conns[c]) /\ CancelOK(c)
  BY DEF WriteInv, ClientOK
<1>2. /\ UNCHANGED <<client, reported, cancelled, faults>>
      /\ Note(c, IF conns[c][i].stale THEN {"late"} ELSE {})
  BY DEF Handle
<1>3. /\ races' \in [Clients -> SUBSET {"cut", "late", "gaveup", "vanished"}]
      /\ \A d \in Clients \ {c} : races'[d] = races[d]
      /\ races'[c] = races[c] \cup (IF conns[c][i].stale THEN {"late"} ELSE {})
  BY <1>1, <1>2, NoteIs
<1>4. PICK answer \in BOOLEAN, x \in Seq(Connections) :
         /\ Serve(c, Head(conns[c][i].requests), answer)
         /\ Taken(conns[c], x, i, answer)
         /\ conns' = [conns EXCEPT ![c] = Forget(x, i)]
  BY <1>1, HandleTakes
<1>5. ServerStep(c) /\ TextsOK'
  BY <1>1, <1>3, <1>4, TakenServer
<1>6. ConnsOK(c, x)' /\ WaitOK(c, x)'
  BY <1>1, <1>2, <1>3, <1>4, TakenConns, TakenWait
<1>7. CancelOK(c)'
  BY <1>1, <1>2, EndsSame DEF client, EndsStay
<1>8. ASSUME "late" \notin races'[c] PROVE WordsOK(c, x)'
  <2>1. WordsOK(c, conns[c]) /\ ~conns[c][i].stale
    BY <1>1, <1>3, <1>8 DEF ClientOK
  <2> QED
    BY <1>1, <1>2, <1>4, <2>1, TakenWords
<1>9. ClientOK(c, x)'
  BY <1>6, <1>7, <1>8 DEF ClientOK
<1>10. i \in 1 .. Len(x)
  BY <1>4 DEF Taken
<1>11. PICK N : N = Forget(x, i)
  OBVIOUS
<1>12. ClientOK(c, N)' /\ N \in Seq(Connections)
  <2>1. Over(x[i]) => Removed(x, Forget(x, i), i)
    BY <1>10, ForgetRemoves
  <2>2. ~Over(x[i]) => Forget(x, i) = x
    BY DEF Forget
  <2>3. N \in Seq(Connections)
    BY <1>4, <1>11, <2>1, <2>2 DEF Removed
  <2> QED
    BY <1>9, <1>10, <1>11, <2>3, ForgottenClient
<1>13. /\ conns' \in [Clients -> Seq(Connections)] /\ conns'[c] = N
       /\ \A d \in Clients \ {c} : conns'[d] = conns[d]
  BY <1>1, <1>4, <1>11, <1>12 DEF TypeOK
<1>14. ClientOK(c, conns[c])'
  <2>1. ClientOK(c, conns[c])' <=> ClientOK(c, N)'
    BY <1>13 DEF ClientOK, ConnsOK, WaitOK, WordsOK, GrantOK, Granted, PendingOK
  <2> QED
    BY <1>12, <2>1
<1>15. TypeOK'
  BY <1>1, <1>2, <1>3, <1>5, <1>13 DEF TypeOK, client, ServerStep
<1>16. \A d \in Clients \ {c} : Untouched(d)
  BY <1>2, <1>3, <1>13 DEF Untouched, client
<1> QED
  BY <1>3, <1>5, <1>14, <1>15, <1>16 DEF ServerStep

LEMMA HandleKeeps ==
    ASSUME WriteInv, NEW c \in Clients, NEW i \in DOMAIN conns[c], Handle(c, i)
    PROVE  WriteInv'
<1>1. /\ TypeOK' /\ SessionOK' /\ TextsOK'
      /\ \A d \in Clients \ {c} : Untouched(d) /\ Served(d)
      /\ ClientOK(c, conns[c])'
  BY HandleFine
<1>2. \A d \in Clients \ {c} : ClientOK(d, conns[d])'
  BY <1>1, UntouchedClient DEF WriteInv
<1> QED
  BY <1>1, <1>2 DEF WriteInv

-----------------------------------------------------------------------------
(* The server restarts *)

\* What is left of a client's connections.
LEMMA RestartConns ==
    ASSUME TypeOK, NEW c \in Clients, RestartServer
    PROVE  /\ conns'[c] \in Seq(Connections)
           /\ \/ ~On(conns[c]) /\ conns'[c] = <<>>
              \/ /\ On(conns[c]) /\ Len(conns'[c]) = 1 /\ conns'[c] # <<>>
                 /\ conns'[c][1].link = "cut" /\ conns'[c][1].requests = <<>>
                 /\ conns'[c][1].replies = <<>> /\ conns'[c][1].stale = Newest(conns[c]).stale
                 /\ "cut" \in races'[c]
           /\ races[c] \subseteq races'[c]
           /\ conns[c] # <<>> => "cut" \in races'[c]
<1> DEFINE k == Newest(conns[c])
<1>1. races'[c] = IF conns[c] # <<>> THEN races[c] \cup {"cut"} ELSE races[c]
  BY DEF RestartServer
<1>2. CASE ~On(conns[c])
  <2>1. conns'[c] = <<>>
    BY <1>2, NewestIs DEF RestartServer
  <2> QED
    BY <1>1, <1>2, <2>1
<1>3. CASE On(conns[c])
  <2>1. conns[c] # <<>>
    BY <1>3 DEF On
  <2>2. k \in Connections
    BY <2>1, NewestTyped
  <2>3. PICK x : x = [k EXCEPT !.link = "cut", !.requests = <<>>, !.replies = <<>>]
    OBVIOUS
  <2>4. conns'[c] = <<x>>
    BY <1>3, <2>3, NewestIs DEF RestartServer
  <2>5. <<>> \in Seq(Requests) /\ <<>> \in Seq(BOOLEAN)
    OBVIOUS
  <2> HIDE DEF k
  <2>6. /\ x \in Connections /\ x.link = "cut" /\ x.requests = <<>> /\ x.replies = <<>>
        /\ x.stale = k.stale
    BY <2>2, <2>3, <2>5 DEF Connections
  <2>7. <<x>> \in Seq(Connections) /\ Len(<<x>>) = 1 /\ <<x>>[1] = x /\ <<x>> # <<>>
    BY <2>6
  <2> QED
    BY <1>1, <1>3, <2>1, <2>4, <2>6, <2>7 DEF k
<1> QED
  BY <1>2, <1>3

LEMMA RestartServerKeeps ==
    ASSUME WriteInv, RestartServer
    PROVE  WriteInv'
<1>1. TypeOK /\ SessionOK /\ TextsOK /\ \A c \in Clients : ClientOK(c, conns[c])
  BY DEF WriteInv
<1>2. /\ faults' = faults - 1 /\ faults > 0 /\ lock' = Nobody /\ temp' = [c \in Clients |-> NoTemp]
      /\ races' = [c \in Clients |-> IF conns[c] # <<>> THEN races[c] \cup {"cut"} ELSE races[c]]
      /\ UNCHANGED <<client, file, reported, cancelled>>
  BY DEF RestartServer
<1>3. /\ pc' = pc /\ edit' = edit /\ line' = line /\ retries' = retries /\ writes' = writes
      /\ status' = status /\ sigint' = sigint /\ file' = file /\ cancelled' = cancelled
  BY <1>2 DEF client
<1>4. TypeOK'
  <2>1. conns' \in [Clients -> Seq(Connections)]
    <3>1. \A c \in Clients : conns'[c] \in Seq(Connections)
      BY <1>1, RestartConns
    <3>2. conns' = [c \in Clients |-> conns'[c]]
      BY DEF RestartServer
    <3> QED
      BY <3>1, <3>2
  <2>2. races' \in [Clients -> SUBSET {"cut", "late", "gaveup", "vanished"}]
    BY <1>1, <1>2 DEF TypeOK
  <2>3. temp' \in [Clients -> Seq(Words) \cup {NoTemp}] /\ lock' \in Clients \cup {Nobody}
    BY <1>2
  <2>4. faults' \in Nat
    BY <1>1, <1>2 DEF TypeOK
  <2> QED
    BY <1>1, <1>2, <1>3, <2>1, <2>2, <2>3, <2>4 DEF TypeOK
<1>5. \A c \in Clients : lock' # c /\ temp'[c] = NoTemp /\ Added(c)' = {} /\ Filed(c)' = Filed(c)
  BY <1>2, <1>3, NamesAssumption DEF Added, Filed
<1>6. SessionOK'
  BY <1>5 DEF SessionOK
<1>7. \A c \in Clients : races[c] \subseteq races'[c]
  BY <1>1, RestartConns
<1>8. TextsOK'
  BY <1>1, <1>3, <1>5, <1>7, TextsKept
<1>9. ASSUME NEW c \in Clients PROVE ClientOK(c, conns[c])'
  <2>1. ConnsOK(c, conns[c]) /\ WaitOK(c, conns[c]) /\ CancelOK(c)
    BY <1>1 DEF ClientOK
  <2>2. EndsStay(c)
    BY <1>3, <2>1, EndsSame
  <2>3. /\ \/ ~On(conns[c]) /\ conns'[c] = <<>>
           \/ /\ On(conns[c]) /\ Len(conns'[c]) = 1 /\ conns'[c] # <<>>
              /\ conns'[c][1].link = "cut" /\ conns'[c][1].requests = <<>>
              /\ conns'[c][1].replies = <<>> /\ conns'[c][1].stale = Newest(conns[c]).stale
              /\ "cut" \in races'[c]
    BY <1>1, RestartConns
  <2>4. /\ On(conns'[c]) <=> On(conns[c])
        /\ ~Up(conns'[c])
    BY <2>3 DEF On, Up
  <2>5. ConnsOK(c, conns[c])'
    <3>1. CASE conns'[c] = <<>>
      <4>1. Len(conns'[c]) = 0
        BY <3>1
      <4> QED
        BY <3>1, <4>1 DEF ConnsOK, On
    <3>2. CASE On(conns[c]) /\ Len(conns'[c]) = 1
      <4>1. PICK N : N = conns'[c]
        OBVIOUS
      <4>2. /\ Len(N) = 1 /\ N[1].link = "cut" /\ N[1].requests = <<>>
            /\ N[1].replies = <<>> /\ N[1].stale = Newest(conns[c]).stale /\ "cut" \in races'[c]
        BY <2>3, <3>2, <4>1, EmptyIsNotOne
      <4>3. ~Newest(conns[c]).stale
        BY <2>1, <3>2 DEF ConnsOK
      <4>4. UnderWay(c, N[1])
        BY <4>2 DEF UnderWay
      <4>5. Newest(N) = N[1]
        BY <4>2 DEF Newest
      <4>6. ConnsOK(c, N)'
        BY <4>2, <4>3, <4>4, <4>5 DEF ConnsOK
      <4> QED
        BY <4>1, <4>6 DEF ConnsOK
    <3> QED
      BY <2>3, <3>1, <3>2
  <2>6. WaitOK(c, conns[c])'
    BY <1>3, <2>1, <2>4 DEF WaitOK
  <2>7. ASSUME "late" \notin races'[c] PROVE WordsOK(c, conns[c])'
    <3>1. FiledOK(c)
      BY <1>1, <1>7, <2>7 DEF ClientOK, WordsOK
    <3>2. \A v \in Filed(c) : v[2] \in Nat
      BY <1>1, WordsTyped DEF Words
    <3>3. FiledOK(c)'
      BY <1>5, <2>2, <3>1, <3>2 DEF FiledOK, EndsStay
    <3>4. \A i \in 1 .. Len(conns'[c]) : conns'[c][i].requests = <<>>
      <4>1. CASE conns'[c] = <<>>
        <5>1. Len(conns'[c]) = 0
          BY <4>1
        <5> QED
          BY <5>1
      <4>2. CASE Len(conns'[c]) = 1 /\ conns'[c][1].requests = <<>>
        BY <4>2
      <4> QED
        BY <2>3, <4>1, <4>2
    <3>5. ASSUME NEW i \in 1 .. Len(conns'[c]) PROVE PendingOK(c, conns[c][i])'
      BY <3>4 DEF PendingOK, Only
    <3>6. GrantOK(c, conns[c])'
      BY <2>4 DEF GrantOK, Granted
    <3> QED
      BY <3>3, <3>5, <3>6 DEF WordsOK
  <2> QED
    BY <2>2, <2>5, <2>6, <2>7 DEF ClientOK, EndsStay
<1> QED
  BY <1>4, <1>6, <1>8, <1>9 DEF WriteInv

-----------------------------------------------------------------------------
(* The invariant *)

LEMMA StepFine ==
    ASSUME WriteInv, NEW c \in Clients,
           Continue(c) \/ UserStep(c) \/ LoseConnection(c) \/ Vanish(c)
    PROVE  Fine(c)
<1>1. CASE Continue(c)
  BY <1>1, LockAnsweredFine, LockUnansweredFine, WriteAnsweredFine, WriteUnansweredFine,
     ReconnectFine, NoReconnectionFine, LockRegainedFine, LockNotRegainedFine, SendUnlockFine,
     EndEditFine, ExitFine DEF Continue
<1>2. CASE UserStep(c)
  BY <1>2, BeginEditFine, TypeLineFine, EndLinesFine, InterruptFine DEF UserStep
<1> QED
  BY <1>1, <1>2, LoseConnectionFine, VanishFine

LEMMA InitWriteInv == Init => WriteInv
<1> SUFFICES ASSUME Init PROVE WriteInv
  OBVIOUS
<1>1. <<>> \in Seq(Connections) /\ <<>> \in Seq(Words) /\ Len(<<>>) = 0
  OBVIOUS
<1>2. TypeOK
  <2>1. 0 \in 0 .. MaxRetries /\ MaxFaults \in Nat
    BY BoundsAssumption
  <2> QED
    BY <1>1, <2>1 DEF Init, TypeOK
<1>3. \A c \in Clients : lock # c /\ temp[c] = NoTemp
  BY NamesAssumption DEF Init
<1>4. SessionOK
  BY <1>3 DEF SessionOK
<1>5. Len(file) = 0
  BY <1>1 DEF Init
<1>6. TextsOK
  BY <1>3, <1>5 DEF TextsOK, Apart
<1>7. ASSUME NEW c \in Clients PROVE ClientOK(c, conns[c])
  <2>1. conns[c] = <<>> /\ Len(conns[c]) = 0 /\ ~On(conns[c]) /\ ~Up(conns[c])
        /\ pc[c] = "idle" /\ cancelled = {}
    BY <1>1 DEF Init, On, Up
  <2>2. ConnsOK(c, conns[c]) /\ WaitOK(c, conns[c]) /\ CancelOK(c)
    BY <2>1 DEF ConnsOK, WaitOK, CancelOK
  <2>3. Filed(c) = {}
    BY <1>5 DEF Filed
  <2>4. WordsOK(c, conns[c])
    BY <2>1, <2>3 DEF WordsOK, GrantOK, Granted, FiledOK
  <2> QED
    BY <2>2, <2>4 DEF ClientOK
<1> QED
  BY <1>2, <1>4, <1>6, <1>7 DEF WriteInv

LEMMA StutterKeeps ==
    ASSUME WriteInv, UNCHANGED vars
    PROVE  WriteInv'
<1>1. /\ UNCHANGED client /\ UNCHANGED server
      /\ UNCHANGED <<conns, reported, cancelled, races, faults>>
  BY DEF vars
<1>2. /\ UNCHANGED <<pc, edit, line, retries, writes, status, sigint>>
      /\ UNCHANGED <<lock, temp, file>>
  BY <1>1 DEF client, server
<1>3. \A d \in Clients : Untouched(d)
  BY <1>1, <1>2 DEF Untouched
<1>4. TypeOK'
  BY <1>1, <1>2 DEF WriteInv, TypeOK
<1>5. SessionOK' /\ \A d \in Clients : Served(d)
  BY <1>1, ServerSame DEF WriteInv
<1>6. \A d \in Clients : ClientOK(d, conns[d])'
  BY <1>3, <1>4, <1>5, UntouchedClient DEF WriteInv
<1>7. TextsOK'
  BY <1>1, <1>2 DEF WriteInv, TextsOK, Apart
<1> QED
  BY <1>4, <1>5, <1>6, <1>7 DEF WriteInv

LEMMA NextKeeps ==
    ASSUME WriteInv, [Next]_vars
    PROVE  WriteInv'
<1>1. ASSUME NEW c \in Clients, Fine(c) PROVE WriteInv'
  BY <1>1, OwnStepKeeps DEF Fine
<1> QED
  BY <1>1, StepFine, HandleKeeps, RestartServerKeeps, StutterKeeps DEF Next, ServerThreads

LEMMA WriteInvariant == Spec => []WriteInv
<1>1. WriteInv /\ [Next]_vars => WriteInv'
  BY NextKeeps
<1> QED
  BY <1>1, InitWriteInv, PTL DEF Spec

\* The types: whatever breaks and whoever interrupts, no line is tried again more than
\* MaxRetries times (MAX_RETRIES of handle_write), and what is under way stays of its kind.
THEOREM Types == Spec => []TypeOK
<1>1. WriteInv => TypeOK
  BY DEF WriteInv
<1> QED
  BY <1>1, WriteInvariant, PTL

\* No word is in the file twice, for any users, lines, retries and faults: the WRITE that
\* handle_write sends again goes to a session that start_write_session_ss has copied anew,
\* so that what the server did of the first one is gone.
THEOREM WordsOnce == Spec => []UndisturbedWordsOnce
<1>1. WriteInv => UndisturbedWordsOnce
  <2> SUFFICES ASSUME WriteInv PROVE UndisturbedWordsOnce
    OBVIOUS
  <2>1. file \in Seq(Words) /\ Apart(file)
    BY DEF WriteInv, TypeOK, TextsOK
  <2>2. DOMAIN file = 1 .. Len(file)
    BY <2>1
  <2> QED
    BY <2>1, <2>2 DEF UndisturbedWordsOnce, Undisturbed, Apart
<1> QED
  BY <1>1, WriteInvariant, PTL

\* The words of an edit that its user has interrupted never reach the file: what is in
\* the file is of edits that were ended by UNLOCK_SENTENCE, and perform_pending_unlock
\* sends CANCEL_WRITE instead, after which no later edit finds the words.
THEOREM CancelledStayOut == Spec => []UndisturbedCancelledStayOut
<1>1. WriteInv => UndisturbedCancelledStayOut
  <2> SUFFICES ASSUME WriteInv, NEW n \in DOMAIN file, <<file[n][1], file[n][2]>> \in cancelled,
                      Undisturbed(file[n][1], {"late"})
               PROVE  FALSE
    BY DEF UndisturbedCancelledStayOut
  <2>1. file \in Seq(Words)
    BY DEF WriteInv, TypeOK
  <2>2. n \in 1 .. Len(file) /\ file[n] \in Words
    BY <2>1
  <2>3. PICK w \in Words : w = file[n]
    BY <2>2
  <2>4. w[1] \in Clients /\ w \in Filed(w[1])
    BY <2>2, <2>3 DEF Words, Filed
  <2>5. "late" \notin races[w[1]]
    BY <2>3 DEF Undisturbed
  <2>6. FiledOK(w[1])
    BY <2>4, <2>5 DEF WriteInv, ClientOK, WordsOK
  <2> QED
    BY <2>3, <2>4, <2>6 DEF FiledOK, Ended
<1> QED
  BY <1>1, WriteInvariant, PTL

-----------------------------------------------------------------------------
(* Reports arrive *)

\* What was sent stays sent.
Keeps(cs, N) ==
    \A i \in 1 .. Len(cs) : Only(cs[i], "unlock") =>
        i \in 1 .. Len(N) /\ N[i].requests = cs[i].requests /\ N[i].stale = cs[i].stale

LEMMA KeepsHung ==
    ASSUME WriteInv, NEW c \in Clients, conns' = Hung(c)
    PROVE  Keeps(conns[c], conns'[c])
<1>1. HungUp(conns[c], conns'[c])
  BY HungHangsUp DEF WriteInv, ClientOK
<1>2. \A i \in 1 .. Len(conns[c]) : Only(conns[c][i], "unlock") => conns[c][i].requests # <<>>
  BY DEF Only
<1> QED
  BY <1>1, <1>2 DEF HungUp, Keeps

LEMMA KeepsOpened ==
    ASSUME WriteInv, NEW c \in Clients, conns' = Opened(c, Request("lock"))
    PROVE  Keeps(conns[c], conns'[c])
<1>1. Longer(conns[c], conns'[c], Fresh)
  BY OpenedLonger DEF WriteInv
<1>2. PICK N, cs : N = conns'[c] /\ cs = conns[c]
  OBVIOUS
<1>3. Len(N) = Len(cs) + 1 /\ Len(cs) \in Nat /\ \A i \in 1 .. Len(N) : i < Len(N) => N[i] = cs[i]
  BY <1>1, <1>2 DEF Longer
<1>4. \A i \in 1 .. Len(cs) : i \in 1 .. Len(N) /\ N[i] = cs[i]
  BY <1>3
<1> QED
  BY <1>2, <1>4 DEF Keeps

LEMMA KeepsSwapped ==
    ASSUME NEW c \in Clients, NEW x, Swapped(conns[c], conns'[c], x),
           Only(Newest(conns[c]), "unlock") =>
               x.requests = Newest(conns[c]).requests /\ x.stale = Newest(conns[c]).stale
    PROVE  Keeps(conns[c], conns'[c])
<1>1. PICK N, cs : N = conns'[c] /\ cs = conns[c]
  OBVIOUS
<1>2. /\ Len(N) = Len(cs) /\ Len(N) \in Nat \ {0} /\ N[Len(N)] = x
      /\ \A i \in 1 .. Len(N) : i < Len(N) => N[i] = cs[i]
  BY <1>1 DEF Swapped
<1>3. ASSUME NEW i \in 1 .. Len(cs), Only(cs[i], "unlock")
      PROVE  i \in 1 .. Len(N) /\ N[i].requests = cs[i].requests /\ N[i].stale = cs[i].stale
  <2>1. CASE i < Len(cs)
    BY <1>2, <2>1
  <2>2. CASE i = Len(cs)
    <3>1. cs[i] = Newest(cs) /\ N[i] = x
      BY <1>2, <2>2 DEF Newest
    <3> QED
      BY <1>1, <1>2, <1>3, <3>1
  <2> QED
    BY <1>2, <2>1, <2>2
<1> QED
  BY <1>1, <1>3 DEF Keeps

LEMMA KeepsReceived ==
    ASSUME WriteInv, NEW c \in Clients, HasAnswer(c), conns' = Received(c)
    PROVE  Keeps(conns[c], conns'[c])
<1> DEFINE k == Newest(conns[c])
<1>1. PICK x : x = After(k)
  OBVIOUS
<1>2. Swapped(conns[c], conns'[c], x) /\ x.requests = k.requests /\ x.stale = FALSE /\ On(conns[c])
  BY <1>1, Receiving
<1>3. k.stale = FALSE
  BY <1>2, NewestOK DEF WriteInv, ClientOK
<1> QED
  BY <1>2, <1>3, KeepsSwapped

LEMMA KeepsSent ==
    ASSUME WriteInv, NEW c \in Clients, LinkUp(c), NEW r \in Requests, conns' = Sent(c, r),
           ~Only(Newest(conns[c]), "unlock")
    PROVE  Keeps(conns[c], conns'[c])
<1>1. PICK x : x = Sending(Newest(conns[c]), r)
  OBVIOUS
<1>2. Swapped(conns[c], conns'[c], x)
  BY <1>1, NewestIs, SendingOn
<1> QED
  BY <1>2, KeepsSwapped

LEMMA OwnKeeps ==
    ASSUME WriteInv, NEW c \in Clients, Continue(c) \/ UserStep(c) \/ Vanish(c)
    PROVE  Keeps(conns[c], conns'[c])
<1> DEFINE k == Newest(conns[c])
<1>1. TypeOK /\ ConnsOK(c, conns[c]) /\ WaitOK(c, conns[c]) /\ (LinkUp(c) <=> Up(conns[c]))
  BY NewestIs DEF WriteInv, ClientOK
<1>2. ASSUME conns' = conns PROVE Keeps(conns[c], conns'[c])
  BY <1>2 DEF Keeps
<1>3. k.requests = <<>> \/ Only(k, "lock") => ~Only(k, "unlock")
  BY DEF Only
<1>4. CASE BeginEdit(c) \/ Reconnect(c)
  BY <1>4, KeepsOpened DEF BeginEdit, Reconnect
<1>5. CASE WriteUnanswered(c) \/ LockNotRegained(c) \/ EndEdit(c) \/ Exit(c) \/ Vanish(c)
  BY <1>5, KeepsHung DEF WriteUnanswered, LockNotRegained, EndEdit, Exit, Vanish
<1>6. CASE LockUnanswered(c) \/ NoReconnection(c) \/ EndLines(c)
  BY <1>2, <1>6 DEF LockUnanswered, NoReconnection, EndLines
<1>7. CASE LockAnswered(c) \/ WriteAnswered(c)
  BY <1>7, KeepsHung, KeepsReceived DEF LockAnswered, WriteAnswered
<1>8. CASE TypeLine(c)
  <2>1. CASE LinkUp(c)
    <3>1. k.requests = <<>> /\ edit[c] # 0 /\ line[c] + 1 \in Nat \ {0}
      BY <1>1, <1>8, <2>1 DEF TypeLine, WaitOK, Quiet, TypeOK
    <3>2. WriteOf(c, line[c] + 1) \in Requests /\ conns' = Sent(c, WriteOf(c, line[c] + 1))
      BY <1>1, <1>8, <2>1, <3>1, WriteRequest DEF TypeLine
    <3> QED
      BY <1>3, <2>1, <3>1, <3>2, KeepsSent
  <2>2. CASE ~LinkUp(c)
    BY <1>8, <2>2, KeepsHung DEF TypeLine
  <2> QED
    BY <2>1, <2>2
<1>9. CASE LockRegained(c)
  <2>1. HasAnswer(c) /\ pc[c] = "relocking" /\ On(conns[c]) /\ Up(conns[c])
    BY <1>9, Receiving DEF LockRegained
  <2>2. Answered(k) /\ k.replies = <<Answer(c)>> /\ Tail(k.replies) = <<>> /\ conns[c] # <<>>
    <3>1. k.replies # <<>> /\ conns[c] # <<>>
      BY <2>1, Receiving
    <3>2. Answered(k)
      BY <1>1, <2>1, <3>1 DEF WaitOK, Waiting
    <3> QED
      BY <2>1, <3>1, <3>2, Receiving
  <2>3. CASE retries[c] < MaxRetries
    <3>1. PICK r : r = WriteOf(c, line[c])
      OBVIOUS
    <3>2. PICK x : x = [k EXCEPT !.replies = Tail(@), !.requests = Append(@, r)]
      OBVIOUS
    <3>3. conns' = WithLast(c, x)
      BY <1>9, <2>3, <3>1, <3>2, NewestIs DEF LockRegained
    <3>4. x \in Connections
      <4>1. edit[c] # 0 /\ line[c] \in Nat \ {0}
        BY <1>1, <2>1 DEF WaitOK, TypeOK
      <4>2. r \in Requests
        BY <1>1, <3>1, <4>1, WriteRequest
      <4>3. k \in Connections /\ k.requests = <<>>
        BY <1>1, <2>2, NewestTyped DEF Answered
      <4>4. Append(<<>>, r) \in Seq(Requests) /\ <<>> \in Seq(BOOLEAN)
        BY <4>2
      <4> QED
        BY <2>2, <3>2, <4>3, <4>4 DEF Connections
    <3>5. Swapped(conns[c], conns'[c], x)
      BY <1>1, <2>2, <3>3, <3>4, WithLastSwaps
    <3> QED
      BY <1>3, <2>2, <3>5, KeepsSwapped DEF Answered
  <2>4. CASE ~(retries[c] < MaxRetries)
    BY <1>9, <2>1, <2>4, KeepsReceived DEF LockRegained
  <2> QED
    BY <2>3, <2>4
<1>10. CASE SendUnlock(c)
  <2>1. CASE LinkUp(c)
    <3>1. k.requests = <<>>
      BY <1>1, <1>10, <2>1 DEF SendUnlock, WaitOK, Quiet
    <3>2. Request("unlock") \in Requests /\ conns' = Sent(c, Request("unlock"))
      BY <1>10, <2>1, RequestTypes DEF SendUnlock
    <3> QED
      BY <1>3, <2>1, <3>1, <3>2, KeepsSent
  <2>2. CASE ~LinkUp(c)
    BY <1>10, <2>2, KeepsHung DEF SendUnlock
  <2> QED
    BY <2>1, <2>2
<1>11. CASE Interrupt(c)
  <2>1. CASE LinkUp(c)
    <3>1. k.requests = <<>> \/ Only(k, "lock")
      BY <1>1, <1>11, <2>1 DEF Interrupt, WaitOK, Quiet
    <3>2. Request("cancel") \in Requests /\ conns' = Sent(c, Request("cancel"))
      BY <1>11, <2>1, RequestTypes DEF Interrupt
    <3> QED
      BY <1>3, <2>1, <3>1, <3>2, KeepsSent
  <2>2. CASE ~LinkUp(c)
    BY <1>11, <2>2, KeepsHung DEF Interrupt
  <2> QED
    BY <2>1, <2>2
<1> QED
  BY <1>4, <1>5, <1>6, <1>7, <1>8, <1>9, <1>10, <1>11 DEF Continue, UserStep

\* A connection that is there and was not lost is up.
LEMMA NotCut ==
    ASSUME NEW c \in Clients
    PROVE  TypeOK /\ ConnsOK(c, conns[c]) /\ On(conns[c]) /\ "cut" \notin races[c] => Up(conns[c])
<1> SUFFICES ASSUME TypeOK, ConnsOK(c, conns[c]), On(conns[c]), "cut" \notin races[c]
             PROVE  Up(conns[c])
  OBVIOUS
<1> QED
  BY NewestOK

LEMMA NotCutThen ==
    ASSUME NEW c \in Clients
    PROVE  (TypeOK /\ ConnsOK(c, conns[c]) /\ On(conns[c]) /\ "cut" \notin races[c] => Up(conns[c]))'
<1>1. TypeOK /\ ConnsOK(c, conns[c]) /\ On(conns[c]) /\ "cut" \notin races[c] => Up(conns[c])
  BY NotCut
<1> QED
  BY <1>1, PTL

\* A step of the client's own adds to its reports only what it knows to be written.
LEMMA OwnReport ==
    ASSUME WriteInv, NEW c \in Clients, Continue(c) \/ UserStep(c) \/ Vanish(c), Fine(c),
           ReportOK(c, conns[c]), "cut" \notin races'[c], "late" \notin races'[c]
    PROVE  ReportOK(c, conns[c])'
<1> DEFINE cs == conns[c]
           k  == Newest(cs)
           Told  == (pc'[c] \in {"prompt", "writing"} /\ ~sigint'[c]) \/ (pc'[c] = "closing" /\ status'[c])
           Main  == /\ Told => Up(conns'[c]) /\ writes'[c] \subseteq Added(c)
                    /\ pc'[c] \in {"reconnect", "relocking"} => sigint'[c]
                    /\ pc'[c] = "locking" => writes'[c] = {}
                    /\ pc'[c] = "unlocking" /\ status'[c] =>
                          On(conns'[c]) /\ Only(Newest(conns'[c]), "unlock") /\ writes'[c] \subseteq Added(c)
           Words5 == \A w \in reported'[c] : Arriving(c, cs, w)
<1>1. TypeOK /\ SessionOK /\ ConnsOK(c, cs) /\ WaitOK(c, cs) /\ (LinkUp(c) <=> Up(cs))
  BY NewestIs DEF WriteInv, ClientOK
<1>2. "cut" \notin races[c] /\ "late" \notin races[c] /\ WordsOK(c, cs)
  BY DEF Fine, OwnStep, WriteInv, ClientOK
<1>3. On(cs) => Up(cs)
  BY <1>1, <1>2, NotCut
<1>4. TypeOK' /\ ConnsOK(c, conns[c])' /\ WaitOK(c, conns[c])' /\ UNCHANGED server
  BY DEF Fine, ClientOK, OwnStep
<1>5. On(conns'[c]) => Up(conns'[c])
  BY <1>4, NotCutThen
<1>6. pc'[c] \in {"prompt", "writing"} => Up(conns'[c])
  BY <1>4, <1>5 DEF WaitOK
<1>7. Served(c)
  BY <1>4, ServerSame
<1>8. \A w : Arriving(c, cs, w) => Arriving(c, conns[c], w)'
  <2>1. Keeps(cs, conns'[c])
    BY OwnKeeps
  <2>2. \A i \in 1 .. Len(cs) : Only(cs[i], "unlock") =>
           i \in 1 .. Len(conns'[c]) /\ Only(conns'[c][i], "unlock") /\ (cs[i].stale => conns'[c][i].stale)
    BY <2>1 DEF Keeps, Only
  <2> QED
    BY <1>7, <2>2 DEF Arriving, Served
<1>9. ASSUME Main, Words5 PROVE ReportOK(c, conns[c])'
  BY <1>7, <1>8, <1>9 DEF ReportOK, Served
<1>10. \A w \in reported[c] : Arriving(c, cs, w)
  BY DEF ReportOK
<1>11. reported'[c] = reported[c] => Words5
  BY <1>10
<1> DEFINE Knew == /\ (pc[c] \in {"prompt", "writing"} /\ ~sigint[c]) \/ (pc[c] = "closing" /\ status[c]) =>
                         Up(cs) /\ writes[c] \subseteq Added(c)
                   /\ pc[c] \in {"reconnect", "relocking"} => sigint[c]
                   /\ pc[c] = "locking" => writes[c] = {}
<1>12. Knew
  BY DEF ReportOK
<1> HIDE DEF cs
<1>13. CASE BeginEdit(c)
  <2>1. pc'[c] = "locking" /\ writes'[c] = {} /\ reported'[c] = reported[c]
    BY <1>1, <1>13 DEF BeginEdit, Goto, TypeOK
  <2> QED
    BY <1>9, <1>11, <2>1
<1>14. CASE LockAnswered(c)
  <2>1. pc[c] = "locking" /\ pc'[c] \in {"prompt", "idle"} /\ writes'[c] = writes[c]
        /\ reported'[c] = reported[c]
    BY <1>1, <1>14 DEF LockAnswered, Goto, TypeOK
  <2> QED
    BY <1>6, <1>9, <1>11, <1>12, <2>1
<1>15. CASE LockUnanswered(c)
  <2>1. pc[c] = "locking" /\ pc'[c] = "prompt" /\ writes'[c] = writes[c]
        /\ reported'[c] = reported[c]
    BY <1>1, <1>15 DEF LockUnanswered, Goto, TypeOK
  <2> QED
    BY <1>6, <1>9, <1>11, <1>12, <2>1
<1>16. CASE TypeLine(c)
  <2>1. pc[c] = "prompt" /\ ~sigint[c] /\ writes'[c] = writes[c] /\ reported'[c] = reported[c]
        /\ Up(cs) /\ writes[c] \subseteq Added(c)
    BY <1>12, <1>16 DEF TypeLine
  <2>2. pc'[c] = "writing"
    BY <1>1, <1>16, <2>1 DEF TypeLine, Goto, TypeOK
  <2> QED
    BY <1>6, <1>9, <1>11, <2>1, <2>2
<1>17. CASE WriteAnswered(c)
  <2>1. /\ pc[c] = "writing" /\ sigint'[c] = sigint[c] /\ reported'[c] = reported[c] /\ HasAnswer(c)
        /\ pc'[c] = IF ~Answer(c) /\ retries[c] = 0 THEN "closing" ELSE "prompt"
    BY <1>1, <1>17 DEF WriteAnswered, Goto, TypeOK
  <2>2. CASE Answer(c)
    <3>1. writes'[c] = writes[c] \cup {Word(c, line[c])} /\ pc'[c] = "prompt"
      BY <1>1, <1>17, <2>1, <2>2 DEF WriteAnswered, TypeOK
    <3>2. Answered(k) /\ k.replies = <<Answer(c)>> /\ Answer(c) \in BOOLEAN /\ Up(cs)
      <4>1. Up(cs) /\ k.replies # <<>>
        BY <2>1, Receiving DEF cs
      <4>2. Answered(k)
        BY <1>1, <2>1, <4>1 DEF WaitOK, Waiting
      <4> QED
        BY <2>1, <4>1, <4>2, Receiving DEF cs
    <3>3. Word(c, line[c]) \in Added(c)
      BY <1>2, <2>1, <2>2, <3>2 DEF WordsOK, GrantOK
    <3> QED
      BY <1>6, <1>9, <1>11, <1>12, <2>1, <3>1, <3>3
  <2>3. CASE ~Answer(c)
    <3>1. writes'[c] = writes[c] /\ status'[c] = FALSE
      BY <1>1, <1>17, <2>3 DEF WriteAnswered, TypeOK
    <3> QED
      BY <1>6, <1>9, <1>11, <1>12, <2>1, <3>1
  <2> QED
    BY <2>2, <2>3
<1>18. CASE WriteUnanswered(c)
  <2>1. pc'[c] = "reconnect" /\ reported'[c] = reported[c] /\ RecvFails(c)
    BY <1>1, <1>18 DEF WriteUnanswered, Goto, TypeOK
  <2>2. sigint'[c]
    BY <1>1, <1>3, <2>1, Failing DEF cs
  <2> QED
    BY <1>9, <1>11, <2>1, <2>2
<1>19. CASE Reconnect(c)
  <2>1. pc[c] = "reconnect" /\ pc'[c] = "relocking" /\ reported'[c] = reported[c]
        /\ sigint'[c] = sigint[c]
    BY <1>1, <1>19 DEF Reconnect, Goto, TypeOK
  <2> QED
    BY <1>9, <1>11, <1>12, <2>1
<1>20. CASE NoReconnection(c)
  <2>1. pc[c] = "reconnect" /\ AttemptFailed(c) /\ reported'[c] = reported[c] /\ sigint'[c] = sigint[c]
    BY <1>20 DEF NoReconnection
  <2>2. pc'[c] = "reconnect" \/ (pc'[c] = "closing" /\ ~status'[c])
    BY <1>1, <2>1, AttemptIs
  <2> QED
    BY <1>9, <1>11, <1>12, <2>1, <2>2
<1>21. CASE LockRegained(c)
  <2>1. pc[c] = "relocking" /\ reported'[c] = reported[c] /\ sigint'[c] = sigint[c]
    BY <1>21 DEF LockRegained
  <2>2. pc'[c] = "writing" \/ (pc'[c] = "closing" /\ ~status'[c])
    BY <1>1, <1>21 DEF LockRegained, Goto, TypeOK
  <2> QED
    BY <1>9, <1>11, <1>12, <2>1, <2>2
<1>22. CASE LockNotRegained(c)
  <2>1. pc[c] = "relocking" /\ AttemptFailed(c) /\ reported'[c] = reported[c]
    BY <1>22 DEF LockNotRegained
  <2>2. sigint'[c]
    BY <1>1, <1>3, <1>12, <1>22, Failing DEF LockNotRegained, cs
  <2>3. pc'[c] = "reconnect" \/ (pc'[c] = "closing" /\ ~status'[c])
    BY <1>1, <2>1, AttemptIs
  <2> QED
    BY <1>9, <1>11, <2>1, <2>2, <2>3
<1>23. CASE EndLines(c)
  <2>1. pc[c] = "prompt" /\ ~sigint[c] /\ pc'[c] = "closing" /\ writes'[c] = writes[c]
        /\ reported'[c] = reported[c] /\ conns'[c] = cs
    BY <1>1, <1>23 DEF EndLines, Goto, TypeOK, cs
  <2> QED
    BY <1>9, <1>11, <1>12, <2>1
<1>24. CASE SendUnlock(c)
  <2>1. pc[c] = "closing" /\ status'[c] = status[c] /\ writes'[c] = writes[c]
    BY <1>24 DEF SendUnlock
  <2>2. CASE LinkUp(c)
    <3>1. pc'[c] = "unlocking" /\ reported'[c] = reported[c] /\ conns' = Sent(c, Request("unlock"))
      BY <1>1, <1>24, <2>2 DEF SendUnlock, Goto, TypeOK
    <3>2. PICK r \in Requests : r = Request("unlock") /\ r.type = "unlock"
      BY RequestTypes
    <3>3. PICK x : x = Sending(k, r)
      OBVIOUS
    <3>4. k.requests = <<>>
      BY <1>1, <2>1, <2>2 DEF WaitOK, Quiet
    <3>5. Swapped(cs, conns'[c], x) /\ x.link = "up" /\ Len(x.requests) = 1 /\ x.requests[1] = r
      BY <1>1, <2>2, <3>1, <3>2, <3>3, <3>4, SendingOn DEF cs
    <3>6. On(conns'[c]) /\ Newest(conns'[c]) = x /\ Only(x, "unlock")
      BY <3>2, <3>5, SwappedRest DEF Only
    <3> QED
      BY <1>9, <1>11, <1>12, <2>1, <3>1, <3>6
  <2>3. CASE ~LinkUp(c)
    <3>1. ~status[c]
      BY <1>1, <1>12, <2>1, <2>3
    <3>2. Report(c)
      BY <1>24, <2>3 DEF SendUnlock
    <3>3. reported'[c] = reported[c] /\ pc'[c] = "idle"
      BY <1>1, <3>1, <3>2, ReportIs DEF TypeOK
    <3> QED
      BY <1>9, <1>11, <3>3
  <2> QED
    BY <2>2, <2>3
<1>25. CASE EndEdit(c)
  <2>1. pc[c] = "unlocking" /\ Report(c)
    BY <1>25 DEF EndEdit
  <2>2. pc'[c] = "idle" /\ reported'[c] = IF writes[c] # {} /\ status[c]
                                          THEN reported[c] \cup writes[c] ELSE reported[c]
    BY <1>1, <2>1, ReportIs DEF TypeOK
  <2>3. status[c] => \A w \in writes[c] : Arriving(c, cs, w)
    <3>1. status[c] => \/ On(cs) /\ Only(k, "unlock") /\ writes[c] \subseteq Added(c)
                       \/ writes[c] \subseteq Filed(c)
      BY <2>1 DEF ReportOK, cs
    <3>2. On(cs) => Len(cs) \in 1 .. Len(cs) /\ k = cs[Len(cs)]
      BY <1>1, NewestTyped DEF On, Newest, cs
    <3> QED
      BY <3>1, <3>2 DEF Arriving
  <2> QED
    BY <1>9, <1>10, <2>2, <2>3
<1>26. CASE Interrupt(c)
  <2>1. pc'[c] \in {"cancelling", "idle"} /\ reported'[c] = reported[c]
    BY <1>1, <1>26 DEF Interrupt, Goto, TypeOK
  <2> QED
    BY <1>9, <1>11, <2>1
<1>27. CASE Exit(c) \/ Vanish(c)
  <2>1. pc'[c] = "idle" /\ reported'[c] = reported[c]
    BY <1>1, <1>27 DEF Exit, Vanish, Goto, TypeOK
  <2> QED
    BY <1>9, <1>11, <2>1
<1> QED
  BY <1>13, <1>14, <1>15, <1>16, <1>17, <1>18, <1>19, <1>20, <1>21, <1>22, <1>23, <1>24, <1>25,
     <1>26, <1>27 DEF Continue, UserStep

\* What a request does to the client's words.
LEMMA TakenFor ==
    ASSUME TypeOK, SessionOK, NEW c \in Clients, NEW x, NEW i, NEW answer \in BOOLEAN,
           Taken(conns[c], x, i, answer), ConnsOK(c, conns[c]),
           Serve(c, Head(conns[c][i].requests), answer)
    PROVE  LET k == conns[c][i] IN
           /\ Filed(c) \subseteq Filed(c)'
           /\ Only(k, "write") => Added(c) \subseteq Added(c)' /\ lock' = lock
           /\ Only(k, "unlock") => Added(c) \subseteq Filed(c)'
           /\ Only(k, "unlock") \/ Only(k, "cancel") => lock' # c
<1> DEFINE k == conns[c][i]
           r == Head(k.requests)
<1>1. UnderWay(c, k)
  BY DEF Taken, ConnsOK
<1>2. /\ r \in Requests /\ r = k.requests[1]
      /\ r.type = "write" => r.word \in Words /\ r.word[1] = c
  BY <1>1, TakenRequests
<1>3. \A type : Only(k, type) => type = r.type
  BY <1>2 DEF Only
<1> HIDE DEF k, r
<1>4. ASSUME r.type = "lock", Lock(c, answer)
      PROVE  Filed(c) \subseteq Filed(c)'
  BY <1>4, LockStep
<1>5. ASSUME r.type = "write", Write(c, r.word, answer)
      PROVE  Filed(c) \subseteq Filed(c)' /\ Added(c) \subseteq Added(c)' /\ lock' = lock
  BY <1>2, <1>5, WriteStep
<1>6. ASSUME r.type = "unlock", Unlock(c, answer)
      PROVE  Filed(c) \subseteq Filed(c)' /\ Added(c) \subseteq Filed(c)' /\ lock' # c
  BY <1>6, UnlockStep
<1>7. ASSUME r.type = "cancel", CancelWrite(c, answer)
      PROVE  Filed(c) \subseteq Filed(c)' /\ lock' # c
  BY <1>7, CancelStep
<1> QED
  BY <1>3, <1>4, <1>5, <1>6, <1>7 DEF Serve, k, r

LEMMA TakenReport ==
    ASSUME TypeOK, SessionOK, NEW c \in Clients, NEW x, NEW i, NEW answer \in BOOLEAN,
           Taken(conns[c], x, i, answer), ClientOK(c, conns[c]), ReportOK(c, conns[c]),
           UNCHANGED client, reported' = reported,
           Serve(c, Head(conns[c][i].requests), answer), ~conns[c][i].stale
    PROVE  ReportOK(c, x)'
<1> DEFINE cs == conns[c]
           k  == cs[i]
<1>1. ConnsOK(c, cs) /\ WaitOK(c, cs)
  BY DEF ClientOK
<1>2. /\ Len(cs) \in Nat \ {0} /\ Len(x) = Len(cs) /\ i \in 1 .. Len(cs)
      /\ \A j \in 1 .. Len(cs) : j < i => x[j].requests = cs[j].requests /\ x[j].stale
  BY DEF Taken
<1>3. /\ Filed(c) \subseteq Filed(c)'
      /\ Only(k, "write") => Added(c) \subseteq Added(c)'
      /\ Only(k, "unlock") => Added(c) \subseteq Filed(c)'
  BY <1>1, TakenFor
<1>4. pc' = pc /\ status' = status /\ sigint' = sigint /\ writes' = writes
  BY DEF client
<1>5. ASSUME NEW w, Arriving(c, cs, w) PROVE Arriving(c, x, w)'
  <2>1. CASE w \in Filed(c)
    BY <1>3, <2>1 DEF Arriving
  <2>2. ASSUME NEW j \in 1 .. Len(cs), Only(cs[j], "unlock"), cs[j].stale \/ w \in Added(c)
        PROVE  Arriving(c, x, w)'
    <3>1. Begun(cs[j])
      BY <2>2 DEF Only, Begun
    <3>2. ~(j > i)
      BY <1>1, <1>2, <3>1 DEF ConnsOK
    <3>3. CASE j = i
      BY <1>3, <2>2, <3>3 DEF Arriving
    <3>4. CASE j < i
      <4>1. j \in 1 .. Len(x) /\ Only(x[j], "unlock") /\ x[j].stale
        BY <1>2, <2>2, <3>4 DEF Only
      <4> QED
        BY <4>1 DEF Arriving
    <3> QED
      BY <1>2, <3>2, <3>3, <3>4
  <2> QED
    BY <1>5, <2>1, <2>2 DEF Arriving
<1>6. /\ On(x) <=> On(cs)
      /\ Up(x) <=> Up(cs)
      /\ i # Len(cs) => ~OlderStale(cs)
      /\ i = Len(cs) => Newest(cs) = k
  BY TakenNewest
<1>7. Up(cs) => /\ pc[c] # "closing" /\ (pc[c] = "prompt" => sigint[c])
                /\ pc[c] = "writing" => Only(k, "write")
  BY <1>1, TakenWhere
<1>8. On(cs) /\ Only(Newest(cs), "unlock") => Only(k, "unlock")
  <2>1. ASSUME On(cs), Only(Newest(cs), "unlock") PROVE i = Len(cs)
    <3>1. Begun(Newest(cs))
      BY <2>1 DEF Only, Begun
    <3>2. OlderStale(cs)
      BY <1>1, <2>1, <3>1, NewestOK
    <3> QED
      BY <1>6, <3>2
  <2> QED
    BY <1>6, <2>1
<1> HIDE DEF cs, k
<1>9. ReportOK(c, cs)
  BY DEF cs
<1>10. \A w \in reported[c] : Arriving(c, cs, w)
  BY <1>9 DEF ReportOK
<1>11. (pc[c] \in {"prompt", "writing"} /\ ~sigint[c]) \/ (pc[c] = "closing" /\ status[c]) =>
          Up(x) /\ writes[c] \subseteq Added(c)'
  BY <1>3, <1>6, <1>7, <1>9 DEF ReportOK
<1>12. pc[c] = "unlocking" /\ status[c] => writes[c] \subseteq Filed(c)'
  BY <1>3, <1>8, <1>9 DEF ReportOK
<1>13. \A w \in reported[c] : Arriving(c, x, w)'
  BY <1>5, <1>10
<1> QED
  BY <1>4, <1>9, <1>11, <1>12, <1>13 DEF ReportOK

LEMMA RemovedReportThen ==
    ASSUME NEW c \in Clients, NEW cs, NEW N, NEW i
    PROVE  (Removed(cs, N, i) /\ ConnsOK(c, cs) /\ ReportOK(c, cs) => ReportOK(c, N))'
<1>1. Removed(cs, N, i) /\ ConnsOK(c, cs) /\ ReportOK(c, cs) => ReportOK(c, N)
  BY RemovedReport
<1> QED
  BY <1>1, PTL

LEMMA HandleReport ==
    ASSUME WriteInv, NEW c \in Clients, NEW i \in DOMAIN conns[c], Handle(c, i),
           ReportOK(c, conns[c]), "late" \notin races'[c]
    PROVE  ReportOK(c, conns[c])'
<1>1. TypeOK /\ SessionOK /\ ClientOK(c, conns[c]) /\ ConnsOK(c, conns[c]) /\ ~conns[c][i].stale
      /\ races[c] \subseteq races'[c]
  BY HandleFine DEF WriteInv, ClientOK
<1>2. PICK answer \in BOOLEAN, x \in Seq(Connections) :
         /\ Serve(c, Head(conns[c][i].requests), answer)
         /\ Taken(conns[c], x, i, answer)
         /\ conns' = [conns EXCEPT ![c] = Forget(x, i)]
  BY <1>1, HandleTakes
<1>3. UNCHANGED client /\ reported' = reported
  BY DEF Handle
<1>4. ReportOK(c, x)'
  BY <1>1, <1>2, <1>3, TakenReport
<1>5. ConnsOK(c, x)'
  BY <1>1, <1>2, TakenConns
<1>6. PICK N : N = Forget(x, i)
  OBVIOUS
<1>7. ReportOK(c, N)'
  <2>1. CASE Over(x[i])
    <3>1. Removed(x, N, i)
      BY <1>2, <1>6, <2>1, ForgetRemoves DEF Taken
    <3>2. Removed(x, N, i)'
      BY <3>1
    <3> QED
      BY <1>4, <1>5, <3>2, RemovedReportThen
  <2>2. CASE ~Over(x[i])
    BY <1>4, <1>6, <2>2 DEF Forget
  <2> QED
    BY <2>1, <2>2
<1>8. conns'[c] = N
  BY <1>1, <1>2, <1>6 DEF TypeOK
<1> QED
  BY <1>7, <1>8 DEF ReportOK, Arriving

LEMMA RestartReport ==
    ASSUME WriteInv, NEW c \in Clients, RestartServer, ReportOK(c, conns[c]), "cut" \notin races'[c]
    PROVE  ReportOK(c, conns[c])'
<1>1. TypeOK
  BY DEF WriteInv
<1>2. /\ conns[c] = <<>> /\ conns'[c] = <<>> /\ Len(conns[c]) = 0
  <2>1. conns[c] = <<>>
    BY <1>1, RestartConns
  <2>2. ~On(conns[c])
    BY <2>1 DEF On
  <2> QED
    BY <1>1, <2>1, <2>2, RestartConns
<1>3. /\ pc' = pc /\ status' = status /\ sigint' = sigint /\ writes' = writes /\ reported' = reported
      /\ file' = file
  BY DEF RestartServer, client
<1>4. Filed(c)' = Filed(c)
  BY <1>3 DEF Filed
<1>5. ~On(conns[c]) /\ ~Up(conns[c])
  BY <1>2 DEF On, Up
<1> QED
  BY <1>2, <1>3, <1>4, <1>5 DEF ReportOK, Arriving

LEMMA ReportNext ==
    ASSUME ReportInv, [Next]_vars
    PROVE  ReportInv'
<1>1. WriteInv /\ WriteInv'
  BY NextKeeps DEF ReportInv
<1>2. \A c \in Clients : "cut" \notin races[c] /\ "late" \notin races[c] => ReportOK(c, conns[c])
  BY DEF ReportInv, Undisturbed
<1> DEFINE Then(d) == "cut" \notin races'[d] /\ "late" \notin races'[d] => ReportOK(d, conns[d])'
<1>3. ASSUME NEW d \in Clients, Untouched(d), Served(d) PROVE Then(d)
  BY <1>2, <1>3, UntouchedReport DEF Untouched
<1>4. ASSUME NEW c \in Clients, Continue(c) \/ UserStep(c) \/ LoseConnection(c) \/ Vanish(c)
      PROVE  \A d \in Clients : Then(d)
  <2>1. Fine(c)
    BY <1>1, <1>4, StepFine
  <2>2. \A d \in Clients \ {c} : Untouched(d) /\ Served(d)
    BY <2>1, ServerSame DEF Fine, OwnStep
  <2>3. races[c] \subseteq races'[c]
    BY <2>1 DEF Fine, OwnStep
  <2>4. Then(c)
    <3>1. CASE LoseConnection(c)
      <4>1. "cut" \in races'[c]
        BY <1>1, <3>1, NoteIs DEF WriteInv, LoseConnection
      <4> QED
        BY <4>1
    <3>2. CASE ~LoseConnection(c)
      BY <1>1, <1>2, <1>4, <2>1, <2>3, <3>2, OwnReport
    <3> QED
      BY <3>1, <3>2
  <2> QED
    BY <1>3, <2>2, <2>4
<1>5. ASSUME NEW c \in Clients, NEW i \in DOMAIN conns[c], Handle(c, i)
      PROVE  \A d \in Clients : Then(d)
  <2>1. (\A d \in Clients \ {c} : Untouched(d) /\ Served(d)) /\ races[c] \subseteq races'[c]
    BY <1>1, <1>5, HandleFine
  <2>2. Then(c)
    BY <1>1, <1>2, <1>5, <2>1, HandleReport
  <2> QED
    BY <1>3, <2>1, <2>2
<1>6. ASSUME RestartServer PROVE \A d \in Clients : Then(d)
  <2>1. \A d \in Clients : races[d] \subseteq races'[d]
    BY <1>1, <1>6, RestartConns DEF WriteInv
  <2> QED
    BY <1>1, <1>2, <1>6, <2>1, RestartReport
<1>7. ASSUME UNCHANGED vars PROVE \A d \in Clients : Then(d)
  <2>1. \A d \in Clients : Untouched(d)
    BY <1>7 DEF vars, client, Untouched
  <2>2. \A d \in Clients : Served(d)
    BY <1>7, ServerSame DEF vars
  <2> QED
    BY <1>3, <2>1, <2>2
<1>8. \A d \in Clients : Then(d)
  BY <1>4, <1>5, <1>6, <1>7 DEF Next, ServerThreads
<1> QED
  BY <1>1, <1>8 DEF ReportInv, Undisturbed

LEMMA InitReportInv == Init => ReportInv
<1> SUFFICES ASSUME Init, NEW c \in Clients PROVE WriteInv /\ ReportOK(c, conns[c])
  BY InitWriteInv DEF ReportInv
<1>1. pc[c] = "idle" /\ reported[c] = {}
  BY DEF Init
<1> QED
  BY <1>1, InitWriteInv DEF ReportOK

\* What a client has reported as written is in the file, or in an UNLOCK that is on its way:
\* for a client that lost no connection, "All writes completed successfully!" of handle_write
\* is true wherever its user pressed Ctrl-C and whatever the others did.
THEOREM ReportsArrive == Spec => []UndisturbedReportsArrive
<1>1. ReportInv /\ [Next]_vars => ReportInv'
  BY ReportNext
<1>2. ReportInv => UndisturbedReportsArrive
  <2> SUFFICES ASSUME ReportInv, NEW c \in Clients, Undisturbed(c, {"cut", "late"}),
                      NEW w \in reported[c]
               PROVE  InFile(w) \/ Pending(c, {"unlock"})
    BY DEF UndisturbedReportsArrive
  <2>1. TypeOK /\ ReportOK(c, conns[c])
    BY DEF ReportInv, WriteInv
  <2>2. conns[c] \in Seq(Connections) /\ DOMAIN conns[c] = 1 .. Len(conns[c])
        /\ file \in Seq(Words) /\ DOMAIN file = 1 .. Len(file)
    BY <2>1 DEF TypeOK
  <2>3. Arriving(c, conns[c], w)
    BY <2>1 DEF ReportOK
  <2>4. CASE w \in Filed(c)
    BY <2>2, <2>4 DEF Filed, InFile
  <2>5. ASSUME NEW i \in 1 .. Len(conns[c]), Only(conns[c][i], "unlock")
        PROVE  Pending(c, {"unlock"})
    <3>1. conns[c][i].requests \in Seq(Requests)
      <4>1. conns[c][i] \in Connections
        BY <2>2
      <4> QED
        BY <4>1 DEF Connections
    <3>2. 1 \in DOMAIN conns[c][i].requests
      BY <2>5, <3>1 DEF Only
    <3> QED
      BY <2>2, <2>5, <3>2 DEF Pending, Only
  <2> QED
    BY <2>3, <2>4, <2>5 DEF Arriving
<1> QED
  BY <1>1, <1>2, InitReportInv, PTL DEF Spec

-----------------------------------------------------------------------------
(* The lock comes back *)

\* A client that hangs up at the end of its edit has sent what frees the lock, or has no
\* lock and none on its way.
LEMMA HungLock ==
    ASSUME WriteInv, NEW c \in Clients, conns' = Hung(c), UNCHANGED server,
           LockOK(c, conns[c]), ~Editing(c)
    PROVE  LockOK(c, conns[c])'
<1>1. HungUp(conns[c], conns'[c]) /\ lock' = lock
  BY HungHangsUp DEF WriteInv, ClientOK, server
<1>2. PICK cs, N : cs = conns[c] /\ N = conns'[c]
  OBVIOUS
<1>3. /\ Len(N) \in Nat /\ Len(cs) \in Nat /\ Len(N) <= Len(cs)
      /\ \A i \in 1 .. Len(N) : N[i].requests = cs[i].requests /\ N[i].stale = cs[i].stale
      /\ \A i \in 1 .. Len(cs) : i > Len(N) => cs[i].requests = <<>>
  BY <1>1, <1>2 DEF HungUp
<1>4. ASSUME NEW j \in 1 .. Len(cs), Freeing(cs[j]) PROVE j \in 1 .. Len(N) /\ Freeing(N[j])
  <2>1. cs[j].requests # <<>>
    BY <1>4 DEF Freeing, Only, LockThenCancel
  <2>2. j \in 1 .. Len(N)
    BY <1>3, <2>1
  <2>3. N[j].requests = cs[j].requests
    BY <1>3, <2>2
  <2> QED
    BY <1>4, <2>2, <2>3 DEF Freeing, Only, LockThenCancel
<1>5. ASSUME NEW i \in 1 .. Len(N), ~N[i].stale, N[i].requests # <<>>, ~Begun(N[i])
      PROVE  \E j \in i .. Len(N) : Freeing(N[j])
  <2>1. i \in 1 .. Len(cs) /\ ~cs[i].stale /\ cs[i].requests # <<>> /\ ~Begun(cs[i])
    BY <1>3, <1>5 DEF Begun
  <2>2. PICK j \in i .. Len(cs) : Freeing(cs[j])
    BY <1>2, <2>1 DEF LockOK
  <2>3. j \in 1 .. Len(cs)
    BY <1>3, <2>1, <2>2
  <2> QED
    BY <1>4, <2>2, <2>3
<1>6. lock = c => \E j \in 1 .. Len(N) : Freeing(N[j])
  BY <1>2, <1>4 DEF LockOK
<1>7. LockOK(c, N)'
  BY <1>1, <1>5, <1>6 DEF LockOK
<1> QED
  BY <1>2, <1>7 DEF LockOK

\* The newest connection is about to free the lock.
LEMMA FreeingLock ==
    ASSUME NEW c \in Clients, NEW x, Swapped(conns[c], conns'[c], x), Freeing(x)
    PROVE  LockOK(c, conns[c])'
<1>1. PICK N : N = conns'[c]
  OBVIOUS
<1>2. Len(N) \in Nat \ {0} /\ N[Len(N)] = x
  BY <1>1 DEF Swapped
<1>3. \A i \in 1 .. Len(N) : Len(N) \in i .. Len(N) /\ Len(N) \in 1 .. Len(N)
  BY <1>2
<1>4. LockOK(c, N)'
  BY <1>2, <1>3 DEF LockOK
<1> QED
  BY <1>1, <1>4 DEF LockOK

\* A step of the client's own keeps the way to the lock's end.
LEMMA OwnLock ==
    ASSUME WriteInv, NEW c \in Clients, Continue(c) \/ UserStep(c) \/ Vanish(c), Fine(c),
           LockOK(c, conns[c]), races'[c] \cap {"cut", "late", "gaveup", "vanished"} = {}
    PROVE  LockOK(c, conns[c])'
<1> DEFINE cs == conns[c]
           k  == Newest(cs)
<1>1. TypeOK /\ SessionOK /\ ConnsOK(c, cs) /\ WaitOK(c, cs) /\ (LinkUp(c) <=> Up(cs))
      /\ (Connected(c) <=> On(cs))
  BY NewestIs DEF WriteInv, ClientOK
<1>2. races[c] \cap {"cut", "late", "gaveup", "vanished"} = {} /\ UNCHANGED server /\ lock' = lock
  BY DEF Fine, OwnStep, server
<1>3. On(cs) => Up(cs)
  BY <1>1, <1>2, NotCut
<1>4. WordsOK(c, cs)
  BY <1>2 DEF WriteInv, ClientOK
<1>5. ASSUME Editing(c)' PROVE LockOK(c, conns[c])'
  BY <1>5 DEF LockOK
<1>6. ASSUME pc'[c] \in {"locking", "relocking", "prompt", "writing", "reconnect", "closing"}
      PROVE  LockOK(c, conns[c])'
  BY <1>5, <1>6 DEF Editing
<1> HIDE DEF cs
<1>7. CASE BeginEdit(c) \/ LockUnanswered(c) \/ TypeLine(c) \/ WriteAnswered(c)
           \/ WriteUnanswered(c) \/ Reconnect(c) \/ LockRegained(c) \/ EndLines(c)
  <2>1. pc'[c] \in {"locking", "relocking", "prompt", "writing", "reconnect", "closing"}
    BY <1>1, <1>7 DEF BeginEdit, LockUnanswered, TypeLine, WriteAnswered, WriteUnanswered,
          Reconnect, LockRegained, EndLines, Goto, TypeOK
  <2> QED
    BY <1>6, <2>1
<1>8. CASE NoReconnection(c) \/ LockNotRegained(c)
  <2>1. AttemptFailed(c)
    BY <1>8 DEF NoReconnection, LockNotRegained
  <2>2. pc'[c] = "reconnect" \/ pc'[c] = "closing"
    BY <1>1, <2>1, AttemptIs
  <2> QED
    BY <1>6, <2>2
<1>9. CASE LockAnswered(c)
  <2>1. CASE Answer(c)
    <3>1. pc'[c] = "prompt"
      BY <1>1, <1>9, <2>1 DEF LockAnswered, Goto, TypeOK
    <3> QED
      BY <1>6, <3>1
  <2>2. CASE ~Answer(c)
    <3>1. pc[c] = "locking" /\ HasAnswer(c) /\ conns' = Hung(c)
      BY <1>9, <2>2 DEF LockAnswered
    <3>2. Up(cs) /\ k.replies # <<>> /\ On(cs)
      BY <3>1, Receiving DEF cs
    <3>3. Answered(k) /\ OlderStale(cs)
      BY <1>1, <3>1, <3>2 DEF WaitOK, Waiting
    <3>4. k.replies = <<Answer(c)>> /\ Answer(c) \in BOOLEAN
      BY <3>1, <3>3, Receiving DEF cs
    <3>5. lock # c
      BY <1>4, <2>2, <3>1, <3>2, <3>4 DEF WordsOK, GrantOK
    <3>6. HungUp(conns[c], conns'[c])
      BY <3>1, HungHangsUp DEF WriteInv, ClientOK
    <3>7. PICK N : N = conns'[c]
      OBVIOUS
    <3>8. ASSUME NEW i \in 1 .. Len(N) PROVE N[i].stale \/ N[i].requests = <<>>
      <4>1. /\ Len(cs) \in Nat /\ i \in 1 .. Len(cs)
            /\ N[i].requests = cs[i].requests /\ N[i].stale = cs[i].stale
        BY <3>6, <3>7 DEF HungUp, cs
      <4>2. CASE i = Len(cs)
        BY <3>3, <4>1, <4>2 DEF Newest, Answered
      <4>3. CASE i # Len(cs)
        <5>1. i \in 1 .. Len(cs) - 1
          BY <4>1, <4>3
        <5>2. cs[i].stale
          BY <3>3, <5>1 DEF OlderStale
        <5> QED
          BY <4>1, <5>2
      <4> QED
        BY <4>2, <4>3
    <3>9. LockOK(c, N)'
      BY <1>2, <3>5, <3>8 DEF LockOK
    <3> QED
      BY <3>7, <3>9 DEF LockOK
  <2> QED
    BY <2>1, <2>2
<1>10. CASE SendUnlock(c)
  <2>1. On(cs)
    <3>1. Note(c, IF Connected(c) THEN {} ELSE {"gaveup"})
      BY <1>10 DEF SendUnlock
    <3>2. ~Connected(c) => "gaveup" \in races'[c]
      BY <1>1, <3>1, NoteIs
    <3> QED
      BY <1>1, <3>2
  <2>2. LinkUp(c)
    BY <1>1, <1>3, <2>1
  <2>3. conns' = Sent(c, Request("unlock")) /\ pc[c] = "closing"
    BY <1>10, <2>2 DEF SendUnlock
  <2>4. PICK r \in Requests : r = Request("unlock") /\ r.type = "unlock"
    BY RequestTypes
  <2>5. PICK x : x = Sending(k, r)
    OBVIOUS
  <2>6. k.requests = <<>>
    BY <1>1, <2>2, <2>3 DEF WaitOK, Quiet
  <2>7. Swapped(conns[c], conns'[c], x) /\ Len(x.requests) = 1 /\ x.requests[1] = r
    BY <1>1, <2>2, <2>3, <2>4, <2>5, <2>6, SendingOn DEF cs
  <2>8. Freeing(x)
    BY <2>4, <2>7 DEF Freeing, Only
  <2> QED
    BY <2>7, <2>8, FreeingLock
<1>11. CASE Interrupt(c)
  <2>1. LinkUp(c)
    BY <1>1, <1>3, <1>11 DEF Interrupt, WaitOK
  <2>2. conns' = Sent(c, Request("cancel")) /\ pc[c] = "prompt"
    BY <1>11, <2>1 DEF Interrupt
  <2>3. PICK r \in Requests : r = Request("cancel") /\ r.type = "cancel"
    BY RequestTypes
  <2>4. PICK x : x = Sending(k, r)
    OBVIOUS
  <2>5. /\ Swapped(conns[c], conns'[c], x) /\ x.requests = Append(k.requests, r)
        /\ k.requests = <<>> => Len(x.requests) = 1 /\ x.requests[1] = r
        /\ conns[c] # <<>>
    BY <1>1, <2>1, <2>2, <2>3, <2>4, SendingOn DEF cs
  <2>6. k.requests = <<>> \/ Only(k, "lock")
    BY <1>1, <2>1, <2>2 DEF WaitOK, Quiet
  <2>7. Only(k, "lock") => LockThenCancel(x)
    <3>1. k.requests \in Seq(Requests)
      BY <1>1, <2>5, NewestTyped DEF cs
    <3>2. Only(k, "lock") => Len(x.requests) = 2 /\ x.requests[1] = k.requests[1] /\ x.requests[2] = r
      BY <2>5, <3>1 DEF Only
    <3> QED
      BY <2>3, <3>2 DEF Only, LockThenCancel
  <2>8. Freeing(x)
    BY <2>3, <2>5, <2>6, <2>7 DEF Freeing, Only
  <2> QED
    BY <2>5, <2>8, FreeingLock
<1>12. CASE EndEdit(c) \/ Exit(c)
  <2>1. conns' = Hung(c) /\ ~Editing(c)
    BY <1>12 DEF EndEdit, Exit, Editing
  <2> QED
    BY <1>2, <2>1, HungLock
<1>13. CASE Vanish(c)
  <2>1. "vanished" \in races'[c]
    BY <1>1, <1>13, NoteIs DEF Vanish
  <2> QED
    BY <2>1
<1> QED
  BY <1>7, <1>8, <1>9, <1>10, <1>11, <1>12, <1>13 DEF Continue, UserStep

\* A lock that is granted late is followed by what frees it.
LEMMA TakenLock ==
    ASSUME TypeOK, SessionOK, NEW c \in Clients, NEW x, NEW i, NEW answer \in BOOLEAN,
           Taken(conns[c], x, i, answer), ConnsOK(c, conns[c]), LockOK(c, conns[c]),
           UNCHANGED client,
           Serve(c, Head(conns[c][i].requests), answer), ~conns[c][i].stale
    PROVE  LockOK(c, x)'
<1> DEFINE cs == conns[c]
           k  == cs[i]
           r  == Head(k.requests)
<1>1. /\ Len(cs) \in Nat \ {0} /\ Len(x) = Len(cs) /\ i \in 1 .. Len(cs) /\ k.requests # <<>>
      /\ \A j \in 1 .. Len(cs) : /\ j < i => x[j].requests = cs[j].requests /\ x[j].stale
                                 /\ j > i => x[j] = cs[j]
  BY DEF Taken
<1>2. /\ r \in Requests /\ r = k.requests[1]
      /\ r.type = "lock" =>
            \/ Only(k, "lock") /\ x[i].requests = <<>>
            \/ LockThenCancel(k) /\ Only(x[i], "cancel")
      /\ r.type \in {"write", "unlock", "cancel"} => Only(k, r.type) /\ x[i].requests = <<>>
  <2>1. UnderWay(c, k)
    BY <1>1 DEF ConnsOK
  <2> QED
    BY <2>1, TakenRequests
<1>3. x[i].requests = <<>> \/ Begun(x[i])
  BY <1>2 DEF Requests, Begun, Only
<1>4. Editing(c)' <=> Editing(c)
  BY DEF client, Editing
<1>5. ASSUME NEW j \in 1 .. Len(cs), Freeing(cs[j]), j # i PROVE Freeing(x[j])
  <2>1. x[j].requests = cs[j].requests
    BY <1>1, <1>5
  <2> QED
    BY <1>5, <2>1 DEF Freeing, Only, LockThenCancel
<1> HIDE DEF cs, r
<1>6. LockOK(c, cs)
  BY DEF cs
<1>7. ASSUME NEW a \in 1 .. Len(x), ~x[a].stale, x[a].requests # <<>>, ~Begun(x[a]), ~Editing(c)
      PROVE  \E j \in a .. Len(x) : Freeing(x[j])
  <2>1. a # i
    BY <1>3, <1>7
  <2>2. ~(a < i)
    <3>1. ASSUME a < i PROVE FALSE
      <4>1. x[a].stale
        BY <1>1, <3>1
      <4> QED
        BY <1>7, <4>1
    <3> QED
      BY <3>1
  <2>3. a > i /\ a \in 1 .. Len(cs) /\ x[a] = cs[a]
    BY <1>1, <2>1, <2>2
  <2>4. PICK j \in a .. Len(cs) : Freeing(cs[j])
    BY <1>6, <1>7, <2>3 DEF LockOK
  <2>5. j \in 1 .. Len(cs) /\ j # i /\ j \in a .. Len(x)
    BY <1>1, <2>3, <2>4
  <2> QED
    BY <1>5, <2>4, <2>5
<1>8. ASSUME lock' = c, ~Editing(c) PROVE \E j \in 1 .. Len(x) : Freeing(x[j])
  <2>1. CASE r.type = "lock"
    <3>1. ~Begun(k)
      BY <1>2, <2>1 DEF Begun
    <3>2. PICK j \in i .. Len(cs) : Freeing(cs[j])
      BY <1>1, <1>6, <1>8, <3>1 DEF LockOK, cs
    <3>3. j \in 1 .. Len(cs)
      BY <1>1, <3>2
    <3>4. CASE j = i
      <4>1. LockThenCancel(k)
        BY <1>2, <2>1, <3>2, <3>4 DEF Freeing, Only
      <4>2. Only(x[i], "cancel")
        BY <1>2, <2>1, <4>1 DEF Only, LockThenCancel
      <4> QED
        BY <1>1, <4>2 DEF Freeing
    <3>5. CASE j # i
      BY <1>1, <1>5, <3>2, <3>3, <3>5
    <3> QED
      BY <3>4, <3>5
  <2>2. CASE r.type = "write"
    <3>1. Only(k, "write")
      BY <1>2, <2>2
    <3>2. lock = c
      BY <1>8, <3>1, TakenFor DEF cs
    <3>3. PICK j \in 1 .. Len(cs) : Freeing(cs[j])
      BY <1>6, <1>8, <3>2 DEF LockOK
    <3>4. j # i
      BY <3>1, <3>3 DEF Freeing, Only, LockThenCancel
    <3> QED
      BY <1>1, <1>5, <3>3, <3>4
  <2>3. CASE r.type \in {"unlock", "cancel"}
    <3>1. Only(k, "unlock") \/ Only(k, "cancel")
      BY <1>2, <2>3
    <3>2. lock' # c
      BY <3>1, TakenFor DEF cs
    <3> QED
      BY <1>8, <3>2
  <2> QED
    BY <1>2, <2>1, <2>2, <2>3 DEF Requests
<1> QED
  BY <1>4, <1>7, <1>8 DEF LockOK

LEMMA RemovedLockThen ==
    ASSUME NEW c \in Clients, NEW cs, NEW N, NEW i
    PROVE  (Removed(cs, N, i) /\ ConnsOK(c, cs) /\ LockOK(c, cs) => LockOK(c, N))'
<1>1. Removed(cs, N, i) /\ ConnsOK(c, cs) /\ LockOK(c, cs) => LockOK(c, N)
  BY RemovedLock
<1> QED
  BY <1>1, PTL

LEMMA HandleLock ==
    ASSUME WriteInv, NEW c \in Clients, NEW i \in DOMAIN conns[c], Handle(c, i),
           LockOK(c, conns[c]), "late" \notin races'[c]
    PROVE  LockOK(c, conns[c])'
<1>1. TypeOK /\ SessionOK /\ ConnsOK(c, conns[c]) /\ ~conns[c][i].stale
      /\ races[c] \subseteq races'[c]
  BY HandleFine DEF WriteInv, ClientOK
<1>2. PICK answer \in BOOLEAN, x \in Seq(Connections) :
         /\ Serve(c, Head(conns[c][i].requests), answer)
         /\ Taken(conns[c], x, i, answer)
         /\ conns' = [conns EXCEPT ![c] = Forget(x, i)]
  BY <1>1, HandleTakes
<1>3. LockOK(c, x)'
  BY <1>1, <1>2, TakenLock DEF Handle
<1>4. ConnsOK(c, x)'
  BY <1>1, <1>2, TakenConns
<1>5. PICK N : N = Forget(x, i)
  OBVIOUS
<1>6. LockOK(c, N)'
  <2>1. CASE Over(x[i])
    <3>1. Removed(x, N, i)
      BY <1>2, <1>5, <2>1, ForgetRemoves DEF Taken
    <3>2. Removed(x, N, i)'
      BY <3>1
    <3> QED
      BY <1>3, <1>4, <3>2, RemovedLockThen
  <2>2. CASE ~Over(x[i])
    BY <1>3, <1>5, <2>2 DEF Forget
  <2> QED
    BY <2>1, <2>2
<1>7. conns'[c] = N
  BY <1>1, <1>2, <1>5 DEF TypeOK
<1> QED
  BY <1>6, <1>7 DEF LockOK

LEMMA RestartLock ==
    ASSUME WriteInv, NEW c \in Clients, RestartServer, "cut" \notin races'[c]
    PROVE  LockOK(c, conns[c])'
<1>1. conns[c] = <<>> /\ conns'[c] = <<>>
  <2>1. conns[c] = <<>>
    BY RestartConns DEF WriteInv
  <2>2. ~On(conns[c])
    BY <2>1 DEF On
  <2> QED
    BY <2>1, <2>2, RestartConns DEF WriteInv
<1>2. Len(conns'[c]) = 0
  BY <1>1
<1>3. lock' # c
  BY NamesAssumption DEF RestartServer
<1> QED
  BY <1>2, <1>3 DEF LockOK

LEMMA LockNext ==
    ASSUME LockInv, [Next]_vars
    PROVE  LockInv'
<1> DEFINE Free4(d)  == races[d] \cap {"cut", "late", "gaveup", "vanished"} = {}
           Then(d)   == Free4(d)' => LockOK(d, conns[d])'
<1>1. WriteInv /\ WriteInv'
  BY NextKeeps DEF LockInv
<1>2. \A c \in Clients : Free4(c) => LockOK(c, conns[c])
  BY DEF LockInv, Undisturbed
<1>3. ASSUME NEW d \in Clients, Untouched(d), Served(d) PROVE Then(d)
  BY <1>2, <1>3, UntouchedLock DEF Untouched
<1>4. ASSUME NEW c \in Clients, Continue(c) \/ UserStep(c) \/ LoseConnection(c) \/ Vanish(c)
      PROVE  \A d \in Clients : Then(d)
  <2>1. Fine(c)
    BY <1>1, <1>4, StepFine
  <2>2. \A d \in Clients \ {c} : Untouched(d) /\ Served(d)
    BY <2>1, ServerSame DEF Fine, OwnStep
  <2>3. races[c] \subseteq races'[c]
    BY <2>1 DEF Fine, OwnStep
  <2>4. Then(c)
    <3>1. CASE LoseConnection(c)
      <4>1. "cut" \in races'[c]
        BY <1>1, <3>1, NoteIs DEF WriteInv, LoseConnection
      <4> QED
        BY <4>1
    <3>2. CASE ~LoseConnection(c)
      <4>1. Free4(c)' => Free4(c)
        BY <2>3
      <4> QED
        BY <1>1, <1>2, <1>4, <2>1, <3>2, <4>1, OwnLock
    <3> QED
      BY <3>1, <3>2
  <2> QED
    BY <1>3, <2>2, <2>4
<1>5. ASSUME NEW c \in Clients, NEW i \in DOMAIN conns[c], Handle(c, i)
      PROVE  \A d \in Clients : Then(d)
  <2>1. (\A d \in Clients \ {c} : Untouched(d) /\ Served(d)) /\ races[c] \subseteq races'[c]
    BY <1>1, <1>5, HandleFine
  <2>2. Free4(c)' => Free4(c) /\ "late" \notin races'[c]
    BY <2>1
  <2>3. Then(c)
    BY <1>1, <1>2, <1>5, <2>2, HandleLock
  <2> QED
    BY <1>3, <2>1, <2>3
<1>6. ASSUME RestartServer PROVE \A d \in Clients : Then(d)
  BY <1>1, <1>6, RestartLock
<1>7. ASSUME UNCHANGED vars PROVE \A d \in Clients : Then(d)
  <2>1. \A d \in Clients : Untouched(d)
    BY <1>7 DEF vars, client, Untouched
  <2>2. \A d \in Clients : Served(d)
    BY <1>7, ServerSame DEF vars
  <2> QED
    BY <1>3, <2>1, <2>2
<1>8. \A d \in Clients : Then(d)
  BY <1>4, <1>5, <1>6, <1>7 DEF Next, ServerThreads
<1> QED
  BY <1>1, <1>8 DEF LockInv, Undisturbed

LEMMA InitLockInv == Init => LockInv
<1> SUFFICES ASSUME Init, NEW c \in Clients PROVE WriteInv /\ LockOK(c, conns[c])
  BY InitWriteInv DEF LockInv
<1>1. Len(conns[c]) = 0 /\ lock # c
  BY NamesAssumption DEF Init
<1> QED
  BY <1>1, InitWriteInv DEF LockOK

\* The lock comes back: a client that is in no edit has none, or its UNLOCK_SENTENCE or
\* CANCEL_WRITE is on its way; also when it left before its LOCK_SENTENCE was answered.
THEOREM LockComesBack == Spec => []UndisturbedLockComesBack
<1>1. LockInv /\ [Next]_vars => LockInv'
  BY LockNext
<1>2. LockInv => UndisturbedLockComesBack
  <2> SUFFICES ASSUME LockInv, NEW c \in Clients, lock = c, pc[c] = "idle",
                      Undisturbed(c, {"cut", "late", "gaveup", "vanished"})
               PROVE  Pending(c, {"unlock", "cancel"})
    BY DEF UndisturbedLockComesBack
  <2>1. TypeOK /\ LockOK(c, conns[c])
    BY DEF LockInv, WriteInv
  <2>2. conns[c] \in Seq(Connections) /\ DOMAIN conns[c] = 1 .. Len(conns[c])
    BY <2>1 DEF TypeOK
  <2>3. PICK i \in 1 .. Len(conns[c]) : Freeing(conns[c][i])
    BY <2>1 DEF LockOK, Editing
  <2>4. conns[c][i] \in Connections
    BY <2>2
  <2>5. PICK s \in Seq(Requests) : s = conns[c][i].requests
    BY <2>4 DEF Connections
  <2>6. \E n \in DOMAIN s : s[n].type \in {"unlock", "cancel"}
    BY <2>3, <2>5 DEF Freeing, Only, LockThenCancel
  <2> QED
    BY <2>2, <2>5, <2>6 DEF Pending
<1> QED
  BY <1>1, <1>2, InitLockInv, PTL DEF Spec
=============================================================================
