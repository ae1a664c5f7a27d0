--------------------------- MODULE MetadataCache ---------------------------
(***************************************************************************)
(* What the name server expects of its metadata cache: a map from file names *)
(* to metadata, on which the calls of several threads take effect one at a  *)
(* time, between the call and its return.                                   *)
(***************************************************************************)
CONSTANTS Threads, Keys, Values, Absent, Calls, NoCall

VARIABLES contents, call, reply

vars == <<contents, call, reply>>

Init ==
    /\ contents = [k \in Keys |-> Absent]
    /\ call = [t \in Threads |-> NoCall]
    /\ reply = [t \in Threads |-> Absent]

Call(t, c) ==
    /\ call[t] = NoCall
    /\ call' = [call EXCEPT ![t] = c]
    /\ reply' = [reply EXCEPT ![t] = Absent]
    /\ UNCHANGED contents

Answer(t, answer) ==
    /\ call' = [call EXCEPT ![t] = NoCall]
    /\ reply' = [reply EXCEPT ![t] = answer]

Get(t) ==
    /\ call[t].op = "get"
    /\ Answer(t, contents[call[t].key])
    /\ UNCHANGED contents

Put(t) ==
    /\ call[t].op = "put"
    /\ contents' = [contents EXCEPT ![call[t].key] = call[t].value]
    /\ Answer(t, Absent)

Remove(t) ==
    /\ call[t].op = "remove"
    /\ contents' = [contents EXCEPT ![call[t].key] = Absent]
    /\ Answer(t, Absent)

Next == \E t \in Threads :
    Get(t) \/ Put(t) \/ Remove(t) \/ \E c \in Calls : Call(t, c)

Spec == Init /\ [][Next]_vars
=============================================================================
