---------------------------- MODULE SentenceText ----------------------------
(***************************************************************************)
(* The text of a document as the storage server sees it: a sequence of     *)
(* sentences (file_ops.c: FileContent), with the operations the write path  *)
(* performs on it.                                                          *)
(*                                                                          *)
(* A sentence is abstracted to what the merge properties tell apart:        *)
(*   src  which sentences of the initial document it continues (of one that  *)
(*        is cut in two, the second half does),                             *)
(*   by   the users whose words it holds,                                   *)
(*   end  its last token: a delimiter (. ! ?), a newline, or anything else. *)
(* Only a delimiter ends a sentence, so in a parsed text every sentence but *)
(* the last ends with one.                                                  *)
(***************************************************************************)
EXTENDS Naturals, Integers, Sequences

CONSTANT Users              \* the usernames that write

\* The names a document's original sentences are known by.
CONSTANT SourceIds

\* The position and form of the content of one WRITE request.
EditKinds == {"word", "split", "end", "after", "newline"}

Ends == {"delim", "newline", "open"}

Sentence == [src : SUBSET SourceIds, by : SUBSET Users, end : Ends]

\* A sentence of whitespace only: the slot insert_word_in_sentence adds behind
\* a delimiter, which write_file_content turns into a trailing space.
Blank == [src |-> {}, by |-> {}, end |-> "open"]

\* A sentence made of nothing but user u's new words.
NewSentence(u, e) == [src |-> {}, by |-> {u}, end |-> e]

Mark(s, u) == [s EXCEPT !.by = @ \cup {u}]

\* The users whose words a text holds.
Marks(text) == UNION {text[i].by : i \in DOMAIN text}

\* No two sentences of a text continue the same original one.
SourcesApart(text) ==
    \A m, n \in DOMAIN text : m # n => text[m].src \cap text[n].src = {}

-----------------------------------------------------------------------------
(* Parsing *)

\* What parse_file makes of two adjacent pieces no delimiter separates.
Fuse(s, t) == [src |-> s.src \cup t.src, by |-> s.by \cup t.by, end |-> t.end]

\* MUTANT: every piece starts a sentence.
ParsePieceAlwaysNew(parsed, piece) == Append(parsed, piece)

\* Adds a piece of text behind a parsed text: a new sentence starts only
\* behind a delimiter.
ParsePiece(parsed, piece) ==
    IF parsed # <<>> /\ parsed[Len(parsed)].end # "delim"
    THEN [parsed EXCEPT ![Len(parsed)] = Fuse(@, piece)]
    ELSE Append(parsed, piece)

\* The sentences parse_file finds in pieces that write_file_content wrote.
ParseFile(pieces) ==
    LET sofar[n \in 0 .. Len(pieces)] ==
            IF n = 0 THEN <<>> ELSE ParsePiece(sofar[n - 1], pieces[n])
    IN  sofar[Len(pieces)]

\* In a parsed text only the last sentence may lack a delimiter.
IsParsed(text) ==
    /\ text \in Seq(Sentence)
    /\ \A n \in 1 .. Len(text) - 1 : text[n].end = "delim"

\* LOCK_SENTENCE's check of the (0-based) index: an existing sentence, or the
\* one behind the last if that ends with a delimiter or a newline token.
LockableIndex(text, i) ==
    \/ text = <<>> /\ i = 0
    \/ i \in 0 .. Len(text) - 1
    \/ /\ text # <<>>
       /\ i = Len(text)
       /\ text[Len(text)].end \in {"delim", "newline"}

-----------------------------------------------------------------------------
(* Inserting words *)

\* The pieces user u's content of the given kind leaves in place of sentence s:
\* a plain word among the words of s, a word with a delimiter among them or behind
\* them, a plain word behind the last token, a newline behind it.
PiecesOf(s, u, kind) ==
    CASE kind = "word"  -> <<Mark(s, u)>>
      [] kind = "split" -> <<[Mark(s, u) EXCEPT !.src = {}, !.end = "delim"], s>>
      [] kind = "end" /\ s.end # "delim"     -> <<[Mark(s, u) EXCEPT !.end = "delim"]>>
      [] kind = "after" /\ s.end # "delim"   -> <<[Mark(s, u) EXCEPT !.end = "open"]>>
      [] kind = "newline" /\ s.end # "delim" -> <<[Mark(s, u) EXCEPT !.end = "newline"]>>
      [] OTHER -> <<s, NewSentence(u, CASE kind = "end" -> "delim"
                                        [] kind = "after" -> "open"
                                        [] OTHER -> "newline")>>

\* insert_word_in_sentence of user u's content at (0-based) sentence i of text,
\* written back with write_file_content and parsed again. The index one behind
\* the last sentence appends one. A delimiter in the last sentence leaves an
\* empty slot behind it, which is read back as a blank sentence when the text
\* before it ends with a delimiter. Index 1 of an empty text is filled into a slot
\* that is counted, and so written, only when the content holds a delimiter.
InsertWord(text, i, u, kind) ==
  IF text = <<>> /\ i = 1
  THEN IF kind \in {"split", "end"} THEN <<NewSentence(u, "delim")>> ELSE <<>>
  ELSE
    LET base   == IF i = Len(text) THEN Append(text, Blank) ELSE text
        pieces == PiecesOf(base[i + 1], u, kind)
        last   == pieces[Len(pieces)].end
        slot   == IF /\ kind \in {"split", "end"}
                     /\ i + 1 = Len(base)
                     /\ last = "delim"
                  THEN <<Blank>> ELSE <<>>
    IN  ParseFile(SubSeq(base, 1, i) \o pieces \o slot
                  \o SubSeq(base, i + 2, Len(base)))

-----------------------------------------------------------------------------
(* Merging a commit *)

\* Where process_commit_queue looks for sentence i of a session that started
\* when the document had `original` sentences.
AdjustedIndex(current, original, i) == i + (Len(current) - original)

\* MUTANT: the bound is one too small.
SkipsCommitToLast(current, original, i) ==
    LET adjusted == AdjustedIndex(current, original, i)
    IN  /\ ~(current = <<>> /\ original = 0 /\ adjusted = 0)
        /\ adjusted < 0 \/ adjusted >= Len(current) - 1

\* The bounds check that makes process_commit_queue skip a commit.
SkipsCommit(current, original, i) ==
    LET adjusted == AdjustedIndex(current, original, i)
    IN  /\ ~(current = <<>> /\ original = 0 /\ adjusted = 0)
        /\ adjusted < 0 \/ adjusted >= Len(current)

\* MUTANT: the sentences behind the merged one are copied from one too late.
MergeCommitOneMore(current, session, original, i) ==
    LET adjusted == AdjustedIndex(current, original, i)
        modified == 1 + (Len(session) - original)
        last     == IF i + modified < Len(session) THEN i + modified ELSE Len(session)
    IN  IF current = <<>>
        THEN session
        ELSE ParseFile(SubSeq(current, 1, adjusted)
                       \o SubSeq(session, i + 1, last)
                       \o SubSeq(current, adjusted + 3, Len(current)))

\* The merged document: the current sentences with the one at the adjusted index
\* replaced by the session's sentence and those its text grew by.
MergeCommit(current, session, original, i) ==
    LET adjusted == AdjustedIndex(current, original, i)
        modified == 1 + (Len(session) - original)
        last     == IF i + modified < Len(session) THEN i + modified ELSE Len(session)
    IN  IF current = <<>>
        THEN session
        ELSE ParseFile(SubSeq(current, 1, adjusted)
                       \o SubSeq(session, i + 1, last)
                       \o SubSeq(current, adjusted + 2, Len(current)))

\* What is on disk when a writer that truncated the file earlier flushes its
\* text over what other writers flushed since.
Overlay(old, new) == ParseFile(new \o SubSeq(old, Len(new) + 1, Len(old)))
=============================================================================
