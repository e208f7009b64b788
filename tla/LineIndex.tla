----------------------------- MODULE LineIndex -----------------------------
(***************************************************************************)
(* Positions and offsets of one text (src/src/line_index.rs) and the       *)
(* content changes a client sends in those terms (src/src/document.rs).    *)
(*                                                                         *)
(* A text is a sequence of symbols.  A symbol is one character, or a word  *)
(* whose letters nothing here tells apart.  An offset counts the symbols   *)
(* before it (the code counts their bytes: no offset inside a symbol is    *)
(* ever produced), and a column counts UTF-16 code units, two for the      *)
(* symbols of Wide and one for the others.                                 *)
(***************************************************************************)
EXTENDS Integers, Sequences, FiniteSets, SequencesExt

CONSTANT Wide            \* symbols outside the basic multilingual plane

LF == "\n"
CR == "\r"

Utf16Len(text) == Len(text) + Cardinality({i \in DOMAIN text : text[i] \in Wide})

\* The symbols between two offsets.
Slice(text, start, end) == SubSeq(text, start + 1, end)

\* The places of a text that pass a test, in order.
Places(text, Test(_)) == SelectSeq([i \in DOMAIN text |-> i], Test)

\* The offset where each line starts: the first, and after the k-th LF the next.
Starts(text) ==
    LET ends == {i \in DOMAIN text : text[i] = LF}
    IN  [k \in 1 .. Cardinality(ends) + 1 |->
            IF k = 1 THEN 0
            ELSE CHOOSE i \in ends : Cardinality({j \in ends : j <= i}) = k - 1]

PositionAt(text, offset) ==
    LET at     == IF offset > Len(text) THEN Len(text) ELSE offset
        starts == Starts(text)
        line   == Cardinality({k \in DOMAIN starts : starts[k] <= at}) - 1
    IN  [line |-> line, character |-> Utf16Len(Slice(text, starts[line + 1], at))]

\* The offset just after the text of a line, its terminator left out.
LineEnd(text, start, end) ==
    LET lf == IF end > start /\ text[end] = LF THEN end - 1 ELSE end
    IN  IF lf > start /\ text[lf] = CR THEN lf - 1 ELSE lf

\* A line past the last is the end of the text; a column past the end of its
\* line is that end; a column inside a wide symbol is the symbol's start.
OffsetAt(text, position) ==
    LET starts == Starts(text)
        k      == position.line + 1
    IN  IF k > Len(starts)
        THEN Len(text)
        ELSE LET start == starts[k]
                 line  == Slice(text, start,
                              LineEnd(text, start, IF k < Len(starts) THEN starts[k + 1] ELSE Len(text)))
             IN  start + Cardinality({i \in DOMAIN line :
                                         Utf16Len(SubSeq(line, 1, i)) <= position.character})

\* lsp_types::Range over a span of offsets.
RangeOf(text, span) ==
    [start |-> PositionAt(text, span.start), end |-> PositionAt(text, span.end)]

Replace(text, start, end, new) ==
    SubSeq(text, 1, start) \o new \o SubSeq(text, end + 1, Len(text))

\* Mutant: every start is relative to the token before, on another line too.
EncodeStartDeltas(absolute) ==
    [i \in DOMAIN absolute |->
        LET before == IF i = 1 THEN [line |-> 0, start |-> 0] ELSE absolute[i - 1]
        IN  [deltaLine  |-> absolute[i].line - before.line,
             deltaStart |-> absolute[i].start - before.start,
             length     |-> absolute[i].length,
             type       |-> absolute[i].type]]

\* encode_semantic_tokens: each token's line and start relative to the one before.
EncodeDeltas(absolute) ==
    [i \in DOMAIN absolute |->
        LET before == IF i = 1 THEN [line |-> 0, start |-> 0] ELSE absolute[i - 1]
            lines  == absolute[i].line - before.line
        IN  [deltaLine  |-> lines,
             deltaStart |-> IF lines = 0 THEN absolute[i].start - before.start
                                         ELSE absolute[i].start,
             length     |-> absolute[i].length,
             type       |-> absolute[i].type]]

-----------------------------------------------------------------------------
(***************************************************************************)
(* Content changes.  A change is [whole, range, text].  The result carries *)
(* ok: a change the text cannot take rejects the whole notification.       *)
(***************************************************************************)
ApplyChange(text, change) ==
    IF change.whole
    THEN [ok |-> TRUE, text |-> change.text]
    ELSE LET start == OffsetAt(text, change.range.start)
             end   == OffsetAt(text, change.range.end)
         IN  IF /\ start <= end
                /\ PositionAt(text, start) = change.range.start
                /\ PositionAt(text, end) = change.range.end
             THEN [ok |-> TRUE, text |-> Replace(text, start, end, change.text)]
             ELSE [ok |-> FALSE, text |-> text]

\* Mutant: every change is read in the text the notification found.
ApplyEachToFirst(original, changes) ==
    FoldLeft(LAMBDA r, c :
                LET start == OffsetAt(original, c.range.start)
                    end   == OffsetAt(original, c.range.end)
                IN  [ok |-> TRUE, text |-> Replace(r.text, start, end, c.text)],
             [ok |-> TRUE, text |-> original], changes)

ApplyChanges(original, changes) ==
    LET after[n \in 0 .. Len(changes)] ==
            IF n = 0 THEN [ok |-> TRUE, text |-> original]
            ELSE IF after[n - 1].ok THEN ApplyChange(after[n - 1].text, changes[n])
            ELSE after[n - 1]
    IN  after[Len(changes)]
=============================================================================
