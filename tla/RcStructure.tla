---------------------------- MODULE RcStructure -----------------------------
(***************************************************************************)
(* What an open bazelrc buffer answers from its syntax alone: semantic     *)
(* tokens, folding and selection ranges (src/src/bazelrc/structural.rs).   *)
(***************************************************************************)
EXTENDS RcSyntax

\* The token types, in the order the code numbers them.
NAMESPACE == 2
KEYWORD   == 4
PROPERTY  == 5
COMMENT   == 6
OPERATOR  == 7

-----------------------------------------------------------------------------
(***************************************************************************)
(* push_span: the pieces of a span, one for each physical line it touches, *)
(* without the line's terminator.                                          *)
(***************************************************************************)
PushSpan(text, span, type) ==
    LET starts   == {span.start} \cup {i \in span.start + 1 .. span.end - 1 : text[i] = LF}
        stop(s)  == LET lf == {i \in s .. span.end - 1 : text[i + 1] = LF}
                        e  == IF lf = {} THEN span.end ELSE CHOOSE i \in lf : \A j \in lf : i <= j
                    IN  IF e > s /\ text[e] = CR THEN e - 1 ELSE e
        piece(s) == LET at == PositionAt(text, s)
                    IN  [line |-> at.line, start |-> at.character, type |-> type,
                         length |-> PositionAt(text, stop(s)).character - at.character]
    IN  {piece(s) : s \in {b \in starts : b < span.end /\ stop(b) > b}}

TokenTypes(line) ==
    LET n == Len(line.tokens)
    IN  CASE line.statement = "conditional"                -> <<KEYWORD, OPERATOR, NAMESPACE>>
          [] line.statement \in {"import", "try-import"}   -> <<KEYWORD, NAMESPACE>>
          [] line.statement = "entry"                      -> <<KEYWORD>> \o [k \in 1 .. n - 1 |-> PROPERTY]
          [] OTHER                                         -> <<>>

LinePieces(text, line) ==
    LET types == TokenTypes(line)
    IN  UNION {PushSpan(text, line.tokens[k].range, types[k]) : k \in DOMAIN types}
        \cup IF line.comment = NoSpan THEN {} ELSE PushSpan(text, line.comment, COMMENT)

Before(a, b) == a.line < b.line \/ (a.line = b.line /\ a.start < b.start)

InOrder(pieces) ==
    [k \in 1 .. Cardinality(pieces) |->
        CHOOSE p \in pieces : Cardinality({q \in pieces : Before(q, p)}) = k - 1]

SemanticTokens(text, lines) ==
    EncodeDeltas(InOrder(UNION {LinePieces(text, lines[k]) : k \in DOMAIN lines}))

-----------------------------------------------------------------------------
(***************************************************************************)
(* folding_ranges: a logical line of several physical ones, and a run of   *)
(* lines that hold nothing but a comment.                                  *)
(***************************************************************************)
CommentLines(text, lines) ==
    {PositionAt(text, lines[k].comment.start).line :
        k \in {j \in DOMAIN lines :
                  /\ lines[j].comment # NoSpan
                  /\ \A i \in lines[j].range.start + 1 .. lines[j].comment.start :
                        text[i] \in Strippable}}

Folds(pairs) == {p \in pairs : p.end > p.start}

FoldingRanges(text, lines) ==
    LET comments == CommentLines(text, lines)
        runs     == {[start |-> a, end |-> b] : a, b \in comments}
        joined(r) == r.start <= r.end /\ r.start .. r.end \subseteq comments
        longest(r) == r.start - 1 \notin comments /\ r.end + 1 \notin comments
    IN  Folds({[start |-> PositionAt(text, lines[k].range.start).line,
                end   |-> PositionAt(text, lines[k].range.end).line] : k \in DOMAIN lines})
        \cup Folds({r \in runs : joined(r) /\ longest(r)})

-----------------------------------------------------------------------------
(***************************************************************************)
(* selection_ranges: from the token at an offset out to its logical line   *)
(* and to the file, a range equal to the one around it left out.           *)
(***************************************************************************)
Holds(span, offset) == span.start <= offset /\ offset <= span.end

Chain(inner, outer) == IF inner = Head(outer) THEN outer ELSE <<inner>> \o outer

SelectionRange(text, lines, offset) ==
    LET file == <<RangeOf(text, Span(0, Len(text)))>>
        at   == {k \in DOMAIN lines : Holds(lines[k].range, offset)}
    IN  IF at = {} THEN file
        ELSE LET line  == lines[CHOOSE k \in at : \A j \in at : k <= j]
                 outer == Chain(RangeOf(text, line.range), file)
                 spans == SelectSeq([k \in DOMAIN line.tokens |-> line.tokens[k].range]
                                       \o (IF line.comment = NoSpan THEN <<>> ELSE <<line.comment>>),
                                    LAMBDA s : Holds(s, offset))
             IN  IF spans = <<>> THEN outer ELSE Chain(RangeOf(text, Head(spans)), outer)
=============================================================================
