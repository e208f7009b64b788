------------------------------ MODULE RcBuffer ------------------------------
(***************************************************************************)
(* One bazelrc file open in an editor: the text the client has on screen,  *)
(* and the document the server derives from the changes it is sent         *)
(* (src/src/document.rs, src/src/main.rs).  Every answer about the file is *)
(* computed from the document, as offsets of the server's text, and acted  *)
(* on by the client, as positions of its own.                              *)
(***************************************************************************)
EXTENDS RcCompletion

CONSTANTS
    Texts,        \* what a file may hold when it is opened
    Typed,        \* what one change of the client may insert
    MaxCut,       \* bound: symbols one change of the client removes
    MaxVersion    \* bound: versions a document goes through

ASSUME TextAssumption == Texts \subseteq Seq(STRING) /\ Typed \subseteq Seq(STRING)

ASSUME BoundsAssumption == MaxCut \in Nat /\ MaxVersion \in Nat \ {0}

VARIABLES
    client,       \* the client's text
    document      \* Document: text, version and the lines parsed from the text

textVars == <<client, document>>

-----------------------------------------------------------------------------
(***************************************************************************)
(* The client.  It counts lines and UTF-16 units in its own text, ends a   *)
(* line at LF or CR LF, and never points between the two.  A text with a   *)
(* lone CR is shown and asked about, and not edited: clients disagree on   *)
(* where its lines end.                                                    *)
(***************************************************************************)
Splits(text, offset) == offset \in 1 .. Len(text) - 1 /\ text[offset] = CR /\ text[offset + 1] = LF

Caret(text) == {o \in 0 .. Len(text) : ~Splits(text, o)}

Conforming(text) == \A i \in DOMAIN text : text[i] = CR => Symbol(text, i + 1) = LF

ClientPosition(text, offset) ==
    LET ended == {i \in 1 .. offset : text[i] = LF}
        begin == IF ended = {} THEN 0 ELSE CHOOSE i \in ended : \A j \in ended : j <= i
    IN  [line |-> Cardinality(ended), character |-> Utf16Len(Slice(text, begin, offset))]

ClientChange(text, start, end, new) ==
    [whole |-> FALSE, text |-> new,
     range |-> [start |-> ClientPosition(text, start), end |-> ClientPosition(text, end)]]

WholeDocument(new) ==
    [whole |-> TRUE, text |-> new,
     range |-> [start |-> [line |-> 0, character |-> 0], end |-> [line |-> 0, character |-> 0]]]

-----------------------------------------------------------------------------
\* Document::versioned_as.
NewDocument(text, version) == [text |-> text, version |-> version, lines |-> ParseText(text)]

\* Documents::change: a version that does not follow, or a change the text
\* cannot take, leaves the document as it was.
Changed(doc, version, changes) ==
    LET applied == ApplyChanges(doc.text, changes)
    IN  IF version > doc.version /\ applied.ok THEN NewDocument(applied.text, version) ELSE doc

TextInit ==
    /\ client \in Texts
    /\ document = NewDocument(client, 1)

\* One edit, sent as one change.
EditOnce ==
    /\ document.version < MaxVersion /\ Conforming(client)
    /\ \E start, end \in Caret(client), new \in Typed :
          /\ start <= end /\ end <= start + MaxCut
          /\ client' = Replace(client, start, end, new)
          /\ document' = Changed(document, document.version + 1,
                                 <<ClientChange(client, start, end, new)>>)

\* Two edits sent in one notification, the second in terms of the first one's result.
EditTwice ==
    /\ document.version < MaxVersion /\ Conforming(client)
    /\ \E at \in Caret(client), new \in Typed :
          LET between == Replace(client, at, at, new)
          IN  /\ Conforming(between)
              /\ \E start, end \in Caret(between) :
                 /\ start <= end /\ end <= start + MaxCut
                 /\ client' = Replace(between, start, end, <<>>)
                 /\ document' = Changed(document, document.version + 1,
                                        <<ClientChange(client, at, at, new),
                                          ClientChange(between, start, end, <<>>)>>)

\* The whole text, as a client that cannot send ranges does.
Rewrite ==
    /\ document.version < MaxVersion
    /\ \E new \in Typed :
          /\ client' = new
          /\ document' = Changed(document, document.version + 1, <<WholeDocument(new)>>)

TextNext == EditOnce \/ EditTwice \/ Rewrite

TextSpec == TextInit /\ [][TextNext]_textVars

-----------------------------------------------------------------------------
(***************************************************************************)
(* Properties.                                                             *)
(***************************************************************************)
Parsed == document.lines

\* The decoded tokens of each line, and of a text.
Said(lines) == [k \in DOMAIN lines |-> [j \in DOMAIN lines[k].tokens |-> lines[k].tokens[j].text]]

\* The lexer's state at an offset, from the source before it.
LexedUpTo(text, offset) ==
    LET logical == Logical(Slice(text, 0, offset))
    IN  FoldLeft(LAMBDA s, at : IF logical.symbols[at + 1] = LF THEN Start
                                ELSE Step(logical, s, at, Len(logical.symbols)),
                 Start, [k \in DOMAIN logical.symbols |-> k - 1])

QuoteAt(text, offset) == LexedUpTo(text, offset).quote

Unquoted(text, span) == \A o \in {span.start, span.end} : QuoteAt(text, o) = "none"

\* A change, or several in one notification, is applied where the client made
\* it: the text every answer is computed from is the text on screen
\* (apply_changes, LineIndex::offset).
BufferFollowsClient == document.text = client

\* The spans are exact: the tokens and the comment of a line follow one
\* another inside it, and the source of each token, read on its own, is that
\* token again whatever quotes, escapes and continuations it is written with.
\* A value quote_token accepts is one token wherever it is written.  The site of
\* a configuration's name, which requests answer with and a rename writes over,
\* lies in one token and says that name, unless the quotes around it are shared.
TokensAreExact ==
    LET Reads(text, token) ==
            LET logical == Logical(text)
                read    == Tokenize(logical, 0, Len(logical.symbols)).tokens
            IN  Len(read) = 1 /\ read[1].text = token
    IN  \A k \in DOMAIN Parsed :
            LET line  == Parsed[k]
                spans == [j \in DOMAIN line.tokens |-> line.tokens[j].range]
                            \o (IF line.comment = NoSpan THEN <<>> ELSE <<line.comment>>)
            IN  /\ \A j \in DOMAIN spans :
                      /\ line.range.start <= spans[j].start /\ spans[j].start < spans[j].end
                      /\ spans[j].end <= line.range.end
                      /\ j > 1 => spans[j - 1].end <= spans[j].start
                /\ \A j \in DOMAIN line.tokens :
                      LET token == line.tokens[j]
                      IN  /\ Reads(Slice(document.text, token.range.start, token.range.end), token.text)
                          /\ QuoteToken(token.text) # <<>> => Reads(QuoteToken(token.text), token.text)
                /\ \A site \in ConfigDeclaration(line) \cup ConfigReferences(line) :
                      /\ \E j \in DOMAIN line.tokens :
                            /\ line.tokens[j].range.start <= site.range.start
                            /\ site.range.end <= line.tokens[j].range.end
                      /\ Unquoted(document.text, site.range) /\ site.name # <<>> =>
                            Reads(Slice(document.text, site.range.start, site.range.end), site.name)

\* The tokens as the client decodes them, each relative to the one before it.
Decoded(data) ==
    LET add(s, d) == LET at == [line  |-> s.line + d.deltaLine,
                                start |-> IF d.deltaLine = 0 THEN s.start + d.deltaStart
                                                             ELSE d.deltaStart]
                     IN  [line |-> at.line, start |-> at.start,
                          found |-> Append(s.found, [line |-> at.line, start |-> at.start,
                                                     length |-> d.length, type |-> d.type])]
    IN  FoldLeft(add, [line |-> 0, start |-> 0, found |-> <<>>], data).found

\* What the client paints and grows is what is on its screen.  Decoded, the
\* semantic tokens do not overlap, and colour exactly the symbols of the lines
\* that say something and of the comments; the selection around every caret
\* holds it, and grows strictly at each step; and of two folds one is inside the
\* other or they have no line in common.
StructureFollowsText ==
    LET text    == document.text
        painted == Decoded(SemanticTokens(text, Parsed))
        colours == UNION {LinePieces(text, Parsed[k]) : k \in DOMAIN Parsed}
        inked   == UNION {{o \in 0 .. Len(text) - 1 :
                              \E j \in DOMAIN TokenTypes(Parsed[k]) :
                                  Parsed[k].tokens[j].range.start <= o /\ o < Parsed[k].tokens[j].range.end} :
                          k \in DOMAIN Parsed}
        over(t, o) == LET at == ClientPosition(text, o)
                      IN  at.line = t.line /\ t.start <= at.character
                             /\ at.character < t.start + t.length
        inside(a, b) == \/ a.line < b.line
                        \/ a.line = b.line /\ a.character <= b.character
    IN  /\ \A i \in 2 .. Len(painted) :
              \/ painted[i - 1].line < painted[i].line
              \/ /\ painted[i - 1].line = painted[i].line
                 /\ painted[i - 1].start + painted[i - 1].length <= painted[i].start
        /\ ToSet(painted) = colours
        /\ \A a, b \in FoldingRanges(text, Parsed) :
              /\ a.end <= ClientPosition(text, Len(text)).line
              /\ a.start < b.start /\ b.start <= a.end => b.end <= a.end
        /\ \A o \in inked : text[o + 1] \notin {LF, CR} =>
              \E i \in DOMAIN painted : over(painted[i], o)
        /\ \A o \in Caret(text) :
              LET chain == SelectionRange(text, Parsed, OffsetAt(text, ClientPosition(text, o)))
              IN  /\ Conforming(text) =>
                        /\ inside(Head(chain).start, ClientPosition(text, o))
                        /\ inside(ClientPosition(text, o), Head(chain).end)
                  /\ \A i \in 2 .. Len(chain) :
                        /\ chain[i] # chain[i - 1]
                        /\ inside(chain[i].start, chain[i - 1].start)
                        /\ inside(chain[i - 1].end, chain[i].end)

-----------------------------------------------------------------------------
(***************************************************************************)
(* Edits the server proposes inside a line.                                *)
(***************************************************************************)
\* A span closes the quotes it opens, and opens none of those it closes.
Balanced(text, span) == QuoteAt(text, span.start) = QuoteAt(text, span.end)

\* Outside the tokens of a line, those before it being the ones on record: white
\* space that a backslash escapes at the end of a line is dropped with the line's edge.
InNoToken(text, line, offset) ==
    LET lexed  == LexedUpTo(text, offset)
        before == SelectSeq(line.tokens, LAMBDA t : t.range.end <= offset)
    IN  /\ ~lexed.open
        /\ Said(<<lexed>>) = Said(<<[tokens |-> before]>>)

\* The lines after an edit say what they said, but for one token of line k,
\* the one at place j, that says "means" now; at an empty span it is new.
Rewrites(text, lines, k, span, new, means) ==
    LET was == Said(lines)
        is  == Said(ParseText(Replace(text, span.start, span.end, new)))
    IN  \E j \in 1 .. Len(was[k]) + 1 :
            \/ span.start = span.end /\ is = [was EXCEPT ![k] = Replace(@, j - 1, j - 1, <<means>>)]
            \/ j <= Len(was[k]) /\ is = [was EXCEPT ![k] = Replace(@, j - 1, j, <<means>>)]

\* Accepting a completion writes what its label says, as one token, and
\* changes no other token of the file, wherever the caret is: over a quoted or
\* escaped token, or where one is missing.  Two places are left out, where the
\* code as it is does not: a caret with no token on record that is inside
\* quotes or after a backslash, and a command whose quotes its name shares with
\* the configuration after it.
CompletionsKeepTokens ==
    LET text == document.text
    IN  \A o \in Caret(text) :
            LET at == OffsetAt(text, ClientPosition(text, o))
                k  == Len(SelectSeq(Parsed, LAMBDA l : l.range.start <= at))
            IN  \A item \in Completions(text, Parsed, at) :
                    IF item.span.start = item.span.end
                    THEN InNoToken(text, Parsed[k], at) =>
                            Rewrites(text, Parsed, k, item.span, item.new, item.means)
                    ELSE Balanced(text, item.span) =>
                            Rewrites(text, Parsed, k, item.span, item.new, item.means)
=============================================================================
