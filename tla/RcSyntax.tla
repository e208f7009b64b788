------------------------------ MODULE RcSyntax ------------------------------
(***************************************************************************)
(* The tokenizer of bazelrc files (src/src/bazelrc/syntax.rs) over texts   *)
(* of symbols.  A keyword, a condition or a run of plain letters is one    *)
(* symbol; the symbols the tokenizer itself looks at are named below.      *)
(***************************************************************************)
EXTENDS LineIndex

CONSTANT Conditions      \* symbols VersionCondition::parse accepts

BACKSLASH == "\\"
HASH      == "#"
COLON     == ":"
EQUALS    == "="
CONFIG    == "--config"

Delimiters == {" ", "\t", CR, LF}
Strippable == Delimiters \cup {"VT"}     \* vertical tab and form feed
Quotes     == {"'", "\""}

Keywords == {"import", "try-import", "try-import-if-bazel-version"}

Span(start, end) == [start |-> start, end |-> end]
NoSpan == [start |-> 0, end |-> -1]

-----------------------------------------------------------------------------
(***************************************************************************)
(* Logical::new.  A backslash before LF or CR LF is deleted with it before *)
(* anything is tokenized.  The text keeps its retained symbols, and each   *)
(* boundary between two of them is the offset just before the next one.    *)
(***************************************************************************)
Symbol(text, i) == IF i \in DOMAIN text THEN text[i] ELSE "end of text"

RemovedAt(text, i) ==
    CASE text[i] = BACKSLASH /\ Symbol(text, i + 1) = LF -> 2
      [] text[i] = BACKSLASH /\ Symbol(text, i + 1) = CR /\ Symbol(text, i + 2) = LF -> 3
      [] OTHER -> 0

Logical(text) ==
    LET removed == UNION {i .. i + RemovedAt(text, i) - 1 : i \in DOMAIN text}
        kept    == Places(text, LAMBDA i : i \notin removed)
    IN  [symbols    |-> [k \in DOMAIN kept |-> text[kept[k]]],
         boundaries |-> [k \in 0 .. Len(kept) |->
                            IF k < Len(kept) THEN kept[k + 1] - 1 ELSE Len(text)]]

Physical(logical, start, end) == Span(logical.boundaries[start], logical.boundaries[end])

-----------------------------------------------------------------------------
(***************************************************************************)
(* tokenize: one step per retained symbol.  "escape" is the offset of a    *)
(* backslash whose symbol has not come yet.                                *)
(***************************************************************************)
Start == [tokens |-> <<>>, comment |-> NoSpan, open |-> FALSE, begin |-> 0,
          quote |-> "none", escape |-> -1, text |-> <<>>, origins |-> <<>>]

\* A token that holds no symbol, such as an empty pair of quotes, is dropped.
Flush(logical, s, at) ==
    [s EXCEPT !.tokens = IF s.text = <<>> THEN @
                         ELSE Append(@, [text |-> s.text, origins |-> s.origins,
                                         range |-> Physical(logical, s.begin, at)]),
              !.open = FALSE, !.quote = "none", !.escape = -1,
              !.text = <<>>, !.origins = <<>>]

Push(logical, s, symbol, from, at) ==
    [s EXCEPT !.text = Append(@, symbol), !.escape = -1,
              !.origins = Append(@, Physical(logical, from, at + 1))]

InToken(logical, s, at) ==
    LET symbol == logical.symbols[at + 1]
        in     == IF s.open THEN s ELSE [s EXCEPT !.open = TRUE, !.begin = at]
    IN  CASE symbol = BACKSLASH                        -> [in EXCEPT !.escape = at]
          [] in.quote = symbol                         -> [in EXCEPT !.quote = "none"]
          [] in.quote = "none" /\ symbol \in Quotes    -> [in EXCEPT !.quote = symbol]
          [] OTHER                                     -> Push(logical, in, symbol, at, at)

Step(logical, s, at, end) ==
    LET symbol == logical.symbols[at + 1]
    IN  CASE s.comment # NoSpan -> s
          [] s.escape # -1      -> Push(logical, s, symbol, s.escape, at)
          [] s.quote = "none" /\ symbol \in Delimiters -> Flush(logical, s, at)
          [] s.quote = "none" /\ symbol = HASH ->
                [Flush(logical, s, at) EXCEPT !.comment = Physical(logical, at, end)]
          [] OTHER              -> InToken(logical, s, at)

Tokenize(logical, start, end) ==
    LET last == FoldLeft(LAMBDA s, at : Step(logical, s, at, end), Start,
                         [k \in 1 .. end - start |-> start + k - 1])
    IN  Flush(logical, last, end)

-----------------------------------------------------------------------------
(***************************************************************************)
(* statement and parse_line: what a logical line says, and the one error   *)
(* it may hold.                                                            *)
(***************************************************************************)
Arity(key) == IF key = <<"try-import-if-bazel-version">> THEN 3 ELSE 2

StatementOf(tokens) ==
    IF tokens = <<>> THEN "none"
    ELSE LET key == tokens[1].text
         IN  CASE key \notin {<<k>> : k \in Keywords} ->
                    IF Len(tokens) >= 2 THEN "entry" ELSE "none"
               [] Len(tokens) # Arity(key)                   -> "invalid"
               [] key = <<"import">>                         -> "import"
               [] key = <<"try-import">>                     -> "try-import"
               [] tokens[2].text \in {<<c>> : c \in Conditions} -> "conditional"
               [] OTHER                                      -> "invalid"

\* The range of the error of an invalid line: its content, or the condition.
ErrorRange(tokens, content) ==
    IF Len(tokens) # Arity(tokens[1].text) THEN content ELSE tokens[2].range

ParseLine(logical, start, end) ==
    LET inked == {at \in start .. end - 1 : logical.symbols[at + 1] \notin Strippable}
        first == IF inked = {} THEN end ELSE CHOOSE at \in inked : \A b \in inked : at <= b
        stop  == IF inked = {} THEN end ELSE 1 + CHOOSE at \in inked : \A b \in inked : b <= at
        lexed == Tokenize(logical, first, stop)
        says  == StatementOf(lexed.tokens)
    IN  [range     |-> Physical(logical, start, end),
         tokens    |-> lexed.tokens,
         comment   |-> lexed.comment,
         statement |-> says,
         error     |-> IF says = "invalid"
                       THEN ErrorRange(lexed.tokens, Physical(logical, first, stop))
                       ELSE NoSpan]

\* parse: one line per LF of the retained symbols, and one after the last.
ParseText(text) ==
    LET logical == Logical(text)
        starts  == Starts(logical.symbols)
    IN  [k \in DOMAIN starts |->
            ParseLine(logical, starts[k],
                      IF k < Len(starts) THEN starts[k + 1] - 1 ELSE Len(logical.symbols))]

Options(line) == IF line.tokens = <<>> THEN <<>> ELSE Tail(line.tokens)

-----------------------------------------------------------------------------
(***************************************************************************)
(* Token::decoded_span: the source that a range of a token's decoded text  *)
(* came from.                                                              *)
(***************************************************************************)
DecodedSpan(token, from, to) ==
    LET origins == token.origins
    IN  CASE from < to            -> Span(origins[from + 1].start, origins[to].end)
          [] from < Len(origins)  -> Span(origins[from + 1].start, origins[from + 1].start)
          [] OTHER                -> Span(Last(origins).end, Last(origins).end)

Find(text, symbol) ==
    LET at == {i \in DOMAIN text : text[i] = symbol}
    IN  IF at = {} THEN 0 ELSE CHOOSE i \in at : \A j \in at : i <= j

NamedBody(line) == line.tokens # <<>> /\ Find(line.tokens[1].text, COLON) # 0

\* The command of a line's key: what comes before its colon, if it has one.
CommandOf(line) ==
    LET key == line.tokens[1].text
    IN  IF NamedBody(line) THEN SubSeq(key, 1, Find(key, COLON) - 1) ELSE key

\* The rest of a token after its symbol at, with the source it came from.
After(token, at) ==
    [name  |-> SubSeq(token.text, at + 1, Len(token.text)),
     range |-> DecodedSpan(token, at, Len(token.text))]

\* config_declaration: a set of at most one site.
ConfigDeclaration(line) ==
    IF line.statement = "entry" /\ NamedBody(line)
    THEN {After(line.tokens[1], Find(line.tokens[1].text, COLON))}
    ELSE {}

\* In a named body any token that begins with --config and has an = is a
\* joined reference; elsewhere only --config= is.
JoinedAt(line, token) ==
    LET at == Find(token.text, EQUALS)
    IN  IF /\ token.text[1] = CONFIG /\ at # 0
           /\ NamedBody(line) \/ at = 2
        THEN at ELSE 0

\* The options that are the value of a split --config before them.
SplitValues(line) ==
    LET options == Options(line)
        Take(s, k) ==
            CASE s.value                                           -> [value |-> FALSE, at |-> s.at \cup {k}]
              [] ~NamedBody(line) /\ options[k].text = <<CONFIG>>  -> [s EXCEPT !.value = TRUE]
              [] OTHER                                             -> s
    IN  FoldLeft(Take, [value |-> FALSE, at |-> {}], [k \in DOMAIN options |-> k]).at

ConfigReferences(line) ==
    LET options == Options(line)
        split   == SplitValues(line)
        joined  == {k \in DOMAIN options \ split : JoinedAt(line, options[k]) # 0}
    IN  {After(options[k], 0) : k \in split} \cup
        {After(options[k], JoinedAt(line, options[k])) : k \in joined}

\* Mutant: a backslash of the value is taken as it is.
QuoteLoosely(value) ==
    LET escaped(s) == IF s = "\"" THEN <<BACKSLASH, s>> ELSE <<s>>
    IN  IF \E i \in DOMAIN value : value[i] \in {LF, "NUL"} THEN <<>>
        ELSE <<"\"">> \o FlattenSeq([i \in DOMAIN value |-> escaped(value[i])]) \o <<"\"">>

\* quote_token: None for a value that no spelling can hold.
QuoteToken(value) ==
    LET escaped(s) == IF s \in {BACKSLASH, "\""} THEN <<BACKSLASH, s>> ELSE <<s>>
    IN  IF \E i \in DOMAIN value : value[i] \in {LF, "NUL"} THEN <<>>
        ELSE <<"\"">> \o FlattenSeq([i \in DOMAIN value |-> escaped(value[i])]) \o <<"\"">>
=============================================================================
