---------------------------- MODULE RcCompletion ----------------------------
(***************************************************************************)
(* Completion in a bazelrc buffer, of commands, import paths and           *)
(* configuration names (src/src/bazelrc/completion.rs).  Labels are texts; *)
(* an item replaces a span of the buffer by its new text.                  *)
(***************************************************************************)
EXTENDS RcStructure

CONSTANTS
    Commands,      \* commands::NAMES and the directives, as symbols
    ConfigCommands, \* those accepts_config is true of
    Candidates,    \* workspace files an import may name, as decoded texts
    Declared       \* names the configuration view declares, as texts

Item(span, new, means) == [span |-> span, new |-> new, means |-> means]

\* No list offers an edit whose range spans two physical lines.
OnOneLine(text, items) ==
    {i \in items : PositionAt(text, i.span.start).line = PositionAt(text, i.span.end).line}

\* command_items; what follows the command in its token stays.
CommandItems(text, span, rest) ==
    OnOneLine(text, {Item(span, <<c>>, <<c>> \o rest) : c \in Commands})

KeyItems(text, key, offset) ==
    LET colon == Find(key.text, COLON)
        span  == IF colon = 0 THEN key.range ELSE DecodedSpan(key, 0, colon - 1)
    IN  IF colon = 0 THEN CommandItems(text, span, <<>>)
        ELSE IF offset > span.end THEN {}
        ELSE CommandItems(text, span, SubSeq(key.text, colon, Len(key.text)))

\* import_context: the path token at the offset, or the place where it is missing.
PathIndex(line) == Arity(line.tokens[1].text)

AtPath(line, offset) ==
    /\ line.tokens[1].text \in {<<k>> : k \in Keywords}
    /\ Len(line.tokens) >= PathIndex(line) - 1
    /\ IF Len(line.tokens) >= PathIndex(line)
       THEN Holds(line.tokens[PathIndex(line)].range, offset)
       ELSE line.tokens[PathIndex(line) - 1].range.end < offset /\ offset <= line.range.end

\* Mutant: a path is written as it is decoded.
PlainImportItems(text, line, offset) ==
    LET typed == Len(line.tokens) >= PathIndex(line)
        token == line.tokens[PathIndex(line)]
    IN  OnOneLine(text,
            {Item(IF typed THEN token.range ELSE Span(offset, offset), c, c) :
                c \in {d \in Candidates : typed => IsPrefix(token.text, d)}})

ImportItems(text, line, offset) ==
    LET typed == Len(line.tokens) >= PathIndex(line)
        token == line.tokens[PathIndex(line)]
    IN  OnOneLine(text,
            {Item(IF typed THEN token.range ELSE Span(offset, offset), QuoteToken(c), c) :
                c \in {d \in Candidates : (typed => IsPrefix(token.text, d)) /\ QuoteToken(d) # <<>>}})

\* config_context: the first option the offset completes as a configuration.
JoinedConfig(line, token) ==
    /\ token.text[1] = CONFIG
    /\ IF NamedBody(line) THEN Find(token.text, EQUALS) # 0 ELSE Find(token.text, EQUALS) = 2

ConfigContexts(line, offset) ==
    LET options == Options(line)
        split(k) == ~NamedBody(line) /\ options[k].text = <<CONFIG>>
    IN  {[k |-> k, edit |-> "joined", span |-> options[k].range] :
            k \in {j \in DOMAIN options : JoinedConfig(line, options[j])
                                            /\ Holds(options[j].range, offset)}}
        \cup {[k |-> k, edit |-> "separate", span |-> options[k + 1].range] :
            k \in {j \in DOMAIN options : split(j) /\ j < Len(options)
                                            /\ Holds(options[j + 1].range, offset)}}
        \cup {[k |-> k, span |-> Span(offset, offset),
               edit |-> IF offset = options[k].range.end THEN "after with space" ELSE "after"] :
            k \in {j \in DOMAIN options : split(j) /\ j = Len(options)
                                            /\ options[j].range.end <= offset
                                            /\ offset <= line.range.end}}

ConfigItems(text, context) ==
    LET new(n)   == CASE context.edit = "joined"           -> <<CONFIG, EQUALS>> \o QuoteToken(n)
                      [] context.edit = "after with space" -> <<" ">> \o QuoteToken(n)
                      [] OTHER                             -> QuoteToken(n)
        means(n) == IF context.edit = "joined" THEN <<CONFIG, EQUALS>> \o n ELSE n
        names    == {n \in Declared : QuoteToken(n) # <<>> /\ (n # <<>> \/ context.edit = "joined")}
    IN  OnOneLine(text, {Item(context.span, new(n), means(n)) : n \in names})

\* completions, up to the part that needs the flag catalog.
LineItems(text, line, offset) ==
    LET contexts == ConfigContexts(line, offset)
    IN  CASE line.comment # NoSpan /\ offset >= line.comment.start -> {}
          [] line.tokens = <<>>                   -> CommandItems(text, Span(offset, offset), <<>>)
          [] offset <= line.tokens[1].range.end   -> KeyItems(text, line.tokens[1], offset)
          [] AtPath(line, offset)                 -> ImportItems(text, line, offset)
          [] line.statement \notin {"entry", "none"} -> {}
          [] CommandOf(line) \notin {<<c>> : c \in ConfigCommands} \/ contexts = {} -> {}
          [] OTHER -> ConfigItems(text, CHOOSE c \in contexts : \A d \in contexts : c.k <= d.k)

Completions(text, lines, offset) ==
    LET at == {k \in DOMAIN lines : Holds(lines[k].range, offset)}
    IN  IF at = {} THEN {}
        ELSE LineItems(text, lines[CHOOSE k \in at : \A j \in at : k <= j], offset)
=============================================================================
