------------------------------- MODULE MCText -------------------------------
(* Files of one logical line or a few: a start that leads into each kind of  *)
(* line, and every tail of at most MaxTail symbols, one less after a start   *)
(* that says most of what there is to say.                                   *)
EXTENDS RcBuffer

CONSTANT MaxTail       \* bound: symbols after the start of a file

Alphabet == {"w", LF, CR, " ", "\"", BACKSLASH, HASH}

Tails(max) == UNION {[1 .. n -> Alphabet] : n \in 0 .. max}

Open == {<<>>, <<"import", " ">>, <<"build", " ", CONFIG, EQUALS>>}

Close ==
    {<<"build", " ", CONFIG, " ">>,
     <<"build", COLON>>,
     <<"try-import-if-bazel-version", " ", ">=8", " ">>}

MCTexts == {h \o t : h \in Open, t \in Tails(MaxTail)} \cup
           {h \o t : h \in Close, t \in Tails(MaxTail - 1)}

MCTyped == {<<>>, <<"w">>, <<LF>>, <<CR, LF>>}

MCWide == {"w"}
MCConditions == {">=8"}
MCCommands == {"build", "import"}
MCConfigCommands == {"build"}
MCCandidates == {<<"w", "x">>, <<"\"", "w">>}
MCDeclared == {<<"w">>, <<>>}
=============================================================================
