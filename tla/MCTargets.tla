------------------------------ MODULE MCTargets -----------------------------
(* A workspace of two packages, one below the other, and a fetched repository. *)
EXTENDS TargetEdits

MCDirs   == {"", "lib", "lib/sub", "fresh"}
MCAbove  == [d \in MCDirs |-> CASE d = ""        -> <<d>>
                                [] d = "lib/sub" -> <<d, "lib", "">>
                                [] OTHER         -> <<d, "">>]
MCLastOf == [d \in MCDirs |-> IF d = "lib/sub" THEN "sub" ELSE d]
MCKind   == [n \in {"BUILD", "defs.bzl", "a"} |->
                CASE n = "BUILD" -> "build" [] n = "defs.bzl" -> "bzl" [] OTHER -> "data"]
MCFresh  == "fresh"

Raw(form, repo, package, name) == [form |-> form, repo |-> repo, package |-> package, name |-> name]
Bare(n)     == Raw("bare", NoRepo, "", n)
Colon(n)    == Raw("colon", NoRepo, "", n)
In(d, n)    == Raw("absolute", NoRepo, d, n)
At(r, d, n) == Raw("absolute", r, d, n)
Short(d)    == Raw("shorthand", NoRepo, d, "")

Holding(is, raw) == [is |-> is, raw |-> raw, of |-> raw]
Name(n)   == Holding("name", Bare(n))
Said(r)  == Holding("label", r)
Inside(r) == Holding("expansion", r)
Free(r)   == Holding("free", r)
Load(r)   == <<Holding("module", r), [Holding("symbol", Bare("x")) EXCEPT !.of = r]>>

Text(lines)   == [clean |-> TRUE, lines |-> lines]
Broken(lines) == [clean |-> FALSE, lines |-> lines]

Lib  == File(Main, "lib", "BUILD")
Sub  == File(Main, "lib/sub", "BUILD")
Defs == File(Main, "lib", "defs.bzl")
Data == File(Main, "lib", "a")
Ext  == File("ext", "lib", "BUILD")

MCContents ==
    [f \in {Lib, Sub, Defs, Data, Ext} |->
        CASE f = Lib -> {Text(<<Name("x"), Said(Colon("x")), Name("y"), Said(Bare("a"))>>),
                         Text(Load(Colon("defs.bzl")) \o <<Name("y"), Said(In("lib/sub", "x")), Inside(Colon("y"))>>),
                         Text(<<Free(Colon("x")), Name("lib"), Said(At("", "lib", "lib")), Name("x")>>),
                         Broken(<<Name("x"), Said(In("lib", "y"))>>)}
          [] f = Sub -> {Text(<<Name("x"), Said(In("lib", "x")), Inside(In("lib", "y")), Said(Short("lib"))>>),
                         Text(<<Said(At("self", "lib", "x")), Said(At("ext", "lib", "x")), Name("y")>>),
                         Broken(<<Said(In("lib", "x")), Name("x")>>)}
          [] f = Defs -> {Text(<<Name("x"), Said(Colon("x"))>>)}
          [] OTHER   -> {Text(<<>>)}]

MCGraphs ==
    LET generated == [key |-> Key(NoRepo, "lib", "gen"), site |-> [file |-> Lib, line |-> 1, column |-> 0]]
        declared  == [key |-> Key(NoRepo, "lib", "y"), site |-> [file |-> Lib, line |-> 1, column |-> 0]]
    IN  {[graph |-> [NoTier EXCEPT !.targets = {generated, declared}],
          repos |-> ("self" :> Main @@ "ext" :> "ext")]}

\* The workspace is one the theorems are about.
ASSUME HypothesesHold == OneBuildFile /\ NamesAreApart
=============================================================================
