------------------------------ MODULE MCBazelrc -----------------------------
(* A workspace of three bazelrc files, one of them reached through a symbolic *)
(* link too.                                                                 *)
EXTENDS RcWorkspace

MCNAMES == {"common", "startup", "build", "test"}

MCPaths == {".bazelrc", "imp", "deep", "alias"}
MCFiles == {".bazelrc", "imp", "deep"}
MCLink  == [p \in MCPaths |-> IF p = "alias" THEN "imp" ELSE p]

MCRoot == ".bazelrc"
MCCurrent == Plain(8, 7, 0)

Version(fields) == [fields |-> fields, prerelease |-> <<>>, build |-> <<>>]
Since8 == ParseCondition([comparison |-> "~", version |-> Version(<<<<8>>>>)])
Until8 == ParseCondition([comparison |-> "<", version |-> Version(<<<<8>>, <<0>>, <<0>>>>)])

Line(says, path, condition) ==
    [says |-> says, command |-> NoName, name |-> NoName, options |-> <<>>,
     path |-> path, condition |-> condition]
NoCondition == "no condition"
Import(path)    == Line("import", path, NoCondition)
TryImport(path) == Line("try-import", path, NoCondition)
When(condition, path) == Line("conditional", path, condition)
Bad == Line("invalid", MCRoot, NoCondition)
Hidden == Line("unreadable", MCRoot, NoCondition)

Entry(command, name, options) ==
    [says |-> "entry", command |-> command, name |-> name, options |-> options,
     path |-> MCRoot, condition |-> NoCondition]
Opt(dashes, name, value) == [dashes |-> dashes, name |-> name, value |-> value]
Config(name) == Opt("--", <<"config">>, name)
Longer(name) == Opt("--", <<"config", "uration">>, name)
Split(name)  == <<Opt("--", <<"config">>, NoValue), Opt("", <<name>>, NoValue)>>
Jobs  == Opt("--", <<"jobs">>, NoValue)
Mode  == Opt("--", <<"mode">>, NoValue)
Off   == Opt("--", <<"no", "keep">>, NoValue)

Use(n)    == Entry("build", NoName, <<Config(n)>>)
Body(c, n, m) == Entry(c, n, <<Config(m)>>)

MCContents ==
    [f \in MCFiles |->
        CASE f = ".bazelrc" ->
               {<<Import("imp"), Use("a")>>,
                <<Use("a"), TryImport("alias"), Import("imp")>>,
                <<When(Since8, "alias"), When(Until8, "deep"), Entry("test", NoName, Split("a") \o <<Longer("b")>>)>>,
                <<Body("build", "a", "b"), TryImport("deep"), Use("a"), Use("b")>>,
                <<Body("common", "a", "a"), Entry("startup", "a", <<Off>>), Import("deep")>>,
                <<Body("build", "a", "b"), Entry("test", "b", <<Off>>), Import("imp"), Use("a"), Use("a")>>,
                <<Bad, Import("imp")>>}
          [] f = "imp" ->
               {<<Entry("build", "a", <<Longer("b")>>), Body("build", "b", "a")>>,
                <<Body("build", "a", "b"), TryImport("deep")>>,
                <<Import("deep"), Entry("test", "b", <<Off, Jobs>>)>>,
                <<Entry("build", NoName, <<Jobs, Off>>), Import(".bazelrc")>>}
          [] f = "deep" ->
               {<<Entry("common", "b", <<Mode>>), Entry("build", "a", <<Off, Opt("--", <<"jobs">>, "4")>>)>>,
                <<Bad>>,
                <<Hidden>>}]

Flag(name, commands) ==
    [name |-> name, negative |-> FALSE, commands |-> commands, abbreviation |-> <<>>,
     requires |-> FALSE, old |-> <<>>, values |-> {}, hidden |-> FALSE, deprecated |-> FALSE]

MCFlags ==
    {[Flag(<<"jobs">>, {"build", "test"}) EXCEPT !.requires = TRUE, !.abbreviation = <<"j">>],
     [Flag(<<"keep">>, {"build"}) EXCEPT !.negative = TRUE, !.abbreviation = <<"k">>, !.old = <<"stay">>],
     [Flag(<<"mode">>, {"build", "test"}) EXCEPT !.requires = TRUE, !.values = {"dbg", "opt"}],
     [Flag(<<"state">>, {"test"}) EXCEPT !.negative = TRUE, !.values = {"on", "auto"}],
     [Flag(<<"config">>, {"build", "test"}) EXCEPT !.requires = TRUE],
     [Flag(<<"secret">>, {"startup"}) EXCEPT !.hidden = TRUE]}
=============================================================================
