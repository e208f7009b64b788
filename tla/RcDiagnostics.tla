--------------------------- MODULE RcDiagnostics ----------------------------
(***************************************************************************)
(* Findings in an open bazelrc buffer (src/src/bazelrc/diagnostics.rs): of *)
(* its syntax, of the saved graph, of its configurations and of its flags. *)
(* A catalog is <<>> while Bazel has not said which flags it has.          *)
(***************************************************************************)
EXTENDS RcCatalog

Finding(at, severity, what) == [at |-> at, severity |-> severity, what |-> what]

SyntaxDiagnostics(path, lines) ==
    {Finding(<<path, k, 0>>, "error", "syntax") : k \in {j \in DOMAIN lines : lines[j].says = "invalid"}}

\* What the saved graph says of a file is shown where the buffer still holds
\* the text the graph was read from.
GraphProblems(open, snapshot, path) ==
    LET file    == Identity(snapshot, path)
        current == file \in DOMAIN snapshot.files /\ snapshot.files[file] = open[path]
    IN  {Finding(<<path, p.at[2], 0>>, p.severity, "import") :
            p \in {q \in snapshot.problems : current /\ q.at[1] = file}}

Undeclared(view, path, k, line) ==
    {Finding(r.at, "warning", "undeclared") :
        r \in {s \in ToSet(ReferencesOf(path, k, line)) :
                   view.ready /\ Applicable(view, line.command, s.name) = {}}}

\* A configuration's own section has no split --config.
SplitInBody(path, k, line) ==
    {Finding(<<path, k, j>>, "error", "split config") :
        j \in {i \in DOMAIN line.options :
                  /\ line.name # NoName /\ StartsConfig(line.options[i])
                  /\ line.options[i].value = NoValue}}

\* One option that stands for a flag, or for none the catalog knows.
UseFindings(catalog, line, use) ==
    LET option  == line.options[use.option]
        flag    == use.resolved.flag
        negated == use.resolved.spelling \in Negated
    IN  IF option.dashes = "" \/ IsBuildSetting(option) THEN {}
        ELSE IF ~Known(use.resolved) THEN {"unrecognized"}
        ELSE {w \in {"scope", "negative value", "no value", "bad value", "old", "deprecated", "status"} :
                    CASE w = "scope"          -> ~SupportsScope(catalog, flag, line.command)
                      [] w = "negative value" -> negated /\ option.value # NoValue
                      [] w = "no value"       -> flag.requires /\ option.value = NoValue /\ use.value = 0
                      [] w = "bad value"      -> /\ ~negated /\ flag.values # {}
                                                 /\ ValueOf(line, use) \notin flag.values \cup {NoValue}
                      [] w = "old"            -> use.resolved.spelling \in {"old name", "negative old name"}
                      [] w = "deprecated"     -> flag.deprecated
                      [] w = "status"         -> flag.hidden}

FlagSeverity(what) ==
    IF what \in {"scope", "negative value", "no value", "bad value"} THEN "error"
    ELSE IF what = "status" THEN "information" ELSE "warning"

FlagFindings(catalog, path, k, line) ==
    LET flags == catalog[1]
    IN  IF catalog = <<>> THEN {}
        ELSE UNION {{Finding(<<path, k, use.option>>, FlagSeverity(w), w) :
                        w \in UseFindings(flags, line, use)} : use \in Uses(flags, line)}

\* diagnose_entry.
EntryDiagnostics(view, catalog, path, k, line) ==
    IF line.command \notin NAMES THEN {Finding(<<path, k, 0>>, "warning", "command")}
    ELSE IF line.name # NoName /\ ~AcceptsConfig(line.command)
    THEN {Finding(<<path, k, 0>>, "warning", "section")}
    ELSE Undeclared(view, path, k, line) \cup SplitInBody(path, k, line)
            \cup FlagFindings(catalog, path, k, line)

ExpansionFindings(view, path) ==
    {Finding(f.at, IF f.kind = "cycle" THEN "error" ELSE "warning", f.kind) :
        f \in {g \in Findings(view) : g.at[1] = path}}

Diagnostics(open, snapshot, catalog, path) ==
    LET lines == open[path]
        view  == View(open, snapshot, path)
    IN  SyntaxDiagnostics(path, lines) \cup GraphProblems(open, snapshot, path)
           \cup ExpansionFindings(view, path)
           \cup UNION {EntryDiagnostics(view, catalog, path, k, lines[k]) :
                          k \in {j \in DOMAIN lines : lines[j].says = "entry"}}
=============================================================================
