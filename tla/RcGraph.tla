------------------------------ MODULE RcGraph -------------------------------
(***************************************************************************)
(* The saved graph of bazelrc files (src/src/bazelrc/index.rs): the root   *)
(* file and everything it imports, in the order Bazel reads it.  A path is *)
(* its lexical identity below the workspace root; several paths may lead   *)
(* to one file.  A line is what the tokenizer makes of it (RcSyntax), and  *)
(* a place in a file is <<file, line, slot>>: slot 0 is the key of the     *)
(* line, or the path of an import, and slot j its j-th option.             *)
(***************************************************************************)
EXTENDS RcCommands, RcVersion, FiniteSetsExt

CONSTANTS
    Root,         \* the path of the workspace's own .bazelrc
    Current       \* Bazel's version, 8.7.0

NoFile     == "no file"
NoName     == "no name"
NoValue    == "no value"
NoOrigin   == <<>>

(***************************************************************************)
(* Lines.  An option is its dashes, its name as a sequence of parts and    *)
(* what follows an = sign; a word without dashes is an option as well.     *)
(***************************************************************************)
IsImport(line) == line.says \in {"import", "try-import", "conditional"}

Active(line) == line.says = "conditional" => Matches(line.condition, Current)

\* A file that is there and cannot be read holds one such line.
Readable(lines) == \A k \in DOMAIN lines : lines[k].says # "unreadable"

Malformed(lines) == \E k \in DOMAIN lines : lines[k].says = "invalid"

\* A word that is an option names no configuration.
AnOption == "an option"

Word(option) == IF option.dashes = "" THEN Head(option.name) ELSE AnOption

IsConfig(option) == option.dashes = "--" /\ option.name = <<"config">>

\* As --configuration does.
StartsConfig(option) == option.dashes = "--" /\ Head(option.name) = "config"

\* An option and the name joined to it.  In a configuration's own section Bazel
\* takes every option that starts like --config for one.
JoinsConfig(line, option) ==
    /\ option.value # NoValue
    /\ IsConfig(option) \/ (line.name # NoName /\ StartsConfig(option))

\* The options of an entry that are a --config without a value, where the section
\* is not a configuration's own.
SplitConfigs(line) ==
    [i \in DOMAIN line.options |->
        line.name = NoName /\ IsConfig(line.options[i]) /\ line.options[i].value = NoValue]

\* The options that are taken for the value of the one before.
Taken(split) ==
    LET value[i \in 0 .. Len(split)] == i > 1 /\ ~value[i - 1] /\ split[i - 1]
    IN  value

\* config_references of an entry: joined ones, and the words after a split --config.
Referenced(line, j) ==
    IF Taken(SplitConfigs(line))[j] THEN Word(line.options[j])
    ELSE IF JoinsConfig(line, line.options[j]) THEN line.options[j].value
    ELSE NoName

Declares(line) == line.name # NoName /\ AcceptsConfig(line.command)

ConfigSite(name, command, at, owner) ==
    [name |-> name, command |-> command, at |-> at, owner |-> owner]

\* Builder::entry and collect_line: the sites of an entry, a place at a time.
DeclarationsOf(file, k, line) ==
    IF Declares(line) THEN <<ConfigSite(line.name, line.command, <<file, k, 0>>, NoName)>> ELSE <<>>

ReferencesOf(file, k, line) ==
    LET site(j) == ConfigSite(Referenced(line, j), line.command, <<file, k, j>>, line.name)
        none(j) == ~AcceptsConfig(line.command) \/ Referenced(line, j) = NoName
    IN  FlattenSeq([j \in DOMAIN line.options |-> IF none(j) THEN <<>> ELSE <<site(j)>>])

-----------------------------------------------------------------------------
(***************************************************************************)
(* Builder::visit.  The disk gives each path its file, or none, and each   *)
(* file its lines.  What a line adds to the builder depends on the files   *)
(* that are being visited, and so does what a visit adds, which is what    *)
(* its lines add one after the other.  A visit is "declined" when there is *)
(* nothing to read, and "failed" or "loaded" otherwise; file is what it    *)
(* read, and reads what was read below it and where that was imported.     *)
(***************************************************************************)
Added(outcome, file) ==
    [outcome |-> outcome, file |-> file, reads |-> <<>>, entries |-> <<>>,
     declarations |-> <<>>, references |-> <<>>, imports |-> <<>>, errors |-> {}]

ByEntry(file, k, line) ==
    [Added("loaded", NoFile) EXCEPT
        !.entries      = <<<<file, k>>>>,
        !.declarations = DeclarationsOf(file, k, line),
        !.references   = ReferencesOf(file, k, line)]

\* A file that cannot be imported is an error where it has to be.
Fails(line, outcome) == outcome = "failed" \/ (outcome = "declined" /\ line.says = "import")

\* Mutant: what is wrong is said once.
ErrorsOnce(line, at, inner) ==
    IF ~Fails(line, inner.outcome) \/ inner.errors # {} THEN inner.errors ELSE {at}

\* The errors of a visit that failed, and one at each import on the way back to the root.
ErrorsFrom(line, at, inner) ==
    inner.errors \cup (IF Fails(line, inner.outcome) THEN {at} ELSE {})

ByImport(line, at, inner) ==
    LET fails == Fails(line, inner.outcome)
        site  == [at |-> at, target |-> line.path, active |-> Active(line),
                  loaded |-> IF inner.outcome = "loaded" THEN inner.file ELSE NoFile]
    IN  [outcome      |-> IF fails THEN "failed" ELSE "loaded",
         file         |-> NoFile,
         reads        |-> (IF inner.file = NoFile THEN <<>> ELSE <<[at |-> at, file |-> inner.file]>>)
                             \o inner.reads,
         entries      |-> inner.entries,
         declarations |-> inner.declarations,
         references   |-> inner.references,
         imports      |-> Append(inner.imports, site),
         errors       |-> ErrorsFrom(line, at, inner)]

\* One line of a file; visits gives what importing a path adds.
ByLine(visits, file, k, line) ==
    IF line.says = "entry" THEN ByEntry(file, k, line)
    ELSE IF IsImport(line)
    THEN ByImport(line, <<file, k, 0>>, IF Active(line) THEN visits[line.path] ELSE Added("skipped", NoFile))
    ELSE Added("loaded", NoFile)

\* The lines of a file, up to one that fails.
ByLines(parts, file) ==
    LET failed == {k \in DOMAIN parts : parts[k].outcome = "failed"}
        done   == IF failed = {} THEN DOMAIN parts ELSE 1 .. Min(failed)
    IN  [outcome      |-> IF failed = {} THEN "loaded" ELSE "failed",
         file         |-> file,
         reads        |-> FlattenSeq([k \in done |-> parts[k].reads]),
         entries      |-> FlattenSeq([k \in done |-> parts[k].entries]),
         declarations |-> FlattenSeq([k \in done |-> parts[k].declarations]),
         references   |-> FlattenSeq([k \in done |-> parts[k].references]),
         imports      |-> FlattenSeq([k \in done |-> parts[k].imports]),
         errors       |-> UNION {parts[k].errors : k \in done}]

\* A visit of a file while the active ones are visited; visits is as one sees it inside.
VisitFile(disk, visits, active, file) ==
    IF file = NoFile THEN Added("declined", NoFile)
    ELSE IF file \in active THEN Added("failed", NoFile)
    ELSE IF ~Readable(disk.lines[file]) THEN Added("declined", NoFile)
    ELSE IF Malformed(disk.lines[file]) THEN Added("failed", file)
    ELSE ByLines([k \in DOMAIN disk.lines[file] |->
                     ByLine(visits, file, k, disk.lines[file][k])], file)

Visits(disk) ==
    LET visits[active \in SUBSET DOMAIN disk.lines] ==
            [path \in DOMAIN disk.canonical |->
                LET file == disk.canonical[path]
                IN  VisitFile(disk, visits[active \cup {file}], active, file)]
    IN  visits[{}]

-----------------------------------------------------------------------------
(***************************************************************************)
(* ConfigurationSnapshot.                                                  *)
(***************************************************************************)
\* ConfigurationSnapshot::default, which stands until the first build.
Unbuilt == [root |-> FALSE, rootFile |-> NoFile, files |-> <<>>, entries |-> <<>>,
            declarations |-> <<>>, references |-> <<>>, imports |-> <<>>, problems |-> {}]

Problem(at, severity) == [at |-> at, severity |-> severity]

\* A file that is read again is warned of where it is imported.
Again(reads) == {reads[i].at : i \in {j \in DOMAIN reads : \E h \in 1 .. j - 1 : reads[h].file = reads[j].file}}

\* A graph that cannot be followed to its end publishes no sites.
Published(disk, root) ==
    LET reads   == (IF root.file = NoFile THEN <<>> ELSE <<[at |-> NoOrigin, file |-> root.file]>>)
                      \o root.reads
        loaded  == root.outcome = "loaded"
    IN  [root         |-> TRUE,
         rootFile     |-> IF loaded THEN root.file ELSE NoFile,
         files        |-> [f \in {reads[i].file : i \in DOMAIN reads} |-> disk.lines[f]],
         entries      |-> IF loaded THEN root.entries ELSE <<>>,
         declarations |-> IF loaded THEN root.declarations ELSE <<>>,
         references   |-> IF loaded THEN root.references ELSE <<>>,
         imports      |-> root.imports,
         problems     |-> {Problem(at, "error") : at \in root.errors}
                             \cup {Problem(at, "warning") : at \in Again(reads)}]

Build(disk) == Published(disk, Visits(disk)[Root])

\* The file of the first of some imports that were loaded.
FirstLoaded(snapshot, imports) ==
    LET loaded == {i \in imports : snapshot.imports[i].loaded # NoFile}
    IN  IF loaded = {} THEN NoFile ELSE snapshot.imports[Min(loaded)].loaded

\* The imports that a path is spelled in, or leads to.
ImportsOf(snapshot, path) ==
    {i \in DOMAIN snapshot.imports : path \in {snapshot.imports[i].target, snapshot.imports[i].loaded}}

ActiveImportsOf(snapshot, path) == {i \in ImportsOf(snapshot, path) : snapshot.imports[i].active}

LoadedImport(snapshot, target) == FirstLoaded(snapshot, ActiveImportsOf(snapshot, target))

\* The file of the graph that a path names.
Identity(snapshot, path) ==
    IF path \in DOMAIN snapshot.files THEN path
    ELSE IF snapshot.root /\ path = Root THEN snapshot.rootFile
    ELSE FirstLoaded(snapshot, ImportsOf(snapshot, path))

Includes(snapshot, path) == Identity(snapshot, path) # NoFile

ImportsPath(snapshot, path) == ActiveImportsOf(snapshot, path) # {}
=============================================================================
