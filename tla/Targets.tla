------------------------------ MODULE Targets -------------------------------
(***************************************************************************)
(* Target labels: how a string of a build file names a target             *)
(* (src/src/label.rs), what the tiers of the index say about it            *)
(* (src/src/index.rs, src/src/document.rs), and what the requests at a     *)
(* caret answer from them (src/src/handlers).                              *)
(*                                                                         *)
(* A file is read as lines of at most one string each.  Where a string     *)
(* sits decides what it is: the name of a rule called at top level, a      *)
(* label in such a call, a label inside an expansion there, a label        *)
(* anywhere else ("free"), or an item of a load(), the module (`of`) or a  *)
(* symbol of it.  A place is a file, a line and the column a name starts   *)
(* at.                                                                     *)
(***************************************************************************)
EXTENDS SequencesExt

CONSTANTS
    Dirs,           \* directories of the workspace, the root is ""
    Above,          \* a directory and those it is in, the nearest first
    LastOf,         \* the last component of a directory's path
    Kind            \* what a file of each name is: "build", "bzl", "data"

NoDir == "no package"

ASSUME DirsAssumption ==
    /\ "" \in Dirs /\ Above \in [Dirs -> Seq(Dirs)]
    /\ \A d \in Dirs : d # NoDir /\ Above[d] # <<>> /\ Above[d][1] = d

NoRepo == "no repository"
Main == "main"              \* Resolved::Main, the workspace's own tree

\* A file: the repository whose tree it is in, its directory and its name.
File(tree, dir, name) == [tree |-> tree, dir |-> dir, name |-> name]

\* A file as a whole, and where there is none.
Whole(file) == [file |-> file, line |-> 0, column |-> 0]
NoSite == Whole(File(Main, NoDir, ""))
Elsewhere == Whole(File(NoRepo, NoDir, ""))

-----------------------------------------------------------------------------
(***************************************************************************)
(* Labels as written: `name`, `:name`, `//dir:name` or `//dir`, the last   *)
(* two behind `@repo` if there is one; "" is the repository of `@//`.      *)
(***************************************************************************)
Label == [form : {"bare", "colon", "absolute", "shorthand"},
          repo : STRING, package : STRING, name : STRING]

\* A line: what its string is, as written, and the module a symbol is loaded of.
Line ==
    {line \in [is : {"name", "label", "expansion", "free", "module", "symbol"},
               raw : Label, of : Label] :
        /\ line.raw.form \in {"bare", "colon"} => line.raw.repo = NoRepo
        /\ line.is = "name" => line.raw.form = "bare"}

Key(repo, package, name) == [repo |-> repo, package |-> package, name |-> name]
NoLabel == Key(NoRepo, NoDir, "")

\* The name a label is written with; `//dir` names its last component.
NameOf(raw) == IF raw.form = "shorthand" THEN LastOf[raw.package] ELSE raw.name

\* parse_label: the key of what a label names in a package.
ParseLabel(raw, package) ==
    LET relative == raw.form \in {"bare", "colon"}
        in       == IF relative THEN package ELSE raw.package
    IN  IF \/ in = NoDir
           \/ NameOf(raw) \in {"", "all"}
        THEN NoLabel
        ELSE Key(IF raw.repo = "" THEN NoRepo ELSE raw.repo, in, NameOf(raw))

\* Label::name_offset: where the name starts in a label as written.
NameOffset(raw) ==
    LET repo == IF raw.repo = NoRepo THEN 0 ELSE 1 + Len(raw.repo)
    IN  CASE raw.form = "bare"      -> 0
          [] raw.form = "colon"     -> 1
          [] raw.form = "absolute"  -> repo + 2 + Len(raw.package) + 1
          [] raw.form = "shorthand" -> repo + 2 + Len(raw.package) - Len(NameOf(raw))

\* make_variable_labels: the label of an expansion follows its function.
Column(line) == NameOffset(line.raw) + (IF line.is = "expansion" THEN Len("$(location ") ELSE 0)

-----------------------------------------------------------------------------
(***************************************************************************)
(* Tiers: what files declare and mention.                                  *)
(***************************************************************************)
Site(file, k, line) == [file |-> file, line |-> k, column |-> Column(line)]

\* collect: the targets a BUILD file declares; of two of a name, the last.
DeclaresAt(file, lines, k) ==
    IF lines[k].is = "name" THEN Key(NoRepo, file.dir, lines[k].raw.name) ELSE NoLabel

Declares(file, lines) ==
    LET at    == [k \in DOMAIN lines |-> DeclaresAt(file, lines, k)]
        lasts == {k \in DOMAIN lines : at[k] # NoLabel /\ \A j \in DOMAIN lines : j > k => at[j] # at[k]}
    IN  {[key |-> at[k], site |-> Site(file, k, lines[k])] : k \in lasts}

\* Mutant: only the strings that are labels, not the expansions inside others.
MentionsAtWhole(file, lines, k) ==
    IF lines[k].is = "label" THEN ParseLabel(lines[k].raw, file.dir) ELSE NoLabel

\* collect: the labels the calls at its top level mention.
MentionsAt(file, lines, k) ==
    IF lines[k].is \in {"label", "expansion"} THEN ParseLabel(lines[k].raw, file.dir) ELSE NoLabel

Mentions(file, lines) ==
    {[key |-> MentionsAt(file, lines, k), site |-> Site(file, k, lines[k])] :
        k \in {j \in DOMAIN lines : MentionsAt(file, lines, j) # NoLabel}}

IsBuild(file) == file.tree = Main /\ Kind[file.name] = "build"

\* collect_file of every BUILD file under the root.
Collect(texts) ==
    LET files == {f \in DOMAIN texts : IsBuild(f)}
    IN  [targets    |-> UNION {Declares(f, texts[f].lines) : f \in files},
         references |-> UNION {Mentions(f, texts[f].lines) : f \in files},
         speaksFor  |-> {}]

\* Mutant: every open buffer speaks for its file.
ContributeAnyway(texts) == [Collect(texts) EXCEPT !.speaksFor = {f \in DOMAIN texts : IsBuild(f)}]

\* Document::contribute: a buffer speaks for its file if it parses cleanly.
Contribute(texts) ==
    [Collect(texts) EXCEPT !.speaksFor = {f \in DOMAIN texts : IsBuild(f) /\ texts[f].clean}]

NoTier == [targets |-> {}, references |-> {}, speaksFor |-> {}]

-----------------------------------------------------------------------------
(***************************************************************************)
(* Index: the tiers a request reads, the newest first.                     *)
(***************************************************************************)
Keys(tier) == {t.key : t \in tier.targets}
SiteIn(tier, key) == (CHOOSE t \in tier.targets : t.key = key).site

\* Index::covered, of the tier of the disk; no tier covers the buffers.
Covered(index, file) == file \in index.buffer.speaksFor

\* Index::target.
Target(index, key) ==
    CASE key \in Keys(index.buffer) -> SiteIn(index.buffer, key)
      [] key \notin Keys(index.buffer) /\ key \in Keys(index.disk) ->
             LET site == SiteIn(index.disk, key)
             IN  IF Covered(index, site.file) THEN NoSite ELSE site
      [] OTHER -> IF key \in Keys(index.graph) THEN SiteIn(index.graph, key) ELSE NoSite

\* Index::references.
References(index, key) ==
    {r.site : r \in {q \in index.buffer.references : q.key = key}} \cup
    {r.site : r \in {q \in index.disk.references : q.key = key /\ ~Covered(index, q.site.file)}}

\* Index::targets: the targets workspace/symbol lists.
AllTargets(index) ==
    LET disk == {t \in index.disk.targets : t.key \notin Keys(index.buffer) /\ ~Covered(index, t.site.file)}
        only == {t \in index.graph.targets : t.key \notin Keys(index.buffer) \cup Keys(index.disk)}
    IN  index.buffer.targets \cup disk \cup only

\* Index::only_bazel_knows.
OnlyBazelKnows(index, key) ==
    key \in Keys(index.graph) /\ key \notin Keys(index.buffer) \cup Keys(index.disk)

\* Repos::locate: the tree of a repository that can be read.
Locate(repos, repo) == IF repo \in DOMAIN repos THEN repos[repo] ELSE NoDir

-----------------------------------------------------------------------------
(***************************************************************************)
(* What the caret is on.                                                   *)
(***************************************************************************)
\* The first element of a sequence that passes a test.
FirstThat(s, Test(_), otherwise) ==
    LET i == SelectInSeq(s, Test) IN IF i = 0 THEN otherwise ELSE s[i]

\* enclosing_package: the nearest directory that has a BUILD file on disk.
Enclosing(files, dir) ==
    LET IsPackage(d) == \E f \in files : IsBuild(f) /\ f.dir = d
    IN  FirstThat(Above[dir], IsPackage, NoDir)

EnclosingPackage(files, file) == IF file.tree = Main THEN Enclosing(files, file.dir) ELSE NoDir

\* string_at: the role of the string of a line.
RoleAt(file, line) ==
    CASE line.is = "name"   -> IF Kind[file.name] = "build" THEN "TargetName" ELSE "none"
      [] line.is = "module" -> "LoadModule"
      [] line.is = "symbol" -> "LoadSymbol"
      [] OTHER              -> "Label"

\* target_label: what the string under the caret names.
TargetLabel(files, file, line) ==
    LET package == EnclosingPackage(files, file)
    IN  CASE RoleAt(file, line) = "TargetName" ->
                 IF package = NoDir THEN NoLabel ELSE Key(NoRepo, package, line.raw.name)
          [] RoleAt(file, line) = "Label" -> ParseLabel(line.raw, package)
          [] OTHER -> NoLabel

-----------------------------------------------------------------------------
(***************************************************************************)
(* Requests.  `ws` is the workspace: the files on disk, the open documents *)
(* and the index.                                                          *)
(***************************************************************************)
\* name_sites, with the declaration.
NameSites(index, key, declaration) ==
    References(index, key) \cup
        (IF declaration /\ Target(index, key) # NoSite THEN {Target(index, key)} ELSE {})

\* textDocument/references.
ReferencesAt(ws, file, line, declaration) ==
    LET key == TargetLabel(ws.files, file, line)
    IN  IF key = NoLabel THEN {} ELSE NameSites(ws.index, key, declaration)

\* textDocument/documentHighlight.
HighlightsAt(ws, file, line) ==
    LET key == TargetLabel(ws.files, file, line)
    IN  IF key = NoLabel THEN {} ELSE {s \in NameSites(ws.index, key, TRUE) : s.file = file}

\* tree, file_site and package_site.
Tree(ws, key) == IF key.repo = NoRepo THEN Main ELSE Locate(ws.repos, key.repo)

FileSite(ws, tree, key) ==
    LET file == File(tree, key.package, key.name) IN IF file \in ws.files THEN Whole(file) ELSE NoSite

PackageSite(ws, tree, key) ==
    LET there == {f \in ws.files : f.tree = tree /\ f.dir = key.package /\ Kind[f.name] = "build"}
    IN  IF there = {} THEN NoSite ELSE Whole(CHOOSE f \in there : TRUE)

\* The file a load() names.
LoadedFile(ws, key) == IF Tree(ws, key) = NoDir THEN NoSite ELSE FileSite(ws, Tree(ws, key), key)

FirstSite(sites) == FirstThat(sites, LAMBDA s : s # NoSite, NoSite)

\* textDocument/definition.  A symbol leads where its module does.
DefinitionAt(ws, file, line) ==
    LET raw == IF RoleAt(file, line) = "LoadSymbol" THEN line.of ELSE line.raw
        key == ParseLabel(raw, EnclosingPackage(ws.files, file))
    IN  CASE RoleAt(file, line) \in {"none", "TargetName"} \/ key = NoLabel -> NoSite
          [] RoleAt(file, line) \in {"LoadModule", "LoadSymbol"} /\ key # NoLabel -> LoadedFile(ws, key)
          [] OTHER ->
                IF Tree(ws, key) = NoDir THEN NoSite
                ELSE FirstSite(<<Target(ws.index, key), FileSite(ws, Tree(ws, key), key),
                          IF key.repo = NoRepo THEN NoSite ELSE PackageSite(ws, Tree(ws, key), key)>>)

\* textDocument/hover: what a card tells of the string, and where it is.
HoverAt(ws, file, line) ==
    LET package == EnclosingPackage(ws.files, file)
        key     == IF RoleAt(file, line) = "TargetName" THEN TargetLabel(ws.files, file, line)
                   ELSE ParseLabel(line.raw, package)
        outside == key.repo # NoRepo /\ Locate(ws.repos, key.repo) # Main
    IN  CASE RoleAt(file, line) \in {"none", "LoadSymbol"} \/ key = NoLabel -> NoSite
          [] OTHER ->
                CASE outside -> Elsewhere
                  [] ~outside /\ RoleAt(file, line) = "LoadModule" -> FileSite(ws, Main, key)
                  [] ~outside /\ RoleAt(file, line) = "TargetName" -> Target(ws.index, key)
                  [] OTHER -> FirstSite(<<Target(ws.index, key), FileSite(ws, Main, key)>>)

\* textDocument/documentLink: a link for a label or load path that resolves.
LinkAt(ws, file, line) ==
    LET key == ParseLabel(line.raw, EnclosingPackage(ws.files, file))
    IN  IF RoleAt(file, line) = "none" \/ key = NoLabel \/ line.is = "expansion" THEN NoSite
        ELSE IF Tree(ws, key) = NoDir THEN NoSite
        ELSE FirstSite(<<Target(ws.index, key), FileSite(ws, Tree(ws, key), key)>>)

\* textDocument/inlayHint: the package a relative label is resolved in.
HintAt(ws, file, line) ==
    LET package == EnclosingPackage(ws.files, file)
        key     == ParseLabel(line.raw, package)
    IN  IF \/ RoleAt(file, line) = "none" \/ line.raw.form \notin {"bare", "colon"} \/ key = NoLabel
           \/ line.is = "expansion"
        THEN NoDir
        ELSE IF Target(ws.index, key) = NoSite THEN NoDir ELSE package

\* textDocument/codeLens: the labels a BUILD file's targets are built by.
Lenses(ws, file, lines) ==
    LET package == EnclosingPackage(ws.files, file)
    IN  IF Kind[file.name] # "build" \/ package = NoDir THEN {}
        ELSE {Key(NoRepo, package, lines[k].raw.name) : k \in {j \in DOMAIN lines : lines[j].is = "name"}}

-----------------------------------------------------------------------------
(***************************************************************************)
(* Rename.                                                                 *)
(***************************************************************************)
\* renameable: the target under the caret, if anything declares it.
Renameable(ws, file, line) ==
    LET key == TargetLabel(ws.files, file, line)
    IN  IF key = NoLabel THEN NoLabel
        ELSE IF Target(ws.index, key) = NoSite THEN NoLabel ELSE key

\* first_moved_site: whether an open buffer has something else at a site.
Moved(ws, sites, name) ==
    \E s \in sites : /\ s.file \in DOMAIN ws.open
                     /\ LET lines == ws.open[s.file].lines
                        IN  ~ /\ s.line \in DOMAIN lines
                              /\ Column(lines[s.line]) = s.column
                              /\ NameOf(lines[s.line].raw) = name

Nothing == [says |-> "nothing", edits |-> {}]
Refused == [says |-> "refused", edits |-> {}]

\* Mutant: only the references are rewritten.
RenameReferences(ws, file, line) ==
    LET key == Renameable(ws, file, line)
    IN  IF key = NoLabel \/ OnlyBazelKnows(ws.index, key) THEN Nothing
        ELSE [says |-> "edits", edits |-> References(ws.index, key)]

\* textDocument/rename, to a name Bazel can load.
RenameAt(ws, file, line) ==
    LET key   == Renameable(ws, file, line)
        sites == NameSites(ws.index, key, TRUE)
    IN  CASE key = NoLabel -> Nothing
          [] key # NoLabel /\ (OnlyBazelKnows(ws.index, key) \/ Moved(ws, sites, key.name)) -> Refused
          [] OTHER -> [says |-> "edits", edits |-> sites]

\* textDocument/prepareRename.
PrepareAt(ws, file, line) ==
    LET key == Renameable(ws, file, line) IN key # NoLabel /\ ~OnlyBazelKnows(ws.index, key)
=============================================================================
