----------------------------- MODULE TargetEdits ----------------------------
(***************************************************************************)
(* The build files of a workspace while they are edited: what is on disk,  *)
(* the documents a client has open, and the tiers of the index, that of    *)
(* the buffers renewed with every change of a document                     *)
(* (src/src/document.rs), the others when the watch and Bazel publish them *)
(* (Watch and BazelActor).                                                 *)
(***************************************************************************)
EXTENDS Targets

CONSTANTS
    Contents,       \* the texts a file may hold, by file
    Graphs,         \* what Bazel may report: targets and repositories
    Fresh,          \* a new name
    MaxSteps        \* bound: steps of a behaviour

Files == DOMAIN Contents

ASSUME EditsAssumption == MaxSteps \in Nat /\ \E f \in Files : IsBuild(f)

ASSUME FilesAssumption ==
    \A f \in Files :
        /\ IsBuild(f) => f.dir \in Dirs
        /\ \A t \in Contents[f] : t.lines \in Seq(Line)

\* Index: the targets of a tier are a map from labels.
ASSUME GraphsAssumption == \A g \in Graphs : \A t, u \in g.graph.targets : t.key = u.key => t = u

ASSUME FreshAssumption == Fresh \in STRING \ {"", "all"}

VARIABLES
    saved,          \* what is on disk, by file
    open,           \* the open documents, by file
    disk,           \* the tier of the disk
    known,          \* the tier of the graph, and the repositories
    steps           \* steps so far, for the bound

vars == <<saved, open, disk, known, steps>>

Index == [buffer |-> Contribute(open), disk |-> disk, graph |-> known.graph]

Workspace ==
    [files |-> DOMAIN saved, open |-> open, index |-> Index, repos |-> known.repos]

Take == steps < MaxSteps /\ steps' = steps + 1

Init ==
    /\ \E there \in SUBSET Files :
          saved \in {t \in [there -> UNION {Contents[f] : f \in there}] : \A f \in there : t[f] \in Contents[f]}
    /\ open = <<>> /\ steps = 0
    /\ disk = Collect(saved) /\ known = [graph |-> NoTier, repos |-> <<>>]

\* A file is changed on disk, or removed.
Write ==
    /\ Take
    /\ \E f \in Files :
          \/ \E t \in Contents[f] : saved' = [g \in DOMAIN saved \cup {f} |-> IF g = f THEN t ELSE saved[g]]
          \/ f \in DOMAIN saved /\ saved' = [g \in DOMAIN saved \ {f} |-> saved[g]]
    /\ UNCHANGED <<open, disk, known>>

\* A document is opened, of a file that may not have been saved yet, or changed.
Change ==
    /\ Take
    /\ \E f \in Files : \E t \in Contents[f] :
          /\ f \notin DOMAIN open /\ f \in DOMAIN saved => t = saved[f]
          /\ open' = [g \in DOMAIN open \cup {f} |-> IF g = f THEN t ELSE open[g]]
    /\ UNCHANGED <<saved, disk, known>>

Close ==
    /\ Take
    /\ \E f \in DOMAIN open : open' = [g \in DOMAIN open \ {f} |-> open[g]]
    /\ UNCHANGED <<saved, disk, known>>

\* The watch publishes the tier of the disk.
StoreDisk ==
    /\ Take /\ disk' = Collect(saved)
    /\ UNCHANGED <<saved, open, known>>

\* Bazel's answers are published.
StoreGraph ==
    /\ Take /\ known' \in Graphs
    /\ UNCHANGED <<saved, open, disk>>

Next == Write \/ Change \/ Close \/ StoreDisk \/ StoreGraph

Spec == Init /\ [][Next]_vars

-----------------------------------------------------------------------------
(***************************************************************************)
(* What a workspace may be: hypotheses of theorems.                        *)
(***************************************************************************)
\* A directory has one BUILD file, not both BUILD and BUILD.bazel.
OneBuildFile == \A f, g \in Files : IsBuild(f) /\ IsBuild(g) /\ f.dir = g.dir => f = g

\* A file gives a name to one rule, and one that can be said in a label.
NamesAreApart ==
    \A f \in Files : \A t \in Contents[f] : \A j, k \in DOMAIN t.lines :
        t.lines[j].is = "name" /\ t.lines[k].is = "name" =>
            /\ t.lines[j].raw.name \notin {"", "all"}
            /\ t.lines[j].raw.name = t.lines[k].raw.name => j = k

-----------------------------------------------------------------------------
(***************************************************************************)
(* Properties.                                                             *)
(***************************************************************************)
Current == disk = Collect(saved)
Clean   == {f \in DOMAIN open : open[f].clean}

Overlay(files) == [f \in DOMAIN saved \cup files |-> IF f \in files THEN open[f] ELSE saved[f]]

\* Requests answer from what the disk would hold were the buffers saved: once
\* the watch has caught up, the index has the targets and the mentions of the
\* files as they would be, where each is in the buffer; but a buffer with an
\* unfinished edit takes nothing away from what is on disk (document.rs, "Only
\* a clean parse supersedes disk facts").  A target is listed if it can be
\* found, and Bazel is believed only on what no source declares.
SavingIsForeseen ==
    Current =>
      LET sure == Collect(Overlay(Clean))
          seen == {t \in AllTargets(Index) : ~OnlyBazelKnows(Index, t.key)}
      IN  /\ Keys(sure) \subseteq {t.key : t \in seen}
          /\ \A r \in sure.references : r.site \in References(Index, r.key)
          /\ \A t \in AllTargets(Index) : Target(Index, t.key) = t.site
          /\ DOMAIN open = Clean =>
                /\ seen = sure.targets
                /\ \A r \in Contribute(open).references \cup disk.references :
                      \A s \in References(Index, r.key) : [key |-> r.key, site |-> s] \in sure.references

\* A document whose package the program and Bazel agree on.
Settled(f) == IsBuild(f) /\ f \in DOMAIN saved

Indexed(line) == line.is \in {"name", "label", "expansion"}

\* The requests agree on a target, wherever its name is written, and however
\* stale the tiers are: the caret is among the references, the highlights are
\* those of the file, definition leads to one of them, as the link, the card
\* and the hint do where there is one, and rename, where it is offered,
\* rewrites all of them or is refused because one has moved.
CaretIsAmongItsAnswers ==
    \A f \in {g \in DOMAIN open : Settled(g)} :
      \A k \in {j \in DOMAIN open[f].lines : Indexed(open[f].lines[j])} :
        LET line  == open[f].lines[k]
            key   == TargetLabel(Workspace.files, f, line)
            all   == ReferencesAt(Workspace, f, line, TRUE)
            to    == DefinitionAt(Workspace, f, line)
            edits == RenameAt(Workspace, f, line)
        IN  key # NoLabel =>
              /\ Site(f, k, line) \in all
              /\ HighlightsAt(Workspace, f, line) = {s \in all : s.file = f}
              /\ Target(Index, key) # NoSite /\ line.is # "name" /\ key.repo = NoRepo => to \in all
              /\ HintAt(Workspace, f, line) # NoDir => to \in all \/ line.is = "name"
              /\ line.is # "name" /\ LinkAt(Workspace, f, line) # NoSite => LinkAt(Workspace, f, line) = to
              /\ key.repo = NoRepo => HoverAt(Workspace, f, line) \in
                    IF line.is = "name" THEN all ELSE {to}
              /\ edits.says = "edits" => edits.edits = all /\ PrepareAt(Workspace, f, line)
              /\ PrepareAt(Workspace, f, line) =>
                    edits.says = "edits" \/ \E s \in all : s.file \in DOMAIN open \ Clean
              /\ Lenses(Workspace, f, open[f].lines) \subseteq {t.key : t \in AllTargets(Index)}

\* What Bazel reads a string of a BUILD file as: the key of a target of the
\* main repository has no repository.
Meaning(f, line) ==
    LET key == ParseLabel(line.raw, f.dir)
    IN  IF key # NoLabel /\ Locate(known.repos, key.repo) = Main THEN [key EXCEPT !.repo = NoRepo] ELSE key

\* The text of a file with the new name at the places of edits.
Renamed(f, lines, edits) ==
    [k \in DOMAIN lines |->
        IF Site(f, k, lines[k]) \notin edits THEN lines[k]
        ELSE IF lines[k].raw.form = "shorthand" THEN [lines[k] EXCEPT !.raw.package = Fresh]
        ELSE [lines[k] EXCEPT !.raw.name = Fresh]]

\* What a name is read as once that of a key is the new one.
After(key, was) == IF was = key THEN [key EXCEPT !.name = Fresh] ELSE was

\* Bazel reads the same names after a rename, but for the one renamed: in the
\* lines that `subject` says.
RenameKeeps(subject(_)) ==
    \A f \in {g \in DOMAIN open : Settled(g)} : \A k \in DOMAIN open[f].lines :
      LET rename == RenameAt(Workspace, f, open[f].lines[k])
          key    == Renameable(Workspace, f, open[f].lines[k])
          texts  == Overlay(DOMAIN open)
      IN  rename.says = "edits" =>
            \A g \in {h \in DOMAIN texts : IsBuild(h)} :
              LET lines == texts[g].lines
                  new   == Renamed(g, lines, rename.edits)
              IN  \A j \in {i \in DOMAIN lines : lines[i].is \notin {"module", "symbol"} /\ subject(lines[i])} :
                    LET was == Meaning(g, lines[j])
                    IN  Meaning(g, new[j]) = After(key, was)

\* A label the index reads, whose name is apart from its package.
Plain(line) ==
    Indexed(line) /\ line.raw.form # "shorthand"
        /\ (line.raw.repo = NoRepo \/ Locate(known.repos, line.raw.repo) # Main)

\* Renaming a target keeps the build: its declaration and every label for it
\* in the calls of BUILD files have the new name, in files that are open and
\* in files that are not, whichever it is renamed at, and no other label is
\* another one; and it is not refused, there being nothing that moved.  A
\* buffer with an unfinished edit, or a stale tier, does not make it write over
\* another name in an open document.
RenameKeepsTheBuild ==
    /\ Current /\ Clean = DOMAIN open => RenameKeeps(Plain)
    /\ \A f \in DOMAIN open : \A k \in DOMAIN open[f].lines :
          LET line   == open[f].lines[k]
              rename == RenameAt(Workspace, f, line)
          IN  /\ Current /\ Clean = DOMAIN open /\ PrepareAt(Workspace, f, line) => rename.says = "edits"
              /\ \A e \in {s \in rename.edits : s.file \in DOMAIN open} :
                    LET there == open[e.file].lines
                    IN  /\ e.line \in DOMAIN there
                        /\ NameOf(there[e.line].raw) = TargetLabel(Workspace.files, f, line).name

\* "rename a target and rewrite every referring label" (src/README.md).
RenameRewritesEveryLabel ==
    LET every(line) == TRUE IN Current /\ Clean = DOMAIN open => RenameKeeps(every)
=============================================================================
