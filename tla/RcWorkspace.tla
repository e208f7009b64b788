---------------------------- MODULE RcWorkspace -----------------------------
(***************************************************************************)
(* The bazelrc files of a workspace while they are edited: what is on      *)
(* disk, the buffers a client has open, and what the protocol loop answers *)
(* from, the graph and the flag catalog it adopted last                    *)
(* (src/src/main.rs, the semantic wake; how they come to be published is   *)
(* in Watch and BazelActor).                                               *)
(***************************************************************************)
EXTENDS RcOffers

CONSTANTS
    Files,          \* canonical paths
    Paths,          \* every path a file is opened or imported by
    Link,         \* the file a path leads to, through symbolic links
    Contents,       \* what each file may hold
    Flags,          \* the catalog of the configured Bazel
    MaxSteps        \* bound: steps of a behaviour

ASSUME PathsAssumption ==
    /\ Files \subseteq Paths /\ Root \in Paths /\ MaxSteps \in Nat
    /\ Link \in [Paths -> Files] /\ \A f \in Files : Link[f] = f

\* The name that is written in a rename: no file has it.
Fresh == "fresh"

\* A file holds a sequence of lines, a line a sequence of options, and what a
\* line imports is a path.  A word without dashes has no value but itself.
ASSUME ContentsAssumption ==
    /\ IsFiniteSet(Files) /\ NoFile \notin Paths
    /\ \A f \in Files : \A text \in Contents[f] :
          /\ text \in Seq(ToSet(text))
          /\ \A k \in DOMAIN text :
                /\ {"says", "command", "name", "options", "path", "condition"} \subseteq DOMAIN text[k]
                /\ text[k].options \in Seq(ToSet(text[k].options))
                /\ IsImport(text[k]) => text[k].path \in Paths
                /\ text[k].name \notin {Fresh, AnOption}
                /\ \A option \in ToSet(text[k].options) :
                      /\ {"dashes", "name", "value"} \subseteq DOMAIN option
                      /\ option.dashes = "" => option.value = NoValue

VARIABLES
    saved,          \* the files that are on disk
    open,           \* the open documents, by path
    snapshot,       \* SessionState::configuration
    catalog,        \* SessionState::catalog
    steps           \* steps so far, for the bound

vars == <<saved, open, snapshot, catalog, steps>>

Disk(files) ==
    [canonical |-> [p \in Paths |-> IF Link[p] \in DOMAIN files THEN Link[p] ELSE NoFile],
     lines     |-> files]

Take == steps < MaxSteps /\ steps' = steps + 1

Init ==
    /\ \E there \in SUBSET Files : saved \in {c \in [there -> UNION {Contents[f] : f \in there}] :
                                                \A f \in there : c[f] \in Contents[f]}
    /\ open = <<>> /\ catalog = <<>> /\ steps = 0
    /\ snapshot \in {Unbuilt, Build(Disk(saved))}

\* A file is changed on disk by someone else, or removed.
Write ==
    /\ Take
    /\ \E f \in Files :
          \/ \E c \in Contents[f] : saved' = [g \in DOMAIN saved \cup {f} |-> IF g = f THEN c ELSE saved[g]]
          \/ f \in DOMAIN saved /\ saved' = [g \in DOMAIN saved \ {f} |-> saved[g]]
    /\ UNCHANGED <<open, snapshot, catalog>>

\* DidOpenTextDocument: an editor shows what is on disk.
Open ==
    /\ Take
    /\ \E p \in Paths \ DOMAIN open :
          /\ Link[p] \in DOMAIN saved /\ Readable(saved[Link[p]])
          /\ open' = [q \in DOMAIN open \cup {p} |-> IF q = p THEN saved[Link[p]] ELSE open[q]]
    /\ UNCHANGED <<saved, snapshot, catalog>>

Edit ==
    /\ Take
    /\ \E p \in DOMAIN open : \E c \in Contents[Link[p]] :
          Readable(c) /\ open' = [open EXCEPT ![p] = c]
    /\ UNCHANGED <<saved, snapshot, catalog>>

Close ==
    /\ Take
    /\ \E p \in DOMAIN open : open' = [q \in DOMAIN open \ {p} |-> open[q]]
    /\ UNCHANGED <<saved, snapshot, catalog>>

\* The loop adopts a graph built from the disk as it is, and the catalog.
Adopt ==
    /\ Take
    /\ snapshot' = Build(Disk(saved)) /\ catalog' \in {<<>>, <<Flags>>}
    /\ UNCHANGED <<saved, open>>

Next == Write \/ Open \/ Edit \/ Close \/ Adopt

Spec == Init /\ [][Next]_vars

-----------------------------------------------------------------------------
(***************************************************************************)
(* Properties.                                                             *)
(***************************************************************************)
\* The disk as it would be were every buffer of the graph saved.
Overlaid(buffers) ==
    LET known(f) == {p \in DOMAIN buffers : Identity(snapshot, p) = f /\ Link[p] = f}
    IN  [f \in DOMAIN saved |->
            IF known(f) = {} THEN saved[f] ELSE buffers[CHOOSE p \in known(f) : TRUE]]

\* The loop knows what saving would load: each file that is not open is on disk
\* as the graph has it, each open one is a path of the graph, and the graph
\* has followed every import that would be followed.
Knows(would) ==
    /\ would.rootFile # NoFile /\ snapshot.rootFile # NoFile
    /\ \A f \in DOMAIN would.files :
          \/ \E p \in DOMAIN open : Identity(snapshot, p) = f
          \/ f \in DOMAIN snapshot.files /\ snapshot.files[f] = saved[f]
    /\ \A p \in DOMAIN open : Link[p] \in DOMAIN would.files => Identity(snapshot, p) = Link[p]
    /\ \A p, q \in DOMAIN open : Link[p] = Link[q] => p = q
    /\ \A i \in DOMAIN would.imports :
          LET site == would.imports[i]
          IN  site.active => LoadedImport(snapshot, site.target) = site.loaded

OnFiles(sites) == [i \in DOMAIN sites |-> [sites[i] EXCEPT !.at = <<Link[@[1]], @[2], @[3]>>]]

\* Requests see what Bazel would see were the buffers saved: the view of the
\* open buffers over the saved graph has the sites, in the order, of the graph
\* a build of those texts would publish (docs/bazelrc-8.7.md, "Open buffers
\* replace saved graph-member contents for request answers").
ViewIsWhatSavingWouldPublish ==
    LET would == Build(Disk(Overlaid(open)))
        view  == WorkspaceView(open, snapshot)
    IN  Knows(would) =>
            /\ view.ready
            /\ OnFiles(view.declarations) = would.declarations
            /\ OnFiles(view.references) = would.references

\* Places of the sites of a document that a request may be made at.
SitesIn(view, path) ==
    {s.at : s \in {r \in ToSet(view.declarations \o view.references) : r.at[1] = path}}

-----------------------------------------------------------------------------
(***************************************************************************)
(* Renaming.                                                               *)
(***************************************************************************)
\* A line with a new name at its slots: a value joined to an option is replaced
\* there, a word as a whole.
RenamedOption(option) ==
    IF option.value # NoValue THEN [option EXCEPT !.value = Fresh]
    ELSE [option EXCEPT !.name = <<Fresh>>]

Renamed(line, slots) ==
    [line EXCEPT
        !.name = IF 0 \in slots THEN Fresh ELSE @,
        !.options = [j \in DOMAIN @ |-> IF j \in slots THEN RenamedOption(@[j]) ELSE @[j]]]

Rewritten(path, lines, edits) ==
    [k \in DOMAIN lines |-> Renamed(lines[k], {e[3] : e \in {d \in edits : d[1] = path /\ d[2] = k}})]

\* The workspace after a rename whose edits the client wrote, open and saved.
AfterRename(edits) ==
    LET buffers == [p \in DOMAIN open |-> Rewritten(p, open[p], edits)]
        files   == [f \in DOMAIN saved |-> Rewritten(f, saved[f], edits)]
        known(f) == {p \in DOMAIN open : Identity(snapshot, p) = f /\ Link[p] = f}
    IN  [f \in DOMAIN saved |->
            IF known(f) = {} THEN files[f] ELSE buffers[CHOOSE p \in known(f) : TRUE]]

\* Renaming a configuration changes its name in what Bazel reads, and nothing
\* else: every declaration and reference of the name has the new one, in files
\* that are open and in files that are not, whichever of its places it was
\* renamed at (rename.rs, "Rewrite every workspace declaration and reference of
\* one decoded name").  The new name is one that nothing refers to, and the file
\* is one of the graph: renaming in another stays in it.
RenameKeepsExpansions ==
    LET would == Build(Disk(Overlaid(open)))
    IN  Knows(would) =>
          \A p \in {q \in DOMAIN open : Includes(snapshot, q)} :
            LET view == View(open, snapshot, p)
            IN  \A place \in SitesIn(view, p) :
              LET edits == Rename(view, place, Fresh)
                  is    == Build(Disk(AfterRename(edits)))
                  names == OccurrenceAt(view, place)
                  new(sites) == [i \in DOMAIN sites |->
                                    [sites[i] EXCEPT !.name = IF @ \in names THEN Fresh ELSE @,
                                                     !.owner = IF @ \in names THEN Fresh ELSE @]]
              IN  edits # {} =>
                      /\ is.declarations = new(would.declarations)
                      /\ is.references = new(would.references)

-----------------------------------------------------------------------------
(***************************************************************************)
(* Expansion, by its definition: a chain is a sequence of references, each *)
(* held by the configuration the one before it names, and no name twice.   *)
(***************************************************************************)
Chains(graph) ==
    {c \in UNION {[1 .. n -> graph.edges] : n \in 1 .. Cardinality(Met(graph))} :
        /\ c[1] \in Roots(graph)
        /\ \A k \in DOMAIN c :
              /\ Leads(graph, c[k])
              /\ k > 1 => graph.sites[c[k]].owner = graph.sites[c[k - 1]].name
              /\ \A j \in 1 .. k - 1 : graph.sites[c[j]].name # graph.sites[c[k]].name}

\* The names a name leads to, itself among them: those in every set that has it
\* and, with a name, what that refers to.
Reached(graph, start) ==
    LET closed == {S \in SUBSET Met(graph) :
                      start \in S /\ \A i \in graph.edges :
                          graph.sites[i].owner \in S /\ Leads(graph, i) => graph.sites[i].name \in S}
    IN  {n \in Met(graph) : \A S \in closed : n \in S}

\* Findings are what expansion means: a reference is on a cycle when what it
\* names leads back to its owner; a configuration is repeated when there are
\* two ways to expand it; and a chain is deep when it has that many links,
\* unless its root runs into a cycle.
FindingsFollowExpansion ==
    LET view == WorkspaceView(open, snapshot)
        all  == {ExpansionGraph(view, c) : c \in Expanded}
        site(i) == view.references[i].at
        cycles == UNION {{site(i) : i \in {j \in g.edges :
                              /\ g.sites[j].owner # NoName /\ Leads(g, j)
                              /\ g.sites[j].owner \in Reached(g, g.sites[j].name)}} : g \in all}
        many == UNION {{n \in g.definitions :
                           \E c, d \in Chains(g) : /\ c # d /\ g.sites[Last(c)].name = n
                                                   /\ g.sites[Last(d)].name = n} : g \in all}
        runs(g, c) == \E n \in Reached(g, g.sites[c[1]].name) :
                          \E i \in g.edges : /\ g.sites[i].owner = n /\ Leads(g, i)
                                             /\ n \in Reached(g, g.sites[i].name)
        deep == \E g \in all : \E c \in Chains(g) : Len(c) >= DeepChain /\ ~runs(g, c)
        found == Findings(view)
    IN  view.ready =>
            /\ {f.at : f \in {g \in found : g.kind = "cycle"}} = cycles
            /\ {view.references[i].name : i \in {j \in DOMAIN view.references :
                    [at |-> site(j), kind |-> "repeated"] \in found}} = many
            /\ (\E f \in found : f.kind = "deep") <=> deep

-----------------------------------------------------------------------------
(***************************************************************************)
(* Findings.                                                               *)
(***************************************************************************)
Errors(path, buffers) == {d \in Diagnostics(buffers, snapshot, catalog, path) : d.severity = "error"}

\* When the graph on disk cannot be followed, the errors say why: one is in
\* the root file, and the file that an import is in error for, if it can be
\* read, has an error itself, so that they lead to the cause.
ErrorsLeadToTheCause ==
    (snapshot = Build(Disk(saved)) /\ Root \in DOMAIN saved /\ Readable(saved[Root])
        /\ snapshot.rootFile = NoFile) =>
      LET shown(f) == Errors(f, [g \in {f} |-> saved[f]])
      IN  /\ shown(Root) # {}
          /\ \A f \in DOMAIN saved : \A d \in {e \in shown(f) : e.what = "import"} :
                LET file == Link[saved[f][d.at[2]].path]
                IN  file \in DOMAIN saved /\ Readable(saved[file]) => shown(file) # {}

\* Definition, hover, highlight, rename and diagnostics agree on a reference:
\* it has a definition exactly where hover lists a declaration, only there it
\* is not called undeclared, and everything they name is among its references.
\* An import with a link leads where the link does, and hovers as loaded; what
\* the workspace lists of an open document the document lists too.
AnswersAgree ==
  \A p \in DOMAIN open :
    LET view == View(open, snapshot, p)
    IN  /\ \A l \in DocumentLinks(snapshot, open[p]) :
              /\ Definitions(view, snapshot, open[p], <<p, l[1], 0>>) = {<<l[2], 1, 0>>}
              /\ \A c \in Hover(view, snapshot, catalog, open[p], <<p, l[1], 0>>) : c.card = "loaded"
        /\ {s.at : s \in WorkspaceSymbols(open, snapshot)} \cap SitesIn(view, p)
              \subseteq DocumentSymbols(view, p)
        /\ \A place \in {s \in SitesIn(view, p) : s[3] > 0} :
              LET targets == Definitions(view, snapshot, open[p], place)
                  all     == References(view, place, TRUE)
                  cards   == Hover(view, snapshot, catalog, open[p], place)
                  edits   == Rename(view, place, Fresh)
                  absent  == Finding(place, "warning", "undeclared") \in
                                 Diagnostics(open, snapshot, catalog, p)
              IN  /\ targets = {} <=> \A c \in cards : c.declared = {}
                  /\ absent => targets = {}
                  /\ targets = {} => absent \/ ~view.ready
                  /\ targets \subseteq all /\ place \in all
                  /\ Highlights(view, p, place) \subseteq all
                  /\ edits \subseteq all
                  /\ Prepare(view, place) # {} => edits = all

-----------------------------------------------------------------------------
\* What the flags of a line are told, by the options themselves.
Told(line) ==
    UNION {{<<line.options[use.option], w>> : w \in UseFindings(catalog[1], line, use)} :
              use \in Uses(catalog[1], line)}

\* A use of a flag with listed values that needs none and has none: the code
\* completes its value anywhere behind it, inside other options too.
Loose(line) ==
    \E use \in Uses(catalog[1], line) :
        /\ Known(use.resolved) /\ use.resolved.flag.values # {} /\ ~use.resolved.flag.requires
        /\ line.options[use.option].value = NoValue

\* Where the code reads the name of a configuration it offers no flag and no
\* value of one, and a completion is accepted by the diagnostics: writing an offered flag or value
\* brings no error to its line but that a value is still to be typed.  A value
\* typed before the flag is kept, whatever the flag.
OffersAreAccepted ==
    catalog # <<>> =>
      \A p \in DOMAIN open : \A k \in DOMAIN open[p] :
        LET line == open[p][k]
        IN  line.says = "entry" =>
              \A c \in Cursors(line) : \A item \in Offers(catalog, line, c) :
                 LET kept == OnOption(c) /\ c.slot > 0 /\ line.options[c.slot].value # NoValue
                     still == {"no value", "bad value", "old", "deprecated"}
                                 \cup (IF kept THEN {"negative value", "unrecognized"} ELSE {})
                     new == Told(Accept(line, item)) \ Told(line)
                 IN  /\ OnOption(c) => Referenced(line, c.slot) = NoName
                     /\ ~Loose(line) => new \subseteq {<<item.option, w>> : w \in still}
=============================================================================
