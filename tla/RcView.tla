------------------------------- MODULE RcView -------------------------------
(***************************************************************************)
(* The configurations a request sees (src/src/bazelrc/view.rs): the saved  *)
(* graph with the open buffers laid over the files they edit.  "open" maps *)
(* the paths of the open documents to their lines.                         *)
(***************************************************************************)
EXTENDS RcGraph

\* Mutant: a buffer edits the file its path is spelled as.
OpenAtItsPath(open, snapshot, file) == {p \in DOMAIN open : p = file}

\* open_document: the buffers that edit a file of the graph.
OpenAt(open, snapshot, file) == {p \in DOMAIN open : Identity(snapshot, p) = file}

\* Where the text of a file of the graph is: in a buffer, or saved.
SourceOf(open, snapshot, file) ==
    LET buffers == OpenAt(open, snapshot, file)
    IN  IF buffers = {} THEN file ELSE CHOOSE p \in buffers : TRUE

Collected(valid, declarations, references) ==
    [valid |-> valid, declarations |-> declarations, references |-> references]

Nothing == Collected(TRUE, <<>>, <<>>)

\* Imports are followed where the saved graph followed them; visits gives what
\* a visit of a file collects.
CollectLine(snapshot, visits, at, k, line) ==
    LET loaded == LoadedImport(snapshot, line.path)
    IN  IF line.says = "entry"
        THEN Collected(TRUE, DeclarationsOf(at, k, line), ReferencesOf(at, k, line))
        ELSE IF IsImport(line) /\ Active(line) /\ snapshot.root /\ loaded # NoFile
        THEN visits[loaded] ELSE Nothing

\* The sites of a file, line by line; a file that cannot be read spoils the whole view.
CollectLines(parts) ==
    Collected(\A k \in DOMAIN parts : parts[k].valid,
              FlattenSeq([k \in DOMAIN parts |-> parts[k].declarations]),
              FlattenSeq([k \in DOMAIN parts |-> parts[k].references]))

CollectText(snapshot, visits, at, lines) ==
    IF Malformed(lines) THEN Collected(FALSE, <<>>, <<>>)
    ELSE CollectLines([k \in DOMAIN lines |-> CollectLine(snapshot, visits, at, k, lines[k])])

\* A visit of a file of the graph, while the active ones are visited.
CollectFile(open, snapshot, visits, active, file) ==
    LET at == SourceOf(open, snapshot, file)
    IN  IF file \in active THEN Nothing
        ELSE IF OpenAt(open, snapshot, file) # {} THEN CollectText(snapshot, visits, at, open[at])
        ELSE IF file \in DOMAIN snapshot.files THEN CollectText(snapshot, visits, at, snapshot.files[at])
        ELSE Collected(FALSE, <<>>, <<>>)

\* The files that a visit may come to.
Loaded(snapshot) ==
    {snapshot.imports[i].loaded : i \in DOMAIN snapshot.imports} \cup {snapshot.rootFile, Root}

\* Collector::visit, of each file while none is active but those given.
Visiting(open, snapshot, active) ==
    LET visits[within \in SUBSET Loaded(snapshot)] ==
            [file \in Loaded(snapshot) |->
                CollectFile(open, snapshot, visits[within \cup {file}], within, file)]
    IN  visits[active]

Ready(snapshot) == snapshot.root /\ (snapshot.rootFile # NoFile \/ snapshot.files = <<>>)

\* Collector::finish.
Finished(snapshot, collected) ==
    [ready        |-> collected.valid /\ Ready(snapshot),
     declarations |-> IF collected.valid THEN collected.declarations ELSE <<>>,
     references   |-> IF collected.valid THEN collected.references ELSE <<>>]

\* ConfigurationView::new.  A root that was not loaded is read from its buffer,
\* unless the saved graph says what is wrong with it.
WorkspaceView(open, snapshot) ==
    Finished(snapshot,
        IF snapshot.rootFile # NoFile THEN Visiting(open, snapshot, {})[snapshot.rootFile]
        ELSE IF snapshot.problems = {} /\ snapshot.root /\ Root \in DOMAIN open
        THEN CollectText(snapshot, Visiting(open, snapshot, {Root}), Root, open[Root])
        ELSE Nothing)

\* ConfigurationView::for_document.  A document outside the graph sees itself.
View(open, snapshot, path) ==
    LET own == CollectLines([k \in DOMAIN open[path] |->
                   IF open[path][k].says = "entry"
                   THEN Collected(TRUE, DeclarationsOf(path, k, open[path][k]),
                                        ReferencesOf(path, k, open[path][k]))
                   ELSE Nothing])
    IN  IF Includes(snapshot, path) \/ (snapshot.root /\ path = Root)
        THEN WorkspaceView(open, snapshot)
        ELSE [ready |-> Ready(snapshot), declarations |-> own.declarations, references |-> own.references]

-----------------------------------------------------------------------------
Named(sites, name) == {i \in DOMAIN sites : sites[i].name = name}

\* applicable_declarations.
Applicable(view, command, name) ==
    {i \in Named(view.declarations, name) : Applies(command, view.declarations[i].command)}

\* occurrence_at: the name of the site at a place, declarations first.
OccurrenceAt(view, place) ==
    LET at(sites) == {sites[i].name : i \in {j \in DOMAIN sites : sites[j].at = place}}
    IN  at(view.declarations) \cup at(view.references)
=============================================================================
