----------------------------- MODULE RcSymbols ------------------------------
(***************************************************************************)
(* Requests about the configurations and imports of an open bazelrc buffer *)
(* (src/src/bazelrc/occurrences.rs, rename.rs, navigation.rs, hover.rs):   *)
(* each names places, at a place of the buffer at "path".  Each request    *)
(* makes the view of that buffer first (View).                             *)
(***************************************************************************)
EXTENDS RcDiagnostics

PlacesOf(sites, name) == {s.at : s \in {r \in ToSet(sites) : r.name = name}}

\* references.
References(view, place, declared) ==
    UNION {PlacesOf(view.references, n) \cup (IF declared THEN PlacesOf(view.declarations, n) ELSE {}) :
              n \in OccurrenceAt(view, place)}

\* highlights: what of it is in the buffer itself.
Highlights(view, path, place) == {at \in References(view, place, TRUE) : at[1] = path}

\* document_symbols and workspace_symbols, for the query that matches every name.
DocumentSymbols(view, path) ==
    {d.at : d \in {s \in ToSet(view.declarations) : s.at[1] = path}}

WorkspaceSymbols(open, snapshot) ==
    {[name |-> d.name, command |-> d.command, at |-> d.at] :
        d \in ToSet(WorkspaceView(open, snapshot).declarations)}

\* prepare: a name with a declaration can be renamed.
Prepare(view, place) == {n \in OccurrenceAt(view, place) : Named(view.declarations, n) # {}}

\* Mutant: the references in the scope of the renamed site.
RenameInScope(view, place, new) ==
    LET own  == {s.command : s \in {r \in ToSet(view.declarations \o view.references) : r.at = place}}
        mine == SelectSeq(view.references, LAMBDA s : s.command \in own)
    IN  IF Named(view.declarations, new) # {} THEN {}
        ELSE UNION {PlacesOf(view.declarations, n) \cup PlacesOf(mine, n) : n \in Prepare(view, place)}

\* rename: the places to write the new name at; none when it is refused, as a
\* name that is declared already is.
Rename(view, place, new) ==
    IF Named(view.declarations, new) # {} THEN {}
    ELSE UNION {PlacesOf(view.declarations, n) \cup PlacesOf(view.references, n) :
                   n \in Prepare(view, place)}

-----------------------------------------------------------------------------
\* imported: the file an import of the buffer leads to, as it was loaded.
Imported(snapshot, line) ==
    IF IsImport(line) /\ Active(line) THEN LoadedImport(snapshot, line.path) ELSE NoFile

DocumentLinks(snapshot, lines) ==
    {<<k, Imported(snapshot, lines[k])>> :
        k \in {j \in DOMAIN lines : Imported(snapshot, lines[j]) # NoFile}}

\* Mutant: the declarations of every command.
DefinitionsAnywhere(view, snapshot, lines, place) ==
    LET line == lines[place[2]]
        name == IF line.says = "entry" /\ AcceptsConfig(line.command) /\ place[3] > 0
                THEN Referenced(line, place[3]) ELSE NoName
        file == Imported(snapshot, line)
    IN  IF place[3] = 0 /\ file # NoFile THEN {<<file, 1, 0>>}
        ELSE IF name = NoName THEN {} ELSE PlacesOf(view.declarations, name)

\* definitions, at the path of an import and at a reference: the buffer's own
\* line says which, and the view where the declarations are.
Definitions(view, snapshot, lines, place) ==
    LET line == lines[place[2]]
        name == IF line.says = "entry" /\ AcceptsConfig(line.command) /\ place[3] > 0
                THEN Referenced(line, place[3]) ELSE NoName
        file == Imported(snapshot, line)
    IN  IF place[3] = 0 /\ file # NoFile THEN {<<file, 1, 0>>}
        ELSE IF name = NoName THEN {}
        ELSE {view.declarations[i].at : i \in Applicable(view, line.command, name)}

-----------------------------------------------------------------------------
(***************************************************************************)
(* hover: the first card that fits the place.                              *)
(***************************************************************************)
\* config_hover, one card for each site at the place.
ConfigCards(view, place) ==
    {[card       |-> "config", name |-> site.name, scope |-> site.command,
      declared   |-> {view.declarations[i].command :
                         i \in Applicable(view, site.command, site.name)},
      expansions |-> {view.references[i].name :
                         i \in {j \in DOMAIN view.references :
                                   /\ view.references[j].owner = site.name
                                   /\ Applies(site.command, view.references[j].command)}}] :
        site \in {s \in ToSet(view.declarations \o view.references) : s.at = place}}

\* import_hover: what the saved graph did with an import.
PublishedState(snapshot, target) ==
    IF LoadedImport(snapshot, target) # NoFile THEN "loaded"
    ELSE IF ImportsPath(snapshot, target) THEN "not loaded" ELSE "not in the graph"

\* alternate_spellings and the name itself, as options.
LongOption(name) == [dashes |-> "--", name |-> name, value |-> NoValue]
ShortOption(name) == [dashes |-> "-", name |-> name, value |-> NoValue]

Spellings(flag) ==
    LET no(name) == IF flag.negative THEN {LongOption(<<"no">> \o name)} ELSE {}
    IN  {LongOption(flag.name)} \cup no(flag.name)
           \cup (IF flag.old = <<>> THEN {} ELSE {LongOption(flag.old)})
           \cup (IF flag.abbreviation = <<>> THEN {}
                 ELSE {ShortOption(flag.abbreviation)} \cup
                      (IF flag.negative THEN {ShortOption(flag.abbreviation \o <<"-">>)} ELSE {}))

Card(card, what) == [card |-> card, what |-> what]

\* The flag at a place: an option, or the value it takes from the next one.
FlagAt(catalog, line, slot) ==
    {use.resolved.flag.name :
        use \in {u \in Uses(catalog[1], line) : slot \in {u.option, u.value} /\ Known(u.resolved)}}

\* hover, where no configuration is: a directive, a command or a flag.
OtherCards(snapshot, catalog, lines, place) ==
    LET line == lines[place[2]]
    IN  IF IsImport(line) THEN {Card(PublishedState(snapshot, line.path), {line.path})}
        ELSE IF line.says # "entry" THEN {}
        ELSE IF place[3] = 0 /\ line.command \in NAMES
        THEN {Card("command", ToSet(Scopes(line.command)))}
        ELSE IF line.name # NoName /\ ~AcceptsConfig(line.command) THEN {}
        ELSE IF place[3] > 0 /\ catalog # <<>>
        THEN {Card("flag", f) : f \in FlagAt(catalog, line, place[3])}
        ELSE {}

Hover(view, snapshot, catalog, lines, place) ==
    LET cards == ConfigCards(view, place)
    IN  IF cards # {} THEN cards ELSE OtherCards(snapshot, catalog, lines, place)
=============================================================================
