----------------------------- MODULE TargetProofs -----------------------------
(***************************************************************************)
(* Theorems about the requests on BUILD files, for every workspace, every  *)
(* text its files may hold, every age of the tiers and any number of       *)
(* steps.                                                                  *)
(*                                                                         *)
(* A site is a line of a file, and a line is one string: so two walks that *)
(* come to the same site speak of the same string, and all there is to     *)
(* show is that they read the same label in it.                            *)
(***************************************************************************)
EXTENDS TargetEdits, TLAPS

-----------------------------------------------------------------------------
(* The state. *)

\* Files and texts they may hold.
TextsOf(texts) ==
    /\ DOMAIN texts \subseteq Files
    /\ \A f \in DOMAIN texts : texts[f] \in Contents[f]

Once(targets) == \A t, u \in targets : t.key = u.key => t = u

\* What is held is of this workspace, and the tier of the disk is of BUILD files.
TargetsInv ==
    /\ TextsOf(saved) /\ TextsOf(open)
    /\ \A entry \in disk.targets \cup disk.references : IsBuild(entry.site.file)
    /\ Once(known.graph.targets)

-----------------------------------------------------------------------------
(* What a tier says. *)

Declaration(file, lines, k) ==
    [key |-> Key(NoRepo, file.dir, lines[k].raw.name), site |-> Site(file, k, lines[k])]

Mention(file, lines, k) ==
    [key |-> MentionsAt(file, lines, k), site |-> Site(file, k, lines[k])]

LEMMA KeyFields ==
  ASSUME NEW r, NEW p, NEW n
  PROVE  /\ Key(r, p, n).repo = r /\ Key(r, p, n).package = p /\ Key(r, p, n).name = n
         /\ p # NoDir => Key(r, p, n) # NoLabel
BY DEF Key, NoLabel

LEMMA SiteFields ==
  ASSUME NEW f, NEW k, NEW line
  PROVE  /\ Site(f, k, line).file = f /\ Site(f, k, line).line = k
         /\ Site(f, k, line).column = Column(line)
BY DEF Site

\* The targets of a file.
LEMMA DeclaresSays ==
  ASSUME NEW file, NEW lines, NEW t \in Declares(file, lines)
  PROVE  \E k \in DOMAIN lines :
            /\ lines[k].is = "name" /\ t = Declaration(file, lines, k)
            /\ \A j \in DOMAIN lines : j > k => DeclaresAt(file, lines, j) # t.key
<1>1. PICK k \in DOMAIN lines :
        /\ DeclaresAt(file, lines, k) # NoLabel
        /\ \A j \in DOMAIN lines : j > k => DeclaresAt(file, lines, j) # DeclaresAt(file, lines, k)
        /\ t = [key |-> DeclaresAt(file, lines, k), site |-> Site(file, k, lines[k])]
  BY DEF Declares
<1>2. lines[k].is = "name"
  BY <1>1 DEF DeclaresAt
<1>3. DeclaresAt(file, lines, k) = Key(NoRepo, file.dir, lines[k].raw.name)
  BY <1>2 DEF DeclaresAt
<1> QED BY <1>1, <1>2, <1>3 DEF Declaration

LEMMA DeclaresOne ==
  ASSUME NEW file, NEW lines \in Seq(Line),
         NEW t \in Declares(file, lines), NEW u \in Declares(file, lines), t.key = u.key
  PROVE  t = u
<1>1. PICK k \in DOMAIN lines :
        /\ lines[k].is = "name" /\ t = Declaration(file, lines, k)
        /\ \A j \in DOMAIN lines : j > k => DeclaresAt(file, lines, j) # t.key
  BY DeclaresSays
<1>2. PICK j \in DOMAIN lines :
        /\ lines[j].is = "name" /\ u = Declaration(file, lines, j)
        /\ \A i \in DOMAIN lines : i > j => DeclaresAt(file, lines, i) # u.key
  BY DeclaresSays
<1>3. DeclaresAt(file, lines, k) = t.key /\ DeclaresAt(file, lines, j) = u.key
  BY <1>1, <1>2 DEF DeclaresAt, Declaration
<1>4. ~(j > k) /\ ~(k > j)
  BY <1>1, <1>2, <1>3
<1>5. j \in Nat /\ k \in Nat
  OBVIOUS
<1>6. j = k
  BY <1>4, <1>5
<1> QED BY <1>1, <1>2, <1>6

\* A file whose names are apart declares each of them.
LEMMA DeclaresAll ==
  ASSUME NamesAreApart, NEW f \in Files, f.dir # NoDir, NEW x \in Contents[f],
         NEW k \in DOMAIN x.lines, x.lines[k].is = "name"
  PROVE  Declaration(f, x.lines, k) \in Declares(f, x.lines)
<1> DEFINE lines == x.lines
<1>1. DeclaresAt(f, lines, k) = Key(NoRepo, f.dir, lines[k].raw.name)
  BY DEF DeclaresAt
<1>2. DeclaresAt(f, lines, k) # NoLabel
  BY <1>1, KeyFields
<1>3. ASSUME NEW j \in DOMAIN lines, j > k, DeclaresAt(f, lines, j) = DeclaresAt(f, lines, k)
      PROVE  FALSE
  <2>1. lines[j].is = "name"
    BY <1>2, <1>3 DEF DeclaresAt
  <2>2. DeclaresAt(f, lines, j) = Key(NoRepo, f.dir, lines[j].raw.name)
    BY <2>1 DEF DeclaresAt
  <2>3. lines[j].raw.name = lines[k].raw.name
    BY <1>1, <1>3, <2>2 DEF Key
  <2>4. j = k
    BY <2>1, <2>3 DEF NamesAreApart
  <2>5. x.lines \in Seq(Line)
    BY FilesAssumption
  <2>6. k \in Nat
    BY <2>5
  <2> QED BY <1>3, <2>4, <2>6
<1>4. \A j \in DOMAIN lines : j > k => DeclaresAt(f, lines, j) # DeclaresAt(f, lines, k)
  BY <1>3
<1>5. [key |-> DeclaresAt(f, lines, k), site |-> Site(f, k, lines[k])] \in Declares(f, lines)
  BY <1>2, <1>4 DEF Declares
<1> QED BY <1>1, <1>5 DEF Declaration

\* The mentions of a file.
LEMMA MentionsSays ==
  ASSUME NEW file, NEW lines, NEW r
  PROVE  r \in Mentions(file, lines) <=>
            \E k \in DOMAIN lines : MentionsAt(file, lines, k) # NoLabel /\ r = Mention(file, lines, k)
BY DEF Mentions, Mention

\* A label is read with the name it is written with.
LEMMA ParseSays ==
  ASSUME NEW raw, NEW package, ParseLabel(raw, package) # NoLabel
  PROVE  /\ ParseLabel(raw, package).name = NameOf(raw)
         /\ ParseLabel(raw, package).repo = IF raw.repo = "" THEN NoRepo ELSE raw.repo
BY DEF ParseLabel, Key

-----------------------------------------------------------------------------
(* The tiers. *)

\* The tier of some texts, one entry at a time.
LEMMA CollectSays ==
  ASSUME NEW texts
  PROVE  /\ \A t : t \in Collect(texts).targets <=>
               \E f \in DOMAIN texts : IsBuild(f) /\ t \in Declares(f, texts[f].lines)
         /\ \A r : r \in Collect(texts).references <=>
               \E f \in DOMAIN texts : IsBuild(f) /\ r \in Mentions(f, texts[f].lines)
BY DEF Collect

LEMMA ContributeSays ==
  ASSUME NEW texts
  PROVE  /\ Contribute(texts).targets = Collect(texts).targets
         /\ Contribute(texts).references = Collect(texts).references
         /\ Contribute(texts).speaksFor = {f \in DOMAIN texts : IsBuild(f) /\ texts[f].clean}
BY DEF Contribute, Collect

\* The file of an entry.
LEMMA EntryFile ==
  ASSUME NEW file, NEW lines, NEW e \in Declares(file, lines) \cup Mentions(file, lines)
  PROVE  /\ e.site.file = file
         /\ e \in Declares(file, lines) => e.key.package = file.dir
<1>1. CASE e \in Declares(file, lines)
  <2>1. PICK k \in DOMAIN lines : e = Declaration(file, lines, k)
    BY <1>1, DeclaresSays
  <2>2. e.site = Site(file, k, lines[k]) /\ e.key = Key(NoRepo, file.dir, lines[k].raw.name)
    BY <2>1 DEF Declaration
  <2> QED BY <2>2, SiteFields, KeyFields
<1>2. CASE e \in Mentions(file, lines) /\ e \notin Declares(file, lines)
  <2>1. PICK k \in DOMAIN lines : e = Mention(file, lines, k)
    BY <1>2, MentionsSays
  <2>2. e.site = Site(file, k, lines[k])
    BY <2>1 DEF Mention
  <2> QED BY <1>2, <2>2, SiteFields
<1> QED BY <1>1, <1>2

\* A tier has one target of each label.
LEMMA CollectOnce ==
  ASSUME OneBuildFile, NEW texts, TextsOf(texts)
  PROVE  Once(Collect(texts).targets)
<1> SUFFICES ASSUME NEW t \in Collect(texts).targets, NEW u \in Collect(texts).targets, t.key = u.key
             PROVE  t = u
  BY DEF Once
<1>1. PICK f \in DOMAIN texts : IsBuild(f) /\ t \in Declares(f, texts[f].lines)
  BY CollectSays
<1>2. PICK g \in DOMAIN texts : IsBuild(g) /\ u \in Declares(g, texts[g].lines)
  BY CollectSays
<1>3. f.dir = g.dir
  BY <1>1, <1>2, EntryFile
<1>4. f \in Files /\ g \in Files /\ texts[f] \in Contents[f]
  BY DEF TextsOf
<1>5. f = g
  BY <1>1, <1>2, <1>3, <1>4 DEF OneBuildFile
<1>6. texts[f].lines \in Seq(Line)
  BY <1>4, FilesAssumption
<1> QED BY <1>1, <1>2, <1>5, <1>6, DeclaresOne

LEMMA SiteInSays ==
  ASSUME NEW tier, Once(tier.targets), NEW t \in tier.targets
  PROVE  t.key \in Keys(tier) /\ SiteIn(tier, t.key) = t.site
<1>1. \E u \in tier.targets : u.key = t.key
  OBVIOUS
<1>2. (CHOOSE u \in tier.targets : u.key = t.key) = t
  BY <1>1 DEF Once
<1> QED BY <1>2 DEF Keys, SiteIn

-----------------------------------------------------------------------------
(* The state's invariant. *)

LEMMA CollectIsOfBuild ==
  ASSUME NEW texts, NEW e \in Collect(texts).targets \cup Collect(texts).references
  PROVE  IsBuild(e.site.file)
<1>1. PICK f \in DOMAIN texts :
        IsBuild(f) /\ e \in Declares(f, texts[f].lines) \cup Mentions(f, texts[f].lines)
  BY CollectSays
<1> QED BY <1>1, EntryFile

LEMMA InvInit == Init => TargetsInv
<1> SUFFICES ASSUME Init PROVE TargetsInv
  OBVIOUS
<1>1. TextsOf(saved)
  <2>1. PICK there \in SUBSET Files :
          saved \in {t \in [there -> UNION {Contents[f] : f \in there}] : \A f \in there : t[f] \in Contents[f]}
    BY DEF Init
  <2> QED BY <2>1 DEF TextsOf
<1>2. TextsOf(open)
  BY DEF Init, TextsOf
<1>3. disk = Collect(saved)
  BY DEF Init
<1>4. known.graph.targets = {}
  BY DEF Init, NoTier
<1> QED BY <1>1, <1>2, <1>3, <1>4, CollectIsOfBuild DEF TargetsInv, Once

LEMMA InvStep == TargetsInv /\ [Next]_vars => TargetsInv'
<1> SUFFICES ASSUME TargetsInv, [Next]_vars PROVE TargetsInv'
  OBVIOUS
<1>1. TextsOf(saved) /\ TextsOf(open)
  BY DEF TargetsInv
<1>2. CASE Write
  <2>1. TextsOf(saved)'
    <3>1. PICK f \in Files :
            \/ \E t \in Contents[f] : saved' = [g \in DOMAIN saved \cup {f} |-> IF g = f THEN t ELSE saved[g]]
            \/ f \in DOMAIN saved /\ saved' = [g \in DOMAIN saved \ {f} |-> saved[g]]
      BY <1>2 DEF Write
    <3> QED BY <1>1, <3>1 DEF TextsOf
  <2>2. UNCHANGED <<open, disk, known>>
    BY <1>2 DEF Write
  <2> QED BY <2>1, <2>2 DEF TargetsInv, TextsOf
<1>3. CASE Change
  <2>1. TextsOf(open)'
    <3>1. PICK f \in Files : \E t \in Contents[f] :
            open' = [g \in DOMAIN open \cup {f} |-> IF g = f THEN t ELSE open[g]]
      BY <1>3 DEF Change
    <3> QED BY <1>1, <3>1 DEF TextsOf
  <2>2. UNCHANGED <<saved, disk, known>>
    BY <1>3 DEF Change
  <2> QED BY <2>1, <2>2 DEF TargetsInv, TextsOf
<1>4. CASE Close
  <2>1. TextsOf(open)'
    <3>1. PICK f \in DOMAIN open : open' = [g \in DOMAIN open \ {f} |-> open[g]]
      BY <1>4 DEF Close
    <3> QED BY <1>1, <3>1 DEF TextsOf
  <2>2. UNCHANGED <<saved, disk, known>>
    BY <1>4 DEF Close
  <2> QED BY <2>1, <2>2 DEF TargetsInv, TextsOf
<1>5. CASE StoreDisk
  <2>1. disk' = Collect(saved) /\ UNCHANGED <<saved, open, known>>
    BY <1>5 DEF StoreDisk
  <2> QED BY <2>1, CollectIsOfBuild DEF TargetsInv, TextsOf
<1>6. CASE StoreGraph
  <2>1. known' \in Graphs /\ UNCHANGED <<saved, open, disk>>
    BY <1>6 DEF StoreGraph
  <2>2. Once(known'.graph.targets)
    BY <2>1, GraphsAssumption DEF Once
  <2> QED BY <2>1, <2>2 DEF TargetsInv, TextsOf
<1>7. CASE UNCHANGED vars
  BY <1>7 DEF vars, TargetsInv, TextsOf
<1> QED BY <1>2, <1>3, <1>4, <1>5, <1>6, <1>7 DEF Next

LEMMA InvAlways == Spec => []TargetsInv
BY InvInit, InvStep, PTL DEF Spec

-----------------------------------------------------------------------------
(* The tiers foresee what is saved. *)

LEMMA IndexSays ==
  /\ Index.buffer = Contribute(open) /\ Index.disk = disk /\ Index.graph = known.graph
  /\ \A f : Covered(Index, f) <=> f \in Clean /\ IsBuild(f)
  /\ Index.buffer.targets = Collect(open).targets
  /\ Index.buffer.references = Collect(open).references
<1>1. Index.buffer = Contribute(open) /\ Index.disk = disk /\ Index.graph = known.graph
  BY DEF Index
<1> QED BY <1>1, ContributeSays DEF Covered, Clean

LEMMA OverlaySays ==
  ASSUME TargetsInv, NEW files \in SUBSET (DOMAIN open)
  PROVE  /\ DOMAIN Overlay(files) = DOMAIN saved \cup files
         /\ \A f \in files : Overlay(files)[f] = open[f]
         /\ \A f \in DOMAIN saved \ files : Overlay(files)[f] = saved[f]
         /\ TextsOf(Overlay(files))
BY DEF TargetsInv, TextsOf, Overlay

\* What the saved files would declare and mention is in a tier that counts.
LEMMA SureIsIndexed ==
  ASSUME TargetsInv, Current, NEW e
  PROVE  /\ e \in Collect(Overlay(Clean)).targets =>
               \/ e \in Index.buffer.targets
               \/ e \in disk.targets /\ ~Covered(Index, e.site.file)
         /\ e \in Collect(Overlay(Clean)).references =>
               \/ e \in Index.buffer.references
               \/ e \in disk.references /\ ~Covered(Index, e.site.file)
<1> DEFINE texts == Overlay(Clean)
<1>1. /\ DOMAIN texts = DOMAIN saved \cup Clean
      /\ \A f \in Clean : texts[f] = open[f] /\ f \in DOMAIN open
      /\ \A f \in DOMAIN saved \ Clean : texts[f] = saved[f]
  BY OverlaySays DEF Clean
<1>2. disk = Collect(saved)
  BY DEF Current
<1> HIDE DEF texts
<1>3. ASSUME e \in Collect(texts).targets
      PROVE  \/ e \in Collect(open).targets
             \/ e \in Collect(saved).targets /\ e.site.file \notin Clean
  <2>1. PICK f \in DOMAIN texts : IsBuild(f) /\ e \in Declares(f, texts[f].lines)
    BY <1>3, CollectSays
  <2>2. CASE f \in Clean
    BY <1>1, <2>1, <2>2, CollectSays
  <2>3. CASE f \notin Clean
    BY <1>1, <2>1, <2>3, CollectSays, EntryFile
  <2> QED BY <2>2, <2>3
<1>4. ASSUME e \in Collect(texts).references
      PROVE  \/ e \in Collect(open).references
             \/ e \in Collect(saved).references /\ e.site.file \notin Clean
  <2>1. PICK f \in DOMAIN texts : IsBuild(f) /\ e \in Mentions(f, texts[f].lines)
    BY <1>4, CollectSays
  <2>2. CASE f \in Clean
    BY <1>1, <2>1, <2>2, CollectSays
  <2>3. CASE f \notin Clean
    BY <1>1, <2>1, <2>3, CollectSays, EntryFile
  <2> QED BY <2>2, <2>3
<1> QED BY <1>2, <1>3, <1>4, IndexSays DEF texts

\* What counts in a tier is what the saved files would declare and mention, if
\* every buffer parses.
LEMMA IndexedIsSure ==
  ASSUME TargetsInv, Current, NEW e
  PROVE  /\ e \in disk.targets /\ ~Covered(Index, e.site.file) => e \in Collect(Overlay(Clean)).targets
         /\ e \in disk.references /\ ~Covered(Index, e.site.file) =>
               e \in Collect(Overlay(Clean)).references
         /\ DOMAIN open = Clean /\ e \in Index.buffer.targets => e \in Collect(Overlay(Clean)).targets
         /\ DOMAIN open = Clean /\ e \in Index.buffer.references =>
               e \in Collect(Overlay(Clean)).references
<1> DEFINE texts == Overlay(Clean)
<1>1. /\ DOMAIN texts = DOMAIN saved \cup Clean
      /\ \A f \in Clean : texts[f] = open[f]
      /\ \A f \in DOMAIN saved \ Clean : texts[f] = saved[f]
  BY OverlaySays DEF Clean
<1>2. disk = Collect(saved)
  BY DEF Current
<1> HIDE DEF texts
<1>3. ASSUME e \in Collect(saved).targets, ~Covered(Index, e.site.file)
      PROVE  e \in Collect(texts).targets
  <2>1. PICK f \in DOMAIN saved : IsBuild(f) /\ e \in Declares(f, saved[f].lines)
    BY <1>3, CollectSays
  <2>2. f \notin Clean
    BY <1>3, <2>1, EntryFile, IndexSays
  <2> QED BY <1>1, <2>1, <2>2, CollectSays
<1>4. ASSUME e \in Collect(saved).references, ~Covered(Index, e.site.file)
      PROVE  e \in Collect(texts).references
  <2>1. PICK f \in DOMAIN saved : IsBuild(f) /\ e \in Mentions(f, saved[f].lines)
    BY <1>4, CollectSays
  <2>2. f \notin Clean
    BY <1>4, <2>1, EntryFile, IndexSays
  <2> QED BY <1>1, <2>1, <2>2, CollectSays
<1>5. ASSUME DOMAIN open = Clean, e \in Collect(open).targets
      PROVE  e \in Collect(texts).targets
  <2>1. PICK f \in DOMAIN open : IsBuild(f) /\ e \in Declares(f, open[f].lines)
    BY <1>5, CollectSays
  <2> QED BY <1>1, <1>5, <2>1, CollectSays
<1>6. ASSUME DOMAIN open = Clean, e \in Collect(open).references
      PROVE  e \in Collect(texts).references
  <2>1. PICK f \in DOMAIN open : IsBuild(f) /\ e \in Mentions(f, open[f].lines)
    BY <1>6, CollectSays
  <2> QED BY <1>1, <1>6, <2>1, CollectSays
<1> QED BY <1>2, <1>3, <1>4, <1>5, <1>6, IndexSays DEF texts

\* Then no target of the disk that counts is hidden behind another of a buffer.
LEMMA NothingIsHidden ==
  ASSUME OneBuildFile, TargetsInv, Current, DOMAIN open = Clean,
         NEW t \in disk.targets, ~Covered(Index, t.site.file)
  PROVE  t.key \notin Keys(Index.buffer)
<1> SUFFICES ASSUME NEW u \in Index.buffer.targets, u.key = t.key
             PROVE  FALSE
  BY DEF Keys
<1>1. t \in Collect(Overlay(Clean)).targets /\ u \in Collect(Overlay(Clean)).targets
  BY IndexedIsSure
<1>2. TextsOf(Overlay(Clean))
  BY OverlaySays DEF Clean
<1>3. t = u
  BY <1>1, <1>2, CollectOnce DEF Once
<1>4. PICK f \in DOMAIN open : IsBuild(f) /\ u \in Declares(f, open[f].lines)
  BY CollectSays, IndexSays
<1>5. u.site.file = f
  BY <1>4, EntryFile
<1> QED BY <1>3, <1>4, <1>5, IndexSays

\* The targets that are listed, one at a time.
LEMMA ListedSays ==
  ASSUME NEW t
  PROVE  t \in AllTargets(Index) <=>
            \/ t \in Index.buffer.targets
            \/ t \in disk.targets /\ t.key \notin Keys(Index.buffer) /\ ~Covered(Index, t.site.file)
            \/ t \in known.graph.targets /\ t.key \notin Keys(Index.buffer) \cup Keys(disk)
BY IndexSays DEF AllTargets

LEMMA TiersAreMaps ==
  ASSUME OneBuildFile, TargetsInv, Current
  PROVE  Once(Index.buffer.targets) /\ Once(disk.targets) /\ Once(known.graph.targets)
BY IndexSays, CollectOnce DEF TargetsInv, Current

\* A target that is listed is found where it is listed.
LEMMA ListedIsFound ==
  ASSUME OneBuildFile, TargetsInv, Current, NEW t \in AllTargets(Index)
  PROVE  Target(Index, t.key) = t.site
<1>1. Once(Index.buffer.targets) /\ Once(Index.disk.targets) /\ Once(Index.graph.targets)
  BY TiersAreMaps, IndexSays
<1>2. CASE t \in Index.buffer.targets
  <2>1. t.key \in Keys(Index.buffer) /\ SiteIn(Index.buffer, t.key) = t.site
    BY <1>1, <1>2, SiteInSays
  <2> QED BY <2>1 DEF Target
<1>3. CASE t \in disk.targets /\ t.key \notin Keys(Index.buffer) /\ ~Covered(Index, t.site.file)
  <2>1. t.key \in Keys(Index.disk) /\ SiteIn(Index.disk, t.key) = t.site
    BY <1>1, <1>3, SiteInSays, IndexSays
  <2> QED BY <1>3, <2>1 DEF Target
<1>4. CASE t \in known.graph.targets /\ t.key \notin Keys(Index.buffer) \cup Keys(disk)
  <2>1. t.key \in Keys(Index.graph) /\ SiteIn(Index.graph, t.key) = t.site
    BY <1>1, <1>4, SiteInSays, IndexSays
  <2>2. t.key \notin Keys(Index.buffer) /\ t.key \notin Keys(Index.disk)
    BY <1>4, IndexSays
  <2> QED BY <2>1, <2>2 DEF Target
<1> QED BY <1>2, <1>3, <1>4, ListedSays

\* The mentions that are found, one at a time.
LEMMA ReferencesSay ==
  ASSUME NEW key, NEW s
  PROVE  s \in References(Index, key) <=>
            \E r : /\ r.key = key /\ r.site = s
                   /\ \/ r \in Index.buffer.references
                      \/ r \in disk.references /\ ~Covered(Index, s.file)
BY IndexSays DEF References

LEMMA MentionIsPair ==
  ASSUME NEW texts, NEW r \in Collect(texts).references
  PROVE  r = [key |-> r.key, site |-> r.site]
<1>1. PICK f \in DOMAIN texts : r \in Mentions(f, texts[f].lines)
  BY CollectSays
<1>2. PICK k \in DOMAIN texts[f].lines : r = Mention(f, texts[f].lines, k)
  BY <1>1, MentionsSays
<1> QED BY <1>2 DEF Mention

LEMMA ForeseenInv ==
  ASSUME OneBuildFile, TargetsInv
  PROVE  SavingIsForeseen
<1> SUFFICES ASSUME Current PROVE SavingIsForeseen
  BY DEF SavingIsForeseen
<1> DEFINE sure == Collect(Overlay(Clean))
           seen == {t \in AllTargets(Index) : ~OnlyBazelKnows(Index, t.key)}
<1>1. \A t : t \in seen <=>
        \/ t \in Index.buffer.targets
        \/ t \in disk.targets /\ t.key \notin Keys(Index.buffer) /\ ~Covered(Index, t.site.file)
  BY ListedSays, IndexSays DEF OnlyBazelKnows, Keys
<1> HIDE DEF seen
<1>2. Keys(sure) \subseteq {t.key : t \in seen}
  <2> SUFFICES ASSUME NEW t \in sure.targets
               PROVE  \E u \in seen : u.key = t.key
    BY DEF Keys
  <2>1. t \in Index.buffer.targets \/ (t \in disk.targets /\ ~Covered(Index, t.site.file))
    BY SureIsIndexed
  <2>2. CASE t \in Index.buffer.targets
    BY <1>1, <2>2
  <2>3. CASE t \in disk.targets /\ ~Covered(Index, t.site.file) /\ t.key \notin Keys(Index.buffer)
    BY <1>1, <2>3
  <2>4. CASE t.key \in Keys(Index.buffer)
    BY <1>1, <2>4 DEF Keys
  <2> QED BY <2>1, <2>2, <2>3, <2>4
<1>3. \A r \in sure.references : r.site \in References(Index, r.key)
  BY SureIsIndexed, ReferencesSay
<1>4. \A t \in AllTargets(Index) : Target(Index, t.key) = t.site
  BY ListedIsFound
<1>5. ASSUME DOMAIN open = Clean
      PROVE  seen = sure.targets
  <2>1. \A t \in seen : t \in sure.targets
    BY <1>1, <1>5, IndexedIsSure
  <2>2. \A t \in sure.targets : t \in seen
    BY <1>1, <1>5, SureIsIndexed, NothingIsHidden
  <2> QED BY <2>1, <2>2
<1>6. ASSUME DOMAIN open = Clean, NEW key, NEW s \in References(Index, key)
      PROVE  [key |-> key, site |-> s] \in sure.references
  <2>1. PICK r : /\ r.key = key /\ r.site = s
                 /\ \/ r \in Index.buffer.references
                    \/ r \in disk.references /\ ~Covered(Index, s.file)
    BY <1>6, ReferencesSay
  <2>2. r \in sure.references
    BY <1>6, <2>1, IndexedIsSure
  <2>3. r = [key |-> r.key, site |-> r.site]
    BY <2>2, MentionIsPair
  <2> QED BY <2>1, <2>2, <2>3
<1> QED BY <1>2, <1>3, <1>4, <1>5, <1>6 DEF SavingIsForeseen, seen

\* Requests answer from what the disk would hold were the buffers saved, for any
\* files, texts and buffers, finished or not, once the watch has caught up
\* (Document::contribute, Index::target, references and targets).
THEOREM TheTiersForesee == OneBuildFile => (Spec => []SavingIsForeseen)
<1> SUFFICES ASSUME OneBuildFile PROVE Spec => []SavingIsForeseen
  OBVIOUS
<1>1. TargetsInv => SavingIsForeseen
  BY ForeseenInv
<1> QED BY <1>1, InvAlways, PTL

-----------------------------------------------------------------------------
(* What the caret is on. *)

\* The package of a BUILD file that is saved is the directory it is in.
LEMMA PackageIsDir ==
  ASSUME NEW f \in DOMAIN saved, IsBuild(f), TargetsInv
  PROVE  EnclosingPackage(DOMAIN saved, f) = f.dir
<1> DEFINE s == Above[f.dir]
           IsPackage(d) == \E g \in DOMAIN saved : IsBuild(g) /\ g.dir = d
           I == {i \in 1 .. Len(s) : IsPackage(s[i])}
<1>1. f \in Files /\ f.dir \in Dirs
  BY FilesAssumption DEF TargetsInv, TextsOf
<1>2. s \in Seq(Dirs) /\ s # <<>> /\ s[1] = f.dir
  BY <1>1, DirsAssumption
<1>3. 1 \in 1 .. Len(s)
  BY <1>2
<1>4. 1 \in I
  BY <1>2, <1>3
<1>5. \A i \in I : 1 <= i /\ i \in Nat
  BY <1>2
<1> HIDE DEF I
<1>6. Min(I) = 1
  BY <1>4, <1>5 DEF Min
<1>7. SelectInSeq(s, IsPackage) = 1
  BY <1>4, <1>6 DEF SelectInSeq, I
<1>8. Enclosing(DOMAIN saved, f.dir) = f.dir
  BY <1>2, <1>7 DEF Enclosing, FirstThat
<1> QED BY <1>8 DEF EnclosingPackage, IsBuild

LEMMA FirstOfTwo ==
  ASSUME NEW a, NEW b
  PROVE  FirstSite(<<a, b>>) = IF a # NoSite THEN a ELSE b
<1> DEFINE s == <<a, b>>
           I == {i \in 1 .. Len(s) : s[i] # NoSite}
<1>1. Len(s) = 2 /\ s[1] = a /\ s[2] = b
  OBVIOUS
<1>2. FirstSite(s) = LET i == IF I # {} THEN Min(I) ELSE 0 IN IF i = 0 THEN NoSite ELSE s[i]
  BY DEF FirstSite, FirstThat, SelectInSeq
<1> HIDE DEF s
<1>3. \A i \in I : i = 1 \/ i = 2
  BY <1>1
<1>4. (1 \in I <=> a # NoSite) /\ (2 \in I <=> b # NoSite)
  BY <1>1
<1> HIDE DEF I
<1>5. CASE a # NoSite
  <2>1. Min(I) = 1
    BY <1>3, <1>4, <1>5 DEF Min
  <2> QED BY <1>1, <1>2, <1>4, <1>5, <2>1 DEF s
<1>6. CASE a = NoSite /\ b # NoSite
  <2>1. Min(I) = 2
    BY <1>3, <1>4, <1>6 DEF Min
  <2> QED BY <1>1, <1>2, <1>4, <1>6, <2>1 DEF s
<1>7. CASE a = NoSite /\ b = NoSite
  <2>1. I = {}
    BY <1>3, <1>4, <1>7
  <2> QED BY <1>2, <1>7, <2>1 DEF s
<1> QED BY <1>5, <1>6, <1>7

LEMMA FirstOfThree ==
  ASSUME NEW a, NEW b, NEW c
  PROVE  FirstSite(<<a, b, c>>) = IF a # NoSite THEN a ELSE IF b # NoSite THEN b ELSE c
<1> DEFINE s == <<a, b, c>>
           I == {i \in 1 .. Len(s) : s[i] # NoSite}
<1>1. Len(s) = 3 /\ s[1] = a /\ s[2] = b /\ s[3] = c
  OBVIOUS
<1>2. FirstSite(s) = LET i == IF I # {} THEN Min(I) ELSE 0 IN IF i = 0 THEN NoSite ELSE s[i]
  BY DEF FirstSite, FirstThat, SelectInSeq
<1> HIDE DEF s
<1>3. \A i \in I : i = 1 \/ i = 2 \/ i = 3
  BY <1>1
<1>4. (1 \in I <=> a # NoSite) /\ (2 \in I <=> b # NoSite) /\ (3 \in I <=> c # NoSite)
  BY <1>1
<1> HIDE DEF I
<1>5. CASE a # NoSite
  <2>1. Min(I) = 1
    BY <1>3, <1>4, <1>5 DEF Min
  <2> QED BY <1>1, <1>2, <1>4, <1>5, <2>1 DEF s
<1>6. CASE a = NoSite /\ b # NoSite
  <2>1. Min(I) = 2
    BY <1>3, <1>4, <1>6 DEF Min
  <2> QED BY <1>1, <1>2, <1>4, <1>6, <2>1 DEF s
<1>7. CASE a = NoSite /\ b = NoSite /\ c # NoSite
  <2>1. Min(I) = 3
    BY <1>3, <1>4, <1>7 DEF Min
  <2> QED BY <1>1, <1>2, <1>4, <1>7, <2>1 DEF s
<1>8. CASE a = NoSite /\ b = NoSite /\ c = NoSite
  <2>1. I = {}
    BY <1>3, <1>4, <1>8
  <2> QED BY <1>2, <1>8, <2>1 DEF s
<1> QED BY <1>5, <1>6, <1>7, <1>8

\* The lines of an open file.
LEMMA OpenLines ==
  ASSUME TargetsInv, NEW f \in DOMAIN open
  PROVE  /\ f \in Files /\ open[f] \in Contents[f] /\ open[f].lines \in Seq(Line)
         /\ \A k \in DOMAIN open[f].lines : open[f].lines[k] \in Line
<1>1. f \in Files /\ open[f] \in Contents[f]
  BY DEF TargetsInv, TextsOf
<1>2. open[f].lines \in Seq(Line)
  BY <1>1, FilesAssumption
<1> QED BY <1>1, <1>2

\* A target that is found and not Bazel's alone is in the buffer that declares
\* it, or in a file on disk that no finished buffer speaks for.
LEMMA FoundSomewhere ==
  ASSUME TargetsInv, NEW key, Target(Index, key) # NoSite, ~OnlyBazelKnows(Index, key)
  PROVE  \/ \E t \in Index.buffer.targets : t.key = key /\ t.site = Target(Index, key)
         \/ \E t \in disk.targets : /\ t.key = key /\ t.site = Target(Index, key)
                                   /\ ~Covered(Index, t.site.file)
<1>1. CASE key \in Keys(Index.buffer)
  <2>1. Target(Index, key) = SiteIn(Index.buffer, key)
    BY <1>1 DEF Target
  <2>2. \E t \in Index.buffer.targets : t.key = key
    BY <1>1 DEF Keys
  <2>3. (CHOOSE t \in Index.buffer.targets : t.key = key) \in {t \in Index.buffer.targets : t.key = key}
    BY <2>2
  <2> QED BY <2>1, <2>3 DEF SiteIn
<1>2. CASE key \notin Keys(Index.buffer) /\ key \in Keys(Index.disk)
  <2>1. Target(Index, key) = LET site == SiteIn(Index.disk, key)
                             IN  IF Covered(Index, site.file) THEN NoSite ELSE site
    BY <1>2 DEF Target
  <2>2. \E t \in Index.disk.targets : t.key = key
    BY <1>2 DEF Keys
  <2>3. (CHOOSE t \in Index.disk.targets : t.key = key) \in {t \in Index.disk.targets : t.key = key}
    BY <2>2
  <2> QED BY <2>1, <2>3, IndexSays DEF SiteIn
<1>3. CASE key \notin Keys(Index.buffer) /\ key \notin Keys(Index.disk)
  <2>1. key \notin Keys(Index.graph)
    BY <1>3 DEF OnlyBazelKnows
  <2>2. Target(Index, key) = NoSite
    BY <1>3, <2>1 DEF Target
  <2> QED BY <2>2
<1> QED BY <1>1, <1>2, <1>3

\* A site of a label that is in a buffer is where that buffer writes the label.
LEMMA BufferSites ==
  ASSUME TargetsInv, NEW key, key # NoLabel,
         NEW e \in Index.buffer.targets \cup Index.buffer.references, e.key = key
  PROVE  /\ e.site.file \in DOMAIN open
         /\ e.site.line \in DOMAIN open[e.site.file].lines
         /\ Column(open[e.site.file].lines[e.site.line]) = e.site.column
         /\ NameOf(open[e.site.file].lines[e.site.line].raw) = key.name
<1>1. CASE e \in Index.buffer.targets
  <2>1. PICK f \in DOMAIN open : IsBuild(f) /\ e \in Declares(f, open[f].lines)
    BY <1>1, IndexSays, CollectSays
  <2>2. PICK k \in DOMAIN open[f].lines :
          open[f].lines[k].is = "name" /\ e = Declaration(f, open[f].lines, k)
    BY <2>1, DeclaresSays
  <2>3. /\ e.site = Site(f, k, open[f].lines[k])
        /\ e.key = Key(NoRepo, f.dir, open[f].lines[k].raw.name)
    BY <2>2 DEF Declaration
  <2>4. open[f].lines[k].raw.form = "bare"
    BY <2>2, OpenLines DEF Line
  <2>5. NameOf(open[f].lines[k].raw) = open[f].lines[k].raw.name
    BY <2>4 DEF NameOf
  <2>6. key.name = open[f].lines[k].raw.name
    BY <2>3, KeyFields
  <2> QED BY <2>3, <2>5, <2>6, SiteFields
<1>2. CASE e \in Index.buffer.references
  <2>1. PICK f \in DOMAIN open : IsBuild(f) /\ e \in Mentions(f, open[f].lines)
    BY <1>2, IndexSays, CollectSays
  <2>2. PICK k \in DOMAIN open[f].lines :
          MentionsAt(f, open[f].lines, k) # NoLabel /\ e = Mention(f, open[f].lines, k)
    BY <2>1, MentionsSays
  <2>3. e.site = Site(f, k, open[f].lines[k]) /\ key = MentionsAt(f, open[f].lines, k)
    BY <2>2 DEF Mention
  <2>4. key = ParseLabel(open[f].lines[k].raw, f.dir)
    BY <2>2, <2>3 DEF MentionsAt
  <2>5. key.name = NameOf(open[f].lines[k].raw)
    BY <2>4, ParseSays
  <2> QED BY <2>3, <2>5, SiteFields
<1> QED BY <1>1, <1>2

\* So nothing has moved in a buffer that is finished.
LEMMA CleanIsUnmoved ==
  ASSUME TargetsInv, NEW key, key # NoLabel, ~OnlyBazelKnows(Index, key),
         NEW s \in NameSites(Index, key, TRUE), s.file \in Clean
  PROVE  /\ s.line \in DOMAIN open[s.file].lines
         /\ Column(open[s.file].lines[s.line]) = s.column
         /\ NameOf(open[s.file].lines[s.line].raw) = key.name
<1>1. CASE s \in References(Index, key)
  <2>1. PICK r : /\ r.key = key /\ r.site = s
                 /\ \/ r \in Index.buffer.references
                    \/ r \in disk.references /\ ~Covered(Index, s.file)
    BY <1>1, ReferencesSay
  <2>2. r \in disk.references => IsBuild(s.file)
    BY <2>1 DEF TargetsInv
  <2>3. r \in Index.buffer.references
    BY <2>1, <2>2, IndexSays
  <2> QED BY <2>1, <2>3, BufferSites
<1>2. CASE s = Target(Index, key) /\ s # NoSite
  <2>1. \/ \E t \in Index.buffer.targets : t.key = key /\ t.site = s
        \/ \E t \in disk.targets : t.key = key /\ t.site = s /\ ~Covered(Index, s.file)
    BY <1>2, FoundSomewhere
  <2>2. \A t \in disk.targets : t.site = s => IsBuild(s.file)
    BY DEF TargetsInv
  <2>3. PICK t \in Index.buffer.targets : t.key = key /\ t.site = s
    BY <2>1, <2>2, IndexSays
  <2> QED BY <2>3, BufferSites
<1> QED BY <1>1, <1>2 DEF NameSites

LEMMA MovedNothing ==
  ASSUME TargetsInv, NEW key, key # NoLabel, ~OnlyBazelKnows(Index, key),
         \A s \in NameSites(Index, key, TRUE) : s.file \in DOMAIN open => s.file \in Clean
  PROVE  ~Moved(Workspace, NameSites(Index, key, TRUE), key.name)
<1>1. Workspace.open = open
  BY DEF Workspace
<1> QED BY <1>1, CleanIsUnmoved DEF Moved

\* What rename does where it is prepared.
LEMMA RenameSays ==
  ASSUME NEW f, NEW line
  PROVE  LET key   == TargetLabel(DOMAIN saved, f, line)
             sites == NameSites(Index, key, TRUE)
             there == key # NoLabel /\ Target(Index, key) # NoSite /\ ~OnlyBazelKnows(Index, key)
         IN  /\ PrepareAt(Workspace, f, line) <=> there
             /\ RenameAt(Workspace, f, line).says = "edits" <=>
                   there /\ ~Moved(Workspace, sites, key.name)
             /\ RenameAt(Workspace, f, line).says = "edits" =>
                   /\ RenameAt(Workspace, f, line).edits = sites
                   /\ Renameable(Workspace, f, line) = key
             /\ RenameAt(Workspace, f, line).says # "edits" =>
                   RenameAt(Workspace, f, line).edits = {}
<1> DEFINE key == TargetLabel(DOMAIN saved, f, line)
           sites == NameSites(Index, key, TRUE)
           there == key # NoLabel /\ Target(Index, key) # NoSite /\ ~OnlyBazelKnows(Index, key)
           moved == Moved(Workspace, sites, key.name)
           found == Renameable(Workspace, f, line)
           rename == RenameAt(Workspace, f, line)
           prepared == PrepareAt(Workspace, f, line)
<1>1. Workspace.files = DOMAIN saved /\ Workspace.index = Index
  BY DEF Workspace
<1>2. found = IF key = NoLabel THEN NoLabel ELSE IF Target(Index, key) = NoSite THEN NoLabel ELSE key
  BY <1>1 DEF Renameable
<1>3. prepared <=> found # NoLabel /\ ~OnlyBazelKnows(Index, found)
  BY <1>1 DEF PrepareAt
<1>4. found = NoLabel => rename = Nothing
  BY DEF RenameAt
<1>5. found = key /\ key # NoLabel /\ (OnlyBazelKnows(Index, key) \/ moved) => rename = Refused
  BY <1>1 DEF RenameAt
<1>6. found = key /\ key # NoLabel /\ ~(OnlyBazelKnows(Index, key) \/ moved) =>
        rename = [says |-> "edits", edits |-> sites]
  BY <1>1 DEF RenameAt
<1> HIDE DEF found, key, sites, moved, rename, prepared
<1>7. prepared <=> there
  BY <1>2, <1>3
<1>8. there /\ ~moved => rename = [says |-> "edits", edits |-> sites] /\ found = key
  BY <1>2, <1>6
<1>9. ~(there /\ ~moved) => rename = Nothing \/ rename = Refused
  <2>1. found = NoLabel \/ (found = key /\ key # NoLabel /\ Target(Index, key) # NoSite)
    BY <1>2
  <2> QED BY <1>4, <1>5, <2>1
<1>10. ~(there /\ ~moved) => rename.says # "edits" /\ rename.edits = {}
  BY <1>9 DEF Nothing, Refused
<1>11. there /\ ~moved => rename.says = "edits" /\ rename.edits = sites /\ found = key
  BY <1>8
<1> HIDE DEF there
<1>12. /\ prepared <=> there
       /\ rename.says = "edits" <=> there /\ ~moved
       /\ rename.says = "edits" => rename.edits = sites /\ found = key
       /\ rename.says # "edits" => rename.edits = {}
  BY <1>7, <1>10, <1>11
<1> QED BY <1>12 DEF found, key, sites, moved, rename, prepared, there

\* Where nothing is unfinished, what is offered is done.
LEMMA PreparedIsDone ==
  ASSUME TargetsInv, NEW f, NEW line, PrepareAt(Workspace, f, line),
         \A s \in NameSites(Index, TargetLabel(DOMAIN saved, f, line), TRUE) :
            s.file \in DOMAIN open => s.file \in Clean
  PROVE  RenameAt(Workspace, f, line).says = "edits"
<1> DEFINE key == TargetLabel(DOMAIN saved, f, line)
<1>1. key # NoLabel /\ ~OnlyBazelKnows(Index, key)
  BY RenameSays
<1>2. ~Moved(Workspace, NameSites(Index, key, TRUE), key.name)
  BY <1>1, MovedNothing
<1> QED BY <1>2, RenameSays

-----------------------------------------------------------------------------
(* The requests agree. *)

\* A caret on a string the index reads, in an open BUILD file that is saved.
OnTarget(f, k) ==
    /\ f \in DOMAIN open /\ Settled(f)
    /\ k \in DOMAIN open[f].lines /\ Indexed(open[f].lines[k])

LEMMA CaretFile ==
  ASSUME TargetsInv, NEW f, NEW k, OnTarget(f, k)
  PROVE  /\ EnclosingPackage(DOMAIN saved, f) = f.dir /\ f.dir # NoDir
         /\ f \in Files /\ IsBuild(f)
         /\ \A line : Site(f, k, line) # NoSite
         /\ open[f].lines[k] \in Line
<1>1. f \in Files /\ IsBuild(f) /\ f \in DOMAIN saved /\ f \in DOMAIN open
  BY DEF OnTarget, Settled, TargetsInv, TextsOf
<1>2. f.dir \in Dirs /\ f.dir # NoDir
  BY <1>1, FilesAssumption, DirsAssumption
<1>3. NoSite.file.dir = NoDir
  BY DEF NoSite, Whole, File
<1>4. \A line : Site(f, k, line) # NoSite
  BY <1>2, <1>3, SiteFields
<1> QED BY <1>1, <1>2, <1>4, PackageIsDir, OpenLines DEF OnTarget

\* The label at the caret: that of the rule it names, or the one it mentions.
LEMMA CaretLabel ==
  ASSUME TargetsInv, NEW f, NEW k, OnTarget(f, k)
  PROVE  LET line == open[f].lines[k]
             key  == TargetLabel(DOMAIN saved, f, line)
         IN  /\ line.is = "name" => /\ RoleAt(f, line) = "TargetName"
                                    /\ key = Key(NoRepo, f.dir, line.raw.name)
             /\ line.is # "name" => /\ RoleAt(f, line) = "Label"
                                    /\ key = ParseLabel(line.raw, f.dir)
                                    /\ key = MentionsAt(f, open[f].lines, k)
<1> DEFINE line == open[f].lines[k]
<1>1. EnclosingPackage(DOMAIN saved, f) = f.dir /\ f.dir # NoDir /\ IsBuild(f)
  BY CaretFile
<1>2. line.is \in {"name", "label", "expansion"}
  BY DEF OnTarget, Indexed
<1>3. Kind[f.name] = "build"
  BY <1>1 DEF IsBuild
<1> HIDE DEF line
<1>4. CASE line.is = "name"
  <2>1. RoleAt(f, line) = "TargetName"
    BY <1>3, <1>4 DEF RoleAt
  <2> QED BY <1>1, <1>4, <2>1 DEF TargetLabel, line
<1>5. CASE line.is \in {"label", "expansion"}
  <2>1. RoleAt(f, line) = "Label"
    BY <1>5 DEF RoleAt
  <2>2. TargetLabel(DOMAIN saved, f, line) = ParseLabel(line.raw, f.dir)
    BY <1>1, <2>1 DEF TargetLabel
  <2>3. MentionsAt(f, open[f].lines, k) = ParseLabel(line.raw, f.dir)
    BY <1>5 DEF MentionsAt, line
  <2> QED BY <1>5, <2>1, <2>2, <2>3 DEF line
<1> QED BY <1>2, <1>4, <1>5 DEF line

\* The buffer's tier has the caret itself.
LEMMA CaretIsIndexed ==
  ASSUME OneBuildFile, NamesAreApart, TargetsInv, NEW f, NEW k, OnTarget(f, k)
  PROVE  LET line == open[f].lines[k]
             key  == TargetLabel(DOMAIN saved, f, line)
         IN  /\ line.is = "name" =>
                   /\ Target(Index, key) = Site(f, k, line)
                   /\ [key |-> key, site |-> Site(f, k, line)] \in Index.buffer.targets
             /\ key # NoLabel => Site(f, k, line) \in NameSites(Index, key, TRUE)
<1> DEFINE lines == open[f].lines
           line == lines[k]
           key == TargetLabel(DOMAIN saved, f, line)
<1>1. /\ f \in Files /\ f.dir # NoDir /\ IsBuild(f) /\ Site(f, k, line) # NoSite
      /\ f \in DOMAIN open /\ k \in DOMAIN lines /\ open[f] \in Contents[f]
  BY CaretFile, OpenLines DEF OnTarget
<1>2. CASE line.is = "name"
  <2>1. key = Key(NoRepo, f.dir, line.raw.name)
    BY <1>2, CaretLabel
  <2>2. Declaration(f, lines, k) \in Declares(f, lines)
    BY <1>1, <1>2, DeclaresAll
  <2>3. Declaration(f, lines, k) = [key |-> key, site |-> Site(f, k, line)]
    BY <2>1 DEF Declaration
  <2> DEFINE t == [key |-> key, site |-> Site(f, k, line)]
  <2>4. t \in Index.buffer.targets
    BY <1>1, <2>2, <2>3, CollectSays, IndexSays
  <2>5. Once(Index.buffer.targets)
    BY CollectOnce, IndexSays DEF TargetsInv
  <2>6. t.key = key /\ t.site = Site(f, k, line)
    OBVIOUS
  <2> HIDE DEF t
  <2>7. key \in Keys(Index.buffer) /\ SiteIn(Index.buffer, key) = Site(f, k, line)
    BY <2>4, <2>5, <2>6, SiteInSays
  <2>8. Target(Index, key) = Site(f, k, line)
    BY <2>7 DEF Target
  <2> QED BY <1>1, <2>4, <2>8 DEF NameSites, t
<1>3. CASE line.is # "name" /\ key # NoLabel
  <2>1. key = MentionsAt(f, lines, k)
    BY <1>3, CaretLabel
  <2>2. Mention(f, lines, k) \in Mentions(f, lines)
    BY <1>1, <1>3, <2>1, MentionsSays
  <2> DEFINE r == Mention(f, lines, k)
  <2>3. r \in Index.buffer.references
    BY <1>1, <2>2, CollectSays, IndexSays
  <2>4. r.key = key /\ r.site = Site(f, k, line)
    BY <2>1 DEF Mention
  <2>5. Site(f, k, line) \in References(Index, key)
    BY <2>3, <2>4, ReferencesSay
  <2> QED BY <1>3, <2>5 DEF NameSites
<1>4. CASE line.is # "name" /\ key = NoLabel
  BY <1>4
<1> QED BY <1>2, <1>3, <1>4

\* Where a label leads: the target it names, wherever that is asked.
LEMMA LabelAnswers ==
  ASSUME TargetsInv, NEW f, NEW k, OnTarget(f, k), open[f].lines[k].is # "name",
         TargetLabel(DOMAIN saved, f, open[f].lines[k]) # NoLabel
  PROVE  LET line == open[f].lines[k]
             key  == TargetLabel(DOMAIN saved, f, line)
             to   == DefinitionAt(Workspace, f, line)
             link == LinkAt(Workspace, f, line)
         IN  /\ key.repo = NoRepo /\ Target(Index, key) # NoSite => to = Target(Index, key)
             /\ link # NoSite => link = to
             /\ key.repo = NoRepo => HoverAt(Workspace, f, line) = to
             /\ HintAt(Workspace, f, line) # NoDir => Target(Index, key) # NoSite /\ key.repo = NoRepo
<1> DEFINE line  == open[f].lines[k]
           key   == TargetLabel(DOMAIN saved, f, line)
           to    == DefinitionAt(Workspace, f, line)
           link  == LinkAt(Workspace, f, line)
           hover == HoverAt(Workspace, f, line)
           hint  == HintAt(Workspace, f, line)
           tree  == Tree(Workspace, key)
           a     == Target(Index, key)
           b     == FileSite(Workspace, tree, key)
           c     == IF key.repo = NoRepo THEN NoSite ELSE PackageSite(Workspace, tree, key)
<1>1. Workspace.files = DOMAIN saved /\ Workspace.index = Index
  BY DEF Workspace
<1>2. EnclosingPackage(Workspace.files, f) = f.dir /\ f.dir # NoDir
  BY <1>1, CaretFile
<1>3. RoleAt(f, line) = "Label" /\ key = ParseLabel(line.raw, f.dir) /\ key # NoLabel
  BY CaretLabel
<1>4. key.repo = NoRepo => tree = Main /\ Main # NoDir
  BY DEF Tree, Main, NoDir
<1>5. to = IF tree = NoDir THEN NoSite ELSE FirstSite(<<a, b, c>>)
  <2> HIDE DEF key, line
  <2> QED BY <1>1, <1>2, <1>3 DEF DefinitionAt
<1>6. link # NoSite => link = IF tree = NoDir THEN NoSite ELSE FirstSite(<<a, b>>)
  <2> HIDE DEF key, line
  <2> QED BY <1>1, <1>2, <1>3 DEF LinkAt
<1>7. key.repo = NoRepo => hover = FirstSite(<<a, FileSite(Workspace, Main, key)>>)
  <2> HIDE DEF key, line
  <2> QED BY <1>1, <1>2, <1>3 DEF HoverAt
<1>8. hint # NoDir => line.raw.form \in {"bare", "colon"} /\ a # NoSite
  <2> HIDE DEF key, line
  <2> QED BY <1>1, <1>2, <1>3 DEF HintAt
<1>9. hint # NoDir => key.repo = NoRepo
  <2>1. line.raw.form \in {"bare", "colon"} => line.raw.repo = NoRepo
    BY CaretFile DEF Line
  <2>2. key.repo = IF line.raw.repo = "" THEN NoRepo ELSE line.raw.repo
    <3>1. ParseLabel(line.raw, f.dir) # NoLabel
      BY <1>3
    <3>2. ParseLabel(line.raw, f.dir).repo = IF line.raw.repo = "" THEN NoRepo ELSE line.raw.repo
      BY <3>1, ParseSays
    <3> HIDE DEF key, line
    <3> QED BY <1>3, <3>2
  <2> HIDE DEF key, line, hint
  <2> QED BY <1>8, <2>1, <2>2
<1> HIDE DEF line, key, to, link, hover, hint, tree, a, b, c
<1>10. FirstSite(<<a, b, c>>) = IF a # NoSite THEN a ELSE IF b # NoSite THEN b ELSE c
  BY FirstOfThree
<1>11. FirstSite(<<a, b>>) = IF a # NoSite THEN a ELSE b
  BY FirstOfTwo
<1>12. key.repo = NoRepo => c = NoSite /\ b = FileSite(Workspace, Main, key)
  BY <1>4 DEF b, c
<1>13. key.repo = NoRepo /\ a # NoSite => to = a
  BY <1>4, <1>5, <1>10
<1>14. link # NoSite => link = to
  BY <1>5, <1>6, <1>10, <1>11
<1>15. key.repo = NoRepo => hover = to
  BY <1>4, <1>5, <1>7, <1>10, <1>11, <1>12
<1> QED BY <1>8, <1>9, <1>13, <1>14, <1>15 DEF line, key, to, link, hover, hint, a

\* The card of a rule tells of it.
LEMMA NameAnswers ==
  ASSUME TargetsInv, NEW f, NEW k, OnTarget(f, k), open[f].lines[k].is = "name",
         TargetLabel(DOMAIN saved, f, open[f].lines[k]) # NoLabel
  PROVE  LET line == open[f].lines[k]
             key  == TargetLabel(DOMAIN saved, f, line)
         IN  HoverAt(Workspace, f, line) = Target(Index, key)
<1> DEFINE line  == open[f].lines[k]
           key   == TargetLabel(DOMAIN saved, f, line)
<1>1. Workspace.files = DOMAIN saved /\ Workspace.index = Index
  BY DEF Workspace
<1>2. RoleAt(f, line) = "TargetName" /\ key = Key(NoRepo, f.dir, line.raw.name) /\ key # NoLabel
  BY CaretLabel
<1>3. key.repo = NoRepo
  BY <1>2, KeyFields
<1> HIDE DEF line
<1>4. key = TargetLabel(Workspace.files, f, line)
  BY <1>1
<1> HIDE DEF key
<1> QED BY <1>1, <1>2, <1>3, <1>4 DEF HoverAt, key, line

\* The code lenses of an open BUILD file are of targets that are listed.
LEMMA LensesAreListed ==
  ASSUME OneBuildFile, NamesAreApart, TargetsInv, NEW f, NEW k, OnTarget(f, k)
  PROVE  Lenses(Workspace, f, open[f].lines) \subseteq {t.key : t \in AllTargets(Index)}
<1> DEFINE lines == open[f].lines
<1>1. EnclosingPackage(Workspace.files, f) = f.dir
  BY CaretFile DEF Workspace
<1> SUFFICES ASSUME NEW lens \in Lenses(Workspace, f, lines)
             PROVE  \E t \in AllTargets(Index) : t.key = lens
  OBVIOUS
<1>2. PICK j \in DOMAIN lines : lines[j].is = "name" /\ lens = Key(NoRepo, f.dir, lines[j].raw.name)
  BY <1>1 DEF Lenses
<1>3. OnTarget(f, j)
  BY <1>2 DEF OnTarget, Indexed
<1>4. lens = TargetLabel(DOMAIN saved, f, lines[j])
  BY <1>2, <1>3, CaretLabel
<1>5. [key |-> lens, site |-> Site(f, j, lines[j])] \in Index.buffer.targets
  BY <1>2, <1>3, <1>4, CaretIsIndexed
<1> QED BY <1>5, ListedSays

LEMMA CaretInv ==
  ASSUME OneBuildFile, NamesAreApart, TargetsInv
  PROVE  CaretIsAmongItsAnswers
<1> SUFFICES ASSUME NEW f, NEW k, OnTarget(f, k),
                    TargetLabel(DOMAIN saved, f, open[f].lines[k]) # NoLabel
             PROVE
        LET line  == open[f].lines[k]
            key   == TargetLabel(Workspace.files, f, line)
            all   == ReferencesAt(Workspace, f, line, TRUE)
            to    == DefinitionAt(Workspace, f, line)
            edits == RenameAt(Workspace, f, line)
        IN    /\ Site(f, k, line) \in all
              /\ HighlightsAt(Workspace, f, line) = {s \in all : s.file = f}
              /\ Target(Index, key) # NoSite /\ line.is # "name" /\ key.repo = NoRepo => to \in all
              /\ HintAt(Workspace, f, line) # NoDir => to \in all \/ line.is = "name"
              /\ line.is # "name" /\ LinkAt(Workspace, f, line) # NoSite => LinkAt(Workspace, f, line) = to
              /\ key.repo = NoRepo => HoverAt(Workspace, f, line) \in
                    IF line.is = "name" THEN all ELSE {to}
              /\ edits.says = "edits" => edits.edits = all /\ PrepareAt(Workspace, f, line)
              /\ PrepareAt(Workspace, f, line) =>
                    edits.says = "edits" \/ \E s \in all : s.file \in DOMAIN open \ Clean
              /\ Lenses(Workspace, f, open[f].lines) \subseteq {t.key : t \in AllTargets(Index)}
  <2>1. Workspace.files = DOMAIN saved
    BY DEF Workspace
  <2> QED BY <2>1, ZenonT(60) DEF CaretIsAmongItsAnswers, OnTarget
<1> DEFINE line  == open[f].lines[k]
           key   == TargetLabel(DOMAIN saved, f, line)
           all   == NameSites(Index, key, TRUE)
           to    == DefinitionAt(Workspace, f, line)
           edits == RenameAt(Workspace, f, line)
           link  == LinkAt(Workspace, f, line)
           hover == HoverAt(Workspace, f, line)
           hint  == HintAt(Workspace, f, line)
           prepared == PrepareAt(Workspace, f, line)
           target == Target(Index, key)
<1>1. Workspace.files = DOMAIN saved /\ Workspace.index = Index
  BY DEF Workspace
<1>2. ReferencesAt(Workspace, f, line, TRUE) = all
  BY <1>1 DEF ReferencesAt
<1>3. HighlightsAt(Workspace, f, line) = {s \in all : s.file = f}
  BY <1>1 DEF HighlightsAt
<1>4. Site(f, k, line) \in all
  BY CaretIsIndexed
<1>5. target # NoSite => target \in all
  BY DEF NameSites
<1>6. line.is # "name" =>
        /\ key.repo = NoRepo /\ target # NoSite => to = target
        /\ link # NoSite => link = to
        /\ key.repo = NoRepo => hover = to
        /\ hint # NoDir => target # NoSite /\ key.repo = NoRepo
  BY LabelAnswers
<1>7. line.is = "name" => hover = target /\ target # NoSite
  <2> SUFFICES ASSUME line.is = "name" PROVE hover = target /\ target # NoSite
    OBVIOUS
  <2>1. hover = target
    BY NameAnswers
  <2>2. target = Site(f, k, line)
    BY CaretIsIndexed
  <2>3. Site(f, k, line) # NoSite
    BY CaretFile
  <2> HIDE DEF hover, target, line
  <2> QED BY <2>1, <2>2, <2>3
<1>8. edits.says = "edits" => edits.edits = all /\ prepared
  BY RenameSays
<1>9. prepared => edits.says = "edits" \/ \E s \in all : s.file \in DOMAIN open \ Clean
  <2> SUFFICES ASSUME prepared, \A s \in all : s.file \in DOMAIN open => s.file \in Clean
               PROVE  edits.says = "edits"
    OBVIOUS
  <2> QED BY PreparedIsDone
<1>10. Lenses(Workspace, f, open[f].lines) \subseteq {t.key : t \in AllTargets(Index)}
  BY LensesAreListed
<1> HIDE DEF line, key, all, to, edits, link, hover, hint, prepared, target
<1>11. /\ target # NoSite /\ line.is # "name" /\ key.repo = NoRepo => to \in all
       /\ hint # NoDir => to \in all \/ line.is = "name"
       /\ line.is # "name" /\ link # NoSite => link = to
       /\ key.repo = NoRepo => hover \in IF line.is = "name" THEN all ELSE {to}
  BY <1>5, <1>6, <1>7
<1> QED BY <1>1, <1>2, <1>3, <1>4, <1>8, <1>9, <1>10, <1>11
        DEF line, key, all, to, edits, link, hover, hint, prepared, target

\* The requests agree on a target wherever its name is written, in every
\* workspace and however stale the tiers are (name_sites, definition,
\* document_link, hover, inlay_hint, code_lens and rename under
\* src/src/handlers).
THEOREM TheRequestsAgree == OneBuildFile /\ NamesAreApart => (Spec => []CaretIsAmongItsAnswers)
<1> SUFFICES ASSUME OneBuildFile, NamesAreApart PROVE Spec => []CaretIsAmongItsAnswers
  OBVIOUS
<1>1. TargetsInv => CaretIsAmongItsAnswers
  BY CaretInv
<1> QED BY <1>1, InvAlways, PTL

-----------------------------------------------------------------------------
(* Rename. *)

\* Bazel reads a plain label as the index does.
LEMMA MeaningSays ==
  ASSUME NEW f, NEW line,
         line.raw.repo = NoRepo \/ Locate(known.repos, line.raw.repo) # Main
  PROVE  Meaning(f, line) = ParseLabel(line.raw, f.dir)
<1> DEFINE key == ParseLabel(line.raw, f.dir)
<1>1. CASE key = NoLabel
  <2> HIDE DEF key
  <2> QED BY <1>1 DEF Meaning, key
<1>2. CASE key # NoLabel
  <2>1. key.repo = IF line.raw.repo = "" THEN NoRepo ELSE line.raw.repo
    BY <1>2, ParseSays
  <2>2. key.repo = NoRepo \/ Locate(known.repos, key.repo) # Main
    <3> HIDE DEF key
    <3> QED BY <2>1
  <2>3. key.repo = NoRepo => [key EXCEPT !.repo = NoRepo] = key
    <3>1. PICK r, p, n : key = [repo |-> r, package |-> p, name |-> n]
      BY <1>2 DEF ParseLabel, Key
    <3> HIDE DEF key
    <3> QED BY <3>1
  <2> HIDE DEF key
  <2>4. Meaning(f, line) = IF Locate(known.repos, key.repo) = Main THEN [key EXCEPT !.repo = NoRepo] ELSE key
    BY <1>2 DEF Meaning, key
  <2> QED BY <2>2, <2>3, <2>4 DEF key
<1> QED BY <1>1, <1>2

\* A name is read as a label for the rule it names.
LEMMA NameIsRead ==
  ASSUME NamesAreApart, NEW g \in Files, g.dir # NoDir, NEW x \in Contents[g],
         NEW j \in DOMAIN x.lines, x.lines[j].is = "name"
  PROVE  ParseLabel(x.lines[j].raw, g.dir) = Key(NoRepo, g.dir, x.lines[j].raw.name)
<1> DEFINE raw == x.lines[j].raw
<1>1. x.lines[j] \in Line
  BY FilesAssumption
<1>2. raw.form = "bare" /\ raw.repo = NoRepo
  BY <1>1 DEF Line
<1>3. raw.name \notin {"", "all"}
  BY DEF NamesAreApart
<1> HIDE DEF raw
<1> QED BY <1>2, <1>3 DEF ParseLabel, NameOf, raw, NoRepo

\* What rename rewrites, where every buffer is finished and the watch has caught
\* up, are the plain strings that are read as the target.
LEMMA EditsAreTheMeant ==
  ASSUME OneBuildFile, NamesAreApart, TargetsInv, Current, DOMAIN open = Clean,
         NEW key, key # NoLabel, ~OnlyBazelKnows(Index, key),
         NEW g \in DOMAIN Overlay(DOMAIN open), IsBuild(g),
         NEW j \in DOMAIN Overlay(DOMAIN open)[g].lines, Indexed(Overlay(DOMAIN open)[g].lines[j])
  PROVE  LET line == Overlay(DOMAIN open)[g].lines[j]
         IN  Site(g, j, line) \in NameSites(Index, key, TRUE) <=> ParseLabel(line.raw, g.dir) = key
<1> DEFINE texts == Overlay(DOMAIN open)
           lines == texts[g].lines
           line  == lines[j]
           read  == ParseLabel(line.raw, g.dir)
           here  == Site(g, j, line)
<1>0. /\ g \in DOMAIN texts /\ j \in DOMAIN lines /\ Indexed(line)
      /\ texts = Overlay(Clean)
  OBVIOUS
<1>1. TextsOf(texts)
  BY OverlaySays
<1> HIDE DEF texts
<1>2. g \in Files /\ texts[g] \in Contents[g]
  BY <1>0, <1>1 DEF TextsOf
<1>3. g.dir \in Dirs /\ g.dir # NoDir
  BY <1>2, FilesAssumption, DirsAssumption
<1>4. here # NoSite
  <2>1. NoSite.file.dir = NoDir
    BY DEF NoSite, Whole, File
  <2> QED BY <1>3, <2>1, SiteFields
<1>5. line.is \in {"name", "label", "expansion"}
  BY <1>0 DEF Indexed
<1>6. line.is = "name" => read = Key(NoRepo, g.dir, line.raw.name)
  BY <1>0, <1>2, <1>3, NameIsRead
<1>7. line.is # "name" => MentionsAt(g, lines, j) = read
  <2> HIDE DEF line
  <2>1. MentionsAt(g, lines, j) = IF line.is \in {"label", "expansion"} THEN ParseLabel(line.raw, g.dir) ELSE NoLabel
    BY DEF MentionsAt, line
  <2> QED BY <1>5, <2>1
<1>8. SavingIsForeseen
  BY ForeseenInv
<1>9. ASSUME read = key PROVE here \in NameSites(Index, key, TRUE)
  <2>1. CASE line.is = "name"
    <3>1. Declaration(g, lines, j) \in Declares(g, lines)
      BY <1>0, <1>2, <1>3, <2>1, DeclaresAll
    <3> DEFINE t == Declaration(g, lines, j)
    <3>2. t \in Collect(texts).targets
      BY <1>0, <3>1, CollectSays
    <3>3. t.key = key /\ t.site = here
      BY <1>6, <1>9, <2>1 DEF Declaration
    <3> HIDE DEF t
    <3>4. t \in AllTargets(Index)
      BY <1>0, <1>8, <3>2 DEF SavingIsForeseen
    <3>5. Target(Index, key) = here
      BY <3>3, <3>4, ListedIsFound
    <3> HIDE DEF here
    <3> QED BY <1>4, <3>5 DEF NameSites
  <2>2. CASE line.is # "name"
    <3>1. Mention(g, lines, j) \in Mentions(g, lines)
      BY <1>0, <1>7, <1>9, <2>2, MentionsSays
    <3> DEFINE r == Mention(g, lines, j)
    <3>2. r \in Collect(texts).references
      BY <1>0, <3>1, CollectSays
    <3>3. r.key = key /\ r.site = here
      BY <1>7, <1>9, <2>2 DEF Mention
    <3> HIDE DEF r
    <3>4. r.site \in References(Index, r.key)
      BY <1>0, <1>8, <3>2 DEF SavingIsForeseen
    <3> QED BY <3>3, <3>4 DEF NameSites
  <2> QED BY <2>1, <2>2
<1>10. ASSUME here \in NameSites(Index, key, TRUE) PROVE read = key
  <2>1. CASE here \in References(Index, key)
    <3>1. PICK r : /\ r.key = key /\ r.site = here
                   /\ \/ r \in Index.buffer.references
                      \/ r \in disk.references /\ ~Covered(Index, here.file)
      BY <2>1, ReferencesSay
    <3>2. r \in Collect(texts).references
      BY <1>0, <3>1, IndexedIsSure
    <3>3. PICK h \in DOMAIN texts : IsBuild(h) /\ r \in Mentions(h, texts[h].lines)
      BY <3>2, CollectSays
    <3>4. PICK i \in DOMAIN texts[h].lines :
            MentionsAt(h, texts[h].lines, i) # NoLabel /\ r = Mention(h, texts[h].lines, i)
      BY <3>3, MentionsSays
    <3>5. Site(h, i, texts[h].lines[i]) = here /\ MentionsAt(h, texts[h].lines, i) = key
      BY <3>1, <3>4 DEF Mention
    <3>6. h = g /\ i = j
      BY <3>5, SiteFields
    <3>7. MentionsAt(g, lines, j) = key
      BY <3>5, <3>6
    <3>8. line.is # "name"
      BY <3>7 DEF MentionsAt
    <3> QED BY <1>7, <3>7, <3>8
  <2>2. CASE here = Target(Index, key)
    <3>1. \/ \E t \in Index.buffer.targets : t.key = key /\ t.site = here
          \/ \E t \in disk.targets : t.key = key /\ t.site = here /\ ~Covered(Index, t.site.file)
      <4> HIDE DEF here
      <4> QED BY <1>4, <2>2, FoundSomewhere
    <3>2. PICK t \in Collect(texts).targets : t.key = key /\ t.site = here
      BY <1>0, <3>1, IndexedIsSure
    <3>3. PICK h \in DOMAIN texts : IsBuild(h) /\ t \in Declares(h, texts[h].lines)
      BY CollectSays
    <3>4. PICK i \in DOMAIN texts[h].lines :
            texts[h].lines[i].is = "name" /\ t = Declaration(h, texts[h].lines, i)
      BY <3>3, DeclaresSays
    <3>5. /\ Site(h, i, texts[h].lines[i]) = here
          /\ Key(NoRepo, h.dir, texts[h].lines[i].raw.name) = key
      BY <3>2, <3>4 DEF Declaration
    <3>6. h = g /\ i = j
      BY <3>5, SiteFields
    <3> QED BY <1>6, <3>4, <3>5, <3>6
  <2> QED BY <1>10, <2>1, <2>2 DEF NameSites
<1> QED BY <1>9, <1>10 DEF texts

\* A label with another name is the label for another target.
LEMMA RenamedIsRead ==
  ASSUME NEW raw \in Label, raw.form # "shorthand", NEW package, ParseLabel(raw, package) # NoLabel
  PROVE  ParseLabel([raw EXCEPT !.name = Fresh], package) =
            [ParseLabel(raw, package) EXCEPT !.name = Fresh]
<1> DEFINE new == [raw EXCEPT !.name = Fresh]
           in  == IF raw.form \in {"bare", "colon"} THEN package ELSE raw.package
           repo == IF raw.repo = "" THEN NoRepo ELSE raw.repo
<1>1. new.form = raw.form /\ new.repo = raw.repo /\ new.package = raw.package /\ new.name = Fresh
  BY DEF Label
<1>2. in # NoDir /\ ParseLabel(raw, package) = Key(repo, in, raw.name)
  BY DEF ParseLabel, NameOf
<1>3. NameOf(new) = Fresh
  BY <1>1 DEF NameOf
<1> HIDE DEF new
<1>4. ParseLabel(new, package) = Key(repo, in, Fresh)
  BY <1>1, <1>2, <1>3, FreshAssumption DEF ParseLabel
<1> HIDE DEF in, repo
<1>5. [Key(repo, in, raw.name) EXCEPT !.name = Fresh] = Key(repo, in, Fresh)
  BY DEF Key
<1> QED BY <1>2, <1>4, <1>5 DEF new

\* What is read in one string after a rename at another.
KeptAt(f, k, g, j) ==
    LET key   == Renameable(Workspace, f, open[f].lines[k])
        lines == Overlay(DOMAIN open)[g].lines
        new   == Renamed(g, lines, RenameAt(Workspace, f, open[f].lines[k]).edits)
        was   == Meaning(g, lines[j])
    IN  Meaning(g, new[j]) = After(key, was)

\* The build is kept, whatever is renamed.
LEMMA RenameKeepsPlain ==
  ASSUME OneBuildFile, NamesAreApart, TargetsInv, Current, Clean = DOMAIN open
  PROVE  RenameKeeps(Plain)
<1> SUFFICES ASSUME NEW f, NEW k, f \in DOMAIN open, k \in DOMAIN open[f].lines,
                    RenameAt(Workspace, f, open[f].lines[k]).says = "edits",
                    NEW g \in DOMAIN Overlay(DOMAIN open), IsBuild(g),
                    NEW j \in DOMAIN Overlay(DOMAIN open)[g].lines,
                    Plain(Overlay(DOMAIN open)[g].lines[j])
             PROVE  KeptAt(f, k, g, j)
  BY DEF RenameKeeps, KeptAt
<1> DEFINE line  == open[f].lines[k]
           key   == Renameable(Workspace, f, line)
           edits == RenameAt(Workspace, f, line).edits
           texts == Overlay(DOMAIN open)
           lines == texts[g].lines
           old   == lines[j]
           new   == Renamed(g, lines, edits)[j]
           was   == Meaning(g, old)
<1>1. /\ key = TargetLabel(DOMAIN saved, f, line)
      /\ key # NoLabel /\ ~OnlyBazelKnows(Index, key) /\ edits = NameSites(Index, key, TRUE)
  <2> DEFINE label == TargetLabel(DOMAIN saved, f, line)
  <2>1. label # NoLabel /\ ~OnlyBazelKnows(Index, label)
    BY RenameSays
  <2>2. edits = NameSites(Index, label, TRUE) /\ key = label
    BY RenameSays
  <2> HIDE DEF edits, key
  <2> QED BY <2>1, <2>2
<1>0. /\ g \in DOMAIN texts /\ j \in DOMAIN lines /\ Plain(old)
      /\ texts = Overlay(Clean)
  OBVIOUS
<1>2. old \in Line
  <2>1. TextsOf(texts)
    BY OverlaySays
  <2>2. g \in Files /\ texts[g] \in Contents[g]
    BY <2>1 DEF TextsOf
  <2> HIDE DEF texts
  <2>3. lines \in Seq(Line)
    BY <2>2, FilesAssumption
  <2> QED BY <1>0, <2>3
<1>3. /\ Indexed(old) /\ old.raw.form # "shorthand"
      /\ old.raw.repo = NoRepo \/ Locate(known.repos, old.raw.repo) # Main
  BY DEF Plain
<1>4. was = ParseLabel(old.raw, g.dir)
  <2> HIDE DEF old
  <2> QED BY <1>3, MeaningSays
<1>5. Site(g, j, old) \in edits <=> was = key
  <2>1. Site(g, j, old) \in NameSites(Index, key, TRUE) <=> ParseLabel(old.raw, g.dir) = key
    <3> HIDE DEF key
    <3> QED BY <1>1, <1>3, EditsAreTheMeant
  <2> HIDE DEF key, edits, was, old
  <2> QED BY <1>1, <1>4, <2>1
<1>6. new = IF Site(g, j, old) \notin edits THEN old ELSE [old EXCEPT !.raw.name = Fresh]
  <2> HIDE DEF edits, texts
  <2> QED BY <1>0, <1>3 DEF Renamed
<1> HIDE DEF line, key, edits, texts, lines, old, new, was
<1>7. CASE was # key
  <2>1. new = old
    BY <1>5, <1>6, <1>7
  <2> QED BY <1>7, <2>1 DEF KeptAt, After, line, key, edits, texts, lines, old, new, was
<1>8. CASE was = key
  <2> DEFINE raw == [old.raw EXCEPT !.name = Fresh]
  <2>1. old.raw \in Label /\ old \in [is : {"name", "label", "expansion", "free", "module", "symbol"},
                                      raw : Label, of : Label]
    BY <1>2 DEF Line
  <2>2. new.raw = raw
    BY <1>5, <1>6, <1>8, <2>1
  <2>3. raw.repo = old.raw.repo
    BY <2>1 DEF Label
  <2>4. Meaning(g, new) = ParseLabel(raw, g.dir)
    BY <1>3, <2>2, <2>3, MeaningSays
  <2>5. ParseLabel(raw, g.dir) = [ParseLabel(old.raw, g.dir) EXCEPT !.name = Fresh]
    BY <1>1, <1>3, <1>4, <1>8, <2>1, RenamedIsRead
  <2>6. Meaning(g, new) = [key EXCEPT !.name = Fresh]
    BY <1>4, <1>8, <2>4, <2>5
  <2> QED BY <1>8, <2>6 DEF KeptAt, After, line, key, edits, texts, lines, old, new, was
<1> QED BY <1>7, <1>8

LEMMA RenameInv ==
  ASSUME OneBuildFile, NamesAreApart, TargetsInv
  PROVE  RenameKeepsTheBuild
<1>1. Current /\ Clean = DOMAIN open => RenameKeeps(Plain)
  BY RenameKeepsPlain
<1>2. ASSUME NEW f \in DOMAIN open, NEW k \in DOMAIN open[f].lines,
             Clean = DOMAIN open, PrepareAt(Workspace, f, open[f].lines[k])
      PROVE  RenameAt(Workspace, f, open[f].lines[k]).says = "edits"
  BY <1>2, PreparedIsDone
<1>3. ASSUME NEW f \in DOMAIN open, NEW k \in DOMAIN open[f].lines,
             NEW e \in RenameAt(Workspace, f, open[f].lines[k]).edits, e.file \in DOMAIN open
      PROVE  /\ e.line \in DOMAIN open[e.file].lines
             /\ NameOf(open[e.file].lines[e.line].raw) =
                   TargetLabel(DOMAIN saved, f, open[f].lines[k]).name
  <2> DEFINE line == open[f].lines[k]
             key  == TargetLabel(DOMAIN saved, f, line)
             all  == NameSites(Index, key, TRUE)
  <2>1. RenameAt(Workspace, f, line).says = "edits"
    BY <1>3, RenameSays
  <2>2. RenameAt(Workspace, f, line).edits = all /\ ~Moved(Workspace, all, key.name)
    BY <2>1, RenameSays
  <2>3. Workspace.open = open
    BY DEF Workspace
  <2> HIDE DEF key, all
  <2>4. e \in all
    BY <1>3, <2>2
  <2> HIDE DEF line
  <2> QED BY <1>3, <2>2, <2>3, <2>4 DEF Moved, key, line
<1>4. Workspace.files = DOMAIN saved
  BY DEF Workspace
<1> QED BY <1>1, <1>2, <1>3, <1>4 DEF RenameKeepsTheBuild

\* A rename changes what Bazel reads in the labels of one target and in no
\* other, in open files and in closed ones; it is done where it is offered, and
\* never writes over another name in an open document (rename and
\* first_moved_site of src/src/handlers/rename.rs).
THEOREM RenamingKeepsTheBuild ==
  OneBuildFile /\ NamesAreApart => (Spec => []RenameKeepsTheBuild)
<1> SUFFICES ASSUME OneBuildFile, NamesAreApart PROVE Spec => []RenameKeepsTheBuild
  OBVIOUS
<1>1. TargetsInv => RenameKeepsTheBuild
  BY RenameInv
<1> QED BY <1>1, InvAlways, PTL
=============================================================================
