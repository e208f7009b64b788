---------------------------- MODULE WatchProofs ----------------------------
(***************************************************************************)
(* Theorems about the workspace watch, for every workspace and any number  *)
(* of edits.                                                               *)
(*                                                                         *)
(* The argument is the same for every tier.  Until a tier is brought up to *)
(* date with a file, its rebuilding is owed: an event that tells of it is  *)
(* with the watcher or in the callback, or what the event reaches is in    *)
(* the queue or in the hand of the thread, which has not begun the tier.   *)
(* A change makes it owed, no step forgets it, and only the beginning of   *)
(* the tier ends it, from where the files are read as they then are.       *)
(***************************************************************************)
EXTENDS Watch, TLAPS

(* What the theorems assume of a workspace.                                *)

\* Directories stay where they are: where one is moved out, its event asks the
\* file system for a directory that is gone, and reaches nothing.
NothingIsMoved == MaxMoves = 0

\* The .bazelignore does not ignore itself: its own events would be dropped.
IgnoreListIsSeen == \A t \in Texts[Bazelignore] : Bazelignore \notin t.ignores

\* A label names the package of its file, so that different BUILD files declare
\* different labels.
LabelsAreApart ==
    \A f, g \in Build : f # g =>
        \A s \in Texts[f], t \in Texts[g] : s.declares \cap t.declares = {}

\* The .bazelrc of the workspace and whatever a file may import are named
\* *.bazelrc, and no walk leaves them out.
Imported == {Rc} \cup UNION {UNION {t.imports : t \in Texts[f]} : f \in Files}

ImportsAreSeen ==
    /\ Imported \subseteq RcNamed \ Excluded
    /\ \A t \in Texts[Bazelignore] : t.ignores \cap Imported = {}

-----------------------------------------------------------------------------
(* What is owed. *)

\* r brings tier k up to date with file f.
Covers(r, f, k) == k \in r.tiers \/ (k = "index" /\ f \in r.files)

\* What file f is to tier k.
Matters(f, k) ==
    CASE k = "index"         -> f \in Build
      [] k = "graph"         -> f \in Build \cup Loads \cup RcNamed
      [] k = "configuration" -> f \in RcNamed
      [] k = "candidates"    -> f \in Files

\* Event e will be found to reach tier k of file f, if it is looked at now.
Tells(e, f, k) ==
    \/ e.kind = "rescan"
    \/ Bazelignore \in e.paths
    \/ /\ f \in e.paths \cap Visible(disk)
       /\ Matters(f, k)
       /\ k = "candidates" => ChangesFileSet(e)

\* The steps of the thread at which it has not begun tier k.
Before(k) ==
    CASE k = "index"         -> {"settle", "index"}
      [] k = "configuration" -> {"settle", "index", "read", "configure"}
      [] k = "candidates"    -> {"settle", "index", "read", "configure"}
      [] k = "graph"         -> {"settle", "index", "read", "configure", "walk", "visit",
                                 "wake", "refresh"}

Owed(f, k) ==
    \/ \E i \in DOMAIN raw : Tells(raw[i], f, k)
    \/ call.at = "loaded" /\ Tells(call.event, f, k)
    \/ call.at = "classified" /\ Covers(call.reaches, f, k)
    \/ Covers(queue.pending, f, k)
    \/ pc \in Before(k) /\ Covers(reaches, f, k)

-----------------------------------------------------------------------------
(* The invariants. *)

Steps == {"establish", "recv", "settle", "index", "read", "configure", "walk", "visit",
          "wake", "refresh", "stopped"}

WatchInv ==
    /\ disk \in Disk /\ watching \in BOOLEAN /\ moves = 0
    /\ raw \in Seq(Event) /\ rx \in Seq({"fs", "manual", "stop"})
    /\ call = [at |-> call.at, event |-> call.event, sites |-> call.sites,
               reaches |-> call.reaches]
    /\ call.at \in {"idle", "loaded", "classified"}
    /\ \A r \in {call.reaches, queue.pending, reaches} : r.files \subseteq Build \ Excluded
    /\ pc \in Steps
    /\ pc = "establish" => reaches = Initial
    /\ watching => pc \notin {"establish", "stopped"}
    /\ queue.queued \in BOOLEAN
    /\ ~queue.queued => queue.pending = Nothing
    /\ queue.queued => \E i \in DOMAIN rx : rx[i] = "fs"

GraphInv ==
    /\ watching => \A f \in stale \cap (Build \cup Loads \cup RcNamed) \cap Visible(disk) :
                       Owed(f, "graph")
    /\ ~watching => pc = "stopped" \/ stale = {}

(* The static index *)

TierOf(t) ==
    /\ t.files \subseteq Build
    /\ \A l \in DOMAIN t.targets : t.targets[l].file \in Build
    /\ \A r \in t.references : r.file \in Build

TargetsOf(t, f)    == {l \in DOMAIN t.targets : t.targets[l].file = f}
ReferencesOf(t, f) == {r \in t.references : r.file = f}

\* Tier t says of file f what the text x says.
Says(t, f, x) ==
    IF x = Absent
    THEN f \notin t.files /\ TargetsOf(t, f) = {} /\ ReferencesOf(t, f) = {}
    ELSE /\ f \in t.files
         /\ TargetsOf(t, f) = x.declares
         /\ \A l \in x.declares : t.targets[l].text = x
         /\ ReferencesOf(t, f) = {[label |-> l, file |-> f, text |-> x] : l \in x.mentions}

\* What the tier ought to say of file f.
Due(f) == IF f \in Visible(disk) THEN disk[f] ELSE Absent

\* The steps that have to do with the index.
IndexSteps == BeginIndex \/ StoreIndex \/ \E f \in Files : ReadBuild(f)

IndexShapes ==
    /\ TierOf(index)
    /\ pc = "read" => /\ TierOf(tier)
                      /\ unread \subseteq Build
                      /\ \A f \in unread : Says(tier, f, Absent)

\* File f has been read, or will be as it is.
Known(f) ==
    IF pc = "read" THEN \/ f \in unread \cap Visible(disk)
                        \/ f \notin unread /\ Says(tier, f, Due(f))
                   ELSE Says(index, f, Due(f))

IndexInv ==
    /\ IndexShapes
    /\ watching => \A f \in Build : Owed(f, "index") \/ Known(f)

(* The bazelrc graph *)

Listed(f) == f \in Visible(disk) /\ disk[f] # Absent

\* The steps that have to do with the configuration.
ConfigurationSteps ==
    BeginConfiguration \/ WalkEnds \/ StoreConfiguration \/ \E f \in Files : Walk(f) \/ Visit(f)

FoundShapes ==
    /\ configuration.candidates \subseteq Files
    /\ pc \in {"walk", "visit"} => found \subseteq Files
    /\ pc = "walk" => unread \subseteq Files

FoundSoFar(f) ==
    IF pc = "walk" THEN \/ f \in (unread \cap Visible(disk)) \ found
                        \/ f \notin unread /\ (f \in found <=> Listed(f))
    ELSE IF pc = "visit" THEN f \in found <=> Listed(f)
    ELSE f \in configuration.candidates <=> Listed(f)

CandidatesInv ==
    /\ FoundShapes
    /\ watching => \A f \in Files : Owed(f, "candidates") \/ FoundSoFar(f)

SitesOf(m) == UNION {m[f].imports : f \in DOMAIN m}

\* The files of m are those .bazelrc reaches, but for those still to be visited.
Reachable(m, more) ==
    /\ DOMAIN m \subseteq {Rc} \cup SitesOf(m)
    /\ more \subseteq ({Rc} \cup SitesOf(m)) \ DOMAIN m
    /\ \A f \in DOMAIN m : f \in Files /\ m[f] \in Texts[f]

Follows(m, more) ==
    /\ \A f \in DOMAIN m : Owed(f, "configuration") \/ m[f] = disk[f]
    /\ \A f \in {Rc} \cup SitesOf(m) :
          f \in DOMAIN m \cup more \/ Owed(f, "configuration") \/ disk[f] = Absent

Heeded ==
    \/ pc = "walk"
    \/ pc = "visit" /\ Follows(members, unread)
    \/ pc # "visit" /\ Follows(configuration.members, {})

MembersInv ==
    /\ Reachable(configuration.members, {})
    /\ pc = "walk" => members = NoConfiguration.members
    /\ pc = "visit" => Reachable(members, unread)
    /\ watching => Heeded

-----------------------------------------------------------------------------
(* The wake follows the store. *)

\* While the semantic wake is not given the thread is at it, and nothing else
\* publishes a configuration (Watcher::rebuild).
THEOREM EveryStoreIsSeen == Spec => []WakeFollowsStore
<1>1. Init => WakeFollowsStore
  BY DEF Init, WakeFollowsStore
<1>2. WakeFollowsStore /\ [Next]_vars => WakeFollowsStore'
  <2> SUFFICES ASSUME WakeFollowsStore, [Next]_vars
               PROVE  WakeFollowsStore'
    OBVIOUS
  <2> USE DEF WakeFollowsStore
  <2>1. CASE UNCHANGED vars \/ Joined
    BY <2>1 DEF vars, published, seen, Joined
  <2>2. CASE Edit \/ Callback \/ Reindex \/ DropWatch
    BY <2>2 DEF Edit, Write, Rename, MoveIn, MoveOut, Replace, Report, Callback, Load, Classify,
                Enqueue, Reindex, DropWatch, published, seen
  <2>3. CASE TakeWake
    BY <2>3 DEF TakeWake
  <2>4. CASE Settle \/ Expire \/ \E ok \in BOOLEAN : Establish(ok)
    BY <2>4 DEF Settle, Receive, ReceiveMore, ReceiveStop, Expire, Tick, Waits, Timeout,
                Establish, published, seen
  <2>5. CASE Rebuild
    BY <2>5 DEF Rebuild, BeginIndex, StoreIndex, BeginConfiguration, WalkEnds, StoreConfiguration,
                SemanticWake, AskBazel, ReadBuild, Walk, Visit, published, seen
  <2> QED BY <2>1, <2>2, <2>3, <2>4, <2>5 DEF Next, Thread
<1> QED BY <1>1, <1>2, PTL DEF Spec

-----------------------------------------------------------------------------
(* What a change reaches. *)

LEMMA WithCovers ==
  ASSUME NEW a, NEW b, NEW f, NEW k, Covers(a, f, k) \/ Covers(b, f, k)
  PROVE  Covers(With(a, b), f, k)
BY DEF Covers, With

LEMMA WithFiles ==
  ASSUME NEW a, NEW b, NEW S, a.files \subseteq S, b.files \subseteq S
  PROVE  With(a, b).files \subseteq S
BY DEF With

LEMMA BothCovers ==
  /\ \A f, k : k \in Tiers => Covers(Both, f, k)
  /\ \A f, k : k \in Tiers \ {"graph"} => Covers(Initial, f, k)
  /\ \A f, k : k \in Tiers => ~Covers(Nothing, f, k)
  /\ Both.files = {} /\ Initial.files = {} /\ Nothing.files = {} /\ Candidates.files = {}
BY DEF Covers, Both, Initial, Nothing, Candidates, Reaching, Tiers

LEMMA CoversIsAnything ==
  ASSUME NEW r, NEW f, NEW k, Covers(r, f, k)
  PROVE  Anything(r)
BY DEF Covers, Anything

\* The paths of an event reach what each of them does.
LEMMA PathReaches ==
  ASSUME NEW paths, NEW sites, NEW p \in paths, NEW k,
         k \in Invalidated(p, sites).tiers \/ (k = "index" /\ p \in Build)
  PROVE  Covers(ReachedBy(paths, sites), p, k)
<1> DEFINE T == UNION {Invalidated(q, sites).tiers : q \in paths}
<1>1. k \in T \/ (k = "index" /\ p \in paths \cap Build)
  OBVIOUS
<1>2. CASE k \in T
  BY <1>2, WithCovers DEF ReachedBy, Covers, Reaching
<1>3. CASE k = "index" /\ p \in paths \cap Build
  BY <1>3, WithCovers DEF ReachedBy, Covers
<1> QED BY <1>1, <1>2, <1>3

LEMMA WantedFiles ==
  ASSUME NEW e, NEW sites
  PROVE  Wanted(e, sites, disk).files \subseteq Build \ Excluded
<1> DEFINE relevant == {p \in e.paths : Relevant(p, disk)}
<1>1. relevant \cap Build \subseteq Build \ Excluded
  BY WatchAssumption DEF Relevant
<1>2. ReachedBy(relevant, sites).files \subseteq Build \ Excluded
  <2>1. Reaching(UNION {Invalidated(p, sites).tiers : p \in relevant}).files = {}
    BY DEF Reaching
  <2> QED BY <2>1, <1>1, WithFiles DEF ReachedBy
<1>3. With(ReachedBy(relevant, sites), Candidates).files \subseteq Build \ Excluded
  <2> DEFINE r == ReachedBy(relevant, sites)
             S == Build \ Excluded
  <2>1. r.files \subseteq S /\ Candidates.files \subseteq S
    BY <1>2, BothCovers
  <2> HIDE DEF r, S
  <2>2. With(r, Candidates).files \subseteq S
    BY <2>1, WithFiles
  <2> QED BY <2>2 DEF r, S
<1>4. \/ Wanted(e, sites, disk) = Both
      \/ Wanted(e, sites, disk) = With(ReachedBy(relevant, sites), Candidates)
      \/ Wanted(e, sites, disk) = ReachedBy(relevant, sites)
  BY DEF Wanted
<1> QED BY <1>2, <1>3, <1>4, BothCovers

-----------------------------------------------------------------------------
(* The files of the workspace *)

LEMMA DiskTypes ==
  ASSUME disk \in Disk
  PROVE  /\ disk \in [Files -> (UNION {Texts[f] : f \in Files}) \cup {Absent}]
         /\ \A f \in Files : disk[f] \in Texts[f] \cup {Absent}
         /\ \A f \in Files : disk[f] # Absent => disk[f] \in Texts[f] /\ disk[f] \in Text
BY StaticIndexAssumption DEF Disk

LEMMA IgnoreIsVisible ==
  ASSUME disk \in Disk, IgnoreListIsSeen
  PROVE  Bazelignore \in Files /\ Bazelignore \in Visible(disk)
<1>1. Bazelignore \in Files \ Excluded
  BY WatchAssumption
<1>2. disk[Bazelignore] \in Texts[Bazelignore] \cup {Absent}
  BY <1>1, DiskTypes
<1> QED BY <1>1, <1>2 DEF Visible, Ignored, IgnoreListIsSeen

LEMMA VisibleIsRelevant ==
  ASSUME NEW f \in Visible(disk)
  PROVE  Relevant(f, disk)
BY WatchAssumption DEF Visible, Relevant

\* An event that tells of a file is found to reach it.
LEMMA TellingReaches ==
  ASSUME disk \in Disk, IgnoreListIsSeen, NEW e, NEW sites,
         NEW f \in Files, NEW k \in Tiers, Tells(e, f, k)
  PROVE  Covers(Wanted(e, sites, disk), f, k)
<1> DEFINE relevant == {p \in e.paths : Relevant(p, disk)}
<1>1. \/ Wanted(e, sites, disk) = Both
      \/ /\ e.kind # "rescan"
         /\ Wanted(e, sites, disk) = IF ChangesFileSet(e) /\ relevant # {}
                                     THEN With(ReachedBy(relevant, sites), Candidates)
                                     ELSE ReachedBy(relevant, sites)
  BY DEF Wanted
<1>2. CASE Wanted(e, sites, disk) = Both
  BY <1>2, BothCovers
<1>3. ASSUME Wanted(e, sites, disk) # Both, Covers(ReachedBy(relevant, sites), f, k)
      PROVE  Covers(Wanted(e, sites, disk), f, k)
  BY <1>1, <1>3, WithCovers
<1>4. CASE Bazelignore \in e.paths
  <2>1. Bazelignore \in relevant
    BY <1>4, IgnoreIsVisible, VisibleIsRelevant
  <2>2. Tiers \subseteq Invalidated(Bazelignore, sites).tiers
    BY WatchAssumption DEF Invalidated, With, Both, Reaching, Configuration, Tiers
  <2>3. Tiers \subseteq ReachedBy(relevant, sites).tiers
    <3>1. Tiers \subseteq UNION {Invalidated(p, sites).tiers : p \in relevant}
      BY <2>1, <2>2
    <3> QED BY <3>1 DEF ReachedBy, With, Reaching
  <2> QED BY <2>3, <1>2, <1>3 DEF Covers
<1>5. CASE /\ f \in e.paths \cap Visible(disk) /\ Matters(f, k)
           /\ k = "candidates" => ChangesFileSet(e)
  <2>1. f \in relevant
    BY <1>5, VisibleIsRelevant
  <2>2. CASE k = "candidates"
    <3>1. Covers(Candidates, f, k)
      BY <2>2 DEF Covers, Candidates, Reaching
    <3> QED BY <3>1, <2>1, <2>2, <1>5, <1>1, <1>2, WithCovers
  <2>3. CASE k \in {"graph", "configuration"}
    <3> DEFINE byName == IF f \in Build THEN File(f)
                         ELSE IF f = Bazelignore THEN Both
                         ELSE IF f \in Loads THEN Graph
                         ELSE IF f \in RcNamed THEN Configuration
                         ELSE Nothing
    <3>2. k \in byName.tiers
      BY <2>3, <1>5, WatchAssumption
      DEF Matters, File, Both, Graph, Configuration, Reaching, Tiers
    <3>3. k \in With(byName, Configuration).tiers
      <4> HIDE DEF byName
      <4> QED BY <3>2 DEF With
    <3>1. k \in Invalidated(f, sites).tiers
      BY <3>2, <3>3 DEF Invalidated
    <3> QED BY <3>1, <2>1, <1>2, <1>3, PathReaches
  <2>4. CASE k = "index"
    <3>1. f \in Build
      BY <2>4, <1>5 DEF Matters
    <3> QED BY <3>1, <2>1, <2>4, <1>2, <1>3, PathReaches
  <2> QED BY <2>2, <2>3, <2>4 DEF Tiers
<1> QED BY <1>1, <1>2, <1>4, <1>5 DEF Tells

-----------------------------------------------------------------------------
(* A change of the workspace and its event. *)

LEMMA EditIsReported ==
  ASSUME WatchInv, NothingIsMoved, Edit
  PROVE  \E e \in Event, changed \in SUBSET Files :
            /\ Report(e, changed) /\ changed \subseteq e.paths
            /\ disk' \in Disk /\ moves' = moves
            /\ \A f \in Files \ changed : disk'[f] = disk[f]
            /\ \A f \in changed : ChangesFileSet(e) \/ (disk'[f] = Absent <=> disk[f] = Absent)
<1>1. /\ disk \in [Files -> (UNION {Texts[f] : f \in Files}) \cup {Absent}]
      /\ \A f \in Files : disk[f] \in Texts[f] \cup {Absent}
  BY DiskTypes DEF WatchInv
<1>2. ASSUME NEW f \in Files, NEW text \in Texts[f] \cup {Absent}, Write(f, text)
      PROVE  \E e \in Event, changed \in SUBSET Files :
                /\ Report(e, changed) /\ changed \subseteq e.paths
                /\ disk' \in Disk /\ moves' = moves
                /\ \A g \in Files \ changed : disk'[g] = disk[g]
                /\ \A g \in changed : ChangesFileSet(e) \/ (disk'[g] = Absent <=> disk[g] = Absent)
  <2> DEFINE e == [kind |-> IF Absent \in {disk[f], text} THEN "set" ELSE "content",
                   paths |-> {f}]
  <2>1. e \in Event /\ e.paths = {f} /\ {f} \in SUBSET Files
    BY DEF Event, EventKinds
  <2>2. Report(e, {f}) /\ moves' = moves /\ disk' = [disk EXCEPT ![f] = text]
    BY <1>2 DEF Write
  <2>3. /\ disk' \in [Files -> (UNION {Texts[g] : g \in Files}) \cup {Absent}]
        /\ \A g \in Files : disk'[g] = IF g = f THEN text ELSE disk[g]
    BY <1>1, <2>2
  <2>5. disk' \in Disk
    BY <1>1, <2>3 DEF Disk
  <2>4. ChangesFileSet(e) \/ (disk'[f] = Absent <=> disk[f] = Absent)
    BY <2>3 DEF ChangesFileSet
  <2> HIDE DEF e
  <2> QED BY <2>1, <2>2, <2>3, <2>4, <2>5
<1>3. ASSUME NEW f \in Files, NEW g \in Files, Rename(f, g)
      PROVE  \E e \in Event, changed \in SUBSET Files :
                /\ Report(e, changed) /\ changed \subseteq e.paths
                /\ disk' \in Disk /\ moves' = moves
                /\ \A h \in Files \ changed : disk'[h] = disk[h]
                /\ \A h \in changed : ChangesFileSet(e) \/ (disk'[h] = Absent <=> disk[h] = Absent)
  <2> DEFINE e == [kind |-> "name", paths |-> {f, g}]
  <2>1. e \in Event /\ e.paths = {f, g} /\ {f, g} \in SUBSET Files /\ ChangesFileSet(e)
    BY DEF Event, EventKinds, ChangesFileSet
  <2>2. /\ Report(e, {f, g}) /\ moves' = moves /\ f # g /\ disk[f] \in Texts[g]
        /\ disk' = [disk EXCEPT ![f] = Absent, ![g] = disk[f]]
    BY <1>3 DEF Rename
  <2>3. /\ disk' \in [Files -> (UNION {Texts[h] : h \in Files}) \cup {Absent}]
        /\ \A h \in Files : disk'[h] = IF h = g THEN disk[f] ELSE IF h = f THEN Absent ELSE disk[h]
    BY <1>1, <2>2
  <2>4. disk' \in Disk
    BY <1>1, <2>2, <2>3 DEF Disk
  <2> HIDE DEF e
  <2> QED BY <2>1, <2>2, <2>3, <2>4
<1>4. ASSUME NEW d \in Dirs, (\E after \in Disk : MoveIn(d, after)) \/ MoveOut(d)
      PROVE  FALSE
  BY <1>4 DEF MoveIn, MoveOut, Replace, NothingIsMoved, WatchInv
<1> QED BY <1>2, <1>3, <1>4 DEF Edit

\* What the watcher reports, it reports of the workspace as it is then, until
\* the next change of the .bazelignore.
LEMMA ReportTells ==
  ASSUME WatchInv, watching, NEW e \in Event, NEW changed \in SUBSET Files, Report(e, changed)
  PROVE  \E r \in {e, Rescan} :
            /\ raw' = Append(raw, r) /\ raw' \in Seq(Event)
            /\ DOMAIN raw' = 1..Len(raw) + 1
            /\ raw'[Len(raw) + 1] = r /\ Len(raw) + 1 \in DOMAIN raw'
            /\ \A i \in DOMAIN raw : i \in DOMAIN raw' /\ raw'[i] = raw[i]
<1>1. PICK r \in {e, Rescan} : raw' = Append(raw, r)
  BY DEF Report
<1>2. r \in Event /\ raw \in Seq(Event)
  BY DEF WatchInv, Rescan, Event, EventKinds
<1> QED BY <1>1, <1>2

\* A change is owed to every tier it matters to.
LEMMA ChangeIsOwed ==
  ASSUME WatchInv, watching, NEW e \in Event, NEW changed \in SUBSET Files, Report(e, changed),
         NEW f \in Files, NEW k \in Tiers,
         \/ Bazelignore \in e.paths
         \/ /\ f \in e.paths \cap Visible(disk') /\ Matters(f, k)
            /\ k = "candidates" => ChangesFileSet(e)
  PROVE  Owed(f, k)'
<1>1. PICK r \in {e, Rescan} : Len(raw) + 1 \in DOMAIN raw' /\ raw'[Len(raw) + 1] = r
  BY ReportTells
<1>2. Tells(r, f, k)'
  BY <1>1 DEF Tells, Rescan, ChangesFileSet
<1> QED BY <1>1, <1>2 DEF Owed

\* A change forgets nothing that was owed.
LEMMA EditKeepsOwed ==
  ASSUME WatchInv, NothingIsMoved, watching, Edit, NEW f \in Files, NEW k \in Tiers, Owed(f, k)
  PROVE  Owed(f, k)'
<1>1. PICK e \in Event, changed \in SUBSET Files :
        /\ Report(e, changed) /\ changed \subseteq e.paths
        /\ \A g \in Files \ changed : disk'[g] = disk[g]
  BY EditIsReported
<1>2. CASE Bazelignore \in e.paths
  BY <1>1, <1>2, ChangeIsOwed
<1>3. CASE Bazelignore \notin e.paths
  <2>1. Visible(disk') = Visible(disk)
    <3>1. disk'[Bazelignore] = disk[Bazelignore]
      BY <1>1, <1>3, WatchAssumption
    <3> QED BY <3>1 DEF Visible, Ignored
  <2>2. \A a : Tells(a, f, k) => Tells(a, f, k)'
    BY <2>1 DEF Tells, ChangesFileSet
  <2>3. \A i \in DOMAIN raw : i \in DOMAIN raw' /\ raw'[i] = raw[i]
    BY <1>1, ReportTells
  <2>4. UNCHANGED <<call, queue, pc, reaches>>
    BY <1>1 DEF Report, events, work
  <2> QED BY <2>2, <2>3, <2>4 DEF Owed
<1> QED BY <1>2, <1>3

LEMMA CallbackKeepsOwed ==
  ASSUME WatchInv, IgnoreListIsSeen, watching, Callback,
         NEW f \in Files, NEW k \in Tiers, Owed(f, k)
  PROVE  Owed(f, k)'
<1> USE DEF Callback
<1>1. UNCHANGED <<disk, pc, reaches>>
  BY DEF Load, Classify, Enqueue, watcher, work
<1>2. \A a : Tells(a, f, k) => Tells(a, f, k)'
  BY <1>1 DEF Tells, ChangesFileSet
<1>3. CASE Load
  <2>1. /\ raw # <<>> /\ raw' = Tail(raw) /\ queue' = queue /\ call.at = "idle"
        /\ call'.at = "loaded" /\ call'.event = Head(raw)
    BY <1>3 DEF Load
  <2>2. ASSUME NEW i \in DOMAIN raw
        PROVE  IF i = 1 THEN Head(raw) = raw[i]
                        ELSE i - 1 \in DOMAIN Tail(raw) /\ Tail(raw)[i - 1] = raw[i]
    BY <2>1 DEF WatchInv
  <2> QED BY <1>1, <1>2, <2>1, <2>2 DEF Owed
<1>4. CASE Classify
  <2> DEFINE wanted == Wanted(call.event, call.sites, disk)
  <2>1. /\ raw' = raw /\ queue' = queue /\ call.at = "loaded"
        /\ call'.at = (IF Anything(wanted) THEN "classified" ELSE "idle")
        /\ call'.reaches = wanted
    BY <1>4 DEF Classify, watcher, WatchInv
  <2>2. Tells(call.event, f, k) => Covers(wanted, f, k) /\ Anything(wanted)
    BY TellingReaches, CoversIsAnything DEF WatchInv
  <2> HIDE DEF wanted
  <2> QED BY <1>1, <1>2, <2>1, <2>2 DEF Owed
<1>5. CASE Enqueue
  <2>1. pc # "stopped"
    BY DEF WatchInv
  <2>2. raw' = raw /\ call.at = "classified" /\ queue'.pending = With(queue.pending, call.reaches)
    BY <1>5, <2>1 DEF Enqueue, watcher
  <2> QED BY <1>1, <1>2, <2>2, WithCovers DEF Owed
<1> QED BY <1>3, <1>4, <1>5

-----------------------------------------------------------------------------
(* The thread takes over what is owed. *)

LEMMA BeforeFacts ==
  /\ \A k \in Tiers : {"settle", "index"} \subseteq Before(k) /\ "recv" \notin Before(k)
  /\ \A k \in Tiers : k # "index" => {"read", "configure"} \subseteq Before(k)
  /\ "read" \notin Before("index") /\ "configure" \notin Before("index")
  /\ {"walk", "visit", "wake", "refresh"} \subseteq Before("graph")
  /\ \A k \in Tiers : k # "graph" =>
        Before(k) \cap {"walk", "visit", "wake", "refresh", "establish", "stopped"} = {}
BY DEF Before, Tiers

LEMMA SettleKeepsOwed ==
  ASSUME WatchInv, Receive \/ ReceiveMore, NEW f \in Files, NEW k \in Tiers, Owed(f, k)
  PROVE  Owed(f, k)'
<1>1. UNCHANGED <<disk, raw, call>>
  BY DEF Receive, ReceiveMore, watcher
<1>2. \A a : Tells(a, f, k) => Tells(a, f, k)'
  BY <1>1 DEF Tells, ChangesFileSet
<1>3. queue'.pending = queue.pending \/ Reached(Head(rx)) = queue.pending
  BY DEF Receive, ReceiveMore, Take, Reached
<1>4. CASE Receive
  <2>1. /\ pc = "recv" /\ reaches' = Reached(Head(rx))
        /\ pc' = IF Anything(reaches') THEN "settle" ELSE "recv"
    BY <1>4 DEF Receive
  <2>2. Covers(Reached(Head(rx)), f, k) => pc' \in Before(k) /\ Covers(reaches', f, k)
    BY <2>1, CoversIsAnything, BeforeFacts
  <2> QED BY <1>1, <1>2, <1>3, <2>1, <2>2, BeforeFacts DEF Owed
<1>5. CASE ReceiveMore
  <2>1. pc = "settle" /\ pc' = pc /\ reaches' = With(reaches, Reached(Head(rx)))
    BY <1>5 DEF ReceiveMore, Waits
  <2>2. Covers(Reached(Head(rx)), f, k) \/ Covers(reaches, f, k) =>
            pc' \in Before(k) /\ Covers(reaches', f, k)
    BY <2>1, WithCovers, BeforeFacts
  <2> QED BY <1>1, <1>2, <1>3, <2>1, <2>2, BeforeFacts DEF Owed
<1> QED BY <1>4, <1>5

\* The beginning of a tier that the thread's changes reach.
Begins(f, k) ==
    /\ Covers(reaches, f, k)
    /\ CASE k = "index" -> BeginIndex
         [] k = "graph" -> AskBazel
         [] k = "configuration" -> BeginConfiguration
         [] k = "candidates" -> BeginConfiguration

LEMMA RebuildKeepsOwed ==
  ASSUME WatchInv, Rebuild \/ Expire, NEW f \in Files, NEW k \in Tiers, Owed(f, k),
         ~Begins(f, k)
  PROVE  Owed(f, k)'
<1> USE DEF Rebuild
<1>1. UNCHANGED <<disk, raw, call, queue, reaches>>
  BY DEF BeginIndex, StoreIndex, BeginConfiguration, WalkEnds, StoreConfiguration, SemanticWake,
         AskBazel, ReadBuild, Walk, Visit, Expire, Tick, Waits, Timeout, watcher, events, work
<1>2. \A a : Tells(a, f, k) => Tells(a, f, k)'
  BY <1>1 DEF Tells, ChangesFileSet
<1>3. pc \in Before(k) /\ Covers(reaches, f, k) => pc' \in Before(k)
  <2> SUFFICES ASSUME pc \in Before(k), Covers(reaches, f, k)
               PROVE  pc' \in Before(k)
    OBVIOUS
  <2>1. CASE Expire
    BY <2>1, BeforeFacts DEF Expire, Tick, Waits, Timeout
  <2>2. CASE BeginIndex
    <3>1. k # "index"
      BY <2>2 DEF Begins
    <3> QED BY <2>2, <3>1, BeforeFacts DEF BeginIndex
  <2>3. CASE StoreIndex
    BY <2>3, BeforeFacts DEF StoreIndex
  <2>4. CASE BeginConfiguration
    <3>1. k \notin {"configuration", "candidates"}
      BY <2>4 DEF Begins
    <3>2. pc = "configure" /\ pc' \in {"walk", "visit", "refresh"}
      BY <2>4 DEF BeginConfiguration
    <3> QED BY <3>1, <3>2, BeforeFacts DEF Tiers
  <2>5. CASE WalkEnds \/ StoreConfiguration \/ SemanticWake
    <3>1. pc \in {"walk", "visit", "wake"} /\ pc' \in {"visit", "wake", "refresh"}
      BY <2>5 DEF WalkEnds, StoreConfiguration, SemanticWake
    <3> QED BY <3>1, BeforeFacts
  <2>6. CASE AskBazel
    <3>1. k # "graph" /\ pc = "refresh"
      BY <2>6 DEF Begins, AskBazel
    <3> QED BY <3>1, BeforeFacts
  <2>7. CASE \E g \in Files : ReadBuild(g) \/ Walk(g) \/ Visit(g)
    BY <2>7 DEF ReadBuild, Walk, Visit
  <2> QED BY <2>1, <2>2, <2>3, <2>4, <2>5, <2>6, <2>7
<1> QED BY <1>1, <1>2, <1>3 DEF Owed

\* What is owed stays owed until the thread begins the tier, or the watch ends.
LEMMA OwedStays ==
  ASSUME WatchInv, NothingIsMoved, IgnoreListIsSeen, watching, watching', [Next]_vars,
         NEW f \in Files, NEW k \in Tiers, Owed(f, k), ~Begins(f, k)
  PROVE  Owed(f, k)'
<1>1. CASE Edit
  BY <1>1, EditKeepsOwed
<1>2. CASE Callback
  BY <1>2, CallbackKeepsOwed
<1>3. CASE Receive \/ ReceiveMore
  BY <1>3, SettleKeepsOwed
<1>4. CASE ReceiveStop \/ \E ok \in BOOLEAN : Establish(ok)
  BY <1>4 DEF ReceiveStop, Establish, WatchInv
<1>5. CASE Rebuild \/ Expire
  BY <1>5, RebuildKeepsOwed
<1>6. CASE Reindex \/ DropWatch \/ TakeWake \/ Joined \/ UNCHANGED vars
  <2>1. UNCHANGED <<disk, raw, call, queue, pc, reaches>>
    BY <1>6 DEF Reindex, DropWatch, TakeWake, Joined, vars, watcher, events, work
  <2> QED BY <2>1 DEF Owed, Tells, ChangesFileSet, Covers
<1> QED BY <1>1, <1>2, <1>3, <1>4, <1>5, <1>6 DEF Next, Thread, Settle

-----------------------------------------------------------------------------
(* What the watch keeps at hand. *)

LEMMA WatchInit == ASSUME Init PROVE WatchInv
<1>1. <<>> \in Seq(Event) /\ <<>> \in Seq({"fs", "manual", "stop"})
  OBVIOUS
<1> QED
  BY <1>1, BothCovers, WatchAssumption
  DEF Init, WatchInv, NoEvents, Nothing, Reaching, Rescan, Event, EventKinds, Steps

LEMMA WatchEdit ==
  ASSUME WatchInv, NothingIsMoved, Edit
  PROVE  WatchInv'
<1>1. PICK e \in Event, changed \in SUBSET Files :
        Report(e, changed) /\ disk' \in Disk /\ moves' = moves
  BY EditIsReported
<1>2. raw' \in Seq(Event)
  <2>1. CASE watching
    BY <1>1, <2>1, ReportTells
  <2>2. CASE ~watching
    BY <1>1, <2>2 DEF Report, WatchInv
  <2> QED BY <2>1, <2>2
<1> QED BY <1>1, <1>2 DEF WatchInv, Report, events, work

LEMMA WatchCallback ==
  ASSUME WatchInv, Callback
  PROVE  WatchInv'
<1>1. UNCHANGED <<disk, watching, moves, pc, reaches>>
  BY DEF Callback, Load, Classify, Enqueue, watcher, work, bounds
<1>2. CASE Load
  <2>1. raw' \in Seq(Event) /\ Head(raw) \in Event
    BY <1>2 DEF Load, WatchInv
  <2> QED BY <1>1, <1>2, <2>1, BothCovers DEF Load, WatchInv
<1>3. CASE Classify
  <2> DEFINE wanted == Wanted(call.event, call.sites, disk)
  <2>1. /\ UNCHANGED <<raw, queue, rx>>
        /\ call' = [call EXCEPT !.at = IF Anything(wanted) THEN "classified" ELSE "idle",
                                !.reaches = wanted]
    BY <1>3 DEF Classify, watcher
  <2>2. wanted.files \subseteq Build \ Excluded
    BY WantedFiles
  <2> HIDE DEF wanted
  <2>3. /\ call' = [at |-> call'.at, event |-> call'.event, sites |-> call'.sites,
                    reaches |-> call'.reaches]
        /\ call'.at \in {"idle", "classified"} /\ call'.event = call.event
        /\ call'.reaches = wanted
    BY <2>1 DEF WatchInv
  <2> QED BY <1>1, <2>1, <2>2, <2>3 DEF WatchInv
<1>4. CASE Enqueue
  <2>1. UNCHANGED <<raw>> /\ call' = [call EXCEPT !.at = "idle"]
    BY <1>4 DEF Enqueue, watcher
  <2>2. /\ call' = [at |-> call'.at, event |-> call'.event, sites |-> call'.sites,
                    reaches |-> call'.reaches]
        /\ call'.at = "idle" /\ call'.event = call.event /\ call'.reaches = call.reaches
    BY <2>1 DEF WatchInv
  <2>3. CASE ~queue.queued /\ pc = "stopped"
    <3>1. queue' = NoEvents /\ rx' = rx
      BY <1>4, <2>3 DEF Enqueue
    <3>2. queue'.queued = FALSE /\ queue'.pending = Nothing /\ queue'.pending.files = {}
      BY <3>1, BothCovers DEF NoEvents
    <3> QED BY <1>1, <2>1, <2>2, <3>1, <3>2 DEF WatchInv
  <2>4. CASE queue.queued \/ pc # "stopped"
    <3>1. /\ queue' = [queued |-> TRUE, pending |-> With(queue.pending, call.reaches)]
          /\ rx' = IF queue.queued THEN rx ELSE Append(rx, "fs")
      BY <1>4, <2>4 DEF Enqueue
    <3>2. rx' \in Seq({"fs", "manual", "stop"}) /\ \E i \in DOMAIN rx' : rx'[i] = "fs"
      <4>1. CASE queue.queued
        BY <3>1, <4>1 DEF WatchInv
      <4>2. CASE ~queue.queued
        <5>1. rx' = Append(rx, "fs") /\ rx \in Seq({"fs", "manual", "stop"})
          BY <3>1, <4>2 DEF WatchInv
        <5>2. Len(rx) + 1 \in DOMAIN rx' /\ rx'[Len(rx) + 1] = "fs"
          BY <5>1
        <5> QED BY <5>1, <5>2
      <4> QED BY <4>1, <4>2
    <3>3. With(queue.pending, call.reaches).files \subseteq Build \ Excluded
      BY WithFiles DEF WatchInv
    <3> QED BY <1>1, <2>1, <2>2, <3>1, <3>2, <3>3 DEF WatchInv
  <2> QED BY <2>3, <2>4 DEF WatchInv
<1> QED BY <1>2, <1>3, <1>4 DEF Callback

\* A wake is taken from the channel, and the queue's with its events.
LEMMA WakeTaken ==
  ASSUME WatchInv, rx # <<>>, rx' = Tail(rx),
         \/ Head(rx) # "stop" /\ Take(Head(rx))
         \/ Head(rx) = "stop" /\ UNCHANGED queue
  PROVE  /\ rx' \in Seq({"fs", "manual", "stop"}) /\ queue'.queued \in BOOLEAN
         /\ ~queue'.queued => queue'.pending = Nothing
         /\ queue'.queued => \E i \in DOMAIN rx' : rx'[i] = "fs"
         /\ queue'.pending.files \subseteq Build \ Excluded
<1>1. rx \in Seq({"fs", "manual", "stop"}) /\ rx' \in Seq({"fs", "manual", "stop"})
  BY DEF WatchInv
<1>2. CASE Head(rx) = "fs"
  <2>1. queue' = NoEvents
    BY <1>2 DEF Take
  <2>2. queue'.queued = FALSE /\ queue'.pending = Nothing /\ queue'.pending.files = {}
    BY <2>1, BothCovers DEF NoEvents
  <2> QED BY <1>1, <2>2
<1>3. CASE Head(rx) # "fs"
  <2>1. queue' = queue
    BY <1>3 DEF Take
  <2>2. ASSUME NEW i \in DOMAIN rx, rx[i] = "fs"
        PROVE  i - 1 \in DOMAIN rx' /\ rx'[i - 1] = "fs"
    BY <1>1, <1>3, <2>2
  <2> QED BY <1>1, <2>1, <2>2 DEF WatchInv
<1> QED BY <1>2, <1>3

LEMMA WatchSettle ==
  ASSUME WatchInv, Settle
  PROVE  WatchInv'
<1>1. UNCHANGED <<disk, raw, call, moves>>
  BY DEF Settle, Receive, ReceiveMore, ReceiveStop, watcher, events, bounds
<1>2. /\ rx # <<>> /\ rx' = Tail(rx)
      /\ \/ Head(rx) # "stop" /\ Take(Head(rx))
         \/ Head(rx) = "stop" /\ UNCHANGED queue
  BY DEF Settle, Receive, ReceiveMore, ReceiveStop, events
<1>3. reaches'.files \subseteq Build \ Excluded /\ pc' \in Steps \ {"establish"}
  <2>1. Reached(Head(rx)).files \subseteq Build \ Excluded
    BY BothCovers DEF Reached, WatchInv
  <2>2. CASE Receive
    BY <2>1, <2>2 DEF Receive, WatchInv, Steps
  <2>3. CASE ReceiveMore
    <3>1. With(reaches, Reached(Head(rx))).files \subseteq Build \ Excluded
      BY <2>1, WithFiles DEF WatchInv
    <3> QED BY <2>3, <3>1 DEF ReceiveMore, Waits, Steps
  <2>4. CASE ReceiveStop
    BY <2>4 DEF ReceiveStop, WatchInv, Steps, work
  <2> QED BY <2>2, <2>3, <2>4 DEF Settle
<1>4. watching' \in BOOLEAN /\ (watching' => pc' # "stopped")
  BY DEF Settle, Receive, ReceiveMore, ReceiveStop, Waits, WatchInv, watcher, Steps
<1> QED BY <1>1, <1>2, <1>3, <1>4, WakeTaken DEF WatchInv

LEMMA WatchRebuild ==
  ASSUME WatchInv, Rebuild \/ Expire \/ \E ok \in BOOLEAN : Establish(ok)
  PROVE  WatchInv'
<1>1. UNCHANGED <<disk, raw, call, queue, rx, moves, reaches>>
  BY DEF Rebuild, BeginIndex, StoreIndex, BeginConfiguration, WalkEnds, StoreConfiguration,
         SemanticWake, AskBazel, ReadBuild, Walk, Visit, Expire, Tick, Waits, Timeout, Establish,
         watcher, events, work, bounds
<1>2. /\ pc' \in Steps \ {"establish", "stopped"}
      /\ watching' \in BOOLEAN
  BY DEF Rebuild, BeginIndex, StoreIndex, BeginConfiguration, WalkEnds, StoreConfiguration,
         SemanticWake, AskBazel, ReadBuild, Walk, Visit, Expire, Tick, Waits, Timeout, Establish,
         watcher, WatchInv, Steps
<1> QED BY <1>1, <1>2 DEF WatchInv

LEMMA WatchStep ==
  ASSUME WatchInv, NothingIsMoved, [Next]_vars
  PROVE  WatchInv'
<1>1. CASE Reindex \/ DropWatch
  <2>1. PICK w \in {"manual", "stop"} :
          rx' = Append(rx, w) /\ UNCHANGED <<disk, watching, raw, call, queue, pc, moves, reaches>>
    BY <1>1 DEF Reindex, DropWatch, watcher, events, work, bounds
  <2>2. rx \in Seq({"fs", "manual", "stop"})
    BY DEF WatchInv
  <2>3. /\ rx' \in Seq({"fs", "manual", "stop"})
        /\ \A i \in DOMAIN rx : i \in DOMAIN rx' /\ rx'[i] = rx[i]
    BY <2>1, <2>2
  <2> QED BY <2>1, <2>3 DEF WatchInv
<1>2. CASE TakeWake \/ Joined \/ UNCHANGED vars
  <2>1. UNCHANGED <<disk, watching, raw, call, queue, rx, pc, moves, reaches>>
    BY <1>2 DEF TakeWake, Joined, vars, watcher, events, work, bounds
  <2> QED BY <2>1 DEF WatchInv
<1> QED BY <1>1, <1>2, WatchEdit, WatchCallback, WatchSettle, WatchRebuild DEF Next, Thread

LEMMA WatchAlways == ASSUME NothingIsMoved PROVE Spec => []WatchInv
<1>1. WatchInv /\ [Next]_vars => WatchInv'
  BY WatchStep
<1> QED BY <1>1, WatchInit, PTL DEF Spec

\* At rest nothing is owed.
LEMMA QuietOwesNothing ==
  ASSUME WatchInv, Quiet, NEW f \in Files, NEW k \in Tiers
  PROVE  ~Owed(f, k)
<1>1. queue.pending = Nothing
  BY DEF WatchInv, Quiet
<1> QED BY <1>1, BothCovers, BeforeFacts DEF Owed, Quiet

-----------------------------------------------------------------------------
(* Where the watch begins and ends, and who changes the workspace. *)

\* When the watch is established everything but the graph is owed.
LEMMA EstablishOwes ==
  ASSUME WatchInv, NEW ok \in BOOLEAN, Establish(ok), NEW f \in Files, NEW k \in Tiers, k # "graph"
  PROVE  Owed(f, k)'
<1>1. pc' = "index" /\ reaches' = Initial
  BY DEF Establish, WatchInv, work
<1> QED BY <1>1, BothCovers, BeforeFacts DEF Owed

\* Watching begins only there.
LEMMA WatchingBegins ==
  ASSUME [Next]_vars, ~watching, watching'
  PROVE  \E ok \in BOOLEAN : Establish(ok)
BY DEF Next, vars, Edit, Write, Rename, MoveIn, MoveOut, Replace, Report, Callback, Load,
       Classify, Enqueue, Reindex, DropWatch, TakeWake, Thread, Settle, Receive, ReceiveMore,
       ReceiveStop, Expire, Tick, Waits, Timeout, Rebuild, BeginIndex, StoreIndex,
       BeginConfiguration, WalkEnds, StoreConfiguration, SemanticWake, AskBazel, ReadBuild, Walk,
       Visit, Joined, watcher

LEMMA WatchingEnds ==
  ASSUME WatchInv, [Next]_vars, watching, ~watching'
  PROVE  pc' = "stopped"
BY DEF WatchInv, Next, vars, Edit, Write, Rename, MoveIn, MoveOut, Replace, Report, Callback,
       Load, Classify, Enqueue, Reindex, DropWatch, TakeWake, Thread, Settle, Receive,
       ReceiveMore, ReceiveStop, Expire, Tick, Waits, Timeout, Rebuild, BeginIndex, StoreIndex,
       BeginConfiguration, WalkEnds, StoreConfiguration, SemanticWake, AskBazel, ReadBuild, Walk,
       Visit, Joined, Establish, watcher

LEMMA DiskUntouched ==
  ASSUME [Next]_vars, ~Edit
  PROVE  disk' = disk
BY DEF Next, vars, Callback, Load, Classify, Enqueue, Reindex, DropWatch, TakeWake, Thread,
       Settle, Receive, ReceiveMore, ReceiveStop, Expire, Tick, Waits, Timeout, Rebuild,
       BeginIndex, StoreIndex, BeginConfiguration, WalkEnds, StoreConfiguration, SemanticWake,
       AskBazel, ReadBuild, Walk, Visit, Joined, Establish, watcher

LEMMA StaleUntouched ==
  ASSUME [Next]_vars
  PROVE  /\ stale' \in {stale, {}} \/ (Edit /\ watching)
         /\ pc = "stopped" => pc' = "stopped"
BY DEF Next, vars, Edit, Write, Rename, MoveIn, MoveOut, Replace, Report, Callback, Load,
       Classify, Enqueue, Reindex, DropWatch, TakeWake, Thread, Settle, Receive, ReceiveMore,
       ReceiveStop, Expire, Tick, Waits, Timeout, Rebuild, BeginIndex, StoreIndex,
       BeginConfiguration, WalkEnds, StoreConfiguration, SemanticWake, AskBazel, ReadBuild, Walk,
       Visit, Joined, Establish, watcher, seen

-----------------------------------------------------------------------------
(* Bazel is asked. *)

LEMMA GraphStep ==
  ASSUME WatchInv, WatchInv', GraphInv, NothingIsMoved, IgnoreListIsSeen, [Next]_vars
  PROVE  GraphInv'
<1> DEFINE Asked == Build \cup Loads \cup RcNamed
<1>1. ASSUME watching'
      PROVE  \A f \in stale' \cap Asked \cap Visible(disk') : Owed(f, "graph")'
  <2>1. CASE ~watching
    <3>1. pc # "stopped" /\ stale' \in {stale, {}}
      BY <1>1, <2>1, WatchingBegins, StaleUntouched DEF Establish
    <3> QED BY <2>1, <3>1 DEF GraphInv
  <2>2. CASE watching /\ Edit
    <3>1. PICK e \in Event, changed \in SUBSET Files :
            /\ Report(e, changed) /\ changed \subseteq e.paths
            /\ \A g \in Files \ changed : disk'[g] = disk[g]
      BY <2>2, EditIsReported
    <3>2. ASSUME NEW f \in stale' \cap Asked \cap Visible(disk')
          PROVE  Owed(f, "graph")'
      <4>1. f \in Files /\ "graph" \in Tiers /\ Matters(f, "graph")
        BY WatchAssumption DEF Tiers, Matters
      <4>2. CASE Bazelignore \in e.paths \/ f \in e.paths
        BY <2>2, <3>1, <4>1, <4>2, ChangeIsOwed
      <4>3. CASE Bazelignore \notin e.paths /\ f \notin e.paths
        <5>1. f \in stale
          BY <2>2, <3>1, <4>3 DEF Report
        <5>2. disk'[Bazelignore] = disk[Bazelignore]
          BY <3>1, <4>3, WatchAssumption
        <5>3. f \in Visible(disk)
          BY <5>2 DEF Visible, Ignored
        <5> QED BY <2>2, <4>1, <5>1, <5>3, EditKeepsOwed DEF GraphInv
      <4> QED BY <4>2, <4>3
    <3> QED BY <3>2
  <2>3. CASE watching /\ ~Edit
    <3>1. disk' = disk /\ stale' \in {stale, {}}
      BY <2>3, DiskUntouched, StaleUntouched
    <3>2. ASSUME NEW f \in stale' \cap Asked \cap Visible(disk')
          PROVE  Owed(f, "graph")'
      <4>1. f \in Files /\ "graph" \in Tiers
        BY WatchAssumption DEF Tiers
      <4>2. f \in stale /\ f \in Visible(disk)
        BY <3>1
      <4>3. Owed(f, "graph")
        BY <2>3, <4>2 DEF GraphInv
      <4>4. ~Begins(f, "graph")
        BY DEF Begins, AskBazel, Covers
      <4> QED BY <1>1, <2>3, <4>1, <4>3, <4>4, OwedStays
    <3> QED BY <3>2
  <2> QED BY <2>1, <2>2, <2>3
<1>2. ASSUME ~watching'
      PROVE  pc' = "stopped" \/ stale' = {}
  BY <1>2, WatchingEnds, StaleUntouched DEF GraphInv
<1> QED BY <1>1, <1>2 DEF GraphInv

LEMMA GraphAlways ==
  ASSUME NothingIsMoved, IgnoreListIsSeen
  PROVE  Spec => []GraphInv
<1>1. Init => GraphInv
  BY DEF Init, GraphInv
<1>2. WatchInv /\ WatchInv' /\ GraphInv /\ [Next]_vars => GraphInv'
  BY GraphStep
<1> QED BY <1>1, <1>2, WatchAlways, PTL DEF Spec

\* At rest Bazel has been asked about every change it heeds: a changed file is
\* owed the graph from its event to Bazel::refresh (Watcher::rebuild).
THEOREM EveryChangeIsAsked ==
  NothingIsMoved /\ IgnoreListIsSeen => (Spec => []BazelIsAsked)
<1> SUFFICES ASSUME NothingIsMoved, IgnoreListIsSeen
             PROVE  Spec => []BazelIsAsked
  OBVIOUS
<1>1. WatchInv /\ GraphInv => BazelIsAsked
  <2> SUFFICES ASSUME WatchInv, GraphInv, Quiet,
                      NEW f \in stale \cap (Build \cup Loads \cup RcNamed) \cap Visible(disk)
               PROVE  FALSE
    BY DEF BazelIsAsked
  <2>1. watching
    BY DEF GraphInv, Quiet
  <2>2. Owed(f, "graph") /\ f \in Files /\ "graph" \in Tiers
    BY <2>1, WatchAssumption DEF GraphInv, Tiers
  <2> QED BY <2>2, QuietOwesNothing
<1> QED BY <1>1, WatchAlways, GraphAlways, PTL

-----------------------------------------------------------------------------
(* What a tier says of one file. *)

LEMMA EmptySays ==
  /\ TierOf(EmptyTier)
  /\ \A f : Says(EmptyTier, f, Absent)
BY DEF EmptyTier, TierOf, Says, TargetsOf, ReferencesOf

LEMMA RetainSays ==
  ASSUME NEW t, TierOf(t), NEW changed
  PROVE  /\ TierOf(Retain(t, changed))
         /\ \A f \in changed : Says(Retain(t, changed), f, Absent)
         /\ \A f, x : f \notin changed /\ Says(t, f, x) => Says(Retain(t, changed), f, x)
<1> DEFINE r == Retain(t, changed)
           kept == {l \in DOMAIN t.targets : t.targets[l].file \notin changed}
<1>1. /\ r.files = t.files \ changed /\ DOMAIN r.targets = kept
      /\ \A l \in kept : r.targets[l] = t.targets[l]
      /\ r.references = {s \in t.references : s.file \notin changed}
  BY DEF Retain
<1> HIDE DEF r
<1>2. TierOf(r)
  BY <1>1 DEF TierOf
<1>3. ASSUME NEW f \in changed
      PROVE  Says(r, f, Absent)
  BY <1>1 DEF Says, TargetsOf, ReferencesOf
<1>4. ASSUME NEW f, NEW x, f \notin changed, Says(t, f, x)
      PROVE  Says(r, f, x)
  <2>1. TargetsOf(r, f) = TargetsOf(t, f)
    BY <1>1, <1>4 DEF TargetsOf
  <2>2. ReferencesOf(r, f) = ReferencesOf(t, f)
    BY <1>1, <1>4 DEF ReferencesOf
  <2>3. \A l \in TargetsOf(t, f) : r.targets[l] = t.targets[l]
    BY <1>1, <1>4 DEF TargetsOf
  <2> QED BY <1>1, <1>4, <2>1, <2>2, <2>3 DEF Says
<1> QED BY <1>2, <1>3, <1>4 DEF r

LEMMA CollectSays ==
  ASSUME NEW t, TierOf(t), NEW f \in Build, NEW x \in Text \cup {Absent}, Says(t, f, Absent)
  PROVE  /\ TierOf(CollectDiskFile(t, f, x))
         /\ Says(CollectDiskFile(t, f, x), f, x)
         /\ \A g, y : /\ g # f /\ Says(t, g, y)
                      /\ x # Absent /\ y # Absent => x.declares \cap y.declares = {}
                      => Says(CollectDiskFile(t, f, x), g, y)
<1>1. CASE x = Absent
  BY <1>1 DEF CollectDiskFile
<1>2. CASE x # Absent
  <2> DEFINE c == CollectDiskFile(t, f, x)
             new == {[label |-> l, file |-> f, text |-> x] : l \in x.mentions}
  <2>1. /\ c.files = t.files \cup {f} /\ DOMAIN c.targets = x.declares \cup DOMAIN t.targets
        /\ \A l \in DOMAIN c.targets :
              c.targets[l] = IF l \in x.declares THEN [file |-> f, text |-> x] ELSE t.targets[l]
        /\ c.references = t.references \cup new
    BY <1>2 DEF CollectDiskFile
  <2>2. \A r \in new : r.file = f
    OBVIOUS
  <2> HIDE DEF c, new
  <2>3. TierOf(c)
    BY <2>1, <2>2 DEF TierOf
  <2>4. Says(c, f, x)
    <3>1. TargetsOf(c, f) = x.declares
      BY <1>2, <2>1 DEF Says, TargetsOf
    <3>2. ReferencesOf(c, f) = new
      BY <1>2, <2>1, <2>2 DEF Says, ReferencesOf
    <3> QED BY <1>2, <2>1, <3>1, <3>2 DEF Says, new
  <2>5. ASSUME NEW g, NEW y, g # f, Says(t, g, y),
               y # Absent => x.declares \cap y.declares = {}
        PROVE  Says(c, g, y)
    <3>1. TargetsOf(t, g) \cap x.declares = {} => TargetsOf(c, g) = TargetsOf(t, g)
      BY <2>1, <2>5 DEF TargetsOf
    <3>2. TargetsOf(c, g) \subseteq TargetsOf(t, g)
      BY <2>1, <2>5 DEF TargetsOf
    <3>3. ReferencesOf(c, g) = ReferencesOf(t, g)
      BY <2>1, <2>2, <2>5 DEF ReferencesOf
    <3>4. CASE y = Absent
      BY <2>1, <2>5, <3>2, <3>3, <3>4 DEF Says
    <3>5. CASE y # Absent
      <4>1. TargetsOf(c, g) = y.declares /\ TargetsOf(t, g) = y.declares
        BY <2>5, <3>1, <3>5 DEF Says
      <4>2. \A l \in y.declares : c.targets[l] = t.targets[l]
        BY <2>1, <2>5, <3>5, <4>1 DEF TargetsOf
      <4> QED BY <2>1, <2>5, <3>3, <3>5, <4>1, <4>2 DEF Says
    <3> QED BY <3>4, <3>5
  <2> QED BY <1>2, <2>3, <2>4, <2>5 DEF c
<1> QED BY <1>1, <1>2

\* A tier that says of every BUILD file what it ought to is exact.
LEMMA SaysIsExact ==
  ASSUME disk \in Disk, NEW t, TierOf(t), \A f \in Build : Says(t, f, Due(f))
  PROVE  Exact(t, disk, Build \cap Visible(disk))
<1> DEFINE S == Build \cap Visible(disk)
           P == Present(disk, S)
<1>1. \A f \in Build : Due(f) = IF f \in P THEN disk[f] ELSE Absent
  BY DEF Due, Present
<1>2. \A f \in P : f \in Build /\ disk[f] # Absent
  BY DEF Present
<1> HIDE DEF P
<1>3. \A f \in Build : f \in t.files <=> f \in P
  BY <1>1, <1>2 DEF Says
<1>4. t.files = P
  BY <1>2, <1>3 DEF TierOf
<1>5. ASSUME NEW l \in DOMAIN t.targets
      PROVE  /\ t.targets[l].file \in P
             /\ t.targets[l].text = disk[t.targets[l].file]
             /\ l \in t.targets[l].text.declares
             /\ l \in disk[t.targets[l].file].declares
  <2> DEFINE f == t.targets[l].file
  <2>1. f \in Build /\ l \in TargetsOf(t, f)
    BY DEF TierOf, TargetsOf
  <2> HIDE DEF f
  <2>2. f \in P
    BY <1>1, <2>1 DEF Says
  <2>3. l \in disk[f].declares /\ t.targets[l].text = disk[f]
    BY <1>1, <1>2, <2>1, <2>2 DEF Says
  <2> QED BY <2>2, <2>3 DEF f
<1>6. ASSUME NEW f \in P, NEW l \in disk[f].declares
      PROVE  l \in DOMAIN t.targets
  BY <1>1, <1>2 DEF Says, TargetsOf
<1>7. ASSUME NEW r \in t.references
      PROVE  \E f \in P : r \in {[label |-> l, file |-> f, text |-> disk[f]] : l \in disk[f].mentions}
  <2>1. r.file \in Build /\ r \in ReferencesOf(t, r.file)
    BY DEF TierOf, ReferencesOf
  <2>2. r.file \in P
    BY <1>1, <2>1 DEF Says
  <2> QED BY <1>1, <1>2, <2>1, <2>2 DEF Says
<1>8. ASSUME NEW f \in P,
             NEW r \in {[label |-> l, file |-> f, text |-> disk[f]] : l \in disk[f].mentions}
      PROVE  r \in t.references
  BY <1>1, <1>2 DEF Says, ReferencesOf
<1>9. DOMAIN t.targets = UNION {disk[f].declares : f \in P}
  BY <1>5, <1>6
<1>10. t.references =
         UNION {{[label |-> l, file |-> f, text |-> disk[f]] : l \in disk[f].mentions} : f \in P}
  BY <1>7, <1>8
<1> QED BY <1>4, <1>5, <1>9, <1>10 DEF Exact, P

-----------------------------------------------------------------------------
(* The static index. *)

LEMMA IndexUntouched ==
  ASSUME [Next]_vars, ~IndexSteps
  PROVE  /\ index' = index /\ (pc' = "read" <=> pc = "read")
         /\ pc = "read" => UNCHANGED <<tier, unread>>
<1>1. CASE Edit \/ Callback \/ Reindex \/ DropWatch \/ TakeWake \/ Joined \/ UNCHANGED vars
  BY <1>1
  DEF vars, Edit, Write, Rename, MoveIn, MoveOut, Replace, Report, Callback, Load, Classify,
      Enqueue, Reindex, DropWatch, TakeWake, Joined, work, published
<1>2. CASE Thread
  BY <1>2
  DEF Thread, Settle, Receive, ReceiveMore, ReceiveStop, Expire, Tick, Waits, Timeout, Rebuild,
      BeginConfiguration, WalkEnds, StoreConfiguration, SemanticWake, AskBazel, Walk, Visit,
      Establish, work, published, IndexSteps
<1> QED BY <1>1, <1>2 DEF Next

LEMMA BeginKnows ==
  ASSUME WatchInv, BeginIndex, IndexShapes
  PROVE  /\ IndexShapes'
         /\ \A f \in Build : Covers(reaches, f, "index") \/ Known(f) => Known(f)'
<1>1. pc = "index" /\ UNCHANGED <<disk, index, reaches>>
  BY DEF BeginIndex, watcher, published
<1>2. CASE Full
  <2>1. tier' = EmptyTier /\ unread' = Build \cap Visible(disk) /\ pc' = "read"
    BY <1>2 DEF BeginIndex
  <2>2. IndexShapes'
    BY <1>1, <2>1, EmptySays DEF IndexShapes
  <2>3. ASSUME NEW f \in Build
        PROVE  Known(f)'
    <3>1. f \notin Visible(disk) => Due(f)' = Absent
      BY <1>1 DEF Due
    <3> QED BY <1>1, <2>1, <3>1, EmptySays DEF Known
  <2> QED BY <2>2, <2>3
<1>3. CASE ~Full /\ reaches.files # {}
  <2>1. /\ tier' = Retain(index, reaches.files) /\ unread' = reaches.files \ Ignored(disk)
        /\ pc' = "read"
    BY <1>3 DEF BeginIndex
  <2>2. unread' \subseteq Build \cap Visible(disk)
    BY <2>1, WatchAssumption DEF WatchInv, Visible
  <2>3. IndexShapes'
    BY <1>1, <2>1, <2>2, RetainSays DEF IndexShapes
  <2>4. ASSUME NEW f \in Build, Covers(reaches, f, "index") \/ Known(f)
        PROVE  Known(f)'
    <3>1. CASE f \in unread'
      BY <1>1, <2>1, <2>2, <3>1 DEF Known
    <3>2. CASE f \in reaches.files /\ f \notin unread'
      <4>1. Due(f)' = Absent
        BY <1>1, <2>1, <3>2 DEF Due, Visible
      <4>2. Says(tier', f, Absent)
        BY <2>1, <3>2, RetainSays DEF IndexShapes
      <4> QED BY <2>1, <3>2, <4>1, <4>2 DEF Known
    <3>3. CASE f \notin reaches.files
      <4>1. Says(index, f, Due(f))
        BY <1>1, <1>3, <2>4, <3>3 DEF Covers, Full, Known
      <4>2. Says(tier', f, Due(f)) /\ Due(f)' = Due(f)
        BY <1>1, <2>1, <3>3, <4>1, RetainSays DEF IndexShapes, Due
      <4> QED BY <2>1, <3>3, <4>2 DEF Known
    <3> QED BY <3>1, <3>2, <3>3
  <2> QED BY <2>3, <2>4
<1>4. CASE ~Full /\ reaches.files = {}
  <2>1. pc' = "configure"
    BY <1>4 DEF BeginIndex
  <2>2. \A f \in Build : ~Covers(reaches, f, "index")
    BY <1>4 DEF Covers, Full
  <2>3. \A f : Due(f)' = Due(f)
    BY <1>1 DEF Due
  <2> QED BY <1>1, <2>1, <2>2, <2>3 DEF Known, IndexShapes
<1> QED BY <1>2, <1>3, <1>4

LEMMA ReadKnows ==
  ASSUME WatchInv, LabelsAreApart, NEW g \in Files, ReadBuild(g), IndexShapes
  PROVE  /\ IndexShapes'
         /\ \A f \in Build : Known(f) => Known(f)'
<1>1. /\ pc = "read" /\ pc' = "read" /\ g \in unread /\ UNCHANGED <<disk, index>>
      /\ tier' = CollectDiskFile(tier, g, disk[g]) /\ unread' = unread \ {g}
  BY DEF ReadBuild, watcher, published
<1>2. /\ disk \in Disk /\ g \in Build /\ TierOf(tier) /\ Says(tier, g, Absent)
      /\ disk[g] \in Text \cup {Absent}
  BY <1>1, DiskTypes DEF IndexShapes, WatchInv
<1>3. /\ TierOf(tier') /\ Says(tier', g, disk[g])
      /\ \A f, y : /\ f # g /\ Says(tier, f, y)
                   /\ disk[g] # Absent /\ y # Absent => disk[g].declares \cap y.declares = {}
                   => Says(tier', f, y)
  BY <1>1, <1>2, CollectSays
<1>4. IndexShapes'
  <2>1. \A f \in unread' : Says(tier', f, Absent)
    BY <1>1, <1>3 DEF IndexShapes
  <2> QED BY <1>1, <1>3, <2>1 DEF IndexShapes
<1>5. ASSUME NEW f \in Build, Known(f)
      PROVE  Known(f)'
  <2>1. Due(f)' = Due(f)
    BY <1>1 DEF Due
  <2>2. CASE f = g
    <3>1. Due(f) = disk[f]
      BY <1>1, <1>5, <2>2 DEF Known, Due
    <3> QED BY <1>1, <1>3, <2>1, <2>2, <3>1 DEF Known
  <2>3. CASE f # g /\ f \in unread
    BY <1>1, <1>5, <2>3 DEF Known
  <2>4. CASE f # g /\ f \notin unread
    <3>1. Says(tier, f, Due(f))
      BY <1>1, <1>5, <2>4 DEF Known
    <3>2. disk[g] # Absent /\ Due(f) # Absent => disk[g].declares \cap Due(f).declares = {}
      <4>1. f \in Files /\ g \in Files
        BY WatchAssumption
      <4>2. disk[g] # Absent => disk[g] \in Texts[g]
        BY <1>2, <4>1, DiskTypes
      <4>3. Due(f) # Absent => Due(f) \in Texts[f]
        BY <1>2, <4>1, DiskTypes DEF Due
      <4> QED BY <1>2, <2>4, <4>2, <4>3 DEF LabelsAreApart
    <3> QED BY <1>1, <1>3, <2>1, <2>4, <3>1, <3>2 DEF Known
  <2> QED BY <2>2, <2>3, <2>4
<1> QED BY <1>4, <1>5

LEMMA StoreKnows ==
  ASSUME WatchInv, StoreIndex, IndexShapes
  PROVE  /\ IndexShapes'
         /\ \A f \in Build : Known(f) => Known(f)'
<1>1. pc = "read" /\ unread = {} /\ index' = tier /\ pc' = "configure" /\ disk' = disk
  BY DEF StoreIndex, watcher
<1>2. \A f : Due(f)' = Due(f)
  BY <1>1 DEF Due
<1> QED BY <1>1, <1>2 DEF IndexShapes, Known

LEMMA EditKnows ==
  ASSUME WatchInv, NothingIsMoved, watching, Edit, UNCHANGED <<index, tier, unread, pc>>,
         NEW f \in Build, Known(f)
  PROVE  Owed(f, "index")' \/ Known(f)'
<1>1. PICK e \in Event, changed \in SUBSET Files :
        /\ Report(e, changed) /\ changed \subseteq e.paths
        /\ \A g \in Files \ changed : disk'[g] = disk[g]
  BY EditIsReported
<1>2. f \in Files /\ "index" \in Tiers /\ Matters(f, "index")
  BY WatchAssumption DEF Tiers, Matters
<1>3. CASE Bazelignore \in e.paths \/ f \in e.paths \cap Visible(disk')
  BY <1>1, <1>2, <1>3, ChangeIsOwed
<1>4. CASE Bazelignore \notin e.paths /\ f \notin e.paths \cap Visible(disk')
  <2>1. disk'[Bazelignore] = disk[Bazelignore]
    BY <1>1, <1>4, WatchAssumption
  <2>2. Visible(disk') = Visible(disk)
    BY <2>1 DEF Visible, Ignored
  <2>3. Due(f)' = Due(f)
    BY <1>1, <1>2, <1>4, <2>2 DEF Due
  <2> QED BY <2>2, <2>3 DEF Known
<1> QED BY <1>3, <1>4

LEMMA IndexStep ==
  ASSUME WatchInv, WatchInv', IndexInv, NothingIsMoved, IgnoreListIsSeen, LabelsAreApart,
         [Next]_vars
  PROVE  IndexInv'
<1>1. IndexShapes /\ (watching => \A f \in Build : Owed(f, "index") \/ Known(f))
  BY DEF IndexInv
<1>3. IndexShapes'
  <2>1. CASE IndexSteps
    BY <1>1, <2>1, BeginKnows, ReadKnows, StoreKnows DEF IndexSteps
  <2>2. CASE ~IndexSteps
    BY <1>1, <2>2, IndexUntouched DEF IndexShapes
  <2> QED BY <2>1, <2>2
<1>4. ASSUME watching', NEW f \in Build
      PROVE  Owed(f, "index")' \/ Known(f)'
  <2>1. f \in Files /\ "index" \in Tiers
    BY WatchAssumption DEF Tiers
  <2>2. CASE ~watching
    BY <1>4, <2>1, <2>2, WatchingBegins, EstablishOwes
  <2>3. CASE watching /\ Begins(f, "index")
    BY <1>1, <2>3, BeginKnows DEF Begins
  <2>4. CASE watching /\ ~Begins(f, "index") /\ Owed(f, "index")
    BY <1>4, <2>1, <2>4, OwedStays
  <2>5. CASE watching /\ Known(f) /\ IndexSteps
    BY <1>1, <2>5, BeginKnows, ReadKnows, StoreKnows DEF IndexSteps
  <2>6. CASE watching /\ Known(f) /\ ~IndexSteps
    <3>1. CASE Edit
      <4>1. UNCHANGED <<index, tier, unread, pc>>
        BY <3>1 DEF Edit, Write, Rename, MoveIn, MoveOut, Replace, Report, work, published
      <4> QED BY <2>6, <3>1, <4>1, EditKnows
    <3>2. CASE ~Edit
      <4>1. disk' = disk
        BY <3>2, DiskUntouched
      <4>2. Due(f)' = Due(f)
        BY <4>1 DEF Due
      <4> QED BY <2>6, <4>1, <4>2, IndexUntouched DEF Known
    <3> QED BY <3>1, <3>2
  <2> QED BY <1>1, <2>2, <2>3, <2>4, <2>5, <2>6
<1> QED BY <1>3, <1>4 DEF IndexInv

LEMMA IndexAlways ==
  ASSUME NothingIsMoved, IgnoreListIsSeen, LabelsAreApart
  PROVE  Spec => []IndexInv
<1>1. Init => IndexInv
  BY EmptySays DEF Init, IndexInv, IndexShapes
<1>2. WatchInv /\ WatchInv' /\ IndexInv /\ [Next]_vars => IndexInv'
  BY IndexStep
<1> QED BY <1>1, <1>2, WatchAlways, PTL DEF Spec

\* At rest the static index is what the BUILD files say: whatever it does not say
\* of a file is owed, or under construction (build_static, update_static).
THEOREM EveryEditIsIndexed ==
  NothingIsMoved /\ IgnoreListIsSeen /\ LabelsAreApart => (Spec => []IndexIsCurrent)
<1> SUFFICES ASSUME NothingIsMoved, IgnoreListIsSeen, LabelsAreApart
             PROVE  Spec => []IndexIsCurrent
  OBVIOUS
<1>1. WatchInv /\ IndexInv => IndexIsCurrent
  <2> SUFFICES ASSUME WatchInv, IndexInv, Quiet, watching
               PROVE  Exact(index, disk, Build \cap Visible(disk))
    BY DEF IndexIsCurrent
  <2>1. ASSUME NEW f \in Build
        PROVE  Says(index, f, Due(f))
    <3>1. f \in Files /\ "index" \in Tiers
      BY WatchAssumption DEF Tiers
    <3> QED BY <3>1, QuietOwesNothing DEF IndexInv, Known, Quiet
  <2>2. TierOf(index) /\ disk \in Disk
    BY DEF IndexInv, IndexShapes, WatchInv
  <2> QED BY <2>1, <2>2, SaysIsExact
<1> QED BY <1>1, WatchAlways, IndexAlways, PTL

-----------------------------------------------------------------------------
(* The import candidates. *)

LEMMA ConfigurationUntouched ==
  ASSUME [Next]_vars, ~ConfigurationSteps
  PROVE  /\ configuration' = configuration
         /\ \A p \in {"walk", "visit"} : pc' = p <=> pc = p
         /\ pc \in {"walk", "visit"} => UNCHANGED <<unread, found, members>>
<1>1. CASE Edit \/ Callback \/ Reindex \/ DropWatch \/ TakeWake \/ Joined \/ UNCHANGED vars
  BY <1>1
  DEF vars, Edit, Write, Rename, MoveIn, MoveOut, Replace, Report, Callback, Load, Classify,
      Enqueue, Reindex, DropWatch, TakeWake, Joined, work, published
<1>2. CASE Thread
  BY <1>2
  DEF Thread, Settle, Receive, ReceiveMore, ReceiveStop, Expire, Tick, Waits, Timeout, Rebuild,
      BeginIndex, ReadBuild, StoreIndex, SemanticWake, AskBazel, Establish, work, published,
      ConfigurationSteps
<1> QED BY <1>1, <1>2 DEF Next

LEMMA WalkFinds ==
  ASSUME WatchInv, ConfigurationSteps, FoundShapes
  PROVE  /\ FoundShapes'
         /\ \A f \in Files : FoundSoFar(f) \/ Begins(f, "candidates") => FoundSoFar(f)'
<1>0. disk' = disk
  BY DEF ConfigurationSteps, BeginConfiguration, WalkEnds, StoreConfiguration, Walk, Visit, watcher
<1>1. \A f : Listed(f)' <=> Listed(f)
  BY <1>0 DEF Listed
<1>2. CASE BeginConfiguration
  <2>1. pc = "configure" /\ UNCHANGED <<configuration, reaches>>
    BY <1>2 DEF BeginConfiguration, published
  <2>2. CASE "candidates" \in reaches.tiers
    <3>1. pc' = "walk" /\ unread' = Visible(disk) /\ found' = {}
      BY <1>2, <2>2 DEF BeginConfiguration
    <3>2. Visible(disk) \subseteq Files
      BY DEF Visible
    <3>3. \A f : f \notin Visible(disk) => ~Listed(f)
      BY DEF Listed
    <3> QED BY <1>0, <1>1, <2>1, <3>1, <3>2, <3>3 DEF FoundShapes, FoundSoFar
  <2>3. CASE "candidates" \notin reaches.tiers
    <3>1. \/ pc' = "visit" /\ found' = configuration.candidates
          \/ pc' = "refresh"
      BY <1>2, <2>3 DEF BeginConfiguration
    <3>2. \A f : ~Begins(f, "candidates")
      BY <2>3 DEF Begins, Covers
    <3> QED BY <1>1, <2>1, <3>1, <3>2 DEF FoundShapes, FoundSoFar
  <2> QED BY <2>2, <2>3
<1>3. ~BeginConfiguration => \A f : ~Begins(f, "candidates")
  BY DEF Begins
<1>4. CASE \E g \in Files : Walk(g)
  <2>1. PICK g \in Files : Walk(g)
    BY <1>4
  <2>2. /\ pc = "walk" /\ pc' = "walk" /\ g \in unread /\ unread' = unread \ {g}
        /\ found' = (IF disk[g] = Absent THEN found ELSE found \cup {g})
        /\ configuration' = configuration
    BY <2>1 DEF Walk, published
  <2>3. FoundShapes'
    BY <2>2 DEF FoundShapes
  <2>4. ASSUME NEW f \in Files, FoundSoFar(f)
        PROVE  FoundSoFar(f)'
    <3>1. CASE f = g
      BY <1>1, <2>2, <2>4, <3>1 DEF FoundSoFar, Listed
    <3>2. CASE f # g
      BY <1>0, <1>1, <2>2, <2>4, <3>2 DEF FoundSoFar
    <3> QED BY <3>1, <3>2
  <2>5. ~BeginConfiguration
    BY <2>2 DEF BeginConfiguration
  <2> QED BY <1>3, <2>3, <2>4, <2>5
<1>5. CASE WalkEnds \/ StoreConfiguration \/ \E g \in Files : Visit(g)
  <2>1. ~BeginConfiguration
    BY <1>5 DEF WalkEnds, StoreConfiguration, Visit, BeginConfiguration
  <2>2. \/ /\ pc = "walk" /\ unread = {} /\ pc' = "visit" /\ UNCHANGED <<found, configuration>>
        \/ pc = "visit" /\ pc' = "visit" /\ UNCHANGED <<found, configuration>>
        \/ pc = "visit" /\ pc' = "wake" /\ configuration'.candidates = found
    <3>1. WalkEnds => /\ pc = "walk" /\ unread = {} /\ pc' = "visit"
                      /\ UNCHANGED <<found, configuration>>
      BY DEF WalkEnds, published
    <3>2. StoreConfiguration => pc = "visit" /\ pc' = "wake" /\ configuration'.candidates = found
      BY DEF StoreConfiguration
    <3>3. (\E g \in Files : Visit(g)) =>
             pc = "visit" /\ pc' = "visit" /\ UNCHANGED <<found, configuration>>
      BY DEF Visit, published
    <3> QED BY <1>5, <3>1, <3>2, <3>3
  <2>3. FoundShapes'
    BY <2>2 DEF FoundShapes
  <2>4. \A f \in Files : FoundSoFar(f) => FoundSoFar(f)'
    BY <1>1, <2>2 DEF FoundSoFar
  <2> QED BY <1>3, <2>1, <2>3, <2>4
<1> QED BY <1>2, <1>4, <1>5 DEF ConfigurationSteps

LEMMA EditFinds ==
  ASSUME WatchInv, NothingIsMoved, watching, Edit,
         UNCHANGED <<configuration, found, unread, pc>>, NEW f \in Files, FoundSoFar(f)
  PROVE  Owed(f, "candidates")' \/ FoundSoFar(f)'
<1>1. PICK e \in Event, changed \in SUBSET Files :
        /\ Report(e, changed) /\ changed \subseteq e.paths
        /\ \A g \in Files \ changed : disk'[g] = disk[g]
        /\ \A g \in changed : ChangesFileSet(e) \/ (disk'[g] = Absent <=> disk[g] = Absent)
  BY EditIsReported
<1>2. "candidates" \in Tiers /\ Matters(f, "candidates")
  BY DEF Tiers, Matters
<1>3. CASE Bazelignore \in e.paths \/ (f \in e.paths \cap Visible(disk') /\ ChangesFileSet(e))
  BY <1>1, <1>2, <1>3, ChangeIsOwed
<1>4. CASE /\ Bazelignore \notin e.paths
           /\ ~(f \in e.paths \cap Visible(disk') /\ ChangesFileSet(e))
  <2>1. disk'[Bazelignore] = disk[Bazelignore]
    BY <1>1, <1>4, WatchAssumption
  <2>2. Visible(disk') = Visible(disk)
    BY <2>1 DEF Visible, Ignored
  <2>3. Listed(f)' <=> Listed(f)
    BY <1>1, <1>4, <2>2 DEF Listed
  <2> QED BY <2>2, <2>3 DEF FoundSoFar
<1> QED BY <1>3, <1>4

LEMMA CandidatesStep ==
  ASSUME WatchInv, WatchInv', CandidatesInv, NothingIsMoved, IgnoreListIsSeen, [Next]_vars
  PROVE  CandidatesInv'
<1>1. FoundShapes /\ (watching => \A f \in Files : Owed(f, "candidates") \/ FoundSoFar(f))
  BY DEF CandidatesInv
<1>3. FoundShapes'
  <2>1. CASE ConfigurationSteps
    BY <1>1, <2>1, WalkFinds
  <2>2. CASE ~ConfigurationSteps
    BY <1>1, <2>2, ConfigurationUntouched DEF FoundShapes
  <2> QED BY <2>1, <2>2
<1>4. ASSUME watching', NEW f \in Files
      PROVE  Owed(f, "candidates")' \/ FoundSoFar(f)'
  <2>1. "candidates" \in Tiers
    BY DEF Tiers
  <2>2. CASE ~watching
    BY <1>4, <2>1, <2>2, WatchingBegins, EstablishOwes
  <2>3. CASE watching /\ Begins(f, "candidates")
    BY <1>1, <2>3, WalkFinds DEF Begins, ConfigurationSteps
  <2>4. CASE watching /\ ~Begins(f, "candidates") /\ Owed(f, "candidates")
    BY <1>4, <2>1, <2>4, OwedStays
  <2>5. CASE watching /\ FoundSoFar(f) /\ ConfigurationSteps
    BY <1>1, <2>5, WalkFinds
  <2>6. CASE watching /\ FoundSoFar(f) /\ ~ConfigurationSteps
    <3>1. CASE Edit
      <4>1. UNCHANGED <<configuration, found, unread, pc>>
        BY <3>1 DEF Edit, Write, Rename, MoveIn, MoveOut, Replace, Report, work, published
      <4> QED BY <2>6, <3>1, <4>1, EditFinds
    <3>2. CASE ~Edit
      <4>1. disk' = disk
        BY <3>2, DiskUntouched
      <4>2. Listed(f)' <=> Listed(f)
        BY <4>1 DEF Listed
      <4> QED BY <2>6, <4>1, <4>2, ConfigurationUntouched DEF FoundSoFar
    <3> QED BY <3>1, <3>2
  <2> QED BY <1>1, <2>2, <2>3, <2>4, <2>5, <2>6
<1> QED BY <1>3, <1>4 DEF CandidatesInv

-----------------------------------------------------------------------------
(* The bazelrc graph. *)

LEMMA ImportedIsVisible ==
  ASSUME NEW d \in Disk, ImportsAreSeen
  PROVE  /\ Imported \subseteq Visible(d) \cap RcNamed
         /\ Imported \subseteq Files
<1>1. Bazelignore \in Files /\ Imported \subseteq RcNamed \ Excluded /\ RcNamed \subseteq Files
  BY WatchAssumption DEF ImportsAreSeen
<1>2. d[Bazelignore] \in Texts[Bazelignore] \cup {Absent}
  BY <1>1 DEF Disk
<1>3. Ignored(d) \cap Imported = {}
  BY <1>2 DEF Ignored, ImportsAreSeen
<1> QED BY <1>1, <1>3 DEF Visible

LEMMA ReachableIsImported ==
  ASSUME NEW m, NEW more, Reachable(m, more)
  PROVE  {Rc} \cup SitesOf(m) \subseteq Imported /\ DOMAIN m \subseteq Imported
BY DEF Reachable, SitesOf, Imported

\* While it is not begun again, what was loaded is as saved, or its change is owed.
LEMMA FollowsStays ==
  ASSUME WatchInv, WatchInv', NothingIsMoved, IgnoreListIsSeen, ImportsAreSeen, [Next]_vars,
         watching, watching', ~(BeginConfiguration /\ "configuration" \in reaches.tiers),
         NEW m, NEW more, Reachable(m, more), Follows(m, more)
  PROVE  /\ \A f \in DOMAIN m : Owed(f, "configuration")' \/ m[f] = disk'[f]
         /\ \A f \in {Rc} \cup SitesOf(m) :
               f \in DOMAIN m \cup more \/ Owed(f, "configuration")' \/ disk'[f] = Absent
<1>1. "configuration" \in Tiers
  BY DEF Tiers
<1>2. \A f \in DOMAIN m \cup {Rc} \cup SitesOf(m) :
         f \in Files /\ f \in Visible(disk') /\ Matters(f, "configuration")
  <2>1. Imported \subseteq Visible(disk') \cap RcNamed /\ Imported \subseteq Files
    BY ImportedIsVisible DEF WatchInv
  <2> QED BY <2>1, ReachableIsImported DEF Matters
<1>3. \A f \in Files : Owed(f, "configuration") => Owed(f, "configuration")'
  <2>1. \A f : ~Begins(f, "configuration")
    BY DEF Begins, Covers
  <2> QED BY <1>1, <2>1, OwedStays
<1>4. \A f \in DOMAIN m \cup {Rc} \cup SitesOf(m) :
         Owed(f, "configuration")' \/ disk'[f] = disk[f]
  <2>1. CASE Edit
    <3>1. PICK e \in Event, changed \in SUBSET Files :
            /\ Report(e, changed) /\ changed \subseteq e.paths
            /\ \A g \in Files \ changed : disk'[g] = disk[g]
      BY <2>1, EditIsReported
    <3> QED BY <1>1, <1>2, <3>1, ChangeIsOwed
  <2>2. CASE ~Edit
    BY <2>2, DiskUntouched
  <2> QED BY <2>1, <2>2
<1> QED BY <1>2, <1>3, <1>4 DEF Follows

\* A visit loads the file as it is, and goes on with what that imports.
LEMMA VisitFollows ==
  ASSUME WatchInv, NEW f \in Files, Visit(f), Reachable(members, unread)
  PROVE  /\ Reachable(members', unread')
         /\ (/\ \A g \in DOMAIN members : Owed(g, "configuration")' \/ members[g] = disk'[g]
             /\ \A g \in {Rc} \cup SitesOf(members) :
                   \/ g \in DOMAIN members \cup unread
                   \/ Owed(g, "configuration")' \/ disk'[g] = Absent)
            => Follows(members, unread)'
<1>1. disk' = disk /\ f \in unread /\ f \notin DOMAIN members /\ disk[f] \in Texts[f] \cup {Absent}
  BY DiskTypes DEF Visit, watcher, Reachable, WatchInv
<1>2. CASE disk[f] = Absent
  <2>1. unread' = unread \ {f} /\ members' = members
    BY <1>2 DEF Visit
  <2> QED BY <1>1, <1>2, <2>1 DEF Reachable, Follows
<1>3. CASE disk[f] # Absent
  <2>1. /\ members' = [g \in DOMAIN members \cup {f} |-> IF g = f THEN disk[f] ELSE members[g]]
        /\ unread' = (unread \cup disk[f].imports) \ DOMAIN members'
    BY <1>3 DEF Visit
  <2>2. /\ DOMAIN members' = DOMAIN members \cup {f} /\ members'[f] = disk[f]
        /\ \A g \in DOMAIN members : members'[g] = members[g]
    BY <1>1, <2>1
  <2>3. SitesOf(members') = SitesOf(members) \cup disk[f].imports
    BY <2>2 DEF SitesOf
  <2>4. Reachable(members', unread')
    BY <1>1, <1>3, <2>1, <2>2, <2>3 DEF Reachable
  <2>5. ASSUME \A g \in DOMAIN members : Owed(g, "configuration")' \/ members[g] = disk'[g],
               \A g \in {Rc} \cup SitesOf(members) :
                   \/ g \in DOMAIN members \cup unread
                   \/ Owed(g, "configuration")' \/ disk'[g] = Absent
        PROVE  Follows(members, unread)'
    <3>1. \A g \in DOMAIN members' : Owed(g, "configuration")' \/ members'[g] = disk'[g]
      BY <1>1, <2>2, <2>5
    <3>2. \A g \in {Rc} \cup SitesOf(members') :
             g \in DOMAIN members' \cup unread' \/ Owed(g, "configuration")' \/ disk'[g] = Absent
      BY <2>1, <2>2, <2>3, <2>5
    <3> QED BY <3>1, <3>2 DEF Follows
  <2> QED BY <2>4, <2>5
<1> QED BY <1>2, <1>3

LEMMA NothingLoaded ==
  /\ Reachable(NoConfiguration.members, {Rc}) /\ Reachable(NoConfiguration.members, {})
  /\ Follows(NoConfiguration.members, {Rc})
BY DEF NoConfiguration, Reachable, Follows, SitesOf

LEMMA MembersStep ==
  ASSUME WatchInv, WatchInv', MembersInv, NothingIsMoved, IgnoreListIsSeen, ImportsAreSeen,
         [Next]_vars
  PROVE  MembersInv'
<1>1. CASE BeginConfiguration
  <2>1. configuration' = configuration /\ members' = NoConfiguration.members
    BY <1>1 DEF BeginConfiguration, published
  <2>2. CASE pc' = "walk"
    BY <2>1, <2>2 DEF MembersInv, Heeded
  <2>3. CASE pc' = "visit"
    <3>1. unread' = {Rc}
      BY <1>1, <2>3 DEF BeginConfiguration
    <3>2. Follows(members, unread)'
      BY <2>1, <3>1 DEF Follows, SitesOf, NoConfiguration
    <3> QED BY <2>1, <2>3, <3>1, <3>2, NothingLoaded DEF MembersInv, Heeded
  <2>4. CASE pc' \notin {"walk", "visit"}
    <3>1. pc = "configure" /\ "configuration" \notin reaches.tiers /\ watching' = watching
      BY <1>1, <2>4 DEF BeginConfiguration, watcher
    <3>2. watching => Follows(configuration.members, {})'
      BY <2>1, <3>1, FollowsStays DEF MembersInv, Heeded, Follows
    <3> QED BY <2>1, <2>4, <3>1, <3>2 DEF MembersInv, Heeded
  <2> QED BY <2>2, <2>3, <2>4
<1>2. CASE WalkEnds
  <2>1. /\ pc = "walk" /\ pc' = "visit" /\ unread' = {Rc} /\ members' = members
        /\ configuration' = configuration /\ members = NoConfiguration.members
    BY <1>2 DEF WalkEnds, published, MembersInv, Heeded
  <2>2. Follows(members, unread)'
    BY <2>1 DEF Follows, SitesOf, NoConfiguration
  <2> QED BY <2>1, <2>2, NothingLoaded DEF MembersInv, Heeded
<1>3. CASE \E f \in Files : Walk(f)
  BY <1>3 DEF Walk, published, MembersInv, Heeded
<1>4. CASE \E f \in Files : Visit(f)
  <2>1. PICK f \in Files : Visit(f)
    BY <1>4
  <2>2. /\ pc = "visit" /\ pc' = "visit" /\ configuration' = configuration /\ watching' = watching
        /\ ~BeginConfiguration /\ Reachable(members, unread)
    BY <2>1 DEF Visit, published, watcher, MembersInv, Heeded, BeginConfiguration
  <2>3. Reachable(members', unread')
    BY <2>1, <2>2, VisitFollows
  <2>4. watching => Follows(members, unread)'
    <3> SUFFICES ASSUME watching PROVE Follows(members, unread)'
      OBVIOUS
    <3>1. Follows(members, unread)
      BY <2>2 DEF MembersInv, Heeded
    <3> QED BY <2>1, <2>2, <3>1, VisitFollows, FollowsStays
  <2> QED BY <2>2, <2>3, <2>4 DEF MembersInv, Heeded
<1>5. CASE StoreConfiguration
  <2>1. /\ pc = "visit" /\ pc' = "wake" /\ unread = {} /\ configuration'.members = members
        /\ watching' = watching /\ ~BeginConfiguration
    BY <1>5 DEF StoreConfiguration, watcher, BeginConfiguration
  <2>2. Reachable(configuration'.members, {})
    BY <2>1 DEF MembersInv, Heeded
  <2>3. watching => Follows(configuration.members, {})'
    <3> SUFFICES ASSUME watching PROVE Follows(configuration.members, {})'
      OBVIOUS
    <3>1. Follows(members, unread) /\ Reachable(members, unread)
      BY <2>1 DEF MembersInv, Heeded
    <3>2. Follows(members, {}) /\ Reachable(members, {})
      BY <2>1, <3>1
    <3> QED BY <2>1, <3>2, FollowsStays DEF Follows
  <2> QED BY <2>1, <2>2, <2>3 DEF MembersInv, Heeded
<1>6. CASE ~ConfigurationSteps
  <2>1. /\ configuration' = configuration /\ (pc' = "walk" <=> pc = "walk")
        /\ (pc' = "visit" <=> pc = "visit") /\ ~BeginConfiguration
        /\ pc \in {"walk", "visit"} => UNCHANGED <<unread, found, members>>
    BY <1>6, ConfigurationUntouched DEF ConfigurationSteps
  <2>3. /\ Reachable(configuration'.members, {})
        /\ pc' = "walk" => members' = NoConfiguration.members
        /\ pc' = "visit" => Reachable(members', unread')
    BY <2>1 DEF MembersInv, Heeded
  <2>4. ASSUME watching'
        PROVE  Heeded'
    <3>1. CASE ~watching
      <4>1. \A f \in Files : Owed(f, "configuration")'
        BY <2>4, <3>1, WatchingBegins, EstablishOwes DEF Tiers
      <4>2. pc' = "index"
        BY <2>4, <3>1, WatchingBegins DEF Establish
      <4>3. DOMAIN configuration.members \cup {Rc} \cup SitesOf(configuration.members) \subseteq Files
        BY ReachableIsImported, ImportedIsVisible DEF MembersInv, Heeded, WatchInv
      <4>4. Follows(configuration.members, {})'
        BY <2>1, <4>1, <4>3 DEF Follows
      <4> QED BY <4>2, <4>4 DEF Heeded
    <3>2. CASE watching /\ pc = "walk"
      BY <2>1, <3>2 DEF Heeded
    <3>3. CASE watching /\ pc = "visit"
      <4>1. Follows(members, unread) /\ Reachable(members, unread)
        BY <3>3 DEF MembersInv, Heeded
      <4>2. Follows(members, unread)'
        BY <2>1, <2>4, <3>3, <4>1, FollowsStays DEF Follows
      <4> QED BY <2>1, <3>3, <4>2 DEF Heeded
    <3>4. CASE watching /\ pc \notin {"walk", "visit"}
      <4>1. Follows(configuration.members, {}) /\ Reachable(configuration.members, {})
        BY <3>4 DEF MembersInv, Heeded
      <4>2. Follows(configuration.members, {})'
        BY <2>1, <2>4, <3>4, <4>1, FollowsStays DEF Follows
      <4> QED BY <2>1, <3>4, <4>2 DEF Heeded
    <3> QED BY <3>1, <3>2, <3>3, <3>4
  <2> QED BY <2>3, <2>4 DEF MembersInv, Heeded
<1> QED BY <1>1, <1>2, <1>3, <1>4, <1>5, <1>6 DEF ConfigurationSteps

LEMMA ConfigurationAlways ==
  ASSUME NothingIsMoved, IgnoreListIsSeen, ImportsAreSeen
  PROVE  Spec => [](CandidatesInv /\ MembersInv)
<1>1. Init => CandidatesInv /\ MembersInv
  BY NothingLoaded DEF Init, CandidatesInv, FoundShapes, MembersInv, Heeded, NoConfiguration
<1>2. WatchInv /\ WatchInv' /\ CandidatesInv /\ MembersInv /\ [Next]_vars
         => CandidatesInv' /\ MembersInv'
  BY CandidatesStep, MembersStep
<1> QED BY <1>1, <1>2, WatchAlways, PTL DEF Spec

\* At rest the bazelrc graph and the import candidates are those of the workspace
\* (ConfigurationSnapshot::build_with_candidates, workspace_files).
THEOREM EveryImportIsFollowed ==
  NothingIsMoved /\ IgnoreListIsSeen /\ ImportsAreSeen => (Spec => []ConfigurationIsCurrent)
<1> SUFFICES ASSUME NothingIsMoved, IgnoreListIsSeen, ImportsAreSeen
             PROVE  Spec => []ConfigurationIsCurrent
  OBVIOUS
<1>1. WatchInv /\ CandidatesInv /\ MembersInv => ConfigurationIsCurrent
  <2> SUFFICES ASSUME WatchInv, CandidatesInv, MembersInv, Quiet, watching
               PROVE  LET loaded == DOMAIN configuration.members
                      IN  /\ \A f \in loaded : disk[f] = configuration.members[f]
                          /\ Present(disk, {Rc} \cup Sites(configuration)) = loaded
                          /\ configuration.candidates = Present(disk, Visible(disk))
    BY DEF ConfigurationIsCurrent
  <2> DEFINE m == configuration.members
  <2>1. \A f \in Files : ~Owed(f, "configuration") /\ ~Owed(f, "candidates")
    BY QuietOwesNothing DEF Tiers
  <2>2. Reachable(m, {}) /\ Follows(m, {}) /\ Sites(configuration) = SitesOf(m)
    BY DEF MembersInv, Heeded, Quiet, Sites, SitesOf
  <2>3. DOMAIN m \cup {Rc} \cup SitesOf(m) \subseteq Files
    BY <2>2, ReachableIsImported, ImportedIsVisible DEF WatchInv
  <2> HIDE DEF m
  <2>4. \A f \in DOMAIN m : disk[f] = m[f]
    BY <2>1, <2>2, <2>3 DEF Follows
  <2>5. \A f \in DOMAIN m : disk[f] # Absent
    BY <2>2, <2>4, StaticIndexAssumption DEF Reachable
  <2>6. Present(disk, {Rc} \cup SitesOf(m)) = DOMAIN m
    BY <2>1, <2>2, <2>3, <2>5 DEF Present, Follows, Reachable
  <2>7. configuration.candidates = Present(disk, Visible(disk))
    <3>1. \A f \in Files : f \in configuration.candidates <=> Listed(f)
      BY <2>1 DEF CandidatesInv, FoundSoFar, Quiet
    <3>2. configuration.candidates \subseteq Files /\ Visible(disk) \subseteq Files
      BY DEF CandidatesInv, FoundShapes, Visible
    <3> QED BY <3>1, <3>2 DEF Listed, Present
  <2> QED BY <2>2, <2>4, <2>6, <2>7 DEF m
<1> QED BY <1>1, WatchAlways, ConfigurationAlways, PTL

=============================================================================
