-------------------------------- MODULE Watch --------------------------------
(***************************************************************************)
(* The workspace watch (src/src/watch.rs): the callback the file watcher   *)
(* runs for every event, the queue it coalesces them in, and the thread    *)
(* that rebuilds the tiers an event reaches: the static index, the bazelrc *)
(* graph with its import candidates, and, by asking the Bazel thread, the  *)
(* evaluated graph.                                                        *)
(*                                                                         *)
(* The thread reads the workspace one file at a time while it changes.     *)
(* The watcher (the crate notify) is external: it reports every change of  *)
(* the watched tree in order, or that it dropped some.                     *)
(***************************************************************************)
EXTENDS StaticIndex, Sequences

CONSTANTS Dirs,            \* the paths of directories
          Inside,          \* for each directory, the files below it
          Build,           \* the files named BUILD or BUILD.bazel
          Loads,           \* MODULE.bazel, WORKSPACE*, REPO.bazel, *.bzl ...
          RcNamed,         \* the files named *.bazelrc
          Rc,              \* the workspace's own .bazelrc
          Bazelignore,     \* the workspace's .bazelignore
          Excluded,        \* what lies in .git, .jj or bazel-*
          MaxTargetFiles,  \* MAX_TARGET_FILES
          MaxEdits,        \* bound: changes of the workspace
          MaxMoves,        \* bound: directories moved or made
          MaxReindex,      \* bound: manual wakes that wait in the channel
          SettleTicks      \* SETTLE, in ticks of the clock

ASSUME WatchAssumption ==
    /\ Inside \in [Dirs -> SUBSET Files] /\ Dirs \cap Files = {}
    /\ Build \cup Loads \cup RcNamed \cup {Rc, Bazelignore} \cup Excluded \subseteq Files
    /\ Rc \in RcNamed
    /\ Build \cap (Loads \cup RcNamed \cup {Bazelignore}) = {} /\ Loads \cap RcNamed = {}
    /\ Bazelignore \notin Loads \cup RcNamed \cup Excluded
    /\ {MaxTargetFiles, MaxEdits, MaxMoves, MaxReindex, SettleTicks} \subseteq Nat

VARIABLES
    \* the workspace and its watcher
    disk,       \* the text of every file
    watching,   \* the watcher reports changes
    raw,        \* events the callback has not seen
    call,       \* the callback
    \* the queue and the channel
    queue,      \* EventState
    rx,         \* wakes the thread has not received
    \* the thread
    pc,         \* its next step
    left,       \* the ticks until the deadline of the burst
    reaches,    \* the tiers it is about to rebuild
    tier,       \* the static tier under construction
    unread,     \* the files it has still to read or look at
    found,      \* the import candidates it found
    members,    \* the bazelrc files it loaded
    \* what it publishes
    index, configuration, wake,
    \* history: bounds, and what the others have seen
    edits, moves, closed,
    shown,      \* the configuration the main loop last acted on
    stale       \* the files Bazel has not been asked about since they changed

watcher   == <<disk, watching, raw>>
events    == <<call, queue>>
work      == <<left, reaches, tier, unread, found, members>>
published == <<index, configuration, wake>>
bounds    == <<edits, moves, closed>>
seen      == <<shown, stale>>

vars == <<watcher, events, rx, pc, work, published, bounds, seen>>

-----------------------------------------------------------------------------
(* Which tiers a change reaches.  The flag full_targets is the tier "index". *)

Tiers == {"index", "graph", "configuration", "candidates"}

\* Invalidates: what a change reaches, and the changed BUILD files, of which no
\* more than MaxTargetFiles are listed.
Reaching(S) == [tiers |-> S, files |-> {}, count |-> 0]

Nothing       == Reaching({})
Graph         == Reaching({"graph"})
Both          == Reaching(Tiers)
Configuration == Reaching({"graph", "configuration"})
Candidates    == Reaching({"candidates"})
Initial       == Reaching(Tiers \ {"graph"})
File(f)       == [tiers |-> {"graph"}, files |-> {f}, count |-> 1]

\* Mutant: the second change does not bring its graph along.
WithOwnGraph(a, b) ==
    LET S == a.tiers \cup (b.tiers \ {"graph"})
    IN  IF "index" \in S \/ b.count + a.count > MaxTargetFiles
        THEN [tiers |-> S \cup {"index"}, files |-> {}, count |-> 0]
        ELSE [tiers |-> S, files |-> a.files \cup b.files, count |-> a.count + b.count]
\* The union of two changes; too many files become a full rebuild.
With(a, b) ==
    LET S == a.tiers \cup b.tiers
    IN  IF "index" \in S \/ b.count + a.count > MaxTargetFiles
        THEN [tiers |-> S \cup {"index"}, files |-> {}, count |-> 0]
        ELSE [tiers |-> S, files |-> a.files \cup b.files, count |-> a.count + b.count]

Anything(r) == r.tiers # {} \/ r.files # {}

\* Mutant: a bazelrc matters only if the configuration imports it.
InvalidatedByImport(path, sites) ==
    LET byName == IF path \in Build THEN File(path)
                  ELSE IF path = Bazelignore THEN Both
                  ELSE IF path \in Loads THEN Graph
                  ELSE Nothing
    IN  IF path \in sites \cup {Rc} THEN With(byName, Configuration) ELSE byName
\* invalidated: one path, `sites` being what the configuration imports.
Invalidated(path, sites) ==
    LET byName == IF path \in Build THEN File(path)
                  ELSE IF path = Bazelignore THEN Both
                  ELSE IF path \in Loads THEN Graph
                  ELSE IF path \in RcNamed THEN Configuration
                  ELSE Nothing
    IN  IF path \in sites THEN With(byName, Configuration) ELSE byName

\* read_bazelignore, as of now.
Ignored(d) == IF d[Bazelignore] = Absent THEN {} ELSE d[Bazelignore].ignores

\* excluded and is_ignored: a directory is relevant if a file in it is.
Relevant(path, d) ==
    IF path \in Dirs THEN ~(Inside[path] \subseteq Excluded \cup Ignored(d))
                     ELSE path \notin Excluded \cup Ignored(d)

\* Path::is_dir, as of now.
IsDir(path, d) == path \in Dirs /\ \E f \in Inside[path] : d[f] # Absent

\* An event of the watcher: a file's text changed ("content"), a file appeared
\* or went ("set"), a path changed its name ("name"), a directory appeared or
\* went ("folder"), or the watcher dropped events ("rescan").
EventKinds == {"content", "set", "name", "folder", "rescan"}
Event      == [kind : EventKinds, paths : SUBSET (Files \cup Dirs)]
Rescan     == [kind |-> "rescan", paths |-> {}]

ChangesFileSet(e)        == e.kind \in {"set", "name"}
ChangesPackageTree(e, d) ==
    \/ e.kind = "folder"
    \/ e.kind = "name" /\ \E p \in e.paths : IsDir(p, d)

\* The union of what these paths reach.
ReachedBy(paths, sites) ==
    With(Reaching(UNION {Invalidated(p, sites).tiers : p \in paths}),
         [tiers |-> {}, files |-> paths \cap Build, count |-> Cardinality(paths \cap Build)])

Wanted(e, sites, d) ==
    LET relevant == {p \in e.paths : Relevant(p, d)}
    IN  IF e.kind = "rescan" \/ (ChangesPackageTree(e, d) /\ relevant # {}) THEN Both
        ELSE IF ChangesFileSet(e) /\ relevant # {}
             THEN With(ReachedBy(relevant, sites), Candidates)
             ELSE ReachedBy(relevant, sites)

-----------------------------------------------------------------------------
(* The watch starts *)

NoEvents == [queued |-> FALSE, pending |-> Nothing]

NoConfiguration == [members |-> [f \in {} |-> Absent], candidates |-> {}]

Init ==
    /\ disk \in Disk /\ watching = FALSE /\ raw = <<>>
    /\ call = [at |-> "idle", event |-> Rescan, sites |-> {}, reaches |-> Nothing]
    /\ queue = NoEvents /\ rx = <<>>
    /\ pc = "establish" /\ left = 0 /\ reaches = Initial
    /\ tier = EmptyTier /\ unread = {} /\ found = {} /\ members = NoConfiguration.members
    /\ index = EmptyTier /\ configuration = NoConfiguration /\ wake = FALSE
    /\ edits = 0 /\ moves = 0 /\ closed = FALSE
    /\ shown = NoConfiguration /\ stale = {}

-----------------------------------------------------------------------------
(* The workspace changes and the watcher reports it, or drops the report. *)

Report(e, changed) ==
    /\ IF watching THEN \E r \in {e, Rescan} : raw' = Append(raw, r)
                   ELSE UNCHANGED raw
    /\ stale' = IF watching THEN stale \cup changed ELSE stale
    /\ UNCHANGED <<watching, events, rx, pc, work, published, closed, shown>>

\* A file is created, saved or removed.
Write(f, text) ==
    /\ edits < MaxEdits /\ edits' = edits + 1 /\ UNCHANGED moves
    /\ text # disk[f]
    /\ disk' = [disk EXCEPT ![f] = text]
    /\ Report([kind |-> IF Absent \in {disk[f], text} THEN "set" ELSE "content",
               paths |-> {f}], {f})

\* A file takes the place of another, as when an editor saves through a
\* temporary file.
Rename(f, g) ==
    /\ edits < MaxEdits /\ edits' = edits + 1 /\ UNCHANGED moves
    /\ f # g /\ disk[f] # Absent /\ disk[f] \in Texts[g]
    /\ disk' = [disk EXCEPT ![f] = Absent, ![g] = disk[f]]
    /\ Report([kind |-> "name", paths |-> {f, g}], {f, g})

\* The files below d become what they are in `after`.
Replace(d, after, kind) ==
    /\ moves < MaxMoves /\ moves' = moves + 1 /\ UNCHANGED edits
    /\ \A f \in Files \ Inside[d] : after[f] = disk[f]
    /\ disk' = after
    /\ Report([kind |-> kind, paths |-> {d}], Inside[d])

\* A directory is made, or moved into the workspace.
MoveIn(d, after) ==
    /\ ~IsDir(d, disk) /\ IsDir(d, after)
    /\ \E kind \in {"folder", "name"} : Replace(d, after, kind)

\* A directory is moved out of the workspace.
MoveOut(d) ==
    /\ IsDir(d, disk)
    /\ Replace(d, [f \in Files |-> IF f \in Inside[d] THEN Absent ELSE disk[f]], "name")

Edit ==
    \/ \E f \in Files : \E text \in Texts[f] \cup {Absent} : Write(f, text)
    \/ \E f, g \in Files : Rename(f, g)
    \/ \E d \in Dirs : (\E after \in Disk : MoveIn(d, after)) \/ MoveOut(d)

-----------------------------------------------------------------------------
(* The callback: EventQueue::send for one event at a time. *)

\* The files a configuration imports, loaded or not.
Sites(c) == UNION {c.members[f].imports : f \in DOMAIN c.members}

\* The configuration is loaded before the event is looked at.
Load ==
    /\ call.at = "idle" /\ raw # <<>>
    /\ raw' = Tail(raw)
    /\ call' = [at |-> "loaded", event |-> Head(raw), sites |-> Sites(configuration),
                reaches |-> Nothing]
    /\ UNCHANGED <<disk, watching, queue, rx, pc, work, published, bounds, seen>>

Classify ==
    /\ call.at = "loaded"
    /\ LET wanted == Wanted(call.event, call.sites, disk)
       IN  call' = [call EXCEPT !.at = IF Anything(wanted) THEN "classified" ELSE "idle",
                                !.reaches = wanted]
    /\ UNCHANGED <<watcher, queue, rx, pc, work, published, bounds, seen>>

\* Mutant: a wake is already queued, so the event is dropped.
EnqueueOnce ==
    /\ call.at = "classified" /\ call' = [call EXCEPT !.at = "idle"]
    /\ IF queue.queued
       THEN UNCHANGED <<queue, rx>>
       ELSE /\ queue' = [queued |-> TRUE, pending |-> With(queue.pending, call.reaches)]
            /\ rx' = Append(rx, "fs")
    /\ UNCHANGED <<watcher, pc, work, published, bounds, seen>>
\* Under the lock: merge, and wake the thread unless a wake is queued.  Once
\* the thread is gone the wake cannot be sent.
Enqueue ==
    /\ call.at = "classified" /\ call' = [call EXCEPT !.at = "idle"]
    /\ IF ~queue.queued /\ pc = "stopped"
       THEN queue' = NoEvents /\ UNCHANGED rx
       ELSE /\ queue' = [queued |-> TRUE, pending |-> With(queue.pending, call.reaches)]
            /\ rx' = IF queue.queued THEN rx ELSE Append(rx, "fs")
    /\ UNCHANGED <<watcher, pc, work, published, bounds, seen>>

-----------------------------------------------------------------------------
(* The main loop. *)

Manual == {i \in DOMAIN rx : rx[i] = "manual"}

\* Watch::reindex, any number of times.
Reindex ==
    /\ ~closed /\ Cardinality(Manual) < MaxReindex
    /\ rx' = Append(rx, "manual")
    /\ UNCHANGED <<watcher, events, pc, work, published, bounds, seen>>

\* Drop for Watch.
DropWatch ==
    /\ ~closed
    /\ closed' = TRUE
    /\ rx' = Append(rx, "stop")
    /\ UNCHANGED <<watcher, events, pc, work, published, edits, moves, seen>>

\* The main loop takes the semantic wake and looks at the configuration.
TakeWake ==
    /\ wake
    /\ wake' = FALSE /\ shown' = configuration
    /\ UNCHANGED <<watcher, events, rx, pc, work, index, configuration, bounds, stale>>

-----------------------------------------------------------------------------
(* The thread: it is woken, lets a burst settle, then rebuilds. *)

\* Registering the watch may fail; the first rebuild follows in any case.
Establish(ok) ==
    /\ pc = "establish"
    /\ watching' = ok
    /\ pc' = "index"
    /\ UNCHANGED <<disk, raw, events, rx, work, published, bounds, seen>>

\* EventQueue::take, if the wake is the queue's.
Take(wk) == IF wk = "fs" THEN queue' = NoEvents ELSE UNCHANGED queue

Reached(wk) == IF wk = "fs" THEN queue.pending ELSE Both

\* The first wake of a burst.  Its deadline is set once.
Receive ==
    /\ pc = "recv" /\ rx # <<>> /\ Head(rx) # "stop"
    /\ rx' = Tail(rx)
    /\ Take(Head(rx)) /\ reaches' = Reached(Head(rx))
    /\ IF Anything(reaches') THEN pc' = "settle" /\ left' = SettleTicks
                             ELSE UNCHANGED <<pc, left>>
    /\ UNCHANGED <<watcher, call, tier, unread, found, members, published, bounds, seen>>

\* The thread waits for the rest of the window.
Waits == pc = "settle" /\ left > 0

\* Mutant: a Stop is received like any other wake.
ReceiveAny ==
    /\ Waits /\ rx # <<>>
    /\ rx' = Tail(rx)
    /\ Take(Head(rx)) /\ reaches' = With(reaches, Reached(Head(rx)))
    /\ UNCHANGED <<watcher, call, pc, left, tier, unread, found, members, published, bounds, seen>>
\* Mutant: the deadline is set again by every wake.
ReceiveMoreAgain ==
    /\ Waits /\ rx # <<>> /\ Head(rx) # "stop"
    /\ rx' = Tail(rx)
    /\ Take(Head(rx)) /\ reaches' = With(reaches, Reached(Head(rx)))
    /\ left' = SettleTicks
    /\ UNCHANGED <<watcher, call, pc, tier, unread, found, members, published, bounds, seen>>
\* A further wake, within SETTLE of the first.
ReceiveMore ==
    /\ Waits /\ rx # <<>> /\ Head(rx) # "stop"
    /\ rx' = Tail(rx)
    /\ Take(Head(rx)) /\ reaches' = With(reaches, Reached(Head(rx)))
    /\ UNCHANGED <<watcher, call, pc, left, tier, unread, found, members, published, bounds, seen>>

\* A Stop, also within SETTLE: what was gathered is not rebuilt.
ReceiveStop ==
    /\ pc = "recv" \/ Waits
    /\ rx # <<>> /\ Head(rx) = "stop"
    /\ rx' = Tail(rx)
    /\ pc' = "stopped" /\ watching' = FALSE
    /\ UNCHANGED <<disk, raw, events, work, published, bounds, seen>>

\* Time passes, whether or not wakes are waiting.
Tick ==
    /\ Waits
    /\ left' = left - 1
    /\ UNCHANGED <<watcher, events, rx, pc, reaches, tier, unread, found, members, published>>
    /\ UNCHANGED <<bounds, seen>>

\* The deadline has come: the burst is over, and later wakes begin the next.
Timeout ==
    /\ pc = "settle" /\ left = 0
    /\ pc' = "index"
    /\ UNCHANGED <<watcher, events, rx, work, published, bounds, seen>>

-----------------------------------------------------------------------------
(* rebuild, first part: the static index. *)

Full == "index" \in reaches.tiers

\* What the walk visits: build_static and workspace_files.
Visible(d) == Files \ (Excluded \cup Ignored(d))

\* Start over, or take the changed files out; what is ignored is not read.
\* The excluded paths of an event were dropped before they got here.
BeginIndex ==
    /\ pc = "index"
    /\ IF Full \/ reaches.files # {}
       THEN /\ tier' = IF Full THEN EmptyTier ELSE Retain(index, reaches.files)
            /\ unread' = IF Full THEN Build \cap Visible(disk)
                                 ELSE reaches.files \ Ignored(disk)
            /\ pc' = "read"
       ELSE pc' = "configure" /\ UNCHANGED <<tier, unread>>
    /\ UNCHANGED <<watcher, events, rx, left, reaches, found, members, published, bounds, seen>>

ReadBuild(f) ==
    /\ pc = "read" /\ f \in unread
    /\ tier' = CollectDiskFile(tier, f, disk[f])
    /\ unread' = unread \ {f}
    /\ UNCHANGED <<watcher, events, rx, pc, left, reaches, found, members, published, bounds, seen>>

StoreIndex ==
    /\ pc = "read" /\ unread = {}
    /\ index' = tier
    /\ pc' = "configure"
    /\ UNCHANGED <<watcher, events, rx, work, configuration, wake, bounds, seen>>

-----------------------------------------------------------------------------
(* rebuild, second part: the bazelrc graph and the import candidates. *)

BeginConfiguration ==
    /\ pc = "configure"
    /\ members' = NoConfiguration.members
    /\ IF "candidates" \in reaches.tiers
       THEN pc' = "walk" /\ unread' = Visible(disk) /\ found' = {}
       ELSE IF "configuration" \in reaches.tiers
       THEN pc' = "visit" /\ unread' = {Rc} /\ found' = configuration.candidates
       ELSE pc' = "refresh" /\ UNCHANGED <<unread, found>>
    /\ UNCHANGED <<watcher, events, rx, left, reaches, tier, published, bounds, seen>>

Walk(f) ==
    /\ pc = "walk" /\ f \in unread
    /\ unread' = unread \ {f}
    /\ found' = IF disk[f] = Absent THEN found ELSE found \cup {f}
    /\ UNCHANGED <<watcher, events, rx, pc, left, reaches, tier, members, published, bounds, seen>>

WalkEnds ==
    /\ pc = "walk" /\ unread = {}
    /\ pc' = "visit" /\ unread' = {Rc}
    /\ UNCHANGED <<watcher, events, rx, left, reaches, tier, found, members, published>>
    /\ UNCHANGED <<bounds, seen>>

\* Load one bazelrc file, unless it is missing, and then what it imports.
Visit(f) ==
    /\ pc = "visit" /\ f \in unread
    /\ IF disk[f] = Absent
       THEN unread' = unread \ {f} /\ UNCHANGED members
       ELSE /\ members' = [g \in DOMAIN members \cup {f} |->
                              IF g = f THEN disk[f] ELSE members[g]]
            /\ unread' = (unread \cup disk[f].imports) \ DOMAIN members'
    /\ UNCHANGED <<watcher, events, rx, pc, left, reaches, tier, found, published, bounds, seen>>

StoreConfiguration ==
    /\ pc = "visit" /\ unread = {}
    /\ configuration' = [members |-> members, candidates |-> found]
    /\ pc' = "wake"
    /\ UNCHANGED <<watcher, events, rx, work, index, wake, bounds, seen>>

\* Mutant: there is no wake where Bazel is asked anyway.
WakeWithoutBazel ==
    /\ pc = "wake"
    /\ wake' = (wake \/ "graph" \notin reaches.tiers)
    /\ pc' = "refresh"
    /\ UNCHANGED <<watcher, events, rx, work, index, configuration, bounds, seen>>
\* A wake already waiting will do.
SemanticWake ==
    /\ pc = "wake"
    /\ wake' = TRUE
    /\ pc' = "refresh"
    /\ UNCHANGED <<watcher, events, rx, work, index, configuration, bounds, seen>>

-----------------------------------------------------------------------------
(* rebuild, third part: Bazel is asked. *)

\* Bazel::refresh, of module BazelActor.
AskBazel ==
    /\ pc = "refresh"
    /\ stale' = IF "graph" \in reaches.tiers THEN {} ELSE stale
    /\ pc' = "recv"
    /\ UNCHANGED <<watcher, events, rx, work, published, bounds, shown>>

-----------------------------------------------------------------------------
Callback == Load \/ Classify \/ Enqueue

Rebuild ==
    \/ BeginIndex \/ StoreIndex \/ BeginConfiguration \/ WalkEnds
    \/ StoreConfiguration \/ SemanticWake \/ AskBazel
    \/ \E f \in Files : ReadBuild(f) \/ Walk(f) \/ Visit(f)

Settle == Receive \/ ReceiveMore \/ ReceiveStop

Expire == Tick \/ Timeout

Thread == (\E ok \in BOOLEAN : Establish(ok)) \/ Settle \/ Expire \/ Rebuild

\* Drop for Watch has joined the thread.
Joined == pc = "stopped" /\ UNCHANGED vars

Next == Edit \/ Callback \/ Reindex \/ DropWatch \/ TakeWake \/ Thread \/ Joined

Spec == Init /\ [][Next]_vars

\* The watcher and the thread are scheduled, and time passes.  Nothing says that
\* a burst ends, or that the wakes do.
Fairness == /\ WF_vars(Callback)
            /\ WF_vars(\E ok \in BOOLEAN : Establish(ok))
            /\ WF_vars(Settle) /\ WF_vars(Tick) /\ WF_vars(Timeout) /\ WF_vars(Rebuild)

FairSpec == Spec /\ Fairness

-----------------------------------------------------------------------------
(* Properties *)

\* The thread waits and nothing is on its way to it.
Quiet == pc = "recv" /\ rx = <<>> /\ raw = <<>> /\ call.at = "idle"

\* At rest the static index says what the BUILD files of the workspace say,
\* whatever was edited, renamed, ignored or moved while they were read
\* (build_static, update_static).
IndexIsCurrent ==
    Quiet /\ watching => Exact(index, disk, Build \cap Visible(disk))

\* At rest the bazelrc graph holds the files the workspace's .bazelrc reaches,
\* as they are saved, and the candidates for an import are the files of the
\* workspace, whatever changed while they were read and walked.
ConfigurationIsCurrent ==
    Quiet /\ watching =>
        LET loaded == DOMAIN configuration.members
        IN  /\ \A f \in loaded : disk[f] = configuration.members[f]
            /\ Present(disk, {Rc} \cup Sites(configuration)) = loaded
            /\ configuration.candidates = Present(disk, Visible(disk))

\* At rest Bazel has been asked again since a file that decides what it
\* answers last changed, unless Bazel ignores that file too.
BazelIsAsked ==
    Quiet => stale \cap (Build \cup Loads \cup RcNamed) \cap Visible(disk) = {}

\* The wake follows the store: once the main loop has taken every wake it has
\* acted on the configuration that is published.
WakeFollowsStore ==
    shown = configuration \/ wake \/ pc = "wake"

\* What the queue or a manual wake asks for is rebuilt, or the thread stops,
\* however many wakes keep coming: they do not put off the end of a burst (the
\* deadline of settle is set before its loop), and no wake of it is forgotten.
WakesAreServed ==
    \A t \in Tiers :
        t \in queue.pending.tiers \/ Manual # {}
            ~> (pc = "index" /\ t \in reaches.tiers) \/ pc = "stopped"

\* Dropping the watch returns: the thread it joins stops.
DropReturns == closed ~> pc = "stopped"

=============================================================================
