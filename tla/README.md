# A TLA+ model of bazel-language-server

This directory models the server, its threads as well as what its requests
compute, checks the model with TLC on small instances, and proves the most
important properties of both with TLAPS. Paths are relative to the
repository's root; `actor.rs:83` is line 83 of `src/actor.rs`, and files of
`src/bazelrc/` and `src/handlers/` are named with their directory.

## The system

The server is one process. A protocol loop talks LSP with the editor; the other
threads compute what it answers from and publish it in slots that are swapped
atomically. A request is answered on a worker from one view of those slots.

| Part | State it keeps | Operations | Talks to |
|---|---|---|---|
| Bazel thread (`actor.rs`, `repos.rs`, `bazelrc/catalog.rs`) | two queues of messages, the operation in flight behind a mutex, the configuration and client in force | Configure, Refresh, Run, Stop; each runs Bazel commands that a later message may interrupt | writes the graph, repository mapping and flag catalog; wakes the loop |
| Bazel command (`bazel.rs`, `graph.rs`) | a child, two pipes, the bytes of messages that have not arrived whole | spawn, read, drain, decode, wait | answers the Bazel thread |
| Watch thread (`watch.rs`) | a queue of coalesced invalidations, the channel of wakes | watcher callback, settle, rebuild, reindex, drop | writes the static index and the bazelrc configuration; asks the Bazel thread; wakes the loop |
| Index (`index.rs`) | three tiers: buffers, BUILD files on disk, Bazel's graph | build, update, look up through the tiers | read by every request |
| Saved bazelrc graph (`bazelrc/index.rs`) | the files `.bazelrc` reaches, its sites, problems, import candidates | build | read by requests and by the watcher callback |
| Protocol loop (`main.rs`) | requests in flight, open documents, the configuration and catalog of the moment | requests, notifications, completions, wakes, shutdown | all of the above |
| Worker pool and latest-work worker (`worker.rs`) | bounded job queue; one queued and one running job per key | execute, cancel, drop | answers through the bounded `completed` channel |
| Documents (`document.rs`, `line_index.rs`) | open buffers by URI, their parsed text, the buffer tier | set, change, forget, reclassify | writes the buffer tier |
| Formatting (`format.rs`) | one child process with a deadline | format, lint | called by workers |
| Bazelrc text (`bazelrc/syntax.rs`) | none | from a text to its lines, tokens, names and conditions | used by the graph, the view and every feature |
| Bazelrc features (`bazelrc/*`) | none | the view of buffers over the graph; tokens, folds, completion, symbols, definitions, rename, hover, diagnostics | answer one request from one view |
| BUILD features (`handlers/*`, `label.rs`) | none | definition, references, rename, hover, links, hints, lenses, symbols | answer one request from one view |

Two things are hard here. One is concurrency: messages that interrupt the
command in flight, a child process that is spawned before it is registered, two
queues that are drained and pushed back into, files that change while they are
read, events that arrive during a rebuild or are dropped, wakes coalesced in
channels of capacity one, drops that join threads, a pipe that fills. The other
is that one fact has several sources: a file on disk, the buffer that edits it,
a graph or a tier read from either at another moment, Bazel's own answer. Many
separate walks over the same text have to agree on them: those that find the
caret, the name under it, its declarations, the edits of a rename, the findings.
PROJECT.json lists these as hazards, each at its line and with the properties
that cover it.

## Modules

| Module | Models | Status |
|---|---|---|
| `VecDeque` | what `retain` leaves of a queue | proved |
| `Mailbox` | the messages of the Bazel thread and the operators on its queues | checked, proved |
| `BazelActor` | the Bazel thread and its senders | checked, its safety proved |
| `PublishedTiers` | what the Bazel thread promises its readers, without a thread | refined by `BazelActor` |
| `BazelStream` | a Bazel command, its two pipes and the two threads that read them | checked, its safety proved |
| `GraphQuery` | the query of the graph: the decoder behind that stream | checked, its safety and the refinement proved |
| `QueryPromise` | what a query promises, without pipes or chunks | refined by `GraphQuery` |
| `StaticIndex` | the disk tier: entries, build, update | checked through `Watch` |
| `Watch` | the workspace, the watcher, its callback and the watch thread | checked, its safety proved |
| `Requests` | the protocol loop, its requests and the pool of workers | checked, its safety proved |
| `Diagnostics` | open documents, diagnostics, the latest-work worker and its child | checked, its safety proved |
| `LineIndex` | positions, offsets and changes of a text; deltas of semantic tokens | checked through `RcBuffer`, positions and changes proved |
| `RcSyntax` | the tokenizer of bazelrc files: continuations, quotes, statements, names, quoting | checked through `RcBuffer` |
| `RcStructure` | semantic tokens, folds and selection ranges | checked through `RcBuffer` |
| `RcCompletion` | completion of keywords, commands, paths and configurations | checked through `RcBuffer` |
| `RcBuffer` | a client that edits a bazelrc file, and the server's document | checked, that the texts are one proved |
| `RcCommands`, `RcVersion` | which section applies to which command; versions and their conditions | checked through `RcWorkspace` |
| `RcGraph`, `RcView` | the saved graph: imports, order, cycles, failures, sites; open buffers over it | checked and proved through `RcWorkspace` |
| `RcExpansion` | cycles, repeats and deep chains of configurations | checked and proved through `RcWorkspace` |
| `RcCatalog`, `RcOffers` | flags in every spelling; completion of flags and values | checked through `RcWorkspace` |
| `RcDiagnostics`, `RcSymbols` | findings; symbols, definitions, references, highlights, rename, links, hover | checked through `RcWorkspace`, their agreement proved |
| `RcWorkspace` | bazelrc files on disk, in buffers and in the graph the loop adopted | checked, five of its six properties proved |
| `Targets` | labels, the tiers of the index, the requests on a BUILD file | checked through `TargetEdits` |
| `TargetEdits` | BUILD files on disk, in buffers and in the tiers | checked, proved |
| `DataProofs`, `BazelActorProofs`, `GraphQueryProofs`, `WatchProofs`, `RequestsProofs`, `DiagnosticsProofs`, `RcProofs`, `TargetProofs` | proofs | tlapm |
| `MCBazelActor`, `MCWatch`, `MCRequests`, `MCDiagnostics`, `MCStream`, `MCText`, `MCBazelrc`, `MCTargets` | instances for TLC | |

What recurses in the code (a visit of an import, an expansion, the cutting of an
output into messages) is a recursive function over a finite set of data, the set
of the files being visited for the one and the places of the bytes for the
other, so that it can be proved about.

### The Bazel thread

`rx` is the channel, `pending` the `VecDeque` the thread drains it into,
`running` the structure behind the mutex. A sender holds the mutex from `Mark`
to `Deliver` (`Bazel::enqueue`, actor.rs:78-93), two actions, so that everything
else may happen in between; the thread's own critical sections are one action
each and wait for `LockFree`. The drain of `prepare` (actor.rs:358) happens
without the lock and is an action of its own, `Sweep`. An operation is a
sequence of commands (`stage`): `--version` and perhaps `help flags-as-proto`
for a probe; `mod dump_repo_mapping`, `info output_base` and `query` for a
refresh. Each is spawned, registered, waited for and finished.

A command reads the workspace no earlier than it is spawned, so its answer
carries the version (`seen`) the workspace had then. That makes freshness a
property: `requested` is the version at the last refresh asked for, `wanted` the
configuration asked for last, and `PublishedTiers` says that whatever is
published comes from `wanted` and from a version in `requested..world`.
`BazelActor` implements it under the obvious mapping (the variables have the
same names).

An interrupted command may still succeed: Bazel's output phase ignores SIGINT
(bazel.rs:238-241). `Exit(ok)` leaves it open.

### A Bazel command

`BazelStream` opens up one command: the process writes on two pipes of bounded
room, a thread drains stderr, and `stream_with` (bazel.rs:402-441) reads stdout
in chunks of any size up to the buffer's, waits and joins. The process may stop
at any time, which is what an interrupt comes to, and may have an exit of its
own of either kind. `GraphQuery` gives each chunk to the decoder (graph.rs:95-157):
bytes that are no whole message stay in `pending`; a length that has not arrived
whole is neither an error nor a length. `QueryPromise` has no chunks: of a
command that succeeded the answer is what the whole of its output says, by a
definition that has no order of reading: the places where messages start are the
least set that has the first place and, with a place, the one past its message.

The byte has `Base` values and, above them, those of a byte that another
follows. The overflow of a length's last byte is abstracted, and so is a read
error's effect on the child, which the program leaves unreaped. A grandchild
that keeps stderr open would block the join; none is modelled.

### The watch

The workspace is `disk`, a function from files to texts. A text stands for what
the program gets out of a file: labels declared and mentioned, files imported,
files ignored. Edits, renames and directory moves happen at any moment, each
with the event the watcher would report, or with a rescan event in its place.
The callback is three actions: load the configuration (`Load`), classify
against it and against `.bazelignore` as it is by then (`Classify`), merge into
the queue under its lock (`Enqueue`). The thread reads one file per action
(`ReadBuild`, `Walk`, `Visit`), so a rebuild sees files of different moments.
SETTLE is `SettleTicks` ticks: `left` is set by the first wake of a burst and goes
down with `Tick`, as time passes between any two wakes; the burst is over at zero
(watch.rs:338-348). Reindexing has no end: `MaxReindex` bounds the manual wakes that
wait in the channel and not how many come.

`Sites` takes every import as reached: an `import` that fails stops the graph
there in the program, and its file is loaded when it appears; the model loads
the rest anyway. Order, cycles and failures are the matter of `RcGraph`.
`MAX_IMPORT_CANDIDATES` is not modelled. A directory is relevant when some file
in it is.

### Requests

`inbox` is the channel from the client, `jobs` and `completed` the two bounded
channels of the pool, `incoming` the requests registered in the `ReqQueue`,
`cancelled` those whose `Cancellation` is set. The loop's actions are the arms
of its `select!` (main.rs:241); each runs to its end before the next. A worker
takes a job, looks at its cancellation, responds, and sends, in four actions
(worker.rs:69-71, main.rs:167-202). `Respond` covers every handler: it returns
a value or an error (`"result"`), or panics. Sending blocks while `completed`
is full and fails once the receiver is gone; `Session::run` takes the session by
value, so that the receiver is dropped before the pool is (main.rs:655-659).

What a handler sees is abstracted to how many changes its documents contain.
`asked[id]` is the number the client had sent before the request, which is what
makes `AnswersSeeTheirChanges` a property of the snapshot and the order of the
channel. Request ids are not used twice. The channel of completions is shared
with the diagnostics in the program; each module has its own part of it, since
the loop takes from it whatever comes and never waits for it.

### Diagnostics

The program decides whether a result is still wanted by comparing shared
pointers: of the document, the configuration, the catalog. Here a pointer is a
number that is never given out twice, so that a document reopened with the same
version, or reclassified and back, is another one. `known` is the loop's
configuration and catalog, `published` the slots of the other threads, `wake` the
channel of capacity one.

A turn of the loop is several actions wherever another thread can see the steps
of it: `CancelDue` sets the flag, `Kill` looks for a child (`Cancellation::cancel`,
worker.rs:23-30), `Publish` shows the syntax errors and queues the job. From the
first to the second the lock of the latest work is held (`Locked`). The worker
pops, spawns, tracks, checks (worker.rs:37-44), awaits, clears, finishes and
sends. A child that was killed may have answered before it died, and one that
times out may be about to.

Findings are what the client is shown: `"syntax"` alone, `"found"`, `"failed"`
for the empty list of a lint without buildifier or without a readable answer, and
`"cut"` for the empty list of a cancelled one, which is the one that must never be
shown. Whether a bazelrc file parses does not matter: it is analysed anyway. The
findings of a bazelrc file depend on the buffers it imports as well, and an edit
of those does not schedule it again (a hazard without a property).

### Texts

A text is a sequence of symbols: a word whose letters nothing tells apart is
one, and so is everything the tokenizer looks at. Offsets count symbols, columns
count UTF-16 units, two for the symbols in `Wide`. `RcBuffer` sets a client
beside the server: the client edits its own text at positions of its own and
sends changes, the server applies them (`LineIndex!ApplyChanges`,
document.rs:333) and answers in offsets of its text. The client's own reading
of a position is written independently (`ClientPosition`), so that agreement of
the two is checked. A text with a lone CR is opened and asked about, and not
edited, since clients disagree on where its lines end.

### Bazelrc files

In `RcWorkspace` a line is what the tokenizer makes of it. A path is its lexical
identity, and several paths may lead to one file. `Write`, `Open`, `Edit`,
`Close` and `Adopt` come in any order, so that the graph the loop holds is one of
an earlier disk and the buffers belong to neither. What a request should answer
is defined from `Build` itself, applied to the disk as it would be were the
buffers saved; `Knows` says when the program can know that disk. The expansion
of configurations is checked against chains enumerated by their definition, the
requests against one another and a completion against the diagnostics of the
line it makes. An option's name is a sequence of parts, so that `--configuration`
starts as `--config` does: in a named section an option that starts so and has a value
is a reference (`JoinsConfig`, syntax.rs:405), elsewhere it is a flag nobody knows. The documents are a hash map in the code; where two buffers edit
one file either may be the one that is taken (`CHOOSE`), and the properties leave
such a pair out.

### BUILD files

`Targets` reads a file as lines of at most one string, and says of each where it
sits: the name of a rule, a label in a call at top level, a label inside an
expansion, a label elsewhere, an item of a `load`. Columns are kept, since the
place of a name in a label (label.rs:58) is what an edit is made at. `TargetEdits`
changes the disk, the buffers (some with unfinished edits) and the tiers
independently. A label's name is one value: prefixes of it are not looked at.

## Runs

Bounds are the constants named `Max...`; each appears in the guard of the action
it limits. Those on history (`MaxEdits`, `MaxAsks`, `MaxSteps`, `MaxNotes`) limit
what the environment does, never what the program does.

| Run | Question | Bounds, and why they are enough |
|---|---|---|
| `actor` | no interrupt lost or stray; messages served once and in order; nothing asked is forgotten at rest; refinement of `PublishedTiers`; the drop returns; no self-inflicted livelock | two Configure/Run messages of two configurations (one disabled), unboundedly many refreshes with at most two queued, one edit: one message can be running with another pending and refreshes between |
| `watch_index` | the static index is exact at rest | two BUILD files, a `.bazelignore`, two edits, and `MAX_TARGET_FILES = 1`, so that two files already overflow |
| `watch_rc` | the saved graph, the candidates and Bazel are current at rest; the wake follows the store | `.bazelrc`, an imported `*.bazelrc`, a `.bzl`, two edits: one during the rebuild that the other caused |
| `watch_live` | what a wake asks for is rebuilt, however many follow; the drop returns | one move of a directory, reindexing without end with at most one such wake waiting, a window of two ticks: a window that began again with each wake would never close |
| `requests` | one response per request, none forgotten, from the documents the client saw; every request is answered; the end of the session returns | two workers (symmetric in the code, not reduced, since liveness is checked), a queue and a completed channel of one place, three requests or commands, one change, one unread message: both channels overflow with every worker busy |
| `diagnostics` | what is shown is current, complete at rest, and never a cut lint; cancelled children die; the buffer tier follows; diagnostics settle; the drop returns | a `.bazelrc` and a BUILD file it may come to import, two notifications after the opening, two publications, a completed channel of one place |
| `text` | positions, tokens, structure and completions of a buffer | every file that starts one of six ways and goes on with up to three symbols (two where the start says most) out of seven; one change, of at most one symbol removed, or a notification of two |
| `bazelrc` | the view is what saving would publish; rename, findings, answers and offers agree with it | three files of three to seven contents each, one with a symbolic link, any of them missing, a malformed and an unreadable one, cycles of imports and of configurations; three steps: a graph can be stale, a buffer edited and another open |
| `targets` | the tiers foresee the saved workspace; the requests agree on a target; a rename keeps the build | two packages, one below the other, a `.bzl` file, a data file, a fetched repository, buffers with unfinished edits; three steps: a buffer, a change of the disk and a publication |
| `stream` | the answer of a query is that of its whole output; commands return | every output of up to four bytes and seven longer ones, with lengths of two bytes, lengths and bodies that do not end; pipes of three bytes and one, reads of two: chunks cut lengths and bodies everywhere, and both pipes fill |
| `watch_race`, `targets_rename` | disagreements with the documentation, below | as `watch_rc` with an imported file of another name, and as `targets` |

Every property has a mutant, a plausible bug of the code under which the same
run finds the property violated; the mutants stand next to the definitions they
change. Types are not checked by a run where they are proved: `TypeOK` of
`BazelActor`, `Requests` and `Diagnostics`. The other modules' state has no
more of a type than the properties rely on.

### What the properties leave out

A property of a request is stated where the program can be expected to know. The
places left out are named in the property, and are these.

* `ViewIsWhatSavingWouldPublish`, `RenameKeepsExpansions`: an unopened file that
  changed on disk since the graph was read, an import the graph has not followed,
  two buffers of one file.
* `RenameKeepsExpansions`: a new name that something refers to already would
  take those references over; a buffer outside the graph is renamed alone.
* `FindingsFollowExpansion`: a chain that runs into a cycle is reported as the
  cycle, and its depth is not told.
* `OffersAreAccepted`: a flag with listed values that needs none, and has none, has
  its values offered anywhere behind it (`Loose`); a flag completed before a
  typed `=value` keeps the value, whatever the flag; an abbreviation of a flag that
  takes a value takes the next option for it, in the completion as in Bazel.
* `CompletionsKeepTokens`: a caret inside quotes or after a backslash where no
  token is on record yet; a command whose quotes its name shares with the
  configuration after it (`b"uild:dev"`).
* `SavingIsForeseen`, `RenameKeepsTheBuild`: `BUILD` and `BUILD.bazel` in one package
  (below); an unsaved file of a new package (below). With an unfinished buffer a
  rename is checked not to write over another name in an open document, no more.

### Fairness

* `BazelActor`: a sender that holds the mutex goes on (`Deliver` is two
  statements), the thread is scheduled (`Serve`), and a Bazel command ends
  (`Exit`). The last is an assumption about Bazel, which the program has no
  timeout for; it is what SIGINT is for. No fairness for the senders, the edits
  or the loop.
* `Watch`: the watcher's callback and the thread are scheduled, and time passes
  (`Tick`). That a burst ends is not assumed: it follows from a deadline that counts
  from the first wake (watch.rs:338), which is what `WakesAreServed` is about.
* `Requests`: the loop serves each of its two channels (`select!` picks at random
  among those that are ready), every worker is scheduled, and a handler returns.
  None for the client.
* `Diagnostics`: the same for the loop's three channels, a writer that has stored
  sends its wake, the worker is scheduled, a killed child dies, and one that does
  not answer times out (`TIMEOUT`, format.rs:308). None for the child's own answer,
  the client or the publishers.
* `GraphQuery`: the two threads run, and the process writes while there is room
  and exits in the end. None for the abort, a read error or a failed spawn.
* `RcBuffer`, `RcWorkspace`, `TargetEdits` have safety properties alone: what is
  computed there is computed in one step.

### Disagreements

Two are checked as violations.

* `watch_race`. docs/bazelrc-8.7.md:326-327 says that a change of a saved graph
  member invalidates the configuration. An imported file of an arbitrary name is
  known to be one only once the graph that imports it is stored; changed after it
  was read and before that, its event is dropped (watch.rs:183). `watch_rc` checks
  the same property where the imported file is named `*.bazelrc`: it holds.
* `targets_rename`. README.md:144 promises to "rename a target and rewrite every
  referring label". `collect` (index.rs:437) walks the calls at the top level of a
  BUILD file only, so a label anywhere else keeps the old name, even where the
  rename was asked for; a label that names the main repository by its module's
  name is another key (label.rs:37); and of `//lib` for `//lib:lib` the tail that
  is rewritten is the package (label.rs:58). `targets` checks the same of the
  labels that are left: it holds.

These were met while modelling, and are kept out of the runs above.

* README.md:42-43 says that BUILD-file changes replace only that file's entries.
  Targets are keyed by label alone (index.rs:353, 458): with `BUILD` and
  `BUILD.bazel` in one package declaring the same label, updating or deleting one
  replaces or drops the entry of the other.
* README.md:165-166 promises a rebuild on package-topology changes. A directory
  moved out of the workspace is not a directory any more when `path.is_dir()` is
  asked (watch.rs:424): the index keeps its targets.
* bazelrc/rename.rs:31-34 promises an error when the replacement cannot be
  inserted literally as one token fragment. `validate` looks at the new name, not
  at where it goes: in `build --config=w"#"#` the occurrence (`decoded_span`,
  bazelrc/syntax.rs:33-50) ends inside the quotes of its token.
* handlers/links.rs:4-6 says that a link exists exactly where a jump would have
  gone somewhere. A declaration's own name and a loaded symbol get a link though
  they are no label; a label whose target and file are not found jumps to its
  package and has no link; the link of a `load` prefers a target of that name.
* index.rs:245-249 calls the package of a document and that of the cursor in agreement
  by construction. For a BUILD file that is not saved yet, the cursor's package
  is looked for on disk and is the one above.
* A rename compares, at a site of the disk's tier, the name alone and not the
  package (handlers/rename.rs), so a moved line with another package's label of
  the same name would pass for it; files that are not open are not compared.
* A file outside the graph is renamed in alone. While the graph cannot be followed
  to its end, a file it did not come to is one of these (bazelrc/view.rs:41-68):
  a rename there leaves the occurrences in other files.

## Proofs

TLC checks the properties on the instances above; the theorems hold for every
set of configurations, workspaces, documents, workers, bytes and texts and every value
of the bounds.

Lemmas about data (`DataProofs`), cited by all the others: what `Retain` leaves of a
queue (the elements at the chosen positions, each once and in order); sequences
that are concatenated, cut and made of pieces; the first position at which
something holds; and three inductions the library's theorems leave to be stated. These
are over the natural numbers by the least counterexample (`LeastOf`), over a finite
set an element at a time (`SetInduction`), and downwards over the subsets of a finite
set, from a set to its supersets (`DownInduction`). The last is the shape of every
walk that keeps a stack of what it is visiting, and by well-founded induction on the
complement it also says that such a recursive function is what its equation says.

The Bazel thread (`BazelActorProofs`):

* Lemmas about the queue operators. Coalescing keeps every message but superseded
  refreshes, `Drain` keeps every kind of message, the last configuration asked for
  and the order of what is asked, and discards the rest only for a Stop.
* `TypeCorrect`: `TypeOK` is an invariant, one lemma per group of actions.
* `NoLostInterrupt`, `NoStrayInterrupt`: from the inductive `InterruptInv`, which
  says that the thread's registration is that of the operation it is in
  (`RunningIsTheOperation`), that `superseded` is set exactly when an unread
  message supersedes it (`NotedIsUnread`), and that a registered child is the one
  that runs and was signalled if superseded (`ChildIsRegistered`). The property
  alone is not inductive: it says nothing of the moments before the child is
  registered.
* `MessagesAreServedInOrder`: from `OrderInv`. What has been asked and not served is
  the concatenation of the deque, the channel and the message being sent
  (`Unserved`), and in it the asks after the last one served stand in order, none
  missing and none twice. Each drain and each push back leaves this sequence of
  asks alone (`SameAsks`), which is a congruence of concatenation.
* `PublicationsHaveAnOwner`: `PublishedByTheClient`, with the configuration the
  mapping was read for (`OwnersAgree`).
* `ThreadKeepsPromise`: `BazelActor` implements `PublishedTiers`. Steps that do
  not publish map to asks, edits, withdrawals or stutters. For `Publish`,
  `PromiseInv` adds: no configuration newer than the client's is unread without a
  supersede (`ConfigIsCurrent`), an answer in hand is no older than the last
  refresh unless one is unread (`AnswersAreCurrent`), and a Stop once sent stays
  queued (`StopIsKept`).
* `NothingAskedIsForgotten`: `RestReflectsAsks`, which speaks of a thread at rest,
  from `RestInv`, which speaks of it at work: a probe given up has a successor in
  the queue (`ProbeIsGivenUp`), a client has passed its probe (`ClientIsEarned`),
  once nothing newer is queued the last configuration sent is decided
  (`AskIsDecided`), and its answer is as recent as the last refresh unless one is
  queued or in hand (`AnswerIsKept`).

A Bazel command (`GraphQueryProofs`), for any bytes, outputs, pipes and buffers:

* `StreamIsAlwaysWhole`. The property is not inductive: that stdout's end is seen
  only once the process is gone, and that a process that ended with success had
  nothing left to say, are the rest of it.
* `QueryKeepsItsPromise`: `GraphQuery` implements `QueryPromise`, which is the property
  `AnswersTheWhole`. The invariant says what the decoder stands for (`Decodes`): what it
  has consumed is a path of whole messages through what was read, what is pending
  is the rest, and its targets are those of the path. A chunk extends the path
  (`Drains`): a message, a length or an error that is found in what has arrived
  is still found when more arrives (`ExtentOfMore`, `WrongInMore`, `PathInMore`), which
  is what makes the cuts immaterial; at the end the path is the only one, and covers
  the output or leaves an unfinished message (`FinishedSaysTheWhole`). The one step
  that answers is the promise's `Answer`, the others its `Command`, `Lose` or stutters.

The watch (`WatchProofs`). One argument serves every tier. A tier that does not
say what a file says is *owed* (`Owed`): an event that tells of it is in the
watcher or in the callback, or what the event reaches is in the queue or in the
hand of a thread that has not begun the tier. A change of a file makes it owed,
coalescing and the drop of unheeded events forget nothing that is, and only the
beginning of a tier ends it, from where the files are read as they are. At rest
nothing is owed. The properties themselves say nothing of a watch at work.

* `EveryStoreIsSeen`: `WakeFollowsStore`, for every workspace.
* `EveryChangeIsAsked`: `BazelIsAsked`, from `GraphInv`.
* `EveryEditIsIndexed`: `IndexIsCurrent`, from `IndexInv`: of each BUILD file the
  tier, or the one under construction, says what the file says (`Says`: its targets,
  its references, its place in the list), or is owed.
* `EveryImportIsFollowed`: `ConfigurationIsCurrent`, from `CandidatesInv` (the walk)
  and `MembersInv` (the loads): the files of the graph are closed under imports but
  for those still to be visited.

The last three need hypotheses on the workspace, which their statements name.
`NothingIsMoved`: the watcher misses the removal of a directory (watch.rs:424, a
listed hazard). `IgnoreListIsSeen`: `.bazelignore` does not ignore itself, or its own
events are dropped. `LabelsAreApart`: BUILD files declare different labels, which
`BUILD` and `BUILD.bazel` in one package may not (above, under "Disagreements").
`ImportsAreSeen`: what is imported is named `*.bazelrc`, outside the directories no
walk enters and ignored nowhere; the run `watch_race` is what happens otherwise.
The instances of `watch_index` and `watch_rc` satisfy them.

The protocol loop (`RequestsProofs`):

* `TypeCorrect` (channels within their capacity), `OneAnswer` and
  `NoRequestIsLost`, for any number of workers and places. Neither property is
  inductive: `AnswerInv` adds that an id is posted once (`AskedOnce`,
  `UnreadWasAsked`), that a request still unread has neither been answered nor
  registered (`UnreadIsOpen`), and that a registered one has not been answered
  (`RegisteredIsOpen`), which is what lets `incoming` decide between the cancel and
  the response.
* `AnswersAreTimely`. A request in the middle of the inbox says nothing of the
  documents as they are, so `SnapshotInv` says that the inbox can be replayed: some
  function gives the number of changes applied before each message, one more
  after a change, from the documents of the loop to all that the client has sent,
  and at each request it is what the client had sent before it (`InboxInStep`).
  From the moment it is read a request carries that number (`PoolInStep`).

Diagnostics (`DiagnosticsProofs`), for any number of documents:

* `TypeCorrect`, and with it that the queue of latest work has one job for each
  document, which `Others` (a `Retain`) keeps. `NoCancelledChildRuns` from
  `KillInv`: a child is tracked from `track` to `clear` and at no other time
  (`TrackedUntilCleared`), and a document is marked as running as long as the worker
  is busy with it (`RunningUntilFinished`), so that a cancel that finds no child is
  seen by the check that follows `track`.
* `NothingOldIsShown`: `ShownIsCurrent`, from `FreshInv`. The loop compares arcs, not
  texts, so the invariant has to say that the comparison means something: wherever
  work is held, in the queue, the worker or the channel, an arc stands for one text
  (`ArcsIdentify`) and a configuration's for one set of included files
  (`ConfigurationsIdentify`). In the middle of a pass over the documents, those
  that are not due any more are already current (`RestIsShown`).
* `NoCutLintIsShown`: `CutLintsAreNotShown`, from `CutInv`: a job that was cancelled
  is one whose document has changed since, unless the session is over; the
  invariant follows that fact from the cancel through the kill, the result and
  the channel to the comparison.
* `NothingIsMissingAtRest`: `RestIsComplete`, from `RestInv`: what an open document is
  missing is due or under way (`MissingIsUnderWay`), a publication not yet adopted
  still owes its wake (`WakeIsOwed`), and no result that would count as shown was
  cut short (`ResultsAreWhole`).

The text of a bazelrc buffer (`RcProofs`), of any length:

* `TheBufferIsTheScreen`: `BufferFollowsClient`. The invariant is simple (the texts are
  equal); what the proof needs are facts about `LineIndex`. The table of line
  starts is the positions of the line feeds in order (`StartsEntries`), searched by
  bisection it gives the client's own count (`PositionsAgree`), and a column finds
  the caret again (`CaretIsFound`): the caret lies before the end of its line
  (`CaretInLine`, where a CR without LF and a caret between the two would be the
  exceptions), and the width in UTF-16 units grows with every symbol
  (`WidthGrows`), so that no two carets of a line have one column. `OneChange` and
  `TwoChanges` unfold the loop of `ApplyChanges`, whose second change is read in
  the text the first one left.

The bazelrc files of a workspace (`RcProofs`), for any files, links, imports and
texts. The invariant of the steps is `WorkspaceHolds` (`WorkspaceStaysGood`): what is
saved and open is what it may be, and the graph is the default one or one that a build
published of files there were *at some time*, of which nothing else is known. The
work is in what a build and a request compute from it.

* A visit is unfolded once (`VisitsUnfold`), since what is being visited only grows and
  is finite; what is shown of every visit is shown by `DownInduction`, from the visits
  inside it, line by line.
* `ErrorsAlwaysLead`: `ErrorsLeadToTheCause`. A visit that fails has an error of its own
  or failed for its text, and the file that an import failed for was read before,
  failed for its text, or has an error (`VisitHolds`). A cycle is the interesting
  case: nothing is wrong with the file itself, which is still being visited further up,
  and the error in it is that of the outer visit, which fails on the way back.
* `AnswersAlwaysAgree`: `AnswersAgree`. A site of a view is on the line it says
  (the visits of the view again), and a place has one name; definition, hover and
  diagnostics then read the same reference, each by its own walk.
* `ViewIsAlwaysWhatSavingWouldPublish`: `ViewIsWhatSavingWouldPublish`. The visits of the
  view over the buffers and those of the build that would follow them are run in
  lockstep: at each set of files being visited the one collects, at the buffers, what
  the other adds at the files. `Knows` is carried down the visits; it makes the
  two look at the same text and follow the same imports.
* `RenameAlwaysKeepsExpansions`: `RenameKeepsExpansions`. The build before the rename and
  the build after are run in lockstep in the same way (`RenamedVisits`). A line stays
  what it is but for the name at its slots (`IsRenamed`): a value joined to an option,
  a word that is taken for the value of a split one, and the name of a section are
  still read as such, and it is where the edits of the request are exactly the sites of
  the name in the view (`EditsAre`) that the theorem on the view is needed.
* `FindingsAlwaysFollow`: `FindingsFollowExpansion`. Each of the three depth-first walks
  is unfolded once, over the sets of names it may not enter again, and what is shown of
  it holds whatever the references, their order and their loops.
  `CyclesAreCycles`: a search with marks finds a name exactly where it can be reached;
  one that does not find it has marked all that the names it marked lead to
  (`Searched`), so that the least closed set is among them (`ReachedIsLeast`).
  `RepetitionsAreRepeated`: following a reference from the end of a chain adds the names
  that the chains beyond it end at, and repeats those that were there already or that two
  of them end at (`Expands`); the chains from a root are all the chains (`ChainsAre`).
  `DeepChainsAreDeep`: `longest` is there exactly where no cycle can be reached, and is
  then at least as long as every walk (`LongestIsLongest`), which is a chain
  (`SafeWalkIsChain`). Findings are kept by place, so that it is needed besides that
  references at one place have one name (`PlacesHaveOneName`): a view reads one text
  at each path.

The requests on BUILD files (`TargetProofs`), for any workspace, texts, Bazel graph
and age of the tiers. A site is a line of a file and a line is one string, so two
walks that come to one site are about one string; what has to be shown is that they
read the same label in it. The invariant of the steps is small (`TargetsInv`: texts
are those of their files, the tier of the disk is of BUILD files); the work is in the
requests.

* `TheTiersForesee`: `SavingIsForeseen`. What the saved files would declare is in the
  buffers' tier or in a file on disk that no finished buffer speaks for
  (`SureIsIndexed`, `IndexedIsSure`), and none of the latter is hidden behind a
  buffer's target of the same label (`NothingIsHidden`).
* `TheRequestsAgree`: `CaretIsAmongItsAnswers`. `string_at` and `target_label` find at
  the caret the label that `collect` has put into the buffers' tier (`CaretLabel`,
  `CaretIsIndexed`), and each request tries the target before the file of that name
  (`LabelAnswers`).
* `RenamingKeepsTheBuild`: `RenameKeepsTheBuild`. The edits are exactly the plain
  strings that are read as the target (`EditsAreTheMeant`, from
  `TheTiersForesee`), a label with another name names the target of that name
  (`RenamedIsRead`), and where every buffer is finished nothing has moved
  (`MovedNothing`). Labels that are not plain (`//dir`, `@self//...`, outside a call at
  top level) are what the run `targets_rename` is about.

All three assume `OneBuildFile`, without which a package with `BUILD` and
`BUILD.bazel` has targets of one label in two files (above, under "Disagreements"); the
last two also `NamesAreApart`: a file gives a name to one rule, as Bazel demands, and
not the names "" and "all", which no label names. `MCTargets` has TLC evaluate both
for its instance.

Assumed: the named ASSUMEs of the modules (`NoConfig` is no configuration, bounds
are natural numbers, texts are finite sequences of symbols, the `.bzl` files that
are heeded are no bazelrc files, Bazel's graph has one target of a label, a directory
is the first of those it is in) and the hypotheses above. Of bazelrc texts
`ContentsAssumption` says what the parser makes of any text: finitely many lines of
finitely many options, each with its fields, an import with a path and a word
without dashes with no value; and that the name a rename writes is in none of the
files, without which it takes over what refers to it already.

Only model-checked:

* `TokensAreExact`, `StructureFollowsText`, `CompletionsKeepTokens`: what a fold of the
  tokenizer over every symbol of a text leaves, with a state of ten fields, and what
  four other walks make of the result. An invariant of the fold would be as long as
  the tokenizer.
* `OffersAreAccepted`: a case for each kind of flag, spelling and place; it is a table
  that TLC goes through.
* Liveness under fairness, which is out of TLAPS's reach.

## Not modelled

* Semantic tokens, folding, selection ranges, the outline and implementation of a
  BUILD file: walks over a syntax tree that a library makes of one buffer.
* The parsing of Starlark, of Bazel's version, repository mapping and flag dump;
  escaping in URIs; the wording of cards, details, sort keys. They are text.
* Symbolic links of BUILD files (index.rs:373), ignored directories that hold
  imported bazelrc files (watch.rs:378), progress reports.
* Formatting, which runs a child under its request's cancellation as a lint does.
* The command line (`index`, `doctor`), the protocol buffers and their generated
  code, the web site, scripts and tests.

Hazards seen and not taken up: the configuration of a superseded probe is dropped
(actor.rs:160, it is only logged); a Bazel command has no timeout (bazel.rs:418,
assumed away by fairness); a workspace that changes faster than Bazel answers is
never indexed (actor.rs:257, the same); the first rebuild does not ask Bazel, whose
query was asked for separately (watch.rs:73); a request's view is four loads
(index.rs:213, two tiers of different moments are what `TargetEdits` starts from);
ids used again before their worker answers (main.rs:711, the protocol forbids it);
a panic in a bazelrc analysis ends its thread (worker.rs:216, listed); an import is
expanded each time it is reached (bazelrc/index.rs:235, exponential at worst).

## What could come next

1. `BUILD` and `BUILD.bazel` in one package throughout `Targets`, with a tier keyed
   by label as it is in the code.
2. The composition of `Watch` with `BazelActor`: a file's change reaches the graph
   the requests read. `EveryChangeIsAsked` and `ThreadKeepsPromise` are its two halves.
3. `OffersAreAccepted` as a theorem, for any catalog: what a flag's values,
   abbreviations and negations have to satisfy for it would be its hypotheses.
