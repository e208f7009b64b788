---------------------------- MODULE Diagnostics -----------------------------
(* Open documents and what the editor shows for them (main.rs, document.rs,  *)
(* worker.rs, format.rs).  Whenever a document is opened, edited, or read as *)
(* another kind of file, the loop shows its syntax errors and leaves the     *)
(* rest to one worker, which holds the latest job of each document: a        *)
(* bazelrc file is analysed against the saved configuration and the flag     *)
(* catalog, another one is linted by a child process.  A newer job cancels   *)
(* the running one and kills its child; results come back through a bounded  *)
(* channel and are shown only if they are still about the present.           *)
(*                                                                           *)
(* The program compares shared pointers.  Here an arc is a number: each new  *)
(* arc of one document, and each thing published, gets a number of its own.  *)
EXTENDS Naturals, Sequences, FiniteSets, Functions, VecDeque

CONSTANTS
    Uris,               \* documents, as a sequence in the order of their URIs
    Nobody,             \* no document: None
    RcNamed,            \* those whose name alone makes them bazelrc files
    Build,              \* those whose name makes them BUILD files otherwise
    CompletedCapacity,  \* results the loop has not taken yet
    MaxNotes,           \* bounds on what the client sends and others publish
    MaxStores

Docs == Range(Uris)

ASSUME DocumentsAssumption ==
    /\ Uris \in Seq(Docs) /\ Nobody \notin Docs
    /\ \A i, j \in DOMAIN Uris : Uris[i] = Uris[j] => i = j
    /\ RcNamed \subseteq Docs
    /\ Build \subseteq Docs
    /\ CompletedCapacity \in Nat \ {0}
    /\ MaxNotes \in Nat
    /\ MaxStores \in Nat

VARIABLES
    notes,      \* notifications sent by the client
    screen,     \* what the editor shows for each document
    \* slots of the other threads
    published,  \* the configuration and the catalog they published last
    stores,     \* how often they have
    owing,      \* those that have stored and not sent their wake yet
    wake,       \* whether the channel of wakes holds one
    \* the loop
    docs,       \* open documents
    arcs,       \* arcs allocated for each document
    buffer,     \* the index tier of the open documents
    known,      \* the loop's configuration and catalog
    doing,      \* where the loop is
    due,        \* documents it still has to schedule
    \* the latest-work worker
    pending,    \* queued jobs
    running,    \* the document of the job in progress
    cancelled,  \* whether that job's Cancellation is set
    tracked,    \* whether it knows the job's child
    at,         \* where the worker is
    hand,       \* the job or the result it holds
    child,      \* its buildifier
    completed   \* results on their way to the loop

others == <<published, stores, owing, wake>>
open   == <<docs, arcs, buffer>>
loop   == <<open, known, doing, due>>
queue  == <<pending, running, cancelled>>
worker == <<tracked, at, hand, child>>
vars   == <<notes, screen, others, loop, queue, worker, completed>>

Writers == {"watch", "bazel"}

\* An open document: its arc, the client's version, whether it parses, and
\* whether it is read as a bazelrc file, whose errors do not matter here.
Document == [arc : Nat, version : Nat, clean : BOOLEAN, rc : BOOLEAN]
Closed   == [arc |-> 0, version |-> 0, clean |-> TRUE, rc |-> FALSE]

\* A saved configuration, by its arc and the files it includes, and the arc of
\* a catalog, 0 for none.
Semantics == [configuration : 0..MaxStores, includes : SUBSET Docs, catalog : 0..MaxStores]

\* Findings are all there, were cut short by a cancellation, or there are none
\* because buildifier is absent, unreadable or late.
Findings == {"found", "cut", "failed"}
Job      == [uri : Docs, doc : Document, with : Semantics]
Result   == [uri : Docs, doc : Document, with : Semantics, what : Findings]
Nothing  == [what |-> "nothing"]

\* On screen: nothing, syntax errors alone, or findings.
Shown == [doc : Document, with : Semantics, what : Findings \cup {"blank", "syntax"}]

Nowhere == [configuration |-> 0, includes |-> {}, catalog |-> 0]
Blank   == [doc |-> Closed, with |-> Nowhere, what |-> "blank"]

Init ==
    /\ notes = 0
    /\ screen = [u \in Docs |-> Blank]
    /\ published = Nowhere /\ stores = 0 /\ owing = {} /\ wake = FALSE
    /\ docs = [u \in Docs |-> Closed] /\ arcs = [u \in Docs |-> 0] /\ buffer = {}
    /\ known = Nowhere /\ doing = "select" /\ due = <<>>
    /\ pending = <<>> /\ running = Nobody /\ cancelled = FALSE
    /\ tracked = FALSE /\ at = "waiting" /\ hand = Nothing /\ child = "none"
    /\ completed = <<>>

-----------------------------------------------------------------------------
(* The other threads publish, and then wake the loop. *)

Store(writer, next) ==
    /\ stores < MaxStores /\ writer \notin owing
    /\ stores' = stores + 1
    /\ published' = next
    /\ owing' = owing \cup {writer}
    /\ UNCHANGED <<notes, screen, wake, loop, queue, worker, completed>>

StoreConfiguration ==
    \E included \in SUBSET (Docs \ RcNamed) :
        Store("watch", [published EXCEPT !.configuration = stores + 1, !.includes = included])

StoreCatalog == \E catalog \in {0, stores + 1} : Store("bazel", [published EXCEPT !.catalog = catalog])

SendWake(writer) ==
    /\ writer \in owing
    /\ owing' = owing \ {writer}
    /\ wake' = TRUE
    /\ UNCHANGED <<notes, screen, published, stores, loop, queue, worker, completed>>

-----------------------------------------------------------------------------
(* The documents. *)

IsOpen(u) == docs[u] # Closed

IsBazelrc(u, semantics) == u \in RcNamed \/ u \in semantics.includes

\* The tier of the open BUILD files, by the arc it was made from; one that does
\* not parse adds its targets to those on disk, and does not supersede them.
Tier(texts) ==
    {[uri |-> u, arc |-> texts[u].arc, speaks |-> texts[u].clean] :
        u \in {v \in Build : texts[v] # Closed /\ ~texts[v].rc}}

Replace(texts) == docs' = texts /\ buffer' = Tier(texts)

SetDocument(u, version, clean, rc) ==
    /\ arcs' = [arcs EXCEPT ![u] = @ + 1]
    /\ Replace([docs EXCEPT ![u] =
            [arc |-> arcs[u] + 1, version |-> version, clean |-> clean \/ rc, rc |-> rc]])

\* The loop's turn: one notification, whose document is to be scheduled.
Notified(u) ==
    /\ doing = "select"
    /\ notes < MaxNotes
    /\ notes' = notes + 1
    /\ doing' = "cancel" /\ due' = <<u>>
    /\ UNCHANGED <<screen, others, known, queue, worker, completed>>

DidOpen(u, clean) ==
    /\ ~IsOpen(u)
    /\ SetDocument(u, 1, clean, IsBazelrc(u, known))
    /\ Notified(u)

DidChange(u, clean) ==
    /\ IsOpen(u)
    /\ SetDocument(u, docs[u].version + 1, clean, docs[u].rc)
    /\ Notified(u)

DidClose(u) ==
    /\ IsOpen(u)
    /\ Replace([docs EXCEPT ![u] = Closed])
    /\ UNCHANGED arcs
    /\ Notified(u)

-----------------------------------------------------------------------------
(* A wake: reload, read every document as what it is by now, and schedule the *)
(* bazelrc files and those that changed their kind.                           *)

TakeWake ==
    /\ doing = "select" /\ wake
    /\ wake' = FALSE
    /\ doing' = "reload"
    /\ UNCHANGED <<notes, screen, published, stores, owing, open, known, due, queue, worker, completed>>

\* Open documents whose kind the published configuration changes.
Reclassified == {u \in Docs : IsOpen(u) /\ docs[u].rc # IsBazelrc(u, published)}

\* The same version under a new arc, parsed anew.
AsAnotherKind(doc, clean) ==
    [arc |-> doc.arc + 1, version |-> doc.version, clean |-> clean \/ ~doc.rc, rc |-> ~doc.rc]

ReclassifyBazelrc ==
    /\ arcs' = [u \in Docs |-> IF u \in Reclassified THEN arcs[u] + 1 ELSE arcs[u]]
    /\ \E clean \in [Reclassified -> BOOLEAN] :
           Replace([u \in Docs |->
               IF u \in Reclassified THEN AsAnotherKind(docs[u], clean[u]) ELSE docs[u]])

Bazelrcs == {u \in Docs : IsOpen(u) /\ IsBazelrc(u, published)}

\* In the order of their URIs, each once.
InOrder(uris) == Retain(Uris, {i \in DOMAIN Uris : Uris[i] \in uris})

\* Mutant: a document that is no bazelrc file any more is left alone.
ScheduleNoMore(uris) ==
    /\ due' = InOrder(Bazelrcs)
    /\ doing' = IF Bazelrcs = {} THEN "select" ELSE "cancel"

ScheduleBazelrc(uris) ==
    /\ due' = InOrder(uris)
    /\ doing' = IF uris = {} THEN "select" ELSE "cancel"

Reload ==
    /\ doing = "reload"
    /\ known' = published
    /\ ReclassifyBazelrc
    /\ ScheduleBazelrc(Bazelrcs \cup Reclassified)
    /\ UNCHANGED <<notes, screen, others, queue, worker, completed>>

-----------------------------------------------------------------------------
(* Scheduling one document.  The loop holds the lock of the latest work while *)
(* it cancels, in two steps: set the flag, then kill the child if one is      *)
(* known.                                                                     *)

\* Mutant: the drop joins the worker with the lock in its hand.
LockedWhileJoining == doing \in {"kill", "last kill", "join"}

Locked == doing \in {"kill", "last kill"}

Others(u) == Retain(pending, {i \in DOMAIN pending : pending[i].uri # u})

CancelWork(u) ==
    /\ pending' = Others(u)
    /\ cancelled' = (cancelled \/ running = u)
    /\ UNCHANGED running

\* What a kill does to the child, if the job's Cancellation knows it.
Killed == IF tracked /\ child = "running" THEN "killed" ELSE child

CancelDue ==
    /\ doing = "cancel"
    /\ CancelWork(Head(due))
    /\ doing' = IF running = Head(due) THEN "kill" ELSE "publish"
    /\ UNCHANGED <<notes, screen, others, open, known, due, worker, completed>>

Kill ==
    /\ doing = "kill"
    /\ child' = Killed
    /\ doing' = "publish"
    /\ UNCHANGED <<notes, screen, others, open, known, due, queue, tracked, at, hand, completed>>

Show(u, with, what) ==
    screen' = [screen EXCEPT ![u] = [doc |-> docs[u], with |-> with, what |-> what]]

\* Mutant: a document that is being worked on is not queued again.
ExecuteOnce(u) ==
    IF running = u THEN UNCHANGED <<queue, child>>
    ELSE /\ pending' = Append(Others(u), [uri |-> u, doc |-> docs[u], with |-> known])
         /\ UNCHANGED <<running, cancelled, child>>

\* Replace the queued work on u.  Work in progress on it is cancelled by now;
\* this cancels it again, which may kill a child registered since.
Execute(u) ==
    /\ pending' = Append(Others(u), [uri |-> u, doc |-> docs[u], with |-> known])
    /\ cancelled' = (cancelled \/ running = u)
    /\ child' = IF running = u THEN Killed ELSE child
    /\ UNCHANGED running

\* A bazelrc file is analysed, another one is linted if it parses.
IsAnalysed(u) == docs[u].rc \/ docs[u].clean

Scheduled ==
    /\ doing = "publish"
    /\ due' = Tail(due)
    /\ doing' = IF Tail(due) = <<>> THEN "select" ELSE "cancel"
    /\ UNCHANGED <<notes, others, open, known, tracked, at, hand, completed>>

ScheduleDiagnostics(u) ==
    /\ IsOpen(u)
    /\ Scheduled
    /\ Show(u, Nowhere, "syntax")
    /\ IF IsAnalysed(u) THEN Execute(u) ELSE UNCHANGED <<queue, child>>

\* A closed document has nothing to show.
Publish ==
    /\ doing = "publish"
    /\ \/ ScheduleDiagnostics(Head(due))
       \/ /\ ~IsOpen(Head(due))
          /\ Scheduled
          /\ screen' = [screen EXCEPT ![Head(due)] = Blank]
          /\ UNCHANGED <<queue, child>>

\* Mutant: versions are compared, not arcs.
IsCurrentVersion(result) ==
    /\ IsOpen(result.uri)
    /\ docs[result.uri].version = result.doc.version

\* A result counts if it is about the open document, and for a bazelrc file
\* if it was made with the loop's configuration and catalog.
IsCurrent(result) ==
    /\ IsOpen(result.uri)
    /\ docs[result.uri].arc = result.doc.arc
    /\ result.doc.rc =>
           /\ result.with.configuration = known.configuration
           /\ result.with.catalog = known.catalog

TakeCompleted ==
    /\ doing = "select" /\ completed # <<>>
    /\ completed' = Tail(completed)
    /\ LET result == Head(completed)
       IN  IF IsCurrent(result)
           THEN Show(result.uri, result.with, result.what)
           ELSE UNCHANGED screen
    /\ UNCHANGED <<notes, others, loop, queue, worker>>

-----------------------------------------------------------------------------
(* The end of the session: the receiver of results is gone; the drop of the  *)
(* latest work clears its queue, cancels, and joins the worker.              *)

Stopping == doing \in {"last kill", "join", "over"}

EndSession ==
    /\ doing = "select"
    /\ completed' = <<>>
    /\ doing' = "drop"
    /\ UNCHANGED <<notes, screen, others, open, known, due, queue, worker>>

DropLatest ==
    /\ doing = "drop"
    /\ pending' = <<>>
    /\ cancelled' = (cancelled \/ running # Nobody)
    /\ doing' = "last kill"
    /\ UNCHANGED <<notes, screen, others, open, known, due, running, worker, completed>>

LastKill ==
    /\ doing = "last kill"
    /\ child' = IF running # Nobody THEN Killed ELSE child
    /\ doing' = "join"
    /\ UNCHANGED <<notes, screen, others, open, known, due, queue, tracked, at, hand, completed>>

Join ==
    /\ doing = "join" /\ at = "gone"
    /\ doing' = "over"
    /\ UNCHANGED <<notes, screen, others, open, known, due, queue, worker, completed>>

-----------------------------------------------------------------------------
(* The worker. *)

Goes(from, to) == at = from /\ at' = to

WorkerOnly == UNCHANGED <<notes, screen, others, loop>>

Pop ==
    /\ Goes("waiting", "begin")
    /\ ~Locked /\ ~Stopping /\ pending # <<>>
    /\ hand' = Head(pending) /\ pending' = Tail(pending)
    /\ running' = Head(pending).uri /\ cancelled' = FALSE
    /\ UNCHANGED <<tracked, child, completed>> /\ WorkerOnly

Leave ==
    /\ Goes("waiting", "gone")
    /\ ~Locked /\ Stopping
    /\ UNCHANGED <<queue, tracked, hand, child, completed>> /\ WorkerOnly

Finding(job, what) == [uri |-> job.uri, doc |-> job.doc, with |-> job.with, what |-> what]

Analyse ==
    /\ Goes("begin", "finish")
    /\ hand.doc.rc
    /\ hand' = Finding(hand, "found")
    /\ UNCHANGED <<queue, tracked, child, completed>> /\ WorkerOnly

SkipLint ==
    /\ Goes("begin", "finish")
    /\ ~hand.doc.rc /\ cancelled
    /\ hand' = Finding(hand, "cut")
    /\ UNCHANGED <<queue, tracked, child, completed>> /\ WorkerOnly

Spawn ==
    /\ Goes("begin", "track")
    /\ ~hand.doc.rc /\ ~cancelled
    /\ child' = "running"
    /\ UNCHANGED <<queue, tracked, hand, completed>> /\ WorkerOnly

\* No buildifier.
SpawnFails ==
    /\ Goes("begin", "finish")
    /\ ~hand.doc.rc /\ ~cancelled
    /\ hand' = Finding(hand, "failed")
    /\ UNCHANGED <<queue, tracked, child, completed>> /\ WorkerOnly

\* The child is registered first, and a cancellation looked for after that: a
\* cancel that came before finds no child to kill.
Track ==
    /\ Goes("track", "check")
    /\ tracked' = TRUE
    /\ UNCHANGED <<queue, hand, child, completed>> /\ WorkerOnly

\* Mutant: the child is registered and that is it.
CheckNothing ==
    /\ Goes("check", "await")
    /\ UNCHANGED <<queue, tracked, hand, child, completed>> /\ WorkerOnly

CheckTracked ==
    /\ Goes("check", "await")
    /\ child' = IF cancelled /\ child = "running" THEN "killed" ELSE child
    /\ UNCHANGED <<queue, tracked, hand, completed>> /\ WorkerOnly

Reap(what) ==
    /\ Goes("await", "clear")
    /\ child' = "none"
    /\ hand' = Finding(hand, what)
    /\ UNCHANGED <<queue, tracked, completed>> /\ WorkerOnly

\* It answers, perhaps with what cannot be read.
ChildAnswers == child = "running" /\ \E what \in {"found", "failed"} : Reap(what)

\* Mutant: no deadline.
NeverTimesOut == FALSE

\* It is late: it is killed, whatever it would have said.
TimesOut == child = "running" /\ Reap("failed")

\* It was killed, perhaps after it had said everything.
ChildDies == child = "killed" /\ \E what \in {"found", "cut"} : Reap(what)

Clear ==
    /\ Goes("clear", "finish")
    /\ tracked' = FALSE
    /\ UNCHANGED <<queue, hand, child, completed>> /\ WorkerOnly

Finish ==
    /\ Goes("finish", "send")
    /\ ~Locked
    /\ running' = Nobody
    /\ UNCHANGED <<pending, cancelled, tracked, hand, child, completed>> /\ WorkerOnly

Disconnected == doing = "drop" \/ Stopping

Send ==
    /\ Goes("send", "waiting")
    /\ ~Disconnected /\ Len(completed) < CompletedCapacity
    /\ completed' = Append(completed, hand)
    /\ hand' = Nothing
    /\ UNCHANGED <<queue, tracked, child>> /\ WorkerOnly

SendFails ==
    /\ Goes("send", "gone")
    /\ Disconnected
    /\ hand' = Nothing
    /\ UNCHANGED <<queue, tracked, child, completed>> /\ WorkerOnly

-----------------------------------------------------------------------------
Client ==
    \/ \E u \in Docs, clean \in BOOLEAN : DidOpen(u, clean) \/ DidChange(u, clean)
    \/ \E u \in Docs : DidClose(u)
    \/ EndSession

Publishers == StoreConfiguration \/ StoreCatalog

\* What the loop does without waiting for anybody.
Proceed ==
    \/ Reload \/ CancelDue \/ Kill \/ Publish
    \/ DropLatest \/ LastKill

Work ==
    \/ Pop \/ Leave \/ Analyse \/ SkipLint \/ Spawn \/ SpawnFails \/ Track \/ CheckTracked
    \/ TimesOut \/ ChildDies \/ Clear \/ Finish \/ Send \/ SendFails

Next ==
    \/ Client
    \/ Publishers
    \/ \E writer \in Writers : SendWake(writer)
    \/ TakeWake \/ TakeCompleted \/ Proceed \/ Join
    \/ Work \/ ChildAnswers

Spec == Init /\ [][Next]_vars

\* The threads are scheduled; select! picks at random among what is ready; a
\* child that is killed dies, and one that never answers times out.
Fairness ==
    /\ \A writer \in Writers : WF_vars(SendWake(writer))
    /\ WF_vars(TakeWake) /\ WF_vars(TakeCompleted)
    /\ WF_vars(Proceed) /\ WF_vars(Join)
    /\ WF_vars(Work)

FairSpec == Spec /\ Fairness

-----------------------------------------------------------------------------
(* Properties. *)

Steps == {"waiting", "begin", "track", "check", "await", "clear", "finish", "send", "gone"}
Turns == {"select", "reload", "cancel", "kill", "publish", "drop", "last kill", "join", "over"}

\* Every variable has its type, and the queue holds one job per document.
TypeOK ==
    /\ notes \in 0..MaxNotes /\ stores \in 0..MaxStores
    /\ screen \in [Docs -> Shown]
    /\ published \in Semantics /\ known \in Semantics
    /\ owing \subseteq Writers /\ wake \in BOOLEAN
    /\ docs \in [Docs -> Document] /\ arcs \in [Docs -> Nat]
    /\ buffer \subseteq [uri : Docs, arc : Nat, speaks : BOOLEAN]
    /\ doing \in Turns /\ due \in Seq(Docs)
    /\ doing \in {"cancel", "kill", "publish"} => due # <<>>
    /\ pending \in Seq(Job)
    /\ \A i, j \in DOMAIN pending : pending[i].uri = pending[j].uri => i = j
    /\ running \in Docs \cup {Nobody}
    /\ cancelled \in BOOLEAN /\ tracked \in BOOLEAN
    /\ at \in Steps /\ hand \in Job \cup Result \cup {Nothing}
    /\ at \in {"begin", "track", "check", "await"} => hand \in Job
    /\ at \in {"clear", "finish", "send"} => hand \in Result
    /\ child \in {"none", "running", "killed"}
    /\ completed \in Seq(Result) /\ Len(completed) <= CompletedCapacity

\* Whenever the loop is free, what the editor shows for a document is about the
\* arc that is open, a bazelrc file's findings come from the loop's configuration
\* and catalog, and a closed document shows nothing (main.rs:719, 728).
ShownIsCurrent ==
    doing = "select" => \A u \in Docs :
        /\ IsOpen(u) \/ screen[u] = Blank
        /\ IsOpen(u) => screen[u].doc = docs[u]
        /\ docs[u].rc /\ screen[u].what # "syntax" => screen[u].with = known

\* The empty list a cancelled lint returns is never taken for a clean file,
\* whatever was closed, reopened or read as another kind meanwhile.
CutLintsAreNotShown == \A u \in Docs : screen[u].what # "cut"

\* Once a cancel is done, the child of the job it cancelled is not left
\* running, whether the cancel came before or after it was registered.
CancelledChildIsKilled == at = "await" /\ cancelled /\ ~Locked => child # "running"

AtRest ==
    /\ doing = "select" /\ ~wake /\ owing = {}
    /\ at = "waiting" /\ pending = <<>> /\ completed = <<>>

\* At rest no diagnostics are missing: a file that does not parse shows its
\* syntax errors, a BUILD file has been linted, and a bazelrc file has been
\* analysed with the configuration and the catalog that are published, and
\* every document is read as what the configuration makes of it, the index
\* tier of the buffers included.
RestIsComplete ==
    AtRest =>
        /\ buffer = Tier(docs)
        /\ \A u \in Docs : IsOpen(u) =>
               /\ docs[u].rc = IsBazelrc(u, published)
               /\ docs[u].rc => screen[u].what = "found" /\ screen[u].with = published
               /\ ~docs[u].rc => (screen[u].what = "syntax" <=> ~docs[u].clean)

\* When the client and the publishers fall silent the diagnostics settle, also
\* if a child hangs; or the session ends.
Settles == <>[](AtRest \/ doing = "over")

\* Ending the session returns, with a lint in progress and a full channel.
DropReturns == (doing = "drop") ~> (doing = "over")
=============================================================================
