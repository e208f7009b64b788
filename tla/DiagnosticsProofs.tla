------------------------- MODULE DiagnosticsProofs --------------------------
(***************************************************************************)
(* Theorems about open documents and their diagnostics, for every set of   *)
(* documents and every number of notifications and publications.           *)
(***************************************************************************)
EXTENDS Diagnostics, DataProofs

LEMMA ValueTypes ==
  /\ Closed \in Document /\ Nowhere \in Semantics /\ Blank \in Shown
  /\ \A u \in Docs, doc \in Document, with \in Semantics :
        [uri |-> u, doc |-> doc, with |-> with] \in Job
  /\ \A u \in Docs, doc \in Document, with \in Semantics, what \in Findings :
        [uri |-> u, doc |-> doc, with |-> with, what |-> what] \in Result
BY DocumentsAssumption
   DEF Closed, Document, Nowhere, Semantics, Blank, Shown, Findings, Job, Result

\* The queue holds one job for each document.
OneEach(queued) ==
    /\ queued \in Seq(Job)
    /\ \A i, j \in DOMAIN queued : queued[i].uri = queued[j].uri => i = j

\* Removing the work on u leaves the other jobs, each once.
LEMMA OthersType ==
  ASSUME OneEach(pending), NEW u
  PROVE  /\ OneEach(Others(u))
         /\ \A i \in DOMAIN Others(u) : Others(u)[i].uri # u
<1> DEFINE I == {i \in DOMAIN pending : pending[i].uri # u}
<1>1. Others(u) = Retain(pending, I) /\ I \in SUBSET (DOMAIN pending) /\ pending \in Seq(Job)
  BY DEF Others, OneEach
<1> HIDE DEF I
<1>2. /\ Others(u) \in Seq(Job)
      /\ \A k \in DOMAIN Others(u) : \E i \in I : Rank(I, i) = k /\ Others(u)[k] = pending[i]
  BY <1>1, RetainKeeps
<1>3. ASSUME NEW k \in DOMAIN Others(u), NEW l \in DOMAIN Others(u),
             Others(u)[k].uri = Others(u)[l].uri
      PROVE  k = l
  <2>1. PICK i \in I : Rank(I, i) = k /\ Others(u)[k] = pending[i]
    BY <1>2
  <2>2. PICK j \in I : Rank(I, j) = l /\ Others(u)[l] = pending[j]
    BY <1>2
  <2>3. i = j
    BY <1>1, <1>3, <2>1, <2>2 DEF OneEach
  <2> QED BY <2>1, <2>2, <2>3
<1>4. \A k \in DOMAIN Others(u) : Others(u)[k].uri # u
  BY <1>2 DEF I
<1> QED BY <1>2, <1>3, <1>4 DEF OneEach

LEMMA ReplacedType ==
  ASSUME OneEach(pending), NEW job \in Job
  PROVE  OneEach(Append(Others(job.uri), job))
<1>1. /\ OneEach(Others(job.uri))
      /\ \A i \in DOMAIN Others(job.uri) : Others(job.uri)[i].uri # job.uri
  BY OthersType
<1> DEFINE rest == Others(job.uri)
<1>2. rest \in Seq(Job)
  BY <1>1 DEF OneEach
<1> HIDE DEF rest
<1>3. /\ Append(rest, job) \in Seq(Job)
      /\ DOMAIN Append(rest, job) = DOMAIN rest \cup {Len(rest) + 1}
      /\ Append(rest, job)[Len(rest) + 1] = job
      /\ \A i \in DOMAIN rest : Append(rest, job)[i] = rest[i]
  BY <1>2
<1> QED BY <1>1, <1>3 DEF OneEach, rest

LEMMA TailType ==
  ASSUME OneEach(pending), pending # <<>>
  PROVE  OneEach(Tail(pending)) /\ Head(pending) \in Job
<1>1. pending \in Seq(Job)
  BY DEF OneEach
<1>2. /\ Tail(pending) \in Seq(Job) /\ Head(pending) \in Job
      /\ \A i \in DOMAIN Tail(pending) :
            i \in Nat /\ i + 1 \in DOMAIN pending /\ Tail(pending)[i] = pending[i + 1]
  BY <1>1
<1>3. ASSUME NEW i \in DOMAIN Tail(pending), NEW j \in DOMAIN Tail(pending),
             Tail(pending)[i].uri = Tail(pending)[j].uri
      PROVE  i = j
  <2>1. i + 1 = j + 1
    BY <1>2, <1>3 DEF OneEach
  <2> QED BY <1>2, <2>1
<1> QED BY <1>2, <1>3 DEF OneEach

\* Documents in order, each once, and none if there are none.
LEMMA InOrderType ==
  ASSUME NEW uris \in SUBSET Docs
  PROVE  /\ InOrder(uris) \in Seq(Docs)
         /\ uris # {} => InOrder(uris) # <<>>
         /\ \A i \in DOMAIN InOrder(uris) : InOrder(uris)[i] \in uris
         /\ \A u \in uris : \E i \in DOMAIN InOrder(uris) : InOrder(uris)[i] = u
<1> DEFINE I == {i \in DOMAIN Uris : Uris[i] \in uris}
<1>1. InOrder(uris) = Retain(Uris, I) /\ I \in SUBSET (DOMAIN Uris) /\ Uris \in Seq(Docs)
  BY DocumentsAssumption DEF InOrder
<1>2. \A u \in uris : \E i \in I : Uris[i] = u
  BY DEF Docs, Range
<1> HIDE DEF I
<1>3. /\ InOrder(uris) \in Seq(Docs)
      /\ \A k \in DOMAIN InOrder(uris) : \E i \in I : InOrder(uris)[k] = Uris[i]
      /\ \A i \in I : Rank(I, i) \in DOMAIN InOrder(uris) /\ InOrder(uris)[Rank(I, i)] = Uris[i]
  BY <1>1, RetainKeeps
<1>4. \A k \in DOMAIN InOrder(uris) : InOrder(uris)[k] \in uris
  BY <1>3 DEF I
<1>5. \A u \in uris : \E k \in DOMAIN InOrder(uris) : InOrder(uris)[k] = u
  BY <1>2, <1>3
<1>6. uris # {} => InOrder(uris) # <<>>
  BY <1>5
<1> QED BY <1>3, <1>4, <1>5, <1>6

LEMMA KindType ==
  ASSUME NEW doc \in Document, NEW clean
  PROVE  AsAnotherKind(doc, clean) \in Document
<1>1. doc.arc + 1 \in Nat /\ doc.version \in Nat
  BY DEF Document
<1>2. (clean \/ ~doc.rc) \in BOOLEAN /\ (~doc.rc) \in BOOLEAN
  OBVIOUS
<1> QED BY <1>1, <1>2, Zenon DEF AsAnotherKind, Document

-----------------------------------------------------------------------------
(* Type correctness, one lemma for each part of the program. *)

LEMMA ReplaceType ==
  ASSUME NEW texts \in [Docs -> Document], Replace(texts)
  PROVE  /\ docs' \in [Docs -> Document]
         /\ buffer' \subseteq [uri : Docs, arc : Nat, speaks : BOOLEAN]
<1>1. Tier(texts) \subseteq [uri : Docs, arc : Nat, speaks : BOOLEAN]
  BY DocumentsAssumption DEF Tier, Document
<1> QED BY <1>1 DEF Replace

LEMMA PublishersType ==
  ASSUME TypeOK, Publishers \/ \E writer \in Writers : SendWake(writer)
  PROVE  TypeOK'
<1>1. ASSUME NEW writer \in Writers, NEW next \in Semantics, Store(writer, next)
      PROVE  TypeOK'
  BY <1>1, DocumentsAssumption DEF TypeOK, Store, loop, open, queue, worker
<1>2. ASSUME stores < MaxStores
      PROVE  stores + 1 \in 0..MaxStores /\ 0 \in 0..MaxStores
  BY <1>2, DocumentsAssumption DEF TypeOK
<1>3. CASE StoreConfiguration
  <2>1. PICK included \in SUBSET (Docs \ RcNamed) :
            Store("watch", [published EXCEPT !.configuration = stores + 1, !.includes = included])
    BY <1>3 DEF StoreConfiguration
  <2>2. [published EXCEPT !.configuration = stores + 1, !.includes = included] \in Semantics
    BY <1>2, <2>1 DEF TypeOK, Store, Semantics
  <2> QED BY <1>1, <2>1, <2>2 DEF Writers
<1>4. CASE StoreCatalog
  <2>1. PICK catalog \in {0, stores + 1} : Store("bazel", [published EXCEPT !.catalog = catalog])
    BY <1>4 DEF StoreCatalog
  <2>2. [published EXCEPT !.catalog = catalog] \in Semantics
    BY <1>2, <2>1 DEF TypeOK, Store, Semantics
  <2> QED BY <1>1, <2>1, <2>2 DEF Writers
<1>5. ASSUME NEW writer \in Writers, SendWake(writer)
      PROVE  TypeOK'
  BY <1>5 DEF TypeOK, SendWake, loop, open, queue, worker
<1> QED BY <1>3, <1>4, <1>5 DEF Publishers

LEMMA ClientType ==
  ASSUME TypeOK, Client
  PROVE  TypeOK'
<1>1. ASSUME NEW u \in Docs, Notified(u), docs' \in [Docs -> Document], arcs' \in [Docs -> Nat],
             buffer' \subseteq [uri : Docs, arc : Nat, speaks : BOOLEAN]
      PROVE  TypeOK'
  BY <1>1, DocumentsAssumption DEF TypeOK, Notified, others, queue, worker, Turns
<1>2. ASSUME NEW u \in Docs, NEW version \in Nat, NEW clean \in BOOLEAN, NEW rc \in BOOLEAN,
             SetDocument(u, version, clean, rc)
      PROVE  /\ docs' \in [Docs -> Document] /\ arcs' \in [Docs -> Nat]
             /\ buffer' \subseteq [uri : Docs, arc : Nat, speaks : BOOLEAN]
  <2> DEFINE doc == [arc |-> arcs[u] + 1, version |-> version, clean |-> clean \/ rc, rc |-> rc]
  <2>1. doc \in Document /\ arcs' \in [Docs -> Nat]
    <3>1. arcs \in [Docs -> Nat] /\ arcs[u] + 1 \in Nat
      BY DEF TypeOK
    <3>2. (clean \/ rc) \in BOOLEAN
      OBVIOUS
    <3>3. doc \in Document
      BY <3>1, <3>2, Zenon DEF Document
    <3> QED BY <1>2, <3>1, <3>3 DEF SetDocument
  <2>2. [docs EXCEPT ![u] = doc] \in [Docs -> Document]
    BY <2>1 DEF TypeOK
  <2> QED BY <1>2, <2>1, <2>2, ReplaceType DEF SetDocument
<1>3. ASSUME NEW u \in Docs, NEW clean \in BOOLEAN, DidOpen(u, clean)
      PROVE  TypeOK'
  <2>1. IsBazelrc(u, known) \in BOOLEAN
    BY DEF IsBazelrc
  <2> QED BY <1>1, <1>2, <1>3, <2>1 DEF DidOpen
<1>4. ASSUME NEW u \in Docs, NEW clean \in BOOLEAN, DidChange(u, clean)
      PROVE  TypeOK'
  <2>1. docs[u].version + 1 \in Nat /\ docs[u].rc \in BOOLEAN
    BY DEF TypeOK, Document
  <2> QED BY <1>1, <1>2, <1>4, <2>1 DEF DidChange
<1>5. ASSUME NEW u \in Docs, DidClose(u)
      PROVE  TypeOK'
  <2>1. [docs EXCEPT ![u] = Closed] \in [Docs -> Document]
    BY ValueTypes DEF TypeOK
  <2>2. arcs' \in [Docs -> Nat]
    BY <1>5 DEF DidClose, TypeOK
  <2> QED BY <1>1, <1>5, <2>1, <2>2, ReplaceType DEF DidClose
<1>6. CASE EndSession
  <2>1. completed' \in Seq(Result) /\ Len(completed') <= CompletedCapacity /\ doing' \in Turns
    BY <1>6, DocumentsAssumption DEF EndSession, Turns
  <2> QED BY <1>6, <2>1 DEF TypeOK, EndSession, others, open, queue, worker
<1> QED BY <1>3, <1>4, <1>5, <1>6 DEF Client

LEMMA WakeType ==
  ASSUME TypeOK, TakeWake \/ Reload
  PROVE  TypeOK'
<1>1. CASE TakeWake
  BY <1>1 DEF TypeOK, TakeWake, open, queue, worker, Turns
<1>2. CASE Reload
  <2>1. Reclassified \subseteq Docs /\ Bazelrcs \subseteq Docs
    BY DEF Reclassified, Bazelrcs
  <2>2. arcs' \in [Docs -> Nat]
    <3>1. arcs \in [Docs -> Nat]
      BY DEF TypeOK
    <3>2. arcs' = [u \in Docs |-> IF u \in Reclassified THEN arcs[u] + 1 ELSE arcs[u]]
      BY <1>2 DEF Reload, ReclassifyBazelrc
    <3> QED BY <3>1, <3>2
  <2>3. /\ docs' \in [Docs -> Document]
        /\ buffer' \subseteq [uri : Docs, arc : Nat, speaks : BOOLEAN]
    <3>1. PICK clean \in [Reclassified -> BOOLEAN] :
              Replace([u \in Docs |->
                  IF u \in Reclassified THEN AsAnotherKind(docs[u], clean[u]) ELSE docs[u]])
      BY <1>2 DEF Reload, ReclassifyBazelrc
    <3>2. ASSUME NEW u \in Docs
          PROVE  docs[u] \in Document /\ AsAnotherKind(docs[u], clean[u]) \in Document
      <4>1. docs[u] \in Document
        BY DEF TypeOK
      <4> QED BY <4>1, KindType
    <3> QED BY <3>1, <3>2, ReplaceType
  <2>4. due' \in Seq(Docs) /\ (doing' \in {"cancel", "kill", "publish"} => due' # <<>>) /\ doing' \in Turns
    BY <1>2, <2>1, InOrderType DEF Reload, ScheduleBazelrc, Turns
  <2>5. known' \in Semantics
    BY <1>2 DEF Reload, TypeOK
  <2> QED BY <1>2, <2>2, <2>3, <2>4, <2>5 DEF TypeOK, Reload, others, queue, worker
<1> QED BY <1>1, <1>2

LEMMA OneEachJob == TypeOK => OneEach(pending)
BY DEF TypeOK, OneEach

LEMMA ShowType ==
  ASSUME TypeOK, NEW u \in Docs, NEW with \in Semantics, NEW what \in Findings \cup {"syntax"},
         Show(u, with, what)
  PROVE  screen' \in [Docs -> Shown]
<1>1. [doc |-> docs[u], with |-> with, what |-> what] \in Shown
  BY DEF TypeOK, Shown
<1>2. screen \in [Docs -> Shown]
  BY DEF TypeOK
<1> QED BY <1>1, <1>2 DEF Show

\* What cancelling and queueing do to the state of the worker.
LEMMA ExecuteType ==
  ASSUME TypeOK, NEW u \in Docs, Execute(u)
  PROVE  /\ OneEach(pending') /\ running' \in Docs \cup {Nobody}
         /\ cancelled' \in BOOLEAN /\ child' \in {"none", "running", "killed"}
<1> DEFINE job == [uri |-> u, doc |-> docs[u], with |-> known]
<1>1. job \in Job /\ job.uri = u
  BY ValueTypes DEF TypeOK
<1>2. OneEach(Append(Others(u), job))
  <2> HIDE DEF job
  <2> QED BY <1>1, ReplacedType, OneEachJob
<1>3. pending' = Append(Others(u), job) /\ running' = running
  BY DEF Execute
<1>4. (cancelled \/ running = u) \in BOOLEAN
  OBVIOUS
<1>5. child' \in {"none", "running", "killed"}
  BY DEF Execute, Killed, TypeOK
<1> QED BY <1>2, <1>3, <1>4, <1>5 DEF Execute, TypeOK, OneEach

LEMMA PublishType ==
  ASSUME TypeOK, Publish
  PROVE  TypeOK'
<1>1. due \in Seq(Docs) /\ due # <<>> /\ Head(due) \in Docs /\ Tail(due) \in Seq(Docs)
  BY DEF Publish, TypeOK
<1>2. ASSUME Scheduled, screen' \in [Docs -> Shown], OneEach(pending'),
             running' \in Docs \cup {Nobody}, cancelled' \in BOOLEAN,
             child' \in {"none", "running", "killed"}
      PROVE  TypeOK'
  <2>1. due' \in Seq(Docs) /\ doing' \in Turns /\ (doing' \in {"cancel", "kill", "publish"} => due' # <<>>)
    BY <1>1, <1>2 DEF Scheduled, Turns
  <2> QED BY <1>2, <2>1 DEF TypeOK, Scheduled, others, open, OneEach
<1>3. CASE ScheduleDiagnostics(Head(due))
  <2>1. screen' \in [Docs -> Shown]
    BY <1>1, <1>3, ShowType, ValueTypes DEF ScheduleDiagnostics
  <2>2. CASE Execute(Head(due))
    BY <1>1, <1>2, <1>3, <2>1, <2>2, ExecuteType DEF ScheduleDiagnostics
  <2>3. CASE UNCHANGED <<queue, child>>
    BY <1>2, <1>3, <2>1, <2>3, OneEachJob DEF ScheduleDiagnostics, TypeOK, queue, OneEach
  <2> QED BY <1>3, <2>2, <2>3 DEF ScheduleDiagnostics
<1>4. CASE /\ Scheduled
           /\ screen' = [screen EXCEPT ![Head(due)] = Blank]
           /\ UNCHANGED <<queue, child>>
  <2>1. screen' \in [Docs -> Shown]
    BY <1>1, <1>4, ValueTypes DEF TypeOK
  <2> QED BY <1>2, <1>4, <2>1, OneEachJob DEF TypeOK, queue, OneEach
<1> QED BY <1>3, <1>4 DEF Publish

LEMMA LoopType ==
  ASSUME TypeOK, TakeCompleted \/ CancelDue \/ Kill \/ DropLatest \/ LastKill \/ Join
  PROVE  TypeOK'
<1>1. CASE TakeCompleted
  <2> DEFINE result == Head(completed)
  <2>1. /\ completed' \in Seq(Result) /\ Len(completed') <= CompletedCapacity
        /\ result \in Result
    BY <1>1, DocumentsAssumption DEF TakeCompleted, TypeOK
  <2>2. CASE screen' = screen
    BY <1>1, <2>1, <2>2 DEF TypeOK, TakeCompleted, others, loop, open, queue, worker
  <2>3. CASE Show(result.uri, result.with, result.what)
    <3>1. result.uri \in Docs /\ result.with \in Semantics /\ result.what \in Findings
      BY <2>1 DEF Result
    <3>2. screen' \in [Docs -> Shown]
      BY <2>3, <3>1, ShowType
    <3> QED BY <1>1, <2>1, <3>2 DEF TypeOK, TakeCompleted, others, loop, open, queue, worker
  <2> QED BY <1>1, <2>2, <2>3 DEF TakeCompleted
<1>2. CASE CancelDue
  <2>1. OneEach(pending')
    BY <1>2, OthersType, OneEachJob DEF CancelDue, CancelWork
  <2>2. (cancelled \/ running = Head(due)) \in BOOLEAN
    OBVIOUS
  <2>3. cancelled' \in BOOLEAN
    BY <1>2, <2>2, Zenon DEF CancelDue, CancelWork
  <2>4. doing' \in Turns /\ due' # <<>>
    BY <1>2 DEF CancelDue, Turns, TypeOK
  <2> QED BY <1>2, <2>1, <2>3, <2>4
          DEF TypeOK, CancelDue, CancelWork, OneEach, others, open, worker
<1>3. CASE Kill
  BY <1>3 DEF TypeOK, Kill, Killed, others, open, queue, Turns
<1>4. CASE DropLatest
  <2>1. (cancelled \/ running # Nobody) \in BOOLEAN
    OBVIOUS
  <2>2. cancelled' \in BOOLEAN
    BY <1>4, <2>1, Zenon DEF DropLatest
  <2>3. /\ pending' = <<>> /\ doing' = "last kill"
        /\ UNCHANGED <<notes, screen, others, open, known, due, running, worker, completed>>
    BY <1>4, Zenon DEF DropLatest
  <2>4. OneEach(<<>>)
    BY DEF OneEach
  <2>5. OneEach(pending')
    BY <2>3, <2>4, Zenon
  <2>6. /\ UNCHANGED <<notes, screen, published, stores, owing, wake, docs, arcs, buffer, known, due>>
        /\ UNCHANGED <<running, tracked, at, hand, child, completed>>
    BY <2>3 DEF others, open, worker
  <2>7. doing' \in Turns /\ doing' \notin {"cancel", "kill", "publish"}
    BY <2>3 DEF Turns
  <2> QED BY <2>2, <2>5, <2>6, <2>7 DEF TypeOK, OneEach
<1>5. CASE LastKill
  BY <1>5 DEF TypeOK, LastKill, Killed, others, open, queue, Turns
<1>6. CASE Join
  BY <1>6 DEF TypeOK, Join, others, open, queue, worker, Turns
<1> QED BY <1>1, <1>2, <1>3, <1>4, <1>5, <1>6

LEMMA WorkType ==
  ASSUME TypeOK, Work \/ ChildAnswers
  PROVE  TypeOK'
<1>0. hand \in Job => \A what \in Findings : Finding(hand, what) \in Result
  <2> SUFFICES ASSUME hand \in Job, NEW what \in Findings
               PROVE  Finding(hand, what) \in Result
    OBVIOUS
  <2>1. hand.uri \in Docs /\ hand.doc \in Document /\ hand.with \in Semantics
    BY DEF Job
  <2> QED BY <2>1, ValueTypes DEF Finding
<1>1. CASE Pop
  <2>1. pending # <<>> /\ pending' = Tail(pending) /\ hand' = Head(pending)
    BY <1>1 DEF Pop
  <2>2. OneEach(pending') /\ hand' \in Job
    BY <2>1, TailType, OneEachJob
  <2>3. running' \in Docs
    BY <1>1, <2>1, <2>2 DEF Pop, Job
  <2> QED BY <1>1, <2>2, <2>3
          DEF TypeOK, Pop, Goes, Steps, OneEach, WorkerOnly, others, loop, open
<1>2. CASE Leave
  BY <1>2 DEF TypeOK, Leave, Goes, Steps, WorkerOnly, others, loop, open, queue
<1>3. CASE Analyse \/ SkipLint \/ SpawnFails
  <2>1. /\ at = "begin" /\ at' = "finish"
        /\ hand' \in Result
    BY <1>0, <1>3 DEF Analyse, SkipLint, SpawnFails, Goes, TypeOK, Findings
  <2>2. UNCHANGED <<queue, tracked, child, completed>> /\ WorkerOnly
    BY <1>3 DEF Analyse, SkipLint, SpawnFails
  <2> QED BY <2>1, <2>2 DEF TypeOK, Steps, WorkerOnly, others, loop, open, queue
<1>4. CASE Spawn
  BY <1>4 DEF TypeOK, Spawn, Goes, Steps, WorkerOnly, others, loop, open, queue
<1>5. CASE Track
  BY <1>5 DEF TypeOK, Track, Goes, Steps, WorkerOnly, others, loop, open, queue
<1>6. CASE CheckTracked
  BY <1>6 DEF TypeOK, CheckTracked, Goes, Steps, WorkerOnly, others, loop, open, queue
<1>7. ASSUME NEW what \in Findings, Reap(what)
      PROVE  TypeOK'
  <2>1. at = "await" /\ at' = "clear" /\ hand' \in Result
    BY <1>0, <1>7 DEF Reap, Goes, TypeOK
  <2> QED BY <1>7, <2>1 DEF TypeOK, Reap, Steps, WorkerOnly, others, loop, open, queue
<1>8. CASE ChildAnswers \/ TimesOut \/ ChildDies
  BY <1>7, <1>8 DEF ChildAnswers, TimesOut, ChildDies, Findings
<1>9. CASE Clear
  BY <1>9 DEF TypeOK, Clear, Goes, Steps, WorkerOnly, others, loop, open, queue
<1>10. CASE Finish
  BY <1>10 DEF TypeOK, Finish, Goes, Steps, WorkerOnly, others, loop, open
<1>11. CASE Send
  <2>1. hand \in Result /\ completed' = Append(completed, hand) /\ Len(completed) < CompletedCapacity
    BY <1>11 DEF Send, Goes, TypeOK
  <2>2. completed' \in Seq(Result) /\ Len(completed') <= CompletedCapacity
    BY <2>1, DocumentsAssumption DEF TypeOK
  <2> QED BY <1>11, <2>2 DEF TypeOK, Send, Goes, Steps, WorkerOnly, others, loop, open, queue
<1>12. CASE SendFails
  BY <1>12 DEF TypeOK, SendFails, Goes, Steps, WorkerOnly, others, loop, open, queue
<1> QED BY <1>1, <1>2, <1>3, <1>4, <1>5, <1>6, <1>8, <1>9, <1>10, <1>11, <1>12 DEF Work

\* The variables of the loop, the worker and the documents keep their types for
\* every set of documents, and the queue holds one job for each (worker.rs:147).
THEOREM TypeCorrect == Spec => []TypeOK
<1>1. Init => TypeOK
  <2> SUFFICES ASSUME Init PROVE TypeOK
    OBVIOUS
  <2>1. Nowhere \in Semantics /\ Closed \in Document /\ Blank \in Shown
    BY ValueTypes
  <2>2. screen \in [Docs -> Shown] /\ docs \in [Docs -> Document] /\ arcs \in [Docs -> Nat]
    BY <2>1 DEF Init
  <2>3. OneEach(pending)
    BY DEF Init, OneEach
  <2>4. due \in Seq(Docs) /\ completed \in Seq(Result) /\ Len(completed) <= CompletedCapacity
    BY DocumentsAssumption DEF Init
  <2>5. /\ notes \in 0..MaxNotes /\ stores \in 0..MaxStores
        /\ published \in Semantics /\ known \in Semantics /\ owing \subseteq Writers /\ wake \in BOOLEAN
        /\ buffer \subseteq [uri : Docs, arc : Nat, speaks : BOOLEAN]
    <3>1. notes \in 0..MaxNotes /\ stores \in 0..MaxStores
      BY DocumentsAssumption DEF Init
    <3>2. published \in Semantics /\ known \in Semantics /\ owing \subseteq Writers /\ wake \in BOOLEAN
      BY <2>1 DEF Init
    <3>3. buffer \subseteq [uri : Docs, arc : Nat, speaks : BOOLEAN]
      BY DEF Init
    <3> QED BY <3>1, <3>2, <3>3
  <2>6. /\ doing = "select" /\ doing \in Turns /\ at = "waiting" /\ at \in Steps
        /\ running \in Docs \cup {Nobody} /\ cancelled \in BOOLEAN /\ tracked \in BOOLEAN
        /\ hand \in Job \cup Result \cup {Nothing} /\ child \in {"none", "running", "killed"}
    BY DEF Init, Turns, Steps
  <2> QED BY <2>2, <2>3, <2>4, <2>5, <2>6 DEF TypeOK, OneEach
<1>2. TypeOK /\ [Next]_vars => TypeOK'
  <2> SUFFICES ASSUME TypeOK, [Next]_vars PROVE TypeOK'
    OBVIOUS
  <2>1. CASE Client
    BY <2>1, ClientType
  <2>2. CASE Publishers \/ \E writer \in Writers : SendWake(writer)
    BY <2>2, PublishersType
  <2>3. CASE TakeWake \/ Reload
    BY <2>3, WakeType
  <2>4. CASE Publish
    BY <2>4, PublishType
  <2>5. CASE TakeCompleted \/ CancelDue \/ Kill \/ DropLatest \/ LastKill \/ Join
    BY <2>5, LoopType
  <2>6. CASE Work \/ ChildAnswers
    BY <2>6, WorkType
  <2>7. CASE UNCHANGED vars
    <3>1. /\ UNCHANGED <<notes, screen, published, stores, owing, wake, docs, arcs, buffer, known>>
          /\ UNCHANGED <<doing, due, pending, running, cancelled, tracked, at, hand, child, completed>>
      BY <2>7 DEF vars, others, open, loop, queue, worker
    <3> QED BY <3>1 DEF TypeOK
  <2> QED BY <2>1, <2>2, <2>3, <2>4, <2>5, <2>6, <2>7 DEF Next, Proceed
<1> QED BY <1>1, <1>2, PTL DEF Spec

-----------------------------------------------------------------------------
(***************************************************************************)
(* A cancelled child is killed.  Two parties may do it, each looking at    *)
(* what the other writes first: the loop sets the flag and then looks for  *)
(* the child, the worker registers the child and then looks at the flag.   *)
(* The invariant adds what each can tell of the other: the Cancellation    *)
(* knows the child from Track to Clear, and the job is the running one     *)
(* from Pop to Finish.                                                     *)
(***************************************************************************)

TrackedUntilCleared == tracked <=> at \in {"check", "await", "clear"}

RunningUntilFinished ==
    (running # Nobody) <=> at \in {"begin", "track", "check", "await", "clear", "finish"}

KillInv == TrackedUntilCleared /\ RunningUntilFinished /\ CancelledChildIsKilled

LEMMA NothingKilled ==
  ASSUME KillInv, UNCHANGED <<at, tracked, child, running, cancelled>>, Locked => Locked'
  PROVE  KillInv'
BY DEF KillInv, TrackedUntilCleared, RunningUntilFinished, CancelledChildIsKilled

LEMMA LoopKills ==
  ASSUME KillInv, TypeOK, CancelDue \/ Kill \/ Publish \/ DropLatest \/ LastKill
  PROVE  KillInv'
<1>1. CASE CancelDue
  <2>1. UNCHANGED <<at, tracked, child, running>>
    BY <1>1, Zenon DEF CancelDue, CancelWork, worker
  <2>2. CASE running = Head(due)
    BY <1>1, <2>1, <2>2 DEF CancelDue, KillInv, TrackedUntilCleared, RunningUntilFinished,
                            CancelledChildIsKilled, Locked
  <2>3. CASE running # Head(due)
    <3>1. cancelled' <=> cancelled
      BY <1>1, <2>3, Zenon DEF CancelDue, CancelWork
    <3>2. ~Locked
      BY <1>1 DEF CancelDue, Locked
    <3> QED BY <2>1, <3>1, <3>2 DEF KillInv, TrackedUntilCleared, RunningUntilFinished,
                                    CancelledChildIsKilled
  <2> QED BY <2>2, <2>3
<1>2. CASE Kill
  BY <1>2 DEF Kill, Killed, queue, KillInv, TrackedUntilCleared, RunningUntilFinished,
              CancelledChildIsKilled
<1>3. CASE Publish
  <2>1. UNCHANGED <<at, tracked>> /\ ~Locked
    BY <1>3 DEF Publish, ScheduleDiagnostics, Scheduled, Locked
  <2>2. CASE Execute(Head(due))
    <3>1. running' = running
      BY <2>2 DEF Execute
    <3>2. CASE running = Head(due)
      <4>1. child' = IF tracked /\ child = "running" THEN "killed" ELSE child
        BY <2>2, <3>2 DEF Execute, Killed
      <4> QED BY <2>1, <3>1, <4>1 DEF KillInv, TrackedUntilCleared, RunningUntilFinished,
                                      CancelledChildIsKilled
    <3>3. CASE running # Head(due)
      <4>1. (cancelled' <=> cancelled) /\ child' = child
        BY <2>2, <3>3, Zenon DEF Execute
      <4> QED BY <2>1, <3>1, <4>1 DEF KillInv, TrackedUntilCleared, RunningUntilFinished,
                                      CancelledChildIsKilled
    <3> QED BY <3>2, <3>3
  <2>3. CASE UNCHANGED <<queue, child>>
    BY <2>1, <2>3, NothingKilled DEF queue
  <2> QED BY <1>3, <2>2, <2>3 DEF Publish, ScheduleDiagnostics
<1>4. CASE DropLatest
  <2>1. UNCHANGED <<at, tracked, child, running>> /\ doing' = "last kill"
    BY <1>4, Zenon DEF DropLatest, worker
  <2> QED BY <2>1 DEF KillInv, TrackedUntilCleared, RunningUntilFinished,
                      CancelledChildIsKilled, Locked
<1>5. CASE LastKill
  BY <1>5 DEF LastKill, Killed, queue, KillInv, TrackedUntilCleared, RunningUntilFinished,
              CancelledChildIsKilled
<1> QED BY <1>1, <1>2, <1>3, <1>4, <1>5

LEMMA WorkerKills ==
  ASSUME KillInv, TypeOK, Work \/ ChildAnswers
  PROVE  KillInv'
<1> USE DEF KillInv, TrackedUntilCleared, RunningUntilFinished, CancelledChildIsKilled, Goes
<1>1. doing' = doing
  BY DEF Work, Pop, Leave, Analyse, SkipLint, Spawn, SpawnFails, Track, CheckTracked, TimesOut,
         ChildDies, Clear, Finish, Send, SendFails, ChildAnswers, Reap, WorkerOnly, loop
<1>2. CASE Pop
  <2>1. Head(pending) \in Job
    BY <1>2 DEF Pop, TypeOK
  <2>2. running' # Nobody
    BY <1>2, <2>1, DocumentsAssumption DEF Pop, Job
  <2> QED BY <1>2, <2>2 DEF Pop
<1>3. CASE Analyse \/ SkipLint \/ SpawnFails \/ Spawn \/ Leave \/ Send \/ SendFails
  BY <1>3 DEF Analyse, SkipLint, SpawnFails, Spawn, Leave, Send, SendFails, queue
<1>4. CASE Track
  BY <1>4 DEF Track, queue
<1>5. CASE CheckTracked
  BY <1>5 DEF CheckTracked, queue
<1>6. CASE ChildAnswers \/ TimesOut \/ ChildDies
  BY <1>6 DEF ChildAnswers, TimesOut, ChildDies, Reap, queue
<1>7. CASE Clear
  BY <1>7 DEF Clear, queue
<1>8. CASE Finish
  BY <1>8 DEF Finish
<1> QED BY <1>2, <1>3, <1>4, <1>5, <1>6, <1>7, <1>8 DEF Work

LEMMA KillAlways == Spec => []KillInv
<1>1. Init => KillInv
  BY DEF Init, KillInv, TrackedUntilCleared, RunningUntilFinished, CancelledChildIsKilled
<1>2. TypeOK /\ KillInv /\ [Next]_vars => KillInv'
  <2> SUFFICES ASSUME TypeOK, KillInv, [Next]_vars PROVE KillInv'
    OBVIOUS
  <2>1. CASE Client \/ Publishers \/ (\E writer \in Writers : SendWake(writer))
             \/ TakeWake \/ TakeCompleted \/ Join \/ Reload
    <3>1. UNCHANGED <<at, tracked, child, running, cancelled>>
      BY <2>1 DEF Client, DidOpen, DidChange, DidClose, Notified, EndSession, Publishers,
                  StoreConfiguration, StoreCatalog, Store, SendWake, TakeWake, TakeCompleted, Join,
                  Reload, queue, worker
    <3>2. Locked => Locked'
      BY <2>1 DEF Client, DidOpen, DidChange, DidClose, Notified, EndSession, Publishers,
                  StoreConfiguration, StoreCatalog, Store, SendWake, TakeWake, TakeCompleted, Join,
                  Reload, loop, Locked
    <3> QED BY <3>1, <3>2, NothingKilled
  <2>2. CASE CancelDue \/ Kill \/ Publish \/ DropLatest \/ LastKill
    BY <2>2, LoopKills
  <2>3. CASE Work \/ ChildAnswers
    BY <2>3, WorkerKills
  <2>4. CASE UNCHANGED vars
    BY <2>4, NothingKilled DEF vars, loop, queue, worker, Locked
  <2> QED BY <2>1, <2>2, <2>3, <2>4 DEF Next, Proceed
<1> QED BY <1>1, <1>2, TypeCorrect, PTL DEF Spec

\* Whichever of the cancel and the registration of the child comes first, once
\* the cancel is done the child it was meant for does not run on (worker.rs:23-44).
THEOREM NoCancelledChildRuns == Spec => []CancelledChildIsKilled
<1>1. KillInv => CancelledChildIsKilled
  BY DEF KillInv
<1> QED BY <1>1, KillAlways, PTL

-----------------------------------------------------------------------------
(***************************************************************************)
(* The work under way.  Work on a document is queued, then in the worker's *)
(* hands, then a result on its way to the loop.  The lemmas here say what  *)
(* each step does to the set of it all, so that the invariants below need  *)
(* not follow it from place to place.                                      *)
(***************************************************************************)

\* What a job, or the result of one, is about.
Awaited(job) == [uri |-> job.uri, doc |-> job.doc, with |-> job.with]

InHand == IF at \in {"waiting", "gone"} THEN {} ELSE {hand}

UnderWay == {Awaited(job) : job \in Range(pending) \cup InHand \cup Range(completed)}

LEMMA RangeAppend ==
  ASSUME NEW S, NEW q \in Seq(S), NEW x \in S
  PROVE  Range(Append(q, x)) = Range(q) \cup {x}
<1> DEFINE longer == Append(q, x)
<1>1. /\ DOMAIN longer = DOMAIN q \cup {Len(q) + 1} /\ longer[Len(q) + 1] = x
      /\ \A i \in DOMAIN q : longer[i] = q[i]
  OBVIOUS
<1> HIDE DEF longer
<1> QED BY <1>1 DEF Range, longer

LEMMA RangeTail ==
  ASSUME NEW S, NEW q \in Seq(S), q # <<>>
  PROVE  Range(q) = {Head(q)} \cup Range(Tail(q))
<1>1. \A i \in DOMAIN Tail(q) : i + 1 \in DOMAIN q /\ Tail(q)[i] = q[i + 1]
  OBVIOUS
<1>2. 1 \in DOMAIN q /\ Head(q) = q[1]
  OBVIOUS
<1>3. \A i \in DOMAIN q : i = 1 \/ (i - 1 \in DOMAIN Tail(q) /\ q[i] = Tail(q)[i - 1])
  OBVIOUS
<1> QED BY <1>1, <1>2, <1>3 DEF Range

LEMMA UnderWayIsWork == TypeOK => UnderWay \subseteq Job
<1> SUFFICES ASSUME TypeOK, NEW job \in Range(pending) \cup InHand \cup Range(completed)
             PROVE  Awaited(job) \in Job
  BY DEF UnderWay
<1>1. CASE job \in Range(pending)
  <2>1. job \in Job
    BY <1>1 DEF Range, TypeOK
  <2> QED BY <2>1, ValueTypes DEF Awaited, Job
<1>2. CASE job \in InHand
  <2>1. job \in Job \cup Result
    BY <1>2 DEF InHand, TypeOK, Steps
  <2>2. job.uri \in Docs /\ job.doc \in Document /\ job.with \in Semantics
    BY <2>1 DEF Job, Result
  <2> QED BY <2>2, ValueTypes DEF Awaited
<1>3. CASE job \in Range(completed)
  <2>1. job \in Result
    BY <1>3 DEF Range, TypeOK
  <2>2. job.uri \in Docs /\ job.doc \in Document /\ job.with \in Semantics
    BY <2>1 DEF Result
  <2> QED BY <2>2, ValueTypes DEF Awaited
<1> QED BY <1>1, <1>2, <1>3

\* The worker carries its work from the queue to the results, and loses it only
\* when the loop does not listen any more.
LEMMA WorkerCarries ==
  ASSUME TypeOK, Work \/ ChildAnswers
  PROVE  /\ UnderWay' \subseteq UnderWay
         /\ ~Disconnected => UnderWay' = UnderWay
<1> DEFINE Everywhere == Range(pending) \cup InHand \cup Range(completed)
<1>0. \A what : hand \in Job => Awaited(Finding(hand, what)) = Awaited(hand)
  BY DEF Awaited, Finding
<1>1. CASE Pop
  <2>1. Range(pending) = {Head(pending)} \cup Range(Tail(pending))
    BY <1>1, RangeTail DEF Pop, TypeOK
  <2>2. InHand = {} /\ InHand' = {hand'}
    BY <1>1 DEF Pop, Goes, InHand
  <2>3. Everywhere' = Everywhere
    BY <1>1, <2>1, <2>2 DEF Pop
  <2> QED BY <2>3 DEF UnderWay
<1>2. CASE Leave \/ Spawn \/ Track \/ CheckTracked \/ Clear \/ Finish
  <2>1. UNCHANGED <<pending, completed, hand>>
    BY <1>2 DEF Leave, Spawn, Track, CheckTracked, Clear, Finish, queue
  <2>2. InHand' = InHand
    BY <1>2, <2>1 DEF Leave, Spawn, Track, CheckTracked, Clear, Finish, Goes, InHand
  <2> QED BY <2>1, <2>2 DEF UnderWay
<1>3. ASSUME NEW what, hand \in Job, hand' = Finding(hand, what), InHand = {hand}, InHand' = {hand'},
             UNCHANGED <<pending, completed>>
      PROVE  UnderWay' = UnderWay
  <2>1. UnderWay = {Awaited(job) : job \in Range(pending) \cup Range(completed)} \cup {Awaited(hand)}
    BY <1>3 DEF UnderWay
  <2>2. UnderWay' = {Awaited(job) : job \in Range(pending) \cup Range(completed)} \cup {Awaited(hand')}
    BY <1>3 DEF UnderWay
  <2> QED BY <1>0, <1>3, <2>1, <2>2
<1>4. CASE Analyse \/ SkipLint \/ SpawnFails
  <2>1. /\ hand \in Job /\ InHand = {hand} /\ InHand' = {hand'} /\ UNCHANGED <<pending, completed>>
        /\ \E what : hand' = Finding(hand, what)
    BY <1>4 DEF Analyse, SkipLint, SpawnFails, Goes, InHand, TypeOK, queue
  <2> QED BY <1>3, <2>1
<1>5. ASSUME NEW what, Reap(what)
      PROVE  UnderWay' = UnderWay
  BY <1>3, <1>5 DEF Reap, Goes, InHand, TypeOK, queue
<1>6. CASE ChildAnswers \/ TimesOut \/ ChildDies
  BY <1>5, <1>6 DEF ChildAnswers, TimesOut, ChildDies
<1>7. CASE Send
  <2>1. Range(completed') = Range(completed) \cup {hand}
    BY <1>7, RangeAppend DEF Send, Goes, TypeOK
  <2>2. InHand = {hand} /\ InHand' = {} /\ pending' = pending
    BY <1>7 DEF Send, Goes, InHand, queue
  <2> QED BY <2>1, <2>2 DEF UnderWay
<1>8. CASE SendFails
  <2>1. InHand' = {} /\ UNCHANGED <<pending, completed>> /\ Disconnected
    BY <1>8 DEF SendFails, Goes, InHand, queue
  <2> QED BY <2>1 DEF UnderWay
<1> QED BY <1>1, <1>2, <1>4, <1>6, <1>7, <1>8 DEF Work

\* Removing the queued work on u removes just that.
LEMMA OthersKeep ==
  ASSUME OneEach(pending), NEW u
  PROVE  Range(Others(u)) = {job \in Range(pending) : job.uri # u}
<1> DEFINE I == {i \in DOMAIN pending : pending[i].uri # u}
<1>1. Others(u) = Retain(pending, I) /\ I \in SUBSET (DOMAIN pending) /\ pending \in Seq(Job)
  BY DEF Others, OneEach
<1> HIDE DEF I
<1>2. /\ \A k \in DOMAIN Others(u) : \E i \in I : Rank(I, i) = k /\ Others(u)[k] = pending[i]
      /\ \A i \in I : Rank(I, i) \in DOMAIN Others(u) /\ Others(u)[Rank(I, i)] = pending[i]
  BY <1>1, RetainKeeps
<1>3. \A i \in DOMAIN pending : i \in I <=> pending[i].uri # u
  BY DEF I
<1>4. I \subseteq DOMAIN pending
  BY <1>1
<1> QED BY <1>2, <1>3, <1>4 DEF Range

LEMMA LoopCarries ==
  ASSUME TypeOK
  PROVE  /\ CancelDue =>
                /\ UnderWay' \subseteq UnderWay
                /\ \A job \in UnderWay : job.uri # Head(due) => job \in UnderWay'
         /\ EndSession \/ DropLatest => UnderWay' \subseteq UnderWay
<1>1. ASSUME CancelDue
      PROVE  /\ UnderWay' \subseteq UnderWay
             /\ \A job \in UnderWay : job.uri # Head(due) => job \in UnderWay'
  <2>1. Range(pending') = {job \in Range(pending) : job.uri # Head(due)}
    BY <1>1, OthersKeep, OneEachJob DEF CancelDue, CancelWork
  <2>2. UNCHANGED <<InHand, completed>>
    BY <1>1 DEF CancelDue, worker, InHand
  <2>3. \A job : Awaited(job).uri = job.uri
    BY DEF Awaited
  <2> QED BY <2>1, <2>2, <2>3 DEF UnderWay
<1>2. ASSUME EndSession \/ DropLatest
      PROVE  UnderWay' \subseteq UnderWay
  <2>1. /\ pending' = pending \/ pending' = <<>>
        /\ completed' = completed \/ completed' = <<>>
        /\ UNCHANGED InHand
    BY <1>2 DEF EndSession, DropLatest, queue, worker, InHand
  <2>2. Range(<<>>) = {}
    BY DEF Range
  <2> QED BY <2>1, <2>2 DEF UnderWay
<1> QED BY <1>1, <1>2

LEMMA ExecuteCarries ==
  ASSUME TypeOK, NEW u \in Docs, Execute(u), UNCHANGED <<at, hand, completed>>
  PROVE  /\ \A job \in UnderWay' : job \in UnderWay \/ job = [uri |-> u, doc |-> docs[u], with |-> known]
         /\ [uri |-> u, doc |-> docs[u], with |-> known] \in UnderWay'
         /\ \A job \in UnderWay : job.uri # u => job \in UnderWay'
<1> DEFINE new == [uri |-> u, doc |-> docs[u], with |-> known]
<1>1. new \in Job /\ Awaited(new) = new
  BY ValueTypes DEF TypeOK, Awaited
<1>2. Others(u) \in Seq(Job)
  BY OthersType, OneEachJob DEF OneEach
<1>3. pending' = Append(Others(u), new)
  BY DEF Execute
<1> HIDE DEF new
<1>4. Range(pending') = {job \in Range(pending) : job.uri # u} \cup {new}
  BY <1>1, <1>2, <1>3, RangeAppend, OthersKeep, OneEachJob
<1>5. UNCHANGED <<InHand, completed>>
  BY DEF InHand
<1>6. \A job : Awaited(job).uri = job.uri
  BY DEF Awaited
<1> QED BY <1>1, <1>4, <1>5, <1>6 DEF UnderWay, new

LEMMA TakeCarries ==
  ASSUME TypeOK, TakeCompleted
  PROVE  /\ UnderWay' \subseteq UnderWay
         /\ UnderWay \subseteq UnderWay' \cup {Awaited(Head(completed))}
         /\ Awaited(Head(completed)) \in UnderWay
<1>1. Range(completed) = {Head(completed)} \cup Range(Tail(completed))
  BY RangeTail DEF TakeCompleted, TypeOK
<1>2. UNCHANGED <<InHand, pending>> /\ completed' = Tail(completed)
  BY DEF TakeCompleted, queue, worker, InHand
<1> QED BY <1>1, <1>2 DEF UnderWay

-----------------------------------------------------------------------------
(***************************************************************************)
(* What is shown is current.  The program compares arcs, not texts: that   *)
(* this is enough rests on an arc being given to one text only, and to     *)
(* none again after a document was closed or read as another kind of file. *)
(* Outside of what is due, each screen is about the open text.             *)
(***************************************************************************)

\* Nothing is due unless the loop is scheduling, and then each document once.
DueOnce ==
    /\ doing \notin {"cancel", "kill", "publish"} => due = <<>>
    /\ \A i, j \in DOMAIN due : due[i] = due[j] => i = j

\* An open document has the newest of its arcs, and an arc stands for one text.
ArcsIdentify ==
    /\ \A u \in Docs : IsOpen(u) => docs[u].arc = arcs[u] /\ arcs[u] > 0
    /\ \A job \in UnderWay :
        /\ job.doc.arc \in 1..arcs[job.uri]
        /\ job.doc.arc = docs[job.uri].arc => job.doc = docs[job.uri]

\* A configuration's arc stands for the files it includes.
Agree(one, other) == one.configuration = other.configuration => one.includes = other.includes

ConfigurationsIdentify ==
    /\ published.configuration <= stores /\ known.configuration <= stores
    /\ Agree(known, published)
    /\ \A job \in UnderWay :
        job.with.configuration <= stores /\ Agree(job.with, known) /\ Agree(job.with, published)

\* What the editor shows for u is about the present.
IsShown(u) ==
    /\ IsOpen(u) \/ screen[u] = Blank
    /\ IsOpen(u) => screen[u].doc = docs[u]
    /\ docs[u].rc /\ screen[u].what # "syntax" => screen[u].with = known

RestIsShown == \A u \in Docs \ Range(due) : IsShown(u)

FreshInv == DueOnce /\ ArcsIdentify /\ ConfigurationsIdentify /\ RestIsShown

LEMMA RangeEmpty == Range(<<>>) = {}
BY DEF Range

\* The range of what is due, as documents leave its head.
LEMMA DueRange ==
  ASSUME TypeOK, DueOnce, due # <<>>
  PROVE  /\ Head(due) \in Docs /\ Tail(due) \in Seq(Docs)
         /\ Range(Tail(due)) = Range(due) \ {Head(due)}
         /\ \A i, j \in DOMAIN Tail(due) : Tail(due)[i] = Tail(due)[j] => i = j
<1>1. due \in Seq(Docs)
  BY DEF TypeOK
<1>2. \A i \in DOMAIN Tail(due) :
          i \in Nat /\ i + 1 \in DOMAIN due /\ i + 1 # 1 /\ Tail(due)[i] = due[i + 1]
  BY <1>1
<1>3. Head(due) \in Docs /\ Tail(due) \in Seq(Docs) /\ Head(due) = due[1] /\ 1 \in DOMAIN due
  BY <1>1
<1>4. Range(due) = {Head(due)} \cup Range(Tail(due))
  BY <1>1, RangeTail
<1>5. Head(due) \notin Range(Tail(due))
  BY <1>2, <1>3 DEF Range, DueOnce
<1>6. ASSUME NEW i \in DOMAIN Tail(due), NEW j \in DOMAIN Tail(due), Tail(due)[i] = Tail(due)[j]
      PROVE  i = j
  <2>1. i + 1 = j + 1
    BY <1>2, <1>6 DEF DueOnce
  <2> QED BY <1>2, <2>1
<1> QED BY <1>3, <1>4, <1>5, <1>6

\* Documents in the order of their URIs come each once.
LEMMA InOrderOnce ==
  ASSUME NEW uris \in SUBSET Docs
  PROVE  /\ Range(InOrder(uris)) = uris
         /\ \A i, j \in DOMAIN InOrder(uris) : InOrder(uris)[i] = InOrder(uris)[j] => i = j
<1>1. Range(InOrder(uris)) = uris
  BY InOrderType DEF Range
<1> DEFINE I == {i \in DOMAIN Uris : Uris[i] \in uris}
<1>2. InOrder(uris) = Retain(Uris, I) /\ I \in SUBSET (DOMAIN Uris) /\ Uris \in Seq(Docs)
  BY DocumentsAssumption DEF InOrder
<1> HIDE DEF I
<1>3. \A k \in DOMAIN InOrder(uris) : \E i \in I : Rank(I, i) = k /\ InOrder(uris)[k] = Uris[i]
  BY <1>2, RetainKeeps
<1>4. ASSUME NEW k \in DOMAIN InOrder(uris), NEW l \in DOMAIN InOrder(uris),
             InOrder(uris)[k] = InOrder(uris)[l]
      PROVE  k = l
  <2>1. PICK i \in I : Rank(I, i) = k /\ InOrder(uris)[k] = Uris[i]
    BY <1>3
  <2>2. PICK j \in I : Rank(I, j) = l /\ InOrder(uris)[l] = Uris[j]
    BY <1>3
  <2>3. i = j
    BY <1>2, <1>4, <2>1, <2>2, DocumentsAssumption
  <2> QED BY <2>1, <2>2, <2>3
<1> QED BY <1>1, <1>4

\* A step that only moves or loses work, and does not touch the documents, what
\* is known of them, or the screen.
LEMMA FreshQuiet ==
  ASSUME TypeOK, FreshInv, UnderWay' \subseteq UnderWay,
         UNCHANGED <<docs, arcs, known, published, stores, screen, due>>,
         doing' = doing \/ due = <<>> \/ doing' \in {"cancel", "kill", "publish"}
  PROVE  FreshInv'
<1>1. DueOnce'
  BY DEF FreshInv, DueOnce
<1>2. ArcsIdentify'
  BY DEF FreshInv, ArcsIdentify, IsOpen
<1>3. ConfigurationsIdentify'
  BY DEF FreshInv, ConfigurationsIdentify, Agree
<1>4. RestIsShown'
  BY DEF FreshInv, RestIsShown, IsShown, IsOpen
<1> QED BY <1>1, <1>2, <1>3, <1>4 DEF FreshInv

LEMMA FreshPublishers ==
  ASSUME TypeOK, FreshInv, Publishers
  PROVE  FreshInv'
<1> PICK writer, next : /\ Store(writer, next)
                        /\ \/ next.configuration = stores + 1
                           \/ /\ next.configuration = published.configuration
                              /\ next.includes = published.includes
  <2>1. CASE StoreConfiguration
    <3>1. PICK included \in SUBSET (Docs \ RcNamed) :
              Store("watch", [published EXCEPT !.configuration = stores + 1, !.includes = included])
      BY <2>1 DEF StoreConfiguration
    <3>2. [published EXCEPT !.configuration = stores + 1, !.includes = included].configuration = stores + 1
      BY DEF TypeOK, Semantics
    <3> QED BY <3>1, <3>2
  <2>2. CASE StoreCatalog
    <3>1. PICK catalog \in {0, stores + 1} : Store("bazel", [published EXCEPT !.catalog = catalog])
      BY <2>2 DEF StoreCatalog
    <3>2. /\ [published EXCEPT !.catalog = catalog].configuration = published.configuration
          /\ [published EXCEPT !.catalog = catalog].includes = published.includes
      BY DEF TypeOK, Semantics
    <3> QED BY <3>1, <3>2
  <2> QED BY <2>1, <2>2 DEF Publishers
<1>1. /\ UNCHANGED <<docs, arcs, known, screen, due, doing, pending, at, hand, completed>>
      /\ published' = next /\ stores' = stores + 1
  BY DEF Store, loop, open, queue, worker
<1>2. UnderWay' = UnderWay
  BY <1>1 DEF UnderWay, InHand
<1>3. DueOnce'
  BY <1>1 DEF FreshInv, DueOnce
<1>4. ArcsIdentify'
  BY <1>1, <1>2 DEF FreshInv, ArcsIdentify, IsOpen
<1>5. ConfigurationsIdentify'
  <2>1. /\ stores \in Nat /\ known.configuration \in Nat /\ published.configuration \in Nat
        /\ \A job \in UnderWay : job.with.configuration \in Nat
    BY DocumentsAssumption, UnderWayIsWork, SMTT(30) DEF TypeOK, Semantics, Job
  <2>2. known'.configuration <= stores' /\ published'.configuration <= stores' /\ Agree(known, published)'
    BY <1>1, <2>1 DEF FreshInv, ConfigurationsIdentify, Agree
  <2>3. ASSUME NEW job \in UnderWay
        PROVE  /\ job.with.configuration <= stores'
               /\ Agree(job.with, known)' /\ Agree(job.with, published)'
    BY <1>1, <2>1 DEF FreshInv, ConfigurationsIdentify, Agree
  <2> QED BY <1>2, <2>2, <2>3 DEF ConfigurationsIdentify
<1>6. RestIsShown'
  BY <1>1 DEF FreshInv, RestIsShown, IsShown, IsOpen
<1> QED BY <1>3, <1>4, <1>5, <1>6 DEF FreshInv

\* What a notification about u does to the documents: u gets a new arc or none.
Renewed(u) ==
    /\ \A v \in Docs \ {u} : docs'[v] = docs[v] /\ arcs'[v] = arcs[v]
    /\ \/ docs'[u] = Closed /\ arcs'[u] = arcs[u]
       \/ docs'[u].arc = arcs[u] + 1 /\ arcs'[u] = arcs[u] + 1

LEMMA NotifiedRenews ==
  ASSUME TypeOK, Client, ~EndSession
  PROVE  \E u \in Docs : Renewed(u) /\ Notified(u)
<1>0. docs \in [Docs -> Document] /\ arcs \in [Docs -> Nat]
  BY DEF TypeOK
<1>1. ASSUME NEW u \in Docs, NEW version, NEW clean, NEW rc, SetDocument(u, version, clean, rc)
      PROVE  Renewed(u)
  BY <1>0, <1>1 DEF SetDocument, Replace, Renewed
<1>2. ASSUME NEW u \in Docs, DidClose(u)
      PROVE  Renewed(u)
  BY <1>0, <1>2 DEF DidClose, Replace, Renewed
<1> QED BY <1>1, <1>2 DEF Client, DidOpen, DidChange, DidClose

LEMMA FreshClient ==
  ASSUME TypeOK, FreshInv, NEW u \in Docs, Renewed(u), Notified(u)
  PROVE  FreshInv'
<1>0. /\ docs \in [Docs -> Document] /\ arcs \in [Docs -> Nat] /\ UnderWay \subseteq Job
      /\ \A v \in Docs : arcs[v] \in Nat /\ docs[v].arc \in Nat
      /\ \A job \in UnderWay : job.uri \in Docs /\ job.doc.arc \in Nat
  BY UnderWayIsWork DEF TypeOK, Document, Job
<1>1. /\ UNCHANGED <<screen, known, published, stores, pending, at, hand, completed>>
      /\ doing' = "cancel" /\ due' = <<u>> /\ doing = "select"
  BY DEF Notified, others, queue, worker
<1>2. UnderWay' = UnderWay
  BY <1>1 DEF UnderWay, InHand
<1>3. DueOnce'
  BY <1>1 DEF DueOnce
<1>4. ArcsIdentify'
  <2>1. ASSUME NEW v \in Docs, IsOpen(v)'
        PROVE  docs'[v].arc = arcs'[v] /\ arcs'[v] > 0
    BY <1>0, <2>1 DEF FreshInv, ArcsIdentify, Renewed, IsOpen
  <2>2. ASSUME NEW job \in UnderWay
        PROVE  /\ job.doc.arc \in 1..arcs'[job.uri]
               /\ job.doc.arc = docs'[job.uri].arc => job.doc = docs'[job.uri]
    <3>1. job.doc.arc \in 1..arcs[job.uri]
      BY DEF FreshInv, ArcsIdentify
    <3>2. CASE job.uri = u
      BY <1>0, <3>1, <3>2 DEF Renewed, Closed
    <3>3. CASE job.uri # u
      BY <1>0, <3>1, <3>3 DEF Renewed, FreshInv, ArcsIdentify
    <3> QED BY <3>2, <3>3
  <2> QED BY <1>2, <2>1, <2>2 DEF ArcsIdentify
<1>5. ConfigurationsIdentify'
  BY <1>1, <1>2 DEF FreshInv, ConfigurationsIdentify, Agree
<1>6. RestIsShown'
  <2>1. Range(due') = {u} /\ Range(due) = {}
    BY <1>1, RangeEmpty DEF Range, FreshInv, DueOnce
  <2>2. ASSUME NEW v \in Docs \ {u}
        PROVE  IsShown(v)'
    BY <1>1, <2>1 DEF FreshInv, RestIsShown, IsShown, IsOpen, Renewed
  <2> QED BY <2>1, <2>2 DEF RestIsShown
<1> QED BY <1>3, <1>4, <1>5, <1>6 DEF FreshInv

\* What a reload does to each document.
LEMMA ReloadRenews ==
  ASSUME TypeOK, Reload
  PROVE  /\ \A u \in Docs \ Reclassified : docs'[u] = docs[u] /\ arcs'[u] = arcs[u]
         /\ \A u \in Reclassified :
                /\ IsOpen(u) /\ arcs'[u] = arcs[u] + 1 /\ docs'[u].arc = docs[u].arc + 1
                /\ docs'[u].rc <=> ~docs[u].rc
         /\ Reclassified \subseteq Docs /\ Bazelrcs \subseteq Docs
         /\ Range(due') = Bazelrcs \cup Reclassified
         /\ \A i, j \in DOMAIN due' : due'[i] = due'[j] => i = j
         /\ due' = <<>> \/ doing' = "cancel"
<1>1. Reclassified \subseteq Docs /\ Bazelrcs \subseteq Docs
  BY DEF Reclassified, Bazelrcs
<1>2. PICK clean \in [Reclassified -> BOOLEAN] :
          Replace([u \in Docs |->
              IF u \in Reclassified THEN AsAnotherKind(docs[u], clean[u]) ELSE docs[u]])
  BY DEF Reload, ReclassifyBazelrc
<1>3. arcs' = [u \in Docs |-> IF u \in Reclassified THEN arcs[u] + 1 ELSE arcs[u]]
  BY DEF Reload, ReclassifyBazelrc
<1>4. \A u \in Docs : docs'[u] = IF u \in Reclassified THEN AsAnotherKind(docs[u], clean[u]) ELSE docs[u]
  BY <1>2 DEF Replace
<1>5. /\ due' = InOrder(Bazelrcs \cup Reclassified)
      /\ doing' = IF Bazelrcs \cup Reclassified = {} THEN "select" ELSE "cancel"
  BY DEF Reload, ScheduleBazelrc
<1>6. /\ Range(due') = Bazelrcs \cup Reclassified
      /\ \A i, j \in DOMAIN due' : due'[i] = due'[j] => i = j
  BY <1>1, <1>5, InOrderOnce
<1>7. due' = <<>> \/ doing' = "cancel"
  <2>1. CASE Bazelrcs \cup Reclassified = {}
    <3>1. due' \in Seq(Docs) /\ DOMAIN due' = {}
      BY <1>1, <1>5, <2>1, InOrderType
    <3> QED BY <3>1
  <2> QED BY <2>1, <1>5
<1>8. \A u \in Reclassified : IsOpen(u)
  BY DEF Reclassified
<1>9. \A u \in Reclassified : docs'[u].arc = docs[u].arc + 1 /\ (docs'[u].rc <=> ~docs[u].rc)
  <2>1. \A u \in Reclassified : docs'[u] = AsAnotherKind(docs[u], clean[u])
    BY <1>1, <1>4
  <2>2. \A doc, c : AsAnotherKind(doc, c).arc = doc.arc + 1 /\ (AsAnotherKind(doc, c).rc <=> ~doc.rc)
    BY DEF AsAnotherKind
  <2> QED BY <2>1, <2>2
<1>10. \A u \in Docs \ Reclassified : docs'[u] = docs[u] /\ arcs'[u] = arcs[u]
  BY <1>3, <1>4
<1>11. \A u \in Reclassified : arcs'[u] = arcs[u] + 1
  BY <1>1, <1>3
<1> QED BY <1>1, <1>6, <1>7, <1>8, <1>9, <1>10, <1>11

LEMMA FreshReload ==
  ASSUME TypeOK, FreshInv, Reload
  PROVE  FreshInv'
<1>0. /\ docs \in [Docs -> Document] /\ arcs \in [Docs -> Nat] /\ UnderWay \subseteq Job
      /\ \A v \in Docs : arcs[v] \in Nat /\ docs[v].arc \in Nat
      /\ \A job \in UnderWay : job.uri \in Docs /\ job.doc.arc \in Nat
  BY UnderWayIsWork DEF TypeOK, Document, Job
<1>1. UNCHANGED <<screen, published, stores, pending, at, hand, completed>> /\ known' = published
  BY DEF Reload, others, queue, worker
<1>2. UnderWay' = UnderWay
  BY <1>1 DEF UnderWay, InHand
<1>3. DueOnce'
  BY ReloadRenews DEF DueOnce
<1>4. ArcsIdentify'
  <2>1. ASSUME NEW v \in Docs, IsOpen(v)'
        PROVE  docs'[v].arc = arcs'[v] /\ arcs'[v] > 0
    BY <1>0, <2>1, ReloadRenews DEF FreshInv, ArcsIdentify, IsOpen
  <2>2. ASSUME NEW job \in UnderWay
        PROVE  /\ job.doc.arc \in 1..arcs'[job.uri]
               /\ job.doc.arc = docs'[job.uri].arc => job.doc = docs'[job.uri]
    <3>1. job.doc.arc \in 1..arcs[job.uri]
      BY DEF FreshInv, ArcsIdentify
    <3>2. CASE job.uri \in Reclassified
      <4>1. docs[job.uri].arc = arcs[job.uri]
        BY <1>0, <3>2, ReloadRenews DEF FreshInv, ArcsIdentify
      <4> QED BY <1>0, <3>1, <3>2, <4>1, ReloadRenews
    <3>3. CASE job.uri \notin Reclassified
      BY <1>0, <3>1, <3>3, ReloadRenews DEF FreshInv, ArcsIdentify
    <3> QED BY <3>2, <3>3
  <2> QED BY <1>2, <2>1, <2>2 DEF ArcsIdentify
<1>5. ConfigurationsIdentify'
  BY <1>1, <1>2 DEF FreshInv, ConfigurationsIdentify, Agree
<1>6. RestIsShown'
  <2>1. Range(due) = {}
    BY RangeEmpty DEF FreshInv, DueOnce, Reload
  <2>2. ASSUME NEW v \in Docs \ (Bazelrcs \cup Reclassified)
        PROVE  IsShown(v)'
    <3>1. docs'[v] = docs[v]
      BY <2>2, ReloadRenews
    <3>2. IsShown(v)
      BY <2>1 DEF FreshInv, RestIsShown
    <3>3. ~docs[v].rc
      BY <2>2 DEF Bazelrcs, Reclassified, IsOpen, Closed
    <3> QED BY <1>1, <3>1, <3>2, <3>3 DEF IsShown, IsOpen
  <2> QED BY <2>2, ReloadRenews DEF RestIsShown
<1> QED BY <1>3, <1>4, <1>5, <1>6 DEF FreshInv

LEMMA FreshPublish ==
  ASSUME TypeOK, FreshInv, Publish
  PROVE  FreshInv'
<1> DEFINE u == Head(due)
           new == [uri |-> u, doc |-> docs[u], with |-> known]
<1>0. due # <<>> /\ DueOnce
  BY DEF Publish, TypeOK, FreshInv
<1>1. /\ u \in Docs /\ due' = Tail(due) /\ due' \in Seq(Docs)
      /\ Range(due') = Range(due) \ {u}
      /\ \A i, j \in DOMAIN due' : due'[i] = due'[j] => i = j
  BY <1>0, DueRange DEF Publish, ScheduleDiagnostics, Scheduled
<1>2. /\ UNCHANGED <<docs, arcs, known, published, stores, at, hand, completed>>
      /\ due' = <<>> \/ doing' = "cancel"
  BY <1>1 DEF Publish, ScheduleDiagnostics, Scheduled, others, open
<1>3. DueOnce'
  BY <1>1, <1>2 DEF DueOnce
<1>4. \A job \in UnderWay' : job \in UnderWay \/ (IsOpen(u) /\ job = new)
  <2>1. CASE IsOpen(u) /\ Execute(u)
    BY <1>1, <1>2, <2>1, ExecuteCarries
  <2>2. CASE UNCHANGED <<queue, child>>
    BY <1>2, <2>2 DEF UnderWay, InHand, queue
  <2> QED BY <2>1, <2>2 DEF Publish, ScheduleDiagnostics
<1>5. ArcsIdentify'
  <2>1. ASSUME IsOpen(u)
        PROVE  new.doc.arc \in 1..arcs[new.uri] /\ new.doc = docs[new.uri]
    BY <1>1, <2>1 DEF FreshInv, ArcsIdentify, TypeOK
  <2> QED BY <1>2, <1>4, <2>1 DEF FreshInv, ArcsIdentify, IsOpen
<1>6. ConfigurationsIdentify'
  <2>1. Agree(new.with, known) /\ Agree(new.with, published) /\ new.with.configuration <= stores
    BY DEF FreshInv, ConfigurationsIdentify, Agree
  <2> QED BY <1>2, <1>4, <2>1 DEF FreshInv, ConfigurationsIdentify, Agree
<1>7. RestIsShown'
  <2>0. screen \in [Docs -> Shown]
    BY DEF TypeOK
  <2>1. ASSUME NEW v \in Docs \ Range(due')
        PROVE  IsShown(v)'
    <3>1. CASE v = u
      <4>1. CASE IsOpen(u)
        <5>1. screen'[u] = [doc |-> docs[u], with |-> Nowhere, what |-> "syntax"]
          BY <1>1, <2>0, <4>1 DEF Publish, ScheduleDiagnostics, Show
        <5> QED BY <1>2, <3>1, <4>1, <5>1 DEF IsShown, IsOpen
      <4>2. CASE ~IsOpen(u)
        <5>1. screen'[u] = Blank
          BY <1>1, <2>0, <4>2 DEF Publish, ScheduleDiagnostics
        <5> QED BY <1>2, <3>1, <4>2, <5>1 DEF IsShown, IsOpen, Closed
      <4> QED BY <4>1, <4>2
    <3>2. CASE v # u
      <4>1. screen'[v] = screen[v]
        BY <1>1, <2>0, <3>2 DEF Publish, ScheduleDiagnostics, Show
      <4> QED BY <1>1, <1>2, <3>2, <4>1 DEF FreshInv, RestIsShown, IsShown, IsOpen
    <3> QED BY <3>1, <3>2
  <2> QED BY <2>1 DEF RestIsShown
<1> QED BY <1>3, <1>5, <1>6, <1>7 DEF FreshInv

\* A result that counts is about the open document, and a bazelrc file's was
\* made with what the loop knows now.
LEMMA CurrentResult ==
  ASSUME TypeOK, FreshInv, TakeCompleted, IsCurrent(Head(completed))
  PROVE  LET result == Head(completed)
         IN  /\ result.uri \in Docs /\ IsOpen(result.uri)
             /\ result.doc = docs[result.uri]
             /\ docs[result.uri].rc => result.with = known
<1> DEFINE result == Head(completed)
<1>0. result \in Result /\ Awaited(result) \in UnderWay
  BY TakeCarries DEF TypeOK, TakeCompleted
<1>1. result.uri \in Docs /\ IsOpen(result.uri) /\ result.doc = docs[result.uri]
  BY <1>0 DEF IsCurrent, FreshInv, ArcsIdentify, Awaited, Result
<1>2. docs[result.uri].rc => result.with = known
  <2>1. Agree(result.with, known) /\ result.with \in Semantics /\ known \in Semantics
    BY <1>0 DEF FreshInv, ConfigurationsIdentify, Awaited, Result, TypeOK
  <2>2. docs[result.uri].rc => result.with.configuration = known.configuration
                               /\ result.with.catalog = known.catalog
    BY <1>1 DEF IsCurrent
  <2> QED BY <2>1, <2>2 DEF Semantics, Agree
<1> QED BY <1>1, <1>2

LEMMA FreshTake ==
  ASSUME TypeOK, FreshInv, TakeCompleted
  PROVE  FreshInv'
<1> DEFINE result == Head(completed)
<1>0. screen \in [Docs -> Shown] /\ result \in Result /\ Awaited(result) \in UnderWay
  BY TakeCarries DEF TypeOK, TakeCompleted
<1>1. UNCHANGED <<docs, arcs, known, published, stores, due, doing>> /\ UnderWay' \subseteq UnderWay
  BY TakeCarries DEF TakeCompleted, loop, open, others
<1>2. CASE screen' = screen
  BY <1>1, <1>2, FreshQuiet
<1>3. CASE IsCurrent(result) /\ Show(result.uri, result.with, result.what)
  <2>1. DueOnce' /\ ArcsIdentify' /\ ConfigurationsIdentify'
    BY <1>1 DEF FreshInv, DueOnce, ArcsIdentify, IsOpen, ConfigurationsIdentify, Agree
  <2>2. /\ result.uri \in Docs /\ IsOpen(result.uri)
        /\ docs[result.uri].rc => result.with = known
    BY <1>3, CurrentResult
  <2>4. /\ screen'[result.uri] = [doc |-> docs[result.uri], with |-> result.with, what |-> result.what]
        /\ \A v \in Docs : v # result.uri => screen'[v] = screen[v]
    BY <1>0, <1>3, <2>2 DEF Show
  <2>5. ASSUME NEW v \in Docs \ Range(due)
        PROVE  IsShown(v)'
    <3>1. CASE v = result.uri
      BY <1>1, <2>2, <2>4, <3>1 DEF IsShown, IsOpen
    <3>2. CASE v # result.uri
      BY <1>1, <2>4, <3>2 DEF FreshInv, RestIsShown, IsShown, IsOpen
    <3> QED BY <3>1, <3>2
  <2> QED BY <1>1, <2>1, <2>5 DEF FreshInv, RestIsShown
<1> QED BY <1>2, <1>3 DEF TakeCompleted

LEMMA FreshStep ==
  ASSUME TypeOK, FreshInv, [Next]_vars
  PROVE  FreshInv'
<1>1. CASE Work \/ ChildAnswers
  <2>1. UNCHANGED <<docs, arcs, known, published, stores, screen, due, doing>>
    BY <1>1 DEF Work, Pop, Leave, Analyse, SkipLint, Spawn, SpawnFails, Track, CheckTracked, TimesOut,
         ChildDies, Clear, Finish, Send, SendFails, ChildAnswers, Reap, WorkerOnly, loop, open, others
  <2> QED BY <1>1, <2>1, WorkerCarries, FreshQuiet
<1>2. CASE CancelDue \/ EndSession \/ DropLatest
  <2>1. /\ UNCHANGED <<docs, arcs, known, published, stores, screen, due>>
        /\ due = <<>> \/ doing' \in {"cancel", "kill", "publish"}
    BY <1>2 DEF CancelDue, CancelWork, EndSession, DropLatest, others, open, FreshInv, DueOnce
  <2> QED BY <1>2, <2>1, LoopCarries, FreshQuiet
<1>3. CASE (\E writer \in Writers : SendWake(writer)) \/ TakeWake \/ Kill \/ LastKill \/ Join
           \/ UNCHANGED vars
  <2>1. /\ UNCHANGED <<docs, arcs, known, published, stores, screen, due>>
        /\ doing' = doing \/ due = <<>> \/ doing' \in {"cancel", "kill", "publish"}
        /\ UNCHANGED <<pending, at, hand, completed>>
    BY <1>3 DEF SendWake, TakeWake, Kill, LastKill, Join, vars, others, open, loop, queue, worker,
                FreshInv, DueOnce
  <2>2. UnderWay' = UnderWay
    BY <2>1 DEF UnderWay, InHand
  <2> QED BY <2>1, <2>2, FreshQuiet
<1>4. CASE Client /\ ~EndSession
  BY <1>4, NotifiedRenews, FreshClient
<1> QED BY <1>1, <1>2, <1>3, <1>4, FreshPublishers, FreshReload, FreshPublish, FreshTake
        DEF Next, Client, Proceed

LEMMA FreshAlways == Spec => []FreshInv
<1>1. Init => FreshInv
  <2> SUFFICES ASSUME Init PROVE FreshInv
    OBVIOUS
  <2>1. UnderWay = {}
    BY RangeEmpty DEF Init, UnderWay, InHand
  <2> QED BY <2>1, DocumentsAssumption
          DEF Init, FreshInv, DueOnce, ArcsIdentify, ConfigurationsIdentify, Agree, RestIsShown,
              IsShown, IsOpen, Closed, Nowhere
<1>2. TypeOK /\ FreshInv /\ [Next]_vars => FreshInv'
  BY FreshStep
<1> QED BY <1>1, <1>2, TypeCorrect, PTL DEF Spec

\* Whenever the loop is free, what the editor shows is about the text that is open,
\* a bazelrc file's findings are made with what the loop knows, and a closed
\* document shows nothing, for every number of documents and edits (main.rs:719).
THEOREM NothingOldIsShown == Spec => []ShownIsCurrent
<1>1. FreshInv => ShownIsCurrent
  BY RangeEmpty DEF FreshInv, DueOnce, RestIsShown, IsShown, ShownIsCurrent
<1> QED BY <1>1, FreshAlways, PTL

-----------------------------------------------------------------------------
(***************************************************************************)
(* A cut lint is not shown.  What is due is due because its text changed,  *)
(* or because it is a bazelrc file, of which nothing is ever cut.  A job   *)
(* is cancelled only when its document is due, or at the end; so what may  *)
(* have been cut is about a text that is not open any more.                *)
(***************************************************************************)

\* The text the work is about is not open any more.
Superseded(job) == docs[job.uri].arc # job.doc.arc

\* Work on a document that is due is about an older text, or is an analysis.
DueAreSuperseded == \A job \in UnderWay : job.uri \in Range(due) => job.doc.rc \/ Superseded(job)

\* What may cut the job in hand, and what a cut result means.
CutJob == cancelled \/ child = "killed" => hand.doc.rc \/ Superseded(hand) \/ Disconnected

CutResult(result) == result.what = "cut" => Superseded(result) \/ Disconnected

CutMeansSuperseded ==
    /\ running # Nobody => hand.uri = running
    /\ doing = "kill" => running = Head(due)
    /\ child # "none" => at \in {"track", "check", "await"}
    /\ at \in {"track", "check", "await"} => ~hand.doc.rc
    /\ at \in {"begin", "track", "check", "await"} => CutJob
    /\ at \in {"clear", "finish", "send"} => CutResult(hand)
    /\ \A i \in DOMAIN completed : CutResult(completed[i])

CutInv == DueAreSuperseded /\ CutMeansSuperseded /\ CutLintsAreNotShown

\* What work is about, wherever it is.
Held(job) == job.uri \in Docs /\ job.doc.arc \in 1..arcs[job.uri]

LEMMA WorkIsHeld ==
  ASSUME TypeOK, FreshInv
  PROVE  /\ \A job \in UnderWay : Held(job)
         /\ at \notin {"waiting", "gone"} => Held(hand) /\ Awaited(hand) \in UnderWay
         /\ \A i \in DOMAIN completed : Held(completed[i]) /\ Awaited(completed[i]) \in UnderWay
<1>1. \A job \in UnderWay : Held(job)
  BY UnderWayIsWork DEF FreshInv, ArcsIdentify, Held, Job
<1>2. \A job : Held(Awaited(job)) => Held(job)
  BY DEF Held, Awaited
<1>3. at \notin {"waiting", "gone"} => Awaited(hand) \in UnderWay
  BY DEF UnderWay, InHand
<1>4. \A i \in DOMAIN completed : Awaited(completed[i]) \in UnderWay
  BY DEF UnderWay, Range
<1> QED BY <1>1, <1>2, <1>3, <1>4

\* A step leaves a document alone, or takes away every arc it had so far.
LEMMA ArcsAreNew ==
  ASSUME TypeOK, FreshInv, [Next]_vars, NEW u \in Docs
  PROVE  docs'[u] = docs[u] \/ docs'[u].arc \notin 1..arcs[u]
<1>0. arcs[u] \in Nat
  BY DEF TypeOK
<1>1. CASE Client /\ ~EndSession
  BY <1>0, <1>1, NotifiedRenews DEF Renewed, Closed
<1>2. CASE Reload
  <2>1. CASE u \in Reclassified
    BY <1>0, <1>2, <2>1, ReloadRenews DEF FreshInv, ArcsIdentify
  <2>2. CASE u \notin Reclassified
    BY <1>2, <2>2, ReloadRenews
  <2> QED BY <2>1, <2>2
<1>3. CASE Work \/ ChildAnswers
  BY <1>3 DEF Work, Pop, Leave, Analyse, SkipLint, Spawn, SpawnFails, Track, CheckTracked, TimesOut,
         ChildDies, Clear, Finish, Send, SendFails, ChildAnswers, Reap, WorkerOnly, loop, open
<1>4. CASE EndSession \/ Publishers \/ (\E writer \in Writers : SendWake(writer))
           \/ TakeWake \/ TakeCompleted \/ Join
  BY <1>4 DEF EndSession, Publishers, StoreConfiguration, StoreCatalog, Store, SendWake, TakeWake,
              TakeCompleted, Join, loop, open
<1>5. CASE CancelDue \/ Kill \/ Publish \/ DropLatest \/ LastKill \/ UNCHANGED vars
  BY <1>5 DEF CancelDue, Kill, Publish, ScheduleDiagnostics, Scheduled, DropLatest, LastKill, vars,
              loop, open
<1> QED BY <1>1, <1>2, <1>3, <1>4, <1>5 DEF Next, Client, Proceed

LEMMA StaysSuperseded ==
  ASSUME TypeOK, FreshInv, [Next]_vars, NEW job, Held(job), Superseded(job)
  PROVE  Superseded(job)'
BY ArcsAreNew DEF Held, Superseded

\* The session never comes back.
LEMMA StaysDisconnected ==
  ASSUME TypeOK, [Next]_vars, Disconnected
  PROVE  Disconnected'
<1> USE DEF Disconnected, Stopping
<1>1. CASE Work \/ ChildAnswers \/ UNCHANGED vars
  BY <1>1 DEF Work, Pop, Leave, Analyse, SkipLint, Spawn, SpawnFails, Track, CheckTracked, TimesOut,
         ChildDies, Clear, Finish, Send, SendFails, ChildAnswers, Reap, WorkerOnly, loop, vars
<1>2. CASE Client \/ Publishers \/ (\E writer \in Writers : SendWake(writer))
           \/ TakeWake \/ TakeCompleted \/ Join
  BY <1>2 DEF Client, DidOpen, DidChange, DidClose, Notified, EndSession, Publishers,
              StoreConfiguration, StoreCatalog, Store, SendWake, TakeWake, TakeCompleted, Join, loop
<1>3. CASE Proceed
  BY <1>3 DEF Proceed, Reload, CancelDue, Kill, Publish, ScheduleDiagnostics, Scheduled,
              DropLatest, LastKill
<1> QED BY <1>1, <1>2, <1>3 DEF Next

\* A step after which the same documents are due, for no more work.
LEMMA DueQuiet ==
  ASSUME TypeOK, FreshInv, [Next]_vars, DueAreSuperseded, UnderWay' \subseteq UnderWay, due' = due
  PROVE  DueAreSuperseded'
<1> SUFFICES ASSUME NEW job \in UnderWay, job.uri \in Range(due)
             PROVE  job.doc.rc \/ Superseded(job)'
  BY DEF DueAreSuperseded
<1> QED BY WorkIsHeld, StaysSuperseded DEF DueAreSuperseded

LEMMA DueClient ==
  ASSUME TypeOK, FreshInv, NEW u \in Docs, Renewed(u), Notified(u)
  PROVE  DueAreSuperseded'
<1>1. UnderWay' = UnderWay
  BY DEF Notified, queue, worker, UnderWay, InHand
<1>2. Range(due') = {u}
  BY DEF Notified, Range
<1>3. ASSUME NEW job \in UnderWay, job.uri = u
      PROVE  Superseded(job)'
  <2>1. Held(job) /\ arcs[u] \in Nat
    BY WorkIsHeld DEF TypeOK
  <2> QED BY <1>3, <2>1 DEF Renewed, Held, Superseded, Closed
<1> QED BY <1>1, <1>2, <1>3 DEF DueAreSuperseded

LEMMA DueReload ==
  ASSUME TypeOK, FreshInv, Reload
  PROVE  DueAreSuperseded'
<1>1. UnderWay' = UnderWay
  BY DEF Reload, queue, worker, UnderWay, InHand
<1>2. ASSUME NEW job \in UnderWay, job.uri \in Bazelrcs \cup Reclassified
      PROVE  job.doc.rc \/ Superseded(job)'
  <2>1. Held(job) /\ arcs[job.uri] \in Nat
    BY WorkIsHeld DEF Held, TypeOK
  <2>2. CASE job.uri \in Reclassified
    BY <2>1, <2>2, ReloadRenews DEF Held, Superseded, FreshInv, ArcsIdentify
  <2>3. CASE job.uri \notin Reclassified
    <3>1. docs'[job.uri] = docs[job.uri] /\ docs[job.uri].rc
      BY <1>2, <2>1, <2>3, ReloadRenews DEF Bazelrcs, Reclassified, Held
    <3> QED BY <3>1 DEF Superseded, FreshInv, ArcsIdentify
  <2> QED BY <2>2, <2>3
<1> QED BY <1>1, <1>2, ReloadRenews DEF DueAreSuperseded

LEMMA DuePublish ==
  ASSUME TypeOK, FreshInv, DueAreSuperseded, Publish
  PROVE  DueAreSuperseded'
<1> DEFINE u == Head(due)
<1>0. due # <<>> /\ DueOnce
  BY DEF Publish, TypeOK, FreshInv
<1>1. /\ u \in Docs /\ due' = Tail(due) /\ Range(due') = Range(due) \ {u}
      /\ UNCHANGED <<docs, at, hand, completed>>
  BY <1>0, DueRange DEF Publish, ScheduleDiagnostics, Scheduled, open
<1>2. \A job \in UnderWay' : job \in UnderWay \/ job.uri = u
  <2>1. ASSUME Execute(u)
        PROVE  \A job \in UnderWay' : job \in UnderWay \/ job = [uri |-> u, doc |-> docs[u], with |-> known]
    BY <1>1, <2>1, ExecuteCarries
  <2>2. CASE UNCHANGED <<queue, child>>
    BY <1>1, <2>2 DEF UnderWay, InHand, queue
  <2> QED BY <2>1, <2>2 DEF Publish, ScheduleDiagnostics
<1> QED BY <1>1, <1>2 DEF DueAreSuperseded, Superseded

LEMMA DueStep ==
  ASSUME TypeOK, FreshInv, DueAreSuperseded, [Next]_vars
  PROVE  DueAreSuperseded'
<1>1. CASE Work \/ ChildAnswers
  <2>1. due' = due
    BY <1>1 DEF Work, Pop, Leave, Analyse, SkipLint, Spawn, SpawnFails, Track, CheckTracked, TimesOut,
         ChildDies, Clear, Finish, Send, SendFails, ChildAnswers, Reap, WorkerOnly, loop
  <2> QED BY <1>1, <2>1, WorkerCarries, DueQuiet
<1>2. CASE CancelDue \/ EndSession \/ DropLatest
  <2>1. due' = due
    BY <1>2 DEF CancelDue, EndSession, DropLatest
  <2> QED BY <1>2, <2>1, LoopCarries, DueQuiet
<1>3. CASE Publishers \/ (\E writer \in Writers : SendWake(writer)) \/ TakeWake \/ Kill \/ LastKill
           \/ Join \/ UNCHANGED vars
  <2>1. UNCHANGED <<due, pending, at, hand, completed>>
    BY <1>3 DEF Publishers, StoreConfiguration, StoreCatalog, Store, SendWake, TakeWake, Kill,
                LastKill, Join, vars, loop, queue, worker
  <2>2. UnderWay' = UnderWay
    BY <2>1 DEF UnderWay, InHand
  <2> QED BY <2>1, <2>2, DueQuiet
<1>4. CASE TakeCompleted
  <2>1. due' = due
    BY <1>4 DEF TakeCompleted, loop
  <2> QED BY <1>4, <2>1, TakeCarries, DueQuiet
<1>5. CASE Client /\ ~EndSession
  BY <1>5, NotifiedRenews, DueClient
<1> QED BY <1>1, <1>2, <1>3, <1>4, <1>5, DueReload, DuePublish DEF Next, Client, Proceed

\* The parts of the invariant a step of the loop may disturb: the job in
\* progress, cancelled and perhaps killed, and the results.
LEMMA CutLoop ==
  ASSUME TypeOK, FreshInv, CutMeansSuperseded, [Next]_vars,
         UNCHANGED <<running, at, hand>>,
         doing' = "kill" => running = Head(due'),
         child' # "none" => at \in {"track", "check", "await"},
         at \in {"begin", "track", "check", "await"} /\ ~Disconnected' =>
             \/ hand.doc.rc \/ Superseded(hand)
             \/ cancelled' = cancelled /\ child' = child,
         ~Disconnected' => Range(completed') \subseteq Range(completed)
  PROVE  CutMeansSuperseded'
<1>1. \A job : Held(job) /\ Superseded(job) => Superseded(job)'
  BY StaysSuperseded
<1>2. Disconnected => Disconnected'
  BY StaysDisconnected
<1>3. at \in {"begin", "track", "check", "await"} => CutJob'
  <2>1. SUFFICES ASSUME at \in {"begin", "track", "check", "await"}, ~Disconnected',
                        cancelled' \/ child' = "killed"
                 PROVE  hand.doc.rc \/ Superseded(hand)'
    BY DEF CutJob, Superseded
  <2>2. hand.doc.rc \/ Superseded(hand)
    BY <1>2, <2>1 DEF CutMeansSuperseded, CutJob
  <2> QED BY <1>1, <2>1, <2>2, WorkIsHeld
<1>4. at \in {"clear", "finish", "send"} => CutResult(hand)'
  BY <1>1, <1>2, WorkIsHeld DEF CutMeansSuperseded, CutResult, Superseded
<1>5. ASSUME NEW i \in DOMAIN completed', ~Disconnected', completed'[i].what = "cut"
      PROVE  Superseded(completed[i])'
  <2>1. PICK j \in DOMAIN completed : completed'[i] = completed[j]
    BY <1>5 DEF Range
  <2>2. Held(completed[j]) /\ Superseded(completed[j])
    BY <1>2, <1>5, <2>1, WorkIsHeld DEF CutMeansSuperseded, CutResult
  <2> QED BY <1>1, <2>1, <2>2 DEF Superseded
<1> QED BY <1>3, <1>4, <1>5 DEF CutMeansSuperseded, CutResult

LEMMA CutWork ==
  ASSUME TypeOK, FreshInv, KillInv, CutMeansSuperseded, Work \/ ChildAnswers
  PROVE  CutMeansSuperseded'
<1> USE DEF Goes, CutMeansSuperseded
<1>0. UNCHANGED <<docs, doing, due>> /\ (Disconnected' <=> Disconnected)
  BY DEF Work, Pop, Leave, Analyse, SkipLint, Spawn, SpawnFails, Track, CheckTracked, TimesOut,
         ChildDies, Clear, Finish, Send, SendFails, ChildAnswers, Reap, WorkerOnly, loop, open,
         Disconnected, Stopping
<1>1. \A job : Superseded(job)' <=> Superseded(job)
  BY <1>0 DEF Superseded
<1>2. completed' = completed => \A i \in DOMAIN completed' : CutResult(completed[i])'
  BY <1>0 DEF Superseded, CutResult
<1>3. CASE Pop
  <2>1. ~CutJob' => FALSE
    BY <1>3 DEF Pop, CutJob
  <2> QED BY <1>0, <1>2, <1>3, <2>1 DEF Pop, Locked
<1>4. ASSUME NEW what, hand' = Finding(hand, what), at' \in {"clear", "finish"},
             UNCHANGED <<running, completed>>, at \in {"begin", "await"}, child' = "none",
             what = "cut" => Superseded(hand) \/ Disconnected
      PROVE  CutMeansSuperseded'
  <2>1. hand'.uri = hand.uri /\ hand'.doc = hand.doc /\ hand'.what = what
    BY <1>4 DEF Finding
  <2>2. CutResult(hand)'
    BY <1>0, <1>4, <2>1 DEF CutResult, Superseded
  <2> QED BY <1>0, <1>2, <1>4, <2>1, <2>2
<1>5. CASE Analyse \/ SkipLint \/ SpawnFails
  <2>1. /\ at = "begin" /\ at' = "finish" /\ UNCHANGED <<running, completed>> /\ child' = "none"
        /\ \E what : /\ hand' = Finding(hand, what)
                     /\ what = "cut" => cancelled /\ ~hand.doc.rc
    BY <1>5 DEF Analyse, SkipLint, SpawnFails, queue
  <2>2. cancelled /\ ~hand.doc.rc => Superseded(hand) \/ Disconnected
    BY <2>1 DEF CutJob
  <2> QED BY <1>4, <2>1, <2>2
<1>6. CASE ChildAnswers \/ TimesOut \/ ChildDies
  <2>1. /\ at = "await" /\ at' = "clear" /\ UNCHANGED <<running, completed>> /\ child' = "none"
        /\ \E what : /\ hand' = Finding(hand, what)
                     /\ what = "cut" => child = "killed"
    BY <1>6 DEF ChildAnswers, TimesOut, ChildDies, Reap, queue
  <2>2. child = "killed" => Superseded(hand) \/ Disconnected
    BY <2>1 DEF CutJob
  <2> QED BY <1>4, <2>1, <2>2
<1>7. CASE Spawn \/ Track \/ CheckTracked
  <2>1. /\ at \in {"begin", "track", "check", "await"} /\ at' \in {"track", "check", "await"}
        /\ UNCHANGED <<running, cancelled, hand, completed>> /\ ~hand.doc.rc
        /\ child' = "killed" => cancelled \/ child = "killed"
    BY <1>7 DEF Spawn, Track, CheckTracked, queue
  <2>2. CutJob'
    BY <1>0, <2>1 DEF CutJob, Superseded
  <2> QED BY <1>0, <1>2, <2>1, <2>2
<1>8. CASE Leave \/ Clear \/ Finish
  <2>1. /\ UNCHANGED <<hand, child, completed>> /\ (running' = running \/ running' = Nobody)
        /\ \/ at = "waiting" /\ at' = "gone"
           \/ at \in {"clear", "finish"} /\ at' \in {"finish", "send"}
    BY <1>8 DEF Leave, Clear, Finish, queue
  <2>2. at \in {"clear", "finish"} => CutResult(hand)'
    BY <1>0, <2>1 DEF CutResult, Superseded
  <2>3. child' = "none" /\ at' \notin {"begin", "track", "check", "await"}
    BY <2>1
  <2>4. at' \in {"clear", "finish", "send"} => CutResult(hand)'
    BY <2>1, <2>2
  <2>5. (running' # Nobody => hand'.uri = running') /\ (doing' = "kill" => running' = Head(due'))
    BY <1>0, <1>8 DEF Leave, Clear, Finish, Locked, queue
  <2> QED BY <1>2, <2>1, <2>3, <2>4, <2>5
<1>9. CASE Send \/ SendFails
  <2>1. running = Nobody
    BY <1>9 DEF Send, SendFails, KillInv, RunningUntilFinished
  <2>2. \A i \in DOMAIN completed' : CutResult(completed[i])'
    <3>1. CASE Send
      <4>1. completed \in Seq(Result) /\ hand \in Result /\ CutResult(hand)
        BY <3>1 DEF Send, TypeOK
      <4>2. \A i \in DOMAIN completed' :
              completed'[i] = hand \/ (i \in DOMAIN completed /\ completed'[i] = completed[i])
        BY <3>1, <4>1 DEF Send
      <4> QED BY <1>0, <4>1, <4>2 DEF CutResult, Superseded
    <3>2. CASE SendFails
      BY <1>2, <3>2 DEF SendFails
    <3> QED BY <1>9, <3>1, <3>2
  <2> QED BY <1>0, <1>2, <1>9, <2>1, <2>2 DEF Send, SendFails, queue
<1> QED BY <1>3, <1>5, <1>6, <1>7, <1>8, <1>9 DEF Work

\* What the loop does to the job it is about to replace.
LEMMA CutSchedule ==
  ASSUME TypeOK, FreshInv, KillInv, DueAreSuperseded, CutMeansSuperseded, [Next]_vars,
         CancelDue \/ Kill \/ Publish
  PROVE  CutMeansSuperseded'
<1>1. due # <<>> /\ Head(due) \in Range(due) /\ Head(due) \in Docs
  BY RangeTail DEF CancelDue, Kill, Publish, TypeOK
<1>2. UNCHANGED <<running, at, hand, completed>>
  BY DEF CancelDue, CancelWork, Kill, Publish, ScheduleDiagnostics, Scheduled, Execute, queue, worker
<1>3. at \in {"begin", "track", "check", "await"} /\ running = Head(due) =>
          hand.doc.rc \/ Superseded(hand)
  <2> SUFFICES ASSUME at \in {"begin", "track", "check", "await"}, running = Head(due)
               PROVE  hand.doc.rc \/ Superseded(hand)
    OBVIOUS
  <2>1. hand.uri = Head(due) /\ Awaited(hand) \in UnderWay
    BY <1>1, WorkIsHeld, DocumentsAssumption DEF CutMeansSuperseded
  <2> QED BY <1>1, <2>1 DEF DueAreSuperseded, Superseded, Awaited
<1>4. running # Head(due) => cancelled' = cancelled /\ child' = child
  <2>1. cancelled \in BOOLEAN
    BY DEF TypeOK
  <2>2. CASE CancelDue
    BY <2>1, <2>2 DEF CancelDue, CancelWork, worker
  <2>3. CASE Kill
    BY <2>3 DEF Kill, CutMeansSuperseded
  <2>4. CASE Publish
    BY <2>1, <2>4 DEF Publish, ScheduleDiagnostics, Execute, queue
  <2> QED BY <2>2, <2>3, <2>4
<1>5. child' # "none" => child # "none"
  BY DEF CancelDue, Kill, Publish, ScheduleDiagnostics, Execute, Killed, queue, worker
<1>6. doing' = "kill" => running = Head(due')
  BY DEF CancelDue, Kill, Publish, ScheduleDiagnostics, Scheduled
<1> QED BY <1>2, <1>3, <1>4, <1>5, <1>6, CutLoop DEF CutMeansSuperseded

LEMMA CutTake ==
  ASSUME TypeOK, FreshInv, CutMeansSuperseded, CutLintsAreNotShown, [Next]_vars, TakeCompleted
  PROVE  CutMeansSuperseded' /\ CutLintsAreNotShown'
<1> DEFINE result == Head(completed)
<1>1. /\ UNCHANGED <<running, cancelled, at, hand, child, doing, due>>
      /\ completed' = Tail(completed) /\ completed \in Seq(Result) /\ completed # <<>>
  BY DEF TakeCompleted, queue, worker, loop, TypeOK
<1>2. Range(completed') \subseteq Range(completed)
  BY <1>1, RangeTail
<1>3. CutMeansSuperseded'
  BY <1>1, <1>2, CutLoop DEF CutMeansSuperseded
<1>4. IsCurrent(result) => result.what # "cut"
  <2>1. CutResult(result)
    BY <1>1 DEF CutMeansSuperseded
  <2> QED BY <2>1 DEF CutResult, IsCurrent, Superseded, TakeCompleted, Disconnected, Stopping
<1>5. CutLintsAreNotShown'
  <2>1. screen \in [Docs -> Shown] /\ result \in Result
    BY <1>1 DEF TypeOK
  <2> QED BY <1>4, <2>1 DEF CutLintsAreNotShown, TakeCompleted, Show
<1> QED BY <1>3, <1>5

LEMMA CutStep ==
  ASSUME TypeOK, FreshInv, KillInv, CutInv, [Next]_vars
  PROVE  CutInv'
<1> USE DEF CutInv
<1>0. DueAreSuperseded'
  BY DueStep
<1>1. CASE Work \/ ChildAnswers
  <2>1. screen' = screen
    BY <1>1 DEF Work, Pop, Leave, Analyse, SkipLint, Spawn, SpawnFails, Track, CheckTracked, TimesOut,
         ChildDies, Clear, Finish, Send, SendFails, ChildAnswers, Reap, WorkerOnly
  <2> QED BY <1>0, <1>1, <2>1, CutWork DEF CutLintsAreNotShown
<1>2. CASE CancelDue \/ Kill \/ Publish
  <2>1. CutLintsAreNotShown'
    <3>1. screen \in [Docs -> Shown]
      BY DEF TypeOK
    <3> QED BY <1>2, <3>1 DEF CancelDue, Kill, Publish, ScheduleDiagnostics, Show, CutLintsAreNotShown, Blank
  <2> QED BY <1>0, <1>2, <2>1, CutSchedule
<1>3. CASE TakeCompleted
  BY <1>0, <1>3, CutTake
<1>4. CASE Client \/ Publishers \/ (\E writer \in Writers : SendWake(writer)) \/ TakeWake \/ Reload
           \/ Join \/ UNCHANGED vars
  <2>1. /\ UNCHANGED <<running, cancelled, at, hand, child, screen>>
        /\ completed' = completed \/ completed' = <<>>
        /\ doing' # "kill" \/ (doing' = doing /\ due' = due)
    BY <1>4 DEF Client, DidOpen, DidChange, DidClose, Notified, EndSession, Publishers,
              StoreConfiguration, StoreCatalog, Store, SendWake, TakeWake, Reload, ScheduleBazelrc,
              Join, vars, loop, queue, worker
  <2>2. CutMeansSuperseded'
    BY <2>1, RangeEmpty, CutLoop DEF CutMeansSuperseded
  <2> QED BY <1>0, <2>1, <2>2 DEF CutLintsAreNotShown
<1>5. CASE DropLatest \/ LastKill
  <2>1. /\ UNCHANGED <<running, at, hand, screen, completed>> /\ Disconnected' /\ doing' # "kill"
        /\ child' # "none" => child # "none"
    BY <1>5 DEF DropLatest, LastKill, Killed, queue, worker, Disconnected, Stopping
  <2>2. CutMeansSuperseded'
    BY <2>1, CutLoop DEF CutMeansSuperseded
  <2> QED BY <1>0, <2>1, <2>2 DEF CutLintsAreNotShown
<1> QED BY <1>1, <1>2, <1>3, <1>4, <1>5 DEF Next, Proceed

LEMMA CutAlways == Spec => []CutInv
<1>1. Init => CutInv
  <2> SUFFICES ASSUME Init PROVE CutInv
    OBVIOUS
  <2>1. UnderWay = {}
    BY RangeEmpty DEF Init, UnderWay, InHand
  <2> QED BY <2>1 DEF Init, CutInv, DueAreSuperseded, CutMeansSuperseded, CutLintsAreNotShown, Blank
<1>2. TypeOK /\ FreshInv /\ KillInv /\ CutInv /\ [Next]_vars => CutInv'
  BY CutStep
<1> QED BY <1>1, <1>2, TypeCorrect, KillAlways, FreshAlways, PTL DEF Spec

\* The empty list that a cancelled lint returns is never shown, however many
\* documents are opened, closed and read as another kind (main.rs:719, worker.rs:147).
THEOREM NoCutLintIsShown == Spec => []CutLintsAreNotShown
<1>1. CutInv => CutLintsAreNotShown
  BY DEF CutInv
<1> QED BY <1>1, CutAlways, PTL

-----------------------------------------------------------------------------
(***************************************************************************)
(* Nothing is missing at rest.  A publication the loop has not seen has a  *)
(* wake to come, and whatever a document is missing is under way.          *)
(***************************************************************************)

\* A publication the loop does not know has a wake to come.
WakeIsOwed == known # published => wake \/ owing # {} \/ doing = "reload"

\* Every open document is read as what the loop's configuration makes of it.
ReadAsKnown == \A u \in Docs : IsOpen(u) => (docs[u].rc <=> IsBazelrc(u, known))

\* Work that will show what u is missing.
Expected(u) == \E job \in UnderWay : job.uri = u /\ job.doc = docs[u] /\ (docs[u].rc => job.with = known)

\* There is something to find in u, and it is not shown.
Missing(u) == IsOpen(u) /\ IsAnalysed(u) /\ screen[u].what \notin Findings

MissingIsUnderWay == \A u \in Docs \ Range(due) : Missing(u) => Expected(u) \/ Disconnected

\* A bazelrc file is analysed to the end, another one is linted if it parses.
FoundWhole(result) == IF result.doc.rc THEN result.what = "found" ELSE result.doc.clean

ResultsAreWhole ==
    /\ \A job \in UnderWay : job.doc.rc \/ job.doc.clean
    /\ at \in {"clear", "finish", "send"} => FoundWhole(hand)
    /\ at \in {"track", "check", "await"} => ~hand.doc.rc
    /\ \A i \in DOMAIN completed : FoundWhole(completed[i])
    /\ \A u \in Docs : screen[u].what \in Findings => FoundWhole(screen[u])
    /\ \A u \in Docs : screen[u].what = "blank" => screen[u] = Blank

RestInv == buffer = Tier(docs) /\ WakeIsOwed /\ ReadAsKnown /\ MissingIsUnderWay /\ ResultsAreWhole

\* The wake, the tier and the kinds of the documents.
LEMMA RestKinds ==
  ASSUME TypeOK, buffer = Tier(docs), WakeIsOwed, ReadAsKnown, [Next]_vars
  PROVE  buffer' = Tier(docs') /\ WakeIsOwed' /\ ReadAsKnown'
<1>0. docs \in [Docs -> Document] /\ \A u \in Docs : docs[u].rc \in BOOLEAN
  BY DEF TypeOK, Document
<1>1. ASSUME NEW texts, Replace(texts)
      PROVE  docs' = texts /\ buffer' = Tier(docs')
  BY <1>1 DEF Replace
<1>2. ASSUME UNCHANGED <<docs, buffer, known>>
      PROVE  buffer' = Tier(docs') /\ ReadAsKnown'
  BY <1>2 DEF ReadAsKnown, IsOpen, IsBazelrc
<1>3. CASE Work \/ ChildAnswers
  <2>1. UNCHANGED <<docs, buffer, known, published, wake, owing, doing>>
    BY <1>3 DEF Work, Pop, Leave, Analyse, SkipLint, Spawn, SpawnFails, Track, CheckTracked, TimesOut,
         ChildDies, Clear, Finish, Send, SendFails, ChildAnswers, Reap, WorkerOnly, loop, open, others
  <2> QED BY <1>2, <2>1 DEF WakeIsOwed
<1>4. CASE EndSession \/ TakeCompleted \/ Join \/ CancelDue \/ Kill \/ Publish \/ DropLatest \/ LastKill
           \/ UNCHANGED vars
  <2>1. /\ UNCHANGED <<docs, buffer, known, published, wake, owing>>
        /\ doing' = doing \/ doing # "reload"
    BY <1>4 DEF EndSession, TakeCompleted, Join, CancelDue, Kill, Publish, ScheduleDiagnostics,
                Scheduled, DropLatest, LastKill, loop, open, others, vars
  <2> QED BY <1>2, <2>1 DEF WakeIsOwed
<1>5. CASE Publishers \/ \E writer \in Writers : SendWake(writer)
  <2>1. UNCHANGED <<docs, buffer, known>> /\ (wake' \/ owing' # {})
    BY <1>5 DEF Publishers, StoreConfiguration, StoreCatalog, Store, SendWake, loop, open
  <2> QED BY <1>2, <2>1 DEF WakeIsOwed
<1>6. CASE TakeWake
  <2>1. UNCHANGED <<docs, buffer, known>> /\ doing' = "reload"
    BY <1>6 DEF TakeWake, open
  <2> QED BY <1>2, <2>1 DEF WakeIsOwed
<1>7. CASE Client /\ ~EndSession
  <2>1. UNCHANGED <<known, published, wake, owing>> /\ doing = "select"
    BY <1>7 DEF Client, DidOpen, DidChange, DidClose, Notified, others
  <2>2. WakeIsOwed'
    BY <2>1 DEF WakeIsOwed
  <2>3. ASSUME NEW u \in Docs, NEW version, NEW clean, NEW rc, SetDocument(u, version, clean, rc),
               rc <=> IsBazelrc(u, known)
        PROVE  buffer' = Tier(docs') /\ ReadAsKnown'
    <3> DEFINE doc == [arc |-> arcs[u] + 1, version |-> version, clean |-> clean \/ rc, rc |-> rc]
    <3>1. docs' = [docs EXCEPT ![u] = doc] /\ buffer' = Tier(docs')
      BY <1>1, <2>3 DEF SetDocument
    <3>2. doc.rc = rc
      OBVIOUS
    <3> HIDE DEF doc
    <3>3. ASSUME NEW v \in Docs, docs'[v] # Closed
          PROVE  docs'[v].rc <=> IsBazelrc(v, known)
      <4>1. CASE v = u
        BY <1>0, <2>3, <3>1, <3>2, <4>1
      <4>2. CASE v # u
        BY <1>0, <3>1, <3>3, <4>2 DEF ReadAsKnown, IsOpen
      <4> QED BY <4>1, <4>2
    <3> QED BY <2>1, <3>1, <3>3 DEF ReadAsKnown, IsOpen, IsBazelrc
  <2>4. ASSUME NEW u \in Docs, DidClose(u)
        PROVE  buffer' = Tier(docs') /\ ReadAsKnown'
    <3>1. docs' = [docs EXCEPT ![u] = Closed] /\ buffer' = Tier(docs')
      BY <1>1, <2>4 DEF DidClose
    <3> QED BY <1>0, <2>1, <3>1 DEF ReadAsKnown, IsOpen, IsBazelrc
  <2>5. ASSUME NEW u \in Docs, NEW clean, DidOpen(u, clean) \/ DidChange(u, clean)
        PROVE  buffer' = Tier(docs') /\ ReadAsKnown'
    BY <2>3, <2>5 DEF DidOpen, DidChange, ReadAsKnown
  <2> QED BY <1>7, <2>2, <2>4, <2>5 DEF Client
<1>8. CASE Reload
  <2>1. known' = published /\ published' = published
    BY <1>8 DEF Reload, others
  <2>2. buffer' = Tier(docs')
    BY <1>1, <1>8 DEF Reload, ReclassifyBazelrc
  <2>3. ASSUME NEW u \in Docs, IsOpen(u)'
        PROVE  docs'[u].rc <=> IsBazelrc(u, published)
    <3>1. CASE u \in Reclassified
      BY <1>0, <1>8, <3>1, ReloadRenews DEF Reclassified, IsBazelrc
    <3>2. CASE u \notin Reclassified
      BY <1>0, <1>8, <2>3, <3>2, ReloadRenews DEF Reclassified, IsOpen, IsBazelrc
    <3> QED BY <3>1, <3>2
  <2> QED BY <2>1, <2>2, <2>3 DEF WakeIsOwed, ReadAsKnown, IsBazelrc
<1> QED BY <1>3, <1>4, <1>5, <1>6, <1>7, <1>8 DEF Next, Client, Proceed

\* Nothing is found of a document of which there is nothing to find.
LEMMA RestWhole ==
  ASSUME TypeOK, FreshInv, ResultsAreWhole, [Next]_vars
  PROVE  ResultsAreWhole'
<1>0. screen \in [Docs -> Shown] /\ UnderWay \subseteq Job
  BY UnderWayIsWork DEF TypeOK
<1>1. CASE Work \/ ChildAnswers
  <2>1. screen' = screen
    BY <1>1 DEF Work, Pop, Leave, Analyse, SkipLint, Spawn, SpawnFails, Track, CheckTracked, TimesOut,
         ChildDies, Clear, Finish, Send, SendFails, ChildAnswers, Reap, WorkerOnly
  <2>2. \A job \in UnderWay' : job.doc.rc \/ job.doc.clean
    BY <1>1, WorkerCarries DEF ResultsAreWhole
  <2>3. ASSUME NEW what, hand \in Job, hand' = Finding(hand, what), at \notin {"waiting", "gone"},
               hand.doc.rc => what = "found"
        PROVE  FoundWhole(hand)'
    <3>1. Awaited(hand) \in UnderWay /\ Awaited(hand).doc = hand.doc
      BY <2>3 DEF UnderWay, InHand, Awaited
    <3>2. hand'.doc = hand.doc /\ hand'.what = what
      BY <2>3 DEF Finding
    <3> QED BY <2>3, <3>1, <3>2 DEF FoundWhole, ResultsAreWhole
  <2>4. CASE Analyse \/ SkipLint \/ SpawnFails \/ ChildAnswers \/ TimesOut \/ ChildDies
    <3>1. /\ at \in {"begin", "await"} /\ at' \in {"finish", "clear"} /\ hand \in Job /\ completed' = completed
          /\ \E what : hand' = Finding(hand, what) /\ (hand.doc.rc => what = "found")
      BY <2>4 DEF Analyse, SkipLint, SpawnFails, ChildAnswers, TimesOut, ChildDies, Reap, Goes, TypeOK,
                  ResultsAreWhole
    <3> QED BY <2>1, <2>2, <2>3, <3>1 DEF ResultsAreWhole, FoundWhole
  <2>5. CASE Pop \/ Leave \/ Spawn \/ Track \/ CheckTracked \/ Clear \/ Finish \/ SendFails
    <3>1. /\ completed' = completed
          /\ \/ at' \in {"begin", "gone", "waiting"}
             \/ hand' = hand /\ at' \in {"track", "check", "await"} /\ ~hand.doc.rc
             \/ hand' = hand /\ at' \in {"finish", "send"} /\ at \in {"clear", "finish"}
      BY <2>5 DEF Pop, Leave, Spawn, Track, CheckTracked, Clear, Finish, SendFails, Goes, ResultsAreWhole
    <3> QED BY <2>1, <2>2, <3>1 DEF ResultsAreWhole, FoundWhole
  <2>6. CASE Send
    <3>1. completed \in Seq(Result) /\ hand \in Result /\ at' = "waiting" /\ FoundWhole(hand)
      BY <2>6 DEF Send, Goes, TypeOK, ResultsAreWhole
    <3>2. \A i \in DOMAIN completed' :
              completed'[i] = hand \/ (i \in DOMAIN completed /\ completed'[i] = completed[i])
      BY <2>6, <3>1 DEF Send
    <3> QED BY <2>1, <2>2, <3>1, <3>2 DEF ResultsAreWhole, FoundWhole
  <2> QED BY <1>1, <2>4, <2>5, <2>6 DEF Work
<1>2. CASE Publish
  <2> DEFINE u == Head(due)
  <2>1. u \in Docs /\ UNCHANGED <<at, hand, completed>>
    BY <1>2 DEF Publish, ScheduleDiagnostics, Scheduled, TypeOK
  <2>2. \A job \in UnderWay' : job \in UnderWay \/ (IsAnalysed(u) /\ job.doc = docs[u])
    <3>1. ASSUME Execute(u), IsAnalysed(u)
          PROVE  \A job \in UnderWay' : job \in UnderWay \/ job = [uri |-> u, doc |-> docs[u], with |-> known]
      BY <2>1, <3>1, ExecuteCarries
    <3>2. CASE UNCHANGED <<queue, child>>
      BY <2>1, <3>2 DEF UnderWay, InHand, queue
    <3> QED BY <1>2, <3>1, <3>2 DEF Publish, ScheduleDiagnostics
  <2>3. ASSUME NEW v \in Docs
        PROVE  screen'[v] = screen[v] \/ screen'[v] = Blank \/ screen'[v].what = "syntax"
    BY <1>0, <1>2, <2>1 DEF Publish, ScheduleDiagnostics, Show
  <2>4. Blank.what = "blank" /\ "blank" \notin Findings /\ "syntax" \notin Findings
    BY DEF Blank, Findings
  <2> QED BY <2>1, <2>2, <2>3, <2>4 DEF ResultsAreWhole, FoundWhole, IsAnalysed
<1>3. CASE TakeCompleted
  <2>1. /\ completed \in Seq(Result) /\ completed # <<>> /\ completed' = Tail(completed)
        /\ UNCHANGED <<at, hand>>
    BY <1>3 DEF TakeCompleted, worker, TypeOK
  <2>2. \A i \in DOMAIN completed' : FoundWhole(completed'[i])
    <3>1. \A i \in DOMAIN completed' : \E j \in DOMAIN completed : completed'[i] = completed[j]
      BY <2>1
    <3> QED BY <3>1 DEF ResultsAreWhole
  <2>3. FoundWhole(Head(completed)) /\ Head(completed) \in Result
    BY <1>3, <2>1 DEF ResultsAreWhole
  <2>4. CASE IsCurrent(Head(completed))
    <3>1. /\ Head(completed).uri \in Docs /\ Head(completed).doc = docs[Head(completed).uri]
          /\ Head(completed).what \in Findings
      BY <1>3, <2>3, <2>4, CurrentResult DEF Result
    <3>2. ASSUME NEW u \in Docs
          PROVE  \/ screen'[u] = screen[u]
                 \/ screen'[u].what \in Findings /\ FoundWhole(screen'[u])
      BY <1>0, <1>3, <2>3, <2>4, <3>1 DEF TakeCompleted, Show, FoundWhole
    <3>3. "blank" \notin Findings
      BY DEF Findings
    <3> QED BY <1>3, <2>1, <2>2, <3>2, <3>3, TakeCarries DEF ResultsAreWhole, FoundWhole
  <2>5. CASE ~IsCurrent(Head(completed))
    <3>1. screen' = screen
      BY <1>3, <2>5 DEF TakeCompleted
    <3> QED BY <1>3, <2>1, <2>2, <3>1, TakeCarries DEF ResultsAreWhole, FoundWhole
  <2> QED BY <2>4, <2>5
<1>4. CASE CancelDue \/ EndSession \/ DropLatest
  <2>1. /\ UNCHANGED <<screen, at, hand>> /\ (completed' = completed \/ completed' = <<>>)
    BY <1>4 DEF CancelDue, EndSession, DropLatest, worker
  <2> QED BY <1>4, <2>1, LoopCarries DEF ResultsAreWhole, FoundWhole
<1>5. CASE (Client /\ ~EndSession) \/ Publishers \/ (\E writer \in Writers : SendWake(writer))
           \/ TakeWake \/ Reload \/ Kill \/ LastKill \/ Join \/ UNCHANGED vars
  <2>1. UNCHANGED <<screen, pending, at, hand, completed>>
    BY <1>5 DEF Client, DidOpen, DidChange, DidClose, Notified, Publishers, StoreConfiguration,
                StoreCatalog, Store, SendWake, TakeWake, Reload, Kill, LastKill, Join, vars, queue, worker
  <2>2. UnderWay' = UnderWay
    BY <2>1 DEF UnderWay, InHand
  <2> QED BY <2>1, <2>2 DEF ResultsAreWhole, FoundWhole
<1> QED BY <1>1, <1>2, <1>3, <1>4, <1>5 DEF Next, Client, Proceed

\* A step that keeps the work that was under way, the documents and the screen.
LEMMA MissingQuiet ==
  ASSUME MissingIsUnderWay, UNCHANGED <<docs, screen, known, due>>,
         Disconnected => Disconnected',
         Disconnected' \/ \A job \in UnderWay : job.uri \in Range(due) \/ job \in UnderWay'
  PROVE  MissingIsUnderWay'
<1>1. ASSUME NEW u \in Docs \ Range(due), Missing(u)', ~Disconnected'
      PROVE  Expected(u)'
  <2>1. Expected(u)
    BY <1>1 DEF MissingIsUnderWay, Missing, IsOpen, IsAnalysed
  <2> QED BY <1>1, <2>1 DEF Expected
<1> QED BY <1>1 DEF MissingIsUnderWay

LEMMA MissingPublish ==
  ASSUME TypeOK, FreshInv, MissingIsUnderWay, Publish, Disconnected => Disconnected'
  PROVE  MissingIsUnderWay'
<1> DEFINE u == Head(due)
           new == [uri |-> u, doc |-> docs[u], with |-> known]
<1>0. due # <<>> /\ DueOnce /\ screen \in [Docs -> Shown]
  BY DEF Publish, TypeOK, FreshInv
<1>1. /\ u \in Docs /\ due' = Tail(due) /\ Range(due') = Range(due) \ {u}
      /\ UNCHANGED <<docs, known, at, hand, completed>>
  BY <1>0, DueRange DEF Publish, ScheduleDiagnostics, Scheduled, open
<1>2. /\ \A job \in UnderWay : job.uri # u => job \in UnderWay'
      /\ IsOpen(u) /\ IsAnalysed(u) => new \in UnderWay'
  <2>1. CASE Execute(u)
    BY <1>1, <2>1, ExecuteCarries
  <2>2. CASE UNCHANGED <<queue, child>> /\ ~(IsOpen(u) /\ IsAnalysed(u))
    BY <1>1, <2>2 DEF UnderWay, InHand, queue
  <2> QED BY <2>1, <2>2 DEF Publish, ScheduleDiagnostics
<1>3. \A v \in Docs : v # u => screen'[v] = screen[v]
  BY <1>0, <1>1 DEF Publish, ScheduleDiagnostics, Show
<1>4. ASSUME NEW v \in Docs \ Range(due'), Missing(v)', ~Disconnected'
      PROVE  Expected(v)'
  <2>1. CASE v = u
    <3>1. new.uri = u /\ new.doc = docs[u] /\ new.with = known
      OBVIOUS
    <3>2. new \in UnderWay'
      BY <1>1, <1>2, <1>4, <2>1 DEF Missing, IsOpen, IsAnalysed
    <3> HIDE DEF new
    <3> QED BY <1>1, <2>1, <3>1, <3>2 DEF Expected
  <2>2. CASE v # u
    <3>1. Expected(v)
      BY <1>1, <1>3, <1>4, <2>2 DEF MissingIsUnderWay, Missing, IsOpen, IsAnalysed
    <3> QED BY <1>1, <1>2, <2>2, <3>1 DEF Expected
  <2> QED BY <2>1, <2>2
<1> QED BY <1>4 DEF MissingIsUnderWay

LEMMA MissingTake ==
  ASSUME TypeOK, FreshInv, MissingIsUnderWay, TakeCompleted
  PROVE  MissingIsUnderWay'
<1> DEFINE result == Head(completed)
<1>0. screen \in [Docs -> Shown] /\ result \in Result
  BY DEF TypeOK, TakeCompleted
<1>1. UNCHANGED <<docs, known, doing, due>>
  BY DEF TakeCompleted, loop, open
<1>2. ASSUME NEW u \in Docs \ Range(due'), Missing(u)', ~Disconnected'
      PROVE  Expected(u)'
  <2>1. \/ screen'[u] = screen[u] /\ ~(IsCurrent(result) /\ result.uri = u)
        \/ screen'[u].what \in Findings
    BY <1>0 DEF TakeCompleted, Show, Result
  <2>2. /\ screen'[u] = screen[u] /\ ~(IsCurrent(result) /\ result.uri = u)
        /\ Expected(u) /\ IsOpen(u)
    BY <1>1, <1>2, <2>1 DEF MissingIsUnderWay, Missing, IsOpen, IsAnalysed, Disconnected, Stopping
  <2>3. PICK job \in UnderWay : job.uri = u /\ job.doc = docs[u] /\ (docs[u].rc => job.with = known)
    BY <2>2 DEF Expected
  <2>4. job # Awaited(result)
    BY <2>2, <2>3 DEF IsCurrent, Awaited
  <2> QED BY <1>1, <2>3, <2>4, TakeCarries DEF Expected
<1> QED BY <1>2 DEF MissingIsUnderWay

LEMMA MissingStep ==
  ASSUME TypeOK, FreshInv, MissingIsUnderWay, [Next]_vars
  PROVE  MissingIsUnderWay'
<1>0. Disconnected => Disconnected'
  BY StaysDisconnected
<1>1. CASE Work \/ ChildAnswers
  <2>1. UNCHANGED <<docs, screen, known, due, doing>>
    BY <1>1 DEF Work, Pop, Leave, Analyse, SkipLint, Spawn, SpawnFails, Track, CheckTracked, TimesOut,
         ChildDies, Clear, Finish, Send, SendFails, ChildAnswers, Reap, WorkerOnly, loop, open
  <2> QED BY <1>0, <1>1, <2>1, WorkerCarries, MissingQuiet
<1>2. CASE CancelDue
  <2>1. UNCHANGED <<docs, screen, known, due>> /\ Head(due) \in Range(due)
    BY <1>2, RangeTail DEF CancelDue, open, TypeOK
  <2> QED BY <1>0, <1>2, <2>1, LoopCarries, MissingQuiet
<1>3. CASE EndSession \/ DropLatest
  <2>1. UNCHANGED <<docs, screen, known, due>> /\ Disconnected'
    BY <1>3 DEF EndSession, DropLatest, open, Disconnected, Stopping
  <2> QED BY <1>0, <2>1, MissingQuiet
<1>4. CASE Publishers \/ (\E writer \in Writers : SendWake(writer)) \/ TakeWake \/ Kill \/ LastKill
           \/ Join \/ UNCHANGED vars
  <2>1. UNCHANGED <<docs, screen, known, due, pending, at, hand, completed>>
    BY <1>4 DEF Publishers, StoreConfiguration, StoreCatalog, Store, SendWake, TakeWake, Kill,
                LastKill, Join, vars, loop, open, queue, worker
  <2>2. UnderWay' = UnderWay
    BY <2>1 DEF UnderWay, InHand
  <2> QED BY <1>0, <2>1, <2>2, MissingQuiet
<1>5. CASE Client /\ ~EndSession
  <2>1. PICK u \in Docs : Renewed(u) /\ Notified(u)
    BY <1>5, NotifiedRenews
  <2>2. /\ UNCHANGED <<screen, known, pending, at, hand, completed>>
        /\ due' = <<u>> /\ doing = "select"
    BY <2>1 DEF Notified, queue, worker
  <2>3. UnderWay' = UnderWay /\ Range(due') = {u} /\ Range(due) = {}
    BY <2>2, RangeEmpty DEF UnderWay, InHand, Range, FreshInv, DueOnce
  <2>4. ASSUME NEW v \in Docs \ {u}, Missing(v)'
        PROVE  Expected(v)'
    <3>1. docs'[v] = docs[v] /\ ~Disconnected
      BY <2>1, <2>2 DEF Renewed, Disconnected, Stopping
    <3>2. Expected(v)
      BY <2>2, <2>3, <2>4, <3>1 DEF MissingIsUnderWay, Missing, IsOpen, IsAnalysed
    <3> QED BY <2>2, <2>3, <3>1, <3>2 DEF Expected
  <2> QED BY <2>3, <2>4 DEF MissingIsUnderWay
<1>6. CASE Reload
  <2>1. UNCHANGED <<screen, pending, at, hand, completed>> /\ doing = "reload"
    BY <1>6 DEF Reload, queue, worker
  <2>2. UnderWay' = UnderWay /\ Range(due) = {}
    BY <2>1, RangeEmpty DEF UnderWay, InHand, FreshInv, DueOnce
  <2>3. ASSUME NEW v \in Docs \ (Bazelrcs \cup Reclassified), Missing(v)'
        PROVE  Expected(v)'
    <3>1. docs'[v] = docs[v] /\ ~Disconnected /\ IsOpen(v)
      BY <1>6, <2>1, <2>3, ReloadRenews DEF Disconnected, Stopping, Missing, IsOpen
    <3>2. ~docs[v].rc
      BY <2>3, <3>1 DEF Bazelrcs, Reclassified
    <3>3. Expected(v)
      BY <2>1, <2>2, <2>3, <3>1 DEF MissingIsUnderWay, Missing, IsOpen, IsAnalysed
    <3> QED BY <2>2, <3>1, <3>2, <3>3 DEF Expected
  <2> QED BY <1>6, <2>3, ReloadRenews DEF MissingIsUnderWay
<1> QED BY <1>1, <1>2, <1>3, <1>4, <1>5, <1>6, MissingPublish, <1>0, MissingTake
        DEF Next, Client, Proceed

LEMMA RestAlways == Spec => []RestInv
<1>1. Init => RestInv
  <2> SUFFICES ASSUME Init PROVE RestInv
    OBVIOUS
  <2>1. UnderWay = {}
    BY RangeEmpty DEF Init, UnderWay, InHand
  <2>2. buffer = Tier(docs)
    <3>1. {u \in {v \in Build : docs[v] # Closed /\ ~docs[v].rc} : TRUE} = {}
      BY DocumentsAssumption DEF Init
    <3> QED BY <3>1 DEF Init, Tier
  <2>3. WakeIsOwed /\ ReadAsKnown /\ MissingIsUnderWay
    BY DEF Init, WakeIsOwed, ReadAsKnown, MissingIsUnderWay, Missing, IsOpen
  <2>4. ResultsAreWhole
    BY <2>1 DEF Init, ResultsAreWhole, Blank, Findings
  <2> QED BY <2>2, <2>3, <2>4 DEF RestInv
<1>2. TypeOK /\ FreshInv /\ RestInv /\ [Next]_vars => RestInv'
  BY RestKinds, RestWhole, MissingStep DEF RestInv
<1> QED BY <1>1, <1>2, TypeCorrect, FreshAlways, PTL DEF Spec

\* When the loop, the worker and the publishers are at rest, every open document
\* is read as what the published configuration makes of it and shows all that is
\* found in it (main.rs:300-316, 1330-1415).
THEOREM NothingIsMissingAtRest == Spec => []RestIsComplete
<1>1. TypeOK /\ FreshInv /\ CutInv /\ RestInv => RestIsComplete
  <2> SUFFICES ASSUME TypeOK, FreshInv, CutInv, RestInv, AtRest PROVE RestIsComplete
    BY DEF RestIsComplete
  <2>1. due = <<>> /\ Range(due) = {} /\ UnderWay = {} /\ known = published /\ ~Disconnected
    BY RangeEmpty DEF AtRest, FreshInv, DueOnce, UnderWay, InHand, RestInv, WakeIsOwed, Disconnected, Stopping
  <2>2. ASSUME NEW u \in Docs, IsOpen(u)
        PROVE  /\ docs[u].rc = IsBazelrc(u, published)
               /\ docs[u].rc => screen[u].what = "found" /\ screen[u].with = published
               /\ ~docs[u].rc => (screen[u].what = "syntax" <=> ~docs[u].clean)
    <3>1. docs[u].rc = IsBazelrc(u, published)
      <4>1. docs[u].rc \in BOOLEAN /\ IsBazelrc(u, published) \in BOOLEAN
        BY DEF TypeOK, Document, IsBazelrc
      <4> QED BY <2>1, <2>2, <4>1 DEF RestInv, ReadAsKnown
    <3>2. IsAnalysed(u) => screen[u].what \in Findings
      BY <2>1, <2>2 DEF RestInv, MissingIsUnderWay, Missing, Expected
    <3>3. IsShown(u) /\ screen[u].doc = docs[u] /\ screen[u] # Blank
      BY <2>1, <2>2 DEF FreshInv, RestIsShown, IsShown, IsOpen, Blank
    <3>4. screen[u].what \in Findings \cup {"syntax"}
      BY <3>3 DEF TypeOK, Shown, RestInv, ResultsAreWhole
    <3>5. screen[u].what \in Findings => FoundWhole(screen[u])
      BY DEF RestInv, ResultsAreWhole
    <3>6. "syntax" \notin Findings
      BY DEF Findings
    <3> QED BY <2>1, <3>1, <3>2, <3>3, <3>4, <3>5, <3>6 DEF IsAnalysed, FoundWhole, IsShown, Findings
  <2> QED BY <2>2 DEF RestIsComplete, RestInv
<1> QED BY <1>1, TypeCorrect, FreshAlways, CutAlways, RestAlways, PTL
=============================================================================
