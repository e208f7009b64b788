------------------------------ MODULE Requests ------------------------------
(* The protocol loop, its requests and the pool of workers (main.rs,         *)
(* worker.rs).  The loop takes one message of the client or one completed    *)
(* response at a time; a request carries a snapshot of the documents to a    *)
(* worker, through a bounded queue that refuses what it has no room for.     *)
(* The client may cancel a request, change a document or end the session at  *)
(* any moment; the loop then drops the receiver of responses and joins the   *)
(* workers.  Requests have the ids 1, 2, ... in the order they are sent.     *)
EXTENDS Naturals, Sequences, FiniteSets

CONSTANTS
    Workers,            \* the threads of the pool
    JobCapacity,        \* jobs the pool holds back for them
    CompletedCapacity,  \* responses the loop has not taken yet
    MaxRequests,        \* bounds on what the client sends
    MaxChanges,
    MaxInbox

ASSUME CapacitiesAssumption ==
    /\ Workers # {}
    /\ JobCapacity \in Nat \ {0}
    /\ CompletedCapacity \in Nat \ {0}

ASSUME BoundsAssumption ==
    /\ MaxRequests \in Nat
    /\ MaxChanges \in Nat
    /\ MaxInbox \in Nat

VARIABLES
    \* the client
    asked,      \* for each request sent, the changes sent before it
    changes,    \* changes sent
    withdrawn,  \* requests it has sent a cancel for
    inbox,      \* what the loop has not read yet
    answers,    \* for each request, the responses received
    \* the loop
    docs,       \* the documents: the number of changes applied
    incoming,   \* requests that still need their response
    cancelled,  \* requests whose Cancellation is set
    session,    \* "serving", then "joining" the workers, then "over"
    \* the pool
    jobs,       \* its queue
    at,         \* what each worker does
    hand,       \* the job or the response each worker holds
    completed   \* responses on their way to the loop

client == <<asked, changes, withdrawn>>
loop   == <<docs, incoming, cancelled, session>>
pool   == <<jobs, at, hand, completed>>
vars   == <<client, inbox, answers, loop, pool>>

Ids == 1..MaxRequests

\* How a request ends: with what the handler returns, with the error for a
\* handler that panicked, refused by a full queue, or cancelled.
Outcomes == {"result", "panicked", "refused", "cancelled"}
Response == [id : Ids, how : Outcomes, docs : Nat]

\* A job is a response yet to be made, with its snapshot of the documents.
Job  == [id : Ids, how : {"todo"}, docs : Nat]
Idle == [how |-> "none"]

Request  == [kind : {"request", "command"}, id : Ids]
Cancel   == [kind : {"cancel"}, id : Ids]
Others   == [kind : {"change", "end"}]
Messages == Request \cup Cancel \cup Others

Init ==
    /\ asked = <<>> /\ changes = 0 /\ withdrawn = {} /\ inbox = <<>>
    /\ answers = [id \in Ids |-> <<>>]
    /\ docs = 0 /\ incoming = {} /\ cancelled = {} /\ session = "serving"
    /\ jobs = <<>> /\ completed = <<>>
    /\ at = [w \in Workers |-> "receiving"]
    /\ hand = [w \in Workers |-> Idle]

-----------------------------------------------------------------------------
(* The client.  It sends nothing after the end of the session. *)

HasEnded == session # "serving" \/ \E i \in DOMAIN inbox : inbox[i].kind = "end"

Post(message) ==
    /\ ~HasEnded /\ Len(inbox) < MaxInbox
    /\ inbox' = Append(inbox, message)
    /\ UNCHANGED <<answers, loop, pool>>

\* A request for a worker, or workspace/executeCommand.
Ask(kind) ==
    /\ Len(asked) < MaxRequests
    /\ asked' = Append(asked, changes)
    /\ Post([kind |-> kind, id |-> Len(asked) + 1])
    /\ UNCHANGED <<changes, withdrawn>>

Withdraw(id) ==
    /\ id \in DOMAIN asked /\ id \notin withdrawn
    /\ withdrawn' = withdrawn \cup {id}
    /\ Post([kind |-> "cancel", id |-> id])
    /\ UNCHANGED <<asked, changes>>

Change ==
    /\ changes < MaxChanges
    /\ changes' = changes + 1
    /\ Post([kind |-> "change"])
    /\ UNCHANGED <<asked, withdrawn>>

\* The shutdown request, the exit notification or the end of the input.
End == Post([kind |-> "end"]) /\ UNCHANGED client

-----------------------------------------------------------------------------
(* The loop. *)

Read(kind) ==
    /\ session = "serving"
    /\ inbox # <<>> /\ Head(inbox).kind = kind
    /\ inbox' = Tail(inbox)
    /\ UNCHANGED client

Answer(id, how, seen) ==
    answers' = [answers EXCEPT ![id] = Append(@, [id |-> id, how |-> how, docs |-> seen])]

\* Mutants: a queue without a bound; a refusal that nobody is told of.
DispatchUnbounded(id) ==
    /\ jobs' = Append(jobs, [id |-> id, how |-> "todo", docs |-> docs])
    /\ incoming' = incoming \cup {id}
    /\ UNCHANGED answers

DispatchSilently(id) ==
    IF Len(jobs) < JobCapacity THEN DispatchUnbounded(id)
    ELSE UNCHANGED <<jobs, incoming, answers>>

\* Admit a job, or answer at once that the queue is full.
Dispatch(id) ==
    IF Len(jobs) < JobCapacity
    THEN /\ jobs' = Append(jobs, [id |-> id, how |-> "todo", docs |-> docs])
         /\ incoming' = incoming \cup {id}
         /\ UNCHANGED answers
    ELSE /\ Answer(id, "refused", docs)
         /\ UNCHANGED <<jobs, incoming>>

ReadRequest ==
    /\ Read("request")
    /\ Dispatch(Head(inbox).id)
    /\ UNCHANGED <<docs, cancelled, session, at, hand, completed>>

\* execute_command only sends a message to another thread: it runs here.
ReadCommand ==
    /\ Read("command")
    /\ Answer(Head(inbox).id, "result", docs)
    /\ UNCHANGED <<loop, pool>>

CancelRequest(id) ==
    IF id \in incoming
    THEN /\ incoming' = incoming \ {id}
         /\ cancelled' = cancelled \cup {id}
         /\ Answer(id, "cancelled", docs)
    ELSE UNCHANGED <<incoming, cancelled, answers>>

ReadCancel ==
    /\ Read("cancel")
    /\ CancelRequest(Head(inbox).id)
    /\ UNCHANGED <<docs, session, pool>>

ReadChange ==
    /\ Read("change")
    /\ docs' = docs + 1
    /\ UNCHANGED <<answers, incoming, cancelled, session, pool>>

\* Mutant: the receiver outlives the session, and nobody takes from it.
StillConnected == FALSE

\* Session::run consumes the session, and the receiver of responses with it.
Disconnected == session # "serving"

ReadEnd ==
    /\ Read("end")
    /\ session' = "joining" /\ completed' = <<>>
    /\ UNCHANGED <<answers, docs, incoming, cancelled, jobs, at, hand>>

\* Mutant: every response is sent on.
HandleCompletedBlindly(response) ==
    /\ incoming' = incoming \ {response.id}
    /\ Answer(response.id, response.how, response.docs)

\* A response counts if its request has not been answered yet.
HandleCompleted(response) ==
    IF response.id \in incoming
    THEN /\ incoming' = incoming \ {response.id}
         /\ Answer(response.id, response.how, response.docs)
    ELSE UNCHANGED <<incoming, answers>>

TakeCompleted ==
    /\ session = "serving"
    /\ completed # <<>>
    /\ completed' = Tail(completed)
    /\ HandleCompleted(Head(completed))
    /\ UNCHANGED <<client, inbox, docs, cancelled, session, jobs, at, hand>>

\* Dropping the pool closes its queue and waits for every worker.
Joined ==
    /\ session = "joining"
    /\ \A w \in Workers : at[w] = "gone"
    /\ session' = "over"
    /\ UNCHANGED <<client, inbox, answers, docs, incoming, cancelled, pool>>

-----------------------------------------------------------------------------
(* The workers. *)

Step(w, from, to) == at[w] = from /\ at' = [at EXCEPT ![w] = to]

TakeJob(w) ==
    /\ jobs # <<>>
    /\ Step(w, "receiving", "checking")
    /\ hand' = [hand EXCEPT ![w] = Head(jobs)]
    /\ jobs' = Tail(jobs)
    /\ UNCHANGED <<client, inbox, answers, loop, completed>>

Skip(w) ==
    /\ Step(w, "checking", "sending")
    /\ hand[w].id \in cancelled
    /\ hand' = [hand EXCEPT ![w].how = "cancelled"]
    /\ UNCHANGED <<client, inbox, answers, loop, jobs, completed>>

Start(w) ==
    /\ Step(w, "checking", "responding")
    /\ hand[w].id \notin cancelled
    /\ UNCHANGED <<client, inbox, answers, loop, jobs, hand, completed>>

\* Mutants: the documents are shared with the loop instead of snapshot; a
\* panic unwinds through the worker.
RespondFromNow(w) ==
    /\ Step(w, "responding", "sending")
    /\ hand' = [hand EXCEPT ![w].how = "result", ![w].docs = docs]
    /\ UNCHANGED <<client, inbox, answers, loop, jobs, completed>>

RespondOrDie(w) ==
    \/ /\ Step(w, "responding", "sending")
       /\ hand' = [hand EXCEPT ![w].how = "result"]
       /\ UNCHANGED <<client, inbox, answers, loop, jobs, completed>>
    \/ /\ Step(w, "responding", "gone")
       /\ hand' = [hand EXCEPT ![w] = Idle]
       /\ UNCHANGED <<client, inbox, answers, loop, jobs, completed>>

\* The handler returns, or its panic is caught.
Respond(w) ==
    /\ Step(w, "responding", "sending")
    /\ \E how \in {"result", "panicked"} : hand' = [hand EXCEPT ![w].how = how]
    /\ UNCHANGED <<client, inbox, answers, loop, jobs, completed>>

Send(w) ==
    /\ ~Disconnected /\ Len(completed) < CompletedCapacity
    /\ Step(w, "sending", "receiving")
    /\ completed' = Append(completed, hand[w])
    /\ hand' = [hand EXCEPT ![w] = Idle]
    /\ UNCHANGED <<client, inbox, answers, loop, jobs>>

SendFails(w) ==
    /\ Disconnected
    /\ Step(w, "sending", "gone")
    /\ hand' = [hand EXCEPT ![w] = Idle]
    /\ UNCHANGED <<client, inbox, answers, loop, jobs, completed>>

\* A closed queue hands out what it still holds, and then ends its readers.
Leave(w) ==
    /\ session = "joining" /\ jobs = <<>>
    /\ Step(w, "receiving", "gone")
    /\ UNCHANGED <<client, inbox, answers, loop, jobs, hand, completed>>

-----------------------------------------------------------------------------
Client ==
    \/ \E kind \in {"request", "command"} : Ask(kind)
    \/ \E id \in Ids : Withdraw(id)
    \/ Change
    \/ End

ReadMessage == ReadRequest \/ ReadCommand \/ ReadCancel \/ ReadChange \/ ReadEnd

Work(w) ==
    \/ TakeJob(w) \/ Skip(w) \/ Start(w) \/ Respond(w)
    \/ Send(w) \/ SendFails(w) \/ Leave(w)

Next ==
    \/ Client
    \/ ReadMessage
    \/ TakeCompleted
    \/ Joined
    \/ \E w \in Workers : Work(w)

Spec == Init /\ [][Next]_vars

\* The loop's select! picks at random among what is ready, so that neither
\* channel starves; the workers are scheduled and a handler returns.
Fairness ==
    /\ WF_vars(ReadMessage)
    /\ WF_vars(TakeCompleted)
    /\ WF_vars(Joined)
    /\ \A w \in Workers : WF_vars(Work(w))

FairSpec == Spec /\ Fairness

-----------------------------------------------------------------------------
(* Properties. *)

\* Every variable has its type; neither bounded channel holds more than it can.
TypeOK ==
    /\ asked \in Seq(Nat) /\ Len(asked) <= MaxRequests
    /\ changes \in 0..MaxChanges
    /\ withdrawn \subseteq Ids
    /\ inbox \in Seq(Messages)
    /\ answers \in [Ids -> Seq(Response)]
    /\ docs \in Nat
    /\ incoming \subseteq Ids /\ cancelled \subseteq Ids
    /\ session \in {"serving", "joining", "over"}
    /\ jobs \in Seq(Job) /\ Len(jobs) <= JobCapacity
    /\ at \in [Workers -> {"receiving", "checking", "responding", "sending", "gone"}]
    /\ hand \in [Workers -> Job \cup Response \cup {Idle}]
    /\ \A w \in Workers :
          /\ at[w] \in {"receiving", "gone"} => hand[w] = Idle
          /\ at[w] \in {"checking", "responding"} => hand[w] \in Job
          /\ at[w] = "sending" => hand[w] \in Response
    /\ completed \in Seq(Response) /\ Len(completed) <= CompletedCapacity

\* A request never gets two responses, although a cancel, a full queue and a
\* worker may each want to send one (main.rs:711, 1297, 203).
AnsweredOnce == \A id \in Ids : Len(answers[id]) <= 1

\* A response is computed from the documents the client saw when it asked:
\* with every change it had sent before the request, and none sent later, however
\* late the worker runs (main.rs:161).
AnswersSeeTheirChanges ==
    \A id \in DOMAIN asked : \A i \in DOMAIN answers[id] :
        answers[id][i].how = "result" => answers[id][i].docs = asked[id]

Asking(id, message) == message.kind \in {"request", "command"} /\ message.id = id
Unread(id)  == \E i \in DOMAIN inbox : Asking(id, inbox[i])
InPool(id)  ==
    \/ \E i \in DOMAIN jobs : jobs[i].id = id
    \/ \E w \in Workers : at[w] \notin {"receiving", "gone"} /\ hand[w].id = id
    \/ \E i \in DOMAIN completed : completed[i].id = id

\* While the session lasts, a request that was read is answered, or registered
\* with its job somewhere in the pool: none is dropped on an error path.
NoneForgotten ==
    session = "serving" =>
        \A id \in DOMAIN asked :
            \/ Unread(id)
            \/ answers[id] # <<>>
            \/ id \in incoming /\ InPool(id)

\* Every request is answered, or the session ends first: workers waiting to
\* send and a loop that only ever tries to send never wait for each other.
RequestsAreAnswered ==
    \A id \in Ids : (id \in DOMAIN asked) ~> (answers[id] # <<>> \/ session # "serving")

\* Shutting down returns, with workers blocked on a full channel of responses
\* and jobs still queued (main.rs:658).
ShutdownReturns == (session = "joining") ~> (session = "over")
=============================================================================
