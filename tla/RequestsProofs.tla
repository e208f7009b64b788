--------------------------- MODULE RequestsProofs ---------------------------
(***************************************************************************)
(* Theorems about requests and their responses, for every number of        *)
(* workers, requests and changes and all capacities of the channels.       *)
(***************************************************************************)
EXTENDS Requests, TLAPS

LEMMA MessageTypes ==
  /\ \A kind \in {"request", "command"}, id \in Ids : [kind |-> kind, id |-> id] \in Messages
  /\ \A id \in Ids : [kind |-> "cancel", id |-> id] \in Messages
  /\ [kind |-> "change"] \in Messages /\ [kind |-> "end"] \in Messages
  /\ \A m \in Messages : m.kind \in {"request", "command", "cancel"} => m.id \in Ids
BY DEF Messages, Request, Cancel, Others

\* What reading, posting and answering leave behind.
LEMMA PostType ==
  ASSUME TypeOK, NEW m \in Messages, Post(m)
  PROVE  inbox' \in Seq(Messages)
BY DEF Post, TypeOK

LEMMA ReadType ==
  ASSUME TypeOK, NEW kind \in {"request", "command", "cancel", "change", "end"}, Read(kind)
  PROVE  /\ inbox' \in Seq(Messages)
         /\ kind \in {"request", "command", "cancel"} => Head(inbox).id \in Ids
<1>1. inbox \in Seq(Messages) /\ inbox # <<>>
  BY DEF TypeOK, Read
<1>2. Head(inbox) \in Messages /\ Tail(inbox) \in Seq(Messages)
  BY <1>1
<1> QED BY <1>2, MessageTypes DEF Read

LEMMA AnswerType ==
  ASSUME TypeOK, NEW id \in Ids, NEW how \in Outcomes, NEW seen \in Nat,
         Answer(id, how, seen)
  PROVE  answers' \in [Ids -> Seq(Response)]
<1>1. [id |-> id, how |-> how, docs |-> seen] \in Response
  BY DEF Response
<1> QED BY <1>1 DEF Answer, TypeOK

-----------------------------------------------------------------------------
(* Type correctness *)

LEMMA ClientType ==
  ASSUME TypeOK, Client
  PROVE  TypeOK'
<1>1. ASSUME NEW kind \in {"request", "command"}, Ask(kind)
      PROVE  TypeOK'
  <2>1. Len(asked) \in Nat /\ Len(asked) + 1 \in Ids
    BY <1>1, BoundsAssumption DEF TypeOK, Ask, Ids
  <2>2. inbox' \in Seq(Messages)
    BY <1>1, <2>1, MessageTypes, PostType DEF Ask
  <2>3. asked' \in Seq(Nat) /\ Len(asked') <= MaxRequests
    BY <1>1, <2>1, BoundsAssumption DEF TypeOK, Ask
  <2> QED BY <1>1, <2>2, <2>3 DEF TypeOK, Ask, Post, loop, pool
<1>2. ASSUME NEW id \in Ids, Withdraw(id)
      PROVE  TypeOK'
  <2>1. inbox' \in Seq(Messages)
    BY <1>2, MessageTypes, PostType DEF Withdraw
  <2> QED BY <1>2, <2>1 DEF TypeOK, Withdraw, Post, loop, pool
<1>3. CASE Change
  <2>1. inbox' \in Seq(Messages)
    BY <1>3, MessageTypes, PostType DEF Change
  <2>2. changes' \in 0..MaxChanges
    BY <1>3, BoundsAssumption DEF Change, TypeOK
  <2> QED BY <1>3, <2>1, <2>2 DEF TypeOK, Change, Post, loop, pool
<1>4. CASE End
  <2>1. inbox' \in Seq(Messages)
    BY <1>4, MessageTypes, PostType DEF End
  <2> QED BY <1>4, <2>1 DEF TypeOK, End, Post, client, loop, pool
<1> QED BY <1>1, <1>2, <1>3, <1>4 DEF Client

LEMMA LoopType ==
  ASSUME TypeOK, ReadMessage \/ TakeCompleted \/ Joined
  PROVE  TypeOK'
<1>1. CASE ReadRequest
  <2>1. inbox' \in Seq(Messages) /\ Head(inbox).id \in Ids
    BY <1>1, ReadType DEF ReadRequest
  <2>2. CASE Len(jobs) < JobCapacity
    <3>1. [id |-> Head(inbox).id, how |-> "todo", docs |-> docs] \in Job
      BY <2>1 DEF Job, TypeOK
    <3>2. jobs' = Append(jobs, [id |-> Head(inbox).id, how |-> "todo", docs |-> docs])
      BY <1>1, <2>2 DEF ReadRequest, Dispatch
    <3>3. jobs' \in Seq(Job) /\ Len(jobs') <= JobCapacity
      BY <2>2, <3>1, <3>2, CapacitiesAssumption DEF TypeOK
    <3>4. incoming' \subseteq Ids /\ answers' = answers
      BY <1>1, <2>1, <2>2 DEF ReadRequest, Dispatch, TypeOK
    <3> QED BY <1>1, <2>1, <3>3, <3>4 DEF TypeOK, ReadRequest, Read, client
  <2>3. CASE ~(Len(jobs) < JobCapacity)
    <3>1. Answer(Head(inbox).id, "refused", docs) /\ UNCHANGED <<jobs, incoming>>
      BY <1>1, <2>3 DEF ReadRequest, Dispatch
    <3>2. answers' \in [Ids -> Seq(Response)]
      BY <2>1, <3>1, AnswerType DEF TypeOK, Outcomes
    <3> QED BY <1>1, <2>1, <3>1, <3>2 DEF TypeOK, ReadRequest, Read, client
  <2> QED BY <2>2, <2>3
<1>2. CASE ReadCommand
  <2>1. inbox' \in Seq(Messages) /\ Head(inbox).id \in Ids
    BY <1>2, ReadType DEF ReadCommand
  <2>2. answers' \in [Ids -> Seq(Response)]
    BY <1>2, <2>1, AnswerType DEF ReadCommand, TypeOK, Outcomes
  <2> QED BY <1>2, <2>1, <2>2 DEF TypeOK, ReadCommand, Read, client, loop, pool
<1>3. CASE ReadCancel
  <2>1. inbox' \in Seq(Messages) /\ Head(inbox).id \in Ids
    BY <1>3, ReadType DEF ReadCancel
  <2>2. answers' \in [Ids -> Seq(Response)]
    <3>1. CASE Head(inbox).id \in incoming
      <4>1. Answer(Head(inbox).id, "cancelled", docs)
        BY <1>3, <3>1 DEF ReadCancel, CancelRequest
      <4> QED BY <2>1, <4>1, AnswerType DEF TypeOK, Outcomes
    <3>2. CASE Head(inbox).id \notin incoming
      BY <1>3, <3>2 DEF ReadCancel, CancelRequest, TypeOK
    <3> QED BY <3>1, <3>2
  <2>3. incoming' \subseteq Ids /\ cancelled' \subseteq Ids
    BY <1>3, <2>1 DEF ReadCancel, CancelRequest, TypeOK
  <2> QED BY <1>3, <2>1, <2>2, <2>3 DEF TypeOK, ReadCancel, Read, client, pool
<1>4. CASE ReadChange
  <2>1. inbox' \in Seq(Messages)
    BY <1>4, ReadType DEF ReadChange
  <2>2. docs' \in Nat
    BY <1>4 DEF ReadChange, TypeOK
  <2> QED BY <1>4, <2>1, <2>2 DEF TypeOK, ReadChange, Read, client, pool
<1>5. CASE ReadEnd
  <2>1. inbox' \in Seq(Messages)
    BY <1>5, ReadType DEF ReadEnd
  <2>2. completed' \in Seq(Response) /\ Len(completed') <= CompletedCapacity
    BY <1>5, CapacitiesAssumption DEF ReadEnd
  <2> QED BY <1>5, <2>1, <2>2 DEF TypeOK, ReadEnd, Read, client
<1>6. CASE TakeCompleted
  <2>1. completed \in Seq(Response) /\ completed # <<>> /\ completed' = Tail(completed)
    BY <1>6 DEF TypeOK, TakeCompleted
  <2>2. Head(completed) \in Response /\ completed' \in Seq(Response)
    BY <2>1
  <2>3. Len(completed') <= CompletedCapacity
    BY <2>1, CapacitiesAssumption DEF TypeOK
  <2>4. answers' \in [Ids -> Seq(Response)] /\ incoming' \subseteq Ids
    <3> DEFINE r == Head(completed)
    <3>1. r.id \in Ids /\ r.how \in Outcomes /\ r.docs \in Nat
      BY <2>2 DEF Response
    <3>2. CASE r.id \in incoming
      <4>1. Answer(r.id, r.how, r.docs) /\ incoming' = incoming \ {r.id}
        BY <1>6, <3>2 DEF TakeCompleted, HandleCompleted
      <4>2. answers' \in [Ids -> Seq(Response)]
        BY <3>1, <4>1, AnswerType
      <4> QED BY <4>1, <4>2 DEF TypeOK
    <3>3. CASE r.id \notin incoming
      BY <1>6, <3>3 DEF TakeCompleted, HandleCompleted, TypeOK
    <3> QED BY <3>2, <3>3
  <2> QED BY <1>6, <2>2, <2>3, <2>4 DEF TypeOK, TakeCompleted, client
<1>7. CASE Joined
  BY <1>7 DEF TypeOK, Joined, client, pool
<1> QED BY <1>1, <1>2, <1>3, <1>4, <1>5, <1>6, <1>7 DEF ReadMessage

\* A step of one worker, by what it leaves in that worker's hand.
LEMMA HandType ==
  ASSUME TypeOK, NEW w \in Workers, NEW from, NEW to,
         to \in {"receiving", "checking", "responding", "sending", "gone"},
         Step(w, from, to), hand' = [hand EXCEPT ![w] = hand'[w]],
         to \in {"receiving", "gone"} => hand'[w] = Idle,
         to \in {"checking", "responding"} => hand'[w] \in Job,
         to = "sending" => hand'[w] \in Response,
         jobs' \in Seq(Job), Len(jobs') <= JobCapacity,
         completed' \in Seq(Response), Len(completed') <= CompletedCapacity,
         UNCHANGED <<client, inbox, answers, loop>>
  PROVE  TypeOK'
<1>1. at' \in [Workers -> {"receiving", "checking", "responding", "sending", "gone"}]
  BY DEF TypeOK, Step
<1>2. hand' \in [Workers -> Job \cup Response \cup {Idle}]
  <2>1. hand'[w] \in Job \cup Response \cup {Idle}
    OBVIOUS
  <2> QED BY <2>1 DEF TypeOK
<1>3. ASSUME NEW v \in Workers
      PROVE  /\ at'[v] \in {"receiving", "gone"} => hand'[v] = Idle
             /\ at'[v] \in {"checking", "responding"} => hand'[v] \in Job
             /\ at'[v] = "sending" => hand'[v] \in Response
  <2>1. CASE v = w
    <3>1. at'[w] = to
      BY DEF TypeOK, Step
    <3> QED BY <2>1, <3>1
  <2>2. CASE v # w
    <3>1. at'[v] = at[v] /\ hand'[v] = hand[v]
      BY <2>2 DEF TypeOK, Step
    <3> QED BY <3>1 DEF TypeOK
  <2> QED BY <2>1, <2>2
<1> QED BY <1>1, <1>2, <1>3 DEF TypeOK, client, loop

LEMMA WorkType ==
  ASSUME TypeOK, NEW w \in Workers, Work(w)
  PROVE  TypeOK'
<1> USE CapacitiesAssumption
<1>0. jobs \in Seq(Job) /\ Len(jobs) <= JobCapacity
      /\ completed \in Seq(Response) /\ Len(completed) <= CompletedCapacity
  BY DEF TypeOK
<1>1. CASE TakeJob(w)
  <2>1. Head(jobs) \in Job /\ jobs' \in Seq(Job) /\ Len(jobs') <= JobCapacity
    BY <1>0, <1>1 DEF TakeJob
  <2>2. /\ Step(w, "receiving", "checking")
        /\ hand' = [hand EXCEPT ![w] = hand'[w]]
        /\ hand'[w] = Head(jobs)
    BY <1>1 DEF TakeJob, TypeOK
  <2> QED BY <1>0, <1>1, <2>1, <2>2, HandType DEF TakeJob
<1>2. CASE Skip(w)
  <2> DEFINE held == [hand[w] EXCEPT !.how = "cancelled"]
  <2>1. hand[w] \in Job
    BY <1>2 DEF Skip, Step, TypeOK
  <2>2. held \in Response
    BY <2>1 DEF Job, Response, Outcomes
  <2>3. /\ Step(w, "checking", "sending")
        /\ hand' = [hand EXCEPT ![w] = hand'[w]]
        /\ hand'[w] = held
    BY <1>2 DEF Skip, TypeOK
  <2> HIDE DEF held
  <2> QED BY <1>0, <1>2, <2>2, <2>3, HandType DEF Skip
<1>3. CASE Start(w)
  <2>1. hand[w] \in Job
    BY <1>3 DEF Start, Step, TypeOK
  <2>2. /\ Step(w, "checking", "responding")
        /\ hand' = [hand EXCEPT ![w] = hand'[w]]
        /\ hand'[w] = hand[w]
    BY <1>3 DEF Start, TypeOK
  <2>3. UNCHANGED <<client, inbox, answers, loop, jobs, completed>>
    BY <1>3 DEF Start
  <2> QED BY <1>0, <2>1, <2>2, <2>3, HandType
<1>4. CASE Respond(w)
  <2>1. PICK how \in {"result", "panicked"} : hand' = [hand EXCEPT ![w].how = how]
    BY <1>4 DEF Respond
  <2> DEFINE held == [hand[w] EXCEPT !.how = how]
  <2>2. hand[w] \in Job
    BY <1>4 DEF Respond, Step, TypeOK
  <2>3. held \in Response
    BY <2>2 DEF Job, Response, Outcomes
  <2>4. /\ Step(w, "responding", "sending")
        /\ hand' = [hand EXCEPT ![w] = hand'[w]]
        /\ hand'[w] = held
    BY <1>4, <2>1 DEF Respond, TypeOK
  <2> HIDE DEF held
  <2> QED BY <1>0, <1>4, <2>3, <2>4, HandType DEF Respond
<1>5. CASE Send(w)
  <2>1. hand[w] \in Response
    BY <1>5 DEF Send, Step, TypeOK
  <2>2. completed' \in Seq(Response) /\ Len(completed') <= CompletedCapacity
    BY <1>0, <1>5, <2>1 DEF Send
  <2>3. /\ Step(w, "sending", "receiving")
        /\ hand' = [hand EXCEPT ![w] = hand'[w]]
        /\ hand'[w] = Idle
    BY <1>5 DEF Send, TypeOK
  <2> QED BY <1>0, <1>5, <2>2, <2>3, HandType DEF Send
<1>6. CASE SendFails(w)
  <2>1. /\ Step(w, "sending", "gone")
        /\ hand' = [hand EXCEPT ![w] = hand'[w]]
        /\ hand'[w] = Idle
    BY <1>6 DEF SendFails, TypeOK
  <2> QED BY <1>0, <1>6, <2>1, HandType DEF SendFails
<1>7. CASE Leave(w)
  <2>1. hand[w] = Idle
    BY <1>7 DEF Leave, Step, TypeOK
  <2>2. /\ Step(w, "receiving", "gone")
        /\ hand' = [hand EXCEPT ![w] = hand'[w]]
        /\ hand'[w] = Idle
    BY <1>7, <2>1 DEF Leave, TypeOK
  <2>3. UNCHANGED <<client, inbox, answers, loop, jobs, completed>>
    BY <1>7 DEF Leave
  <2> QED BY <1>0, <2>1, <2>2, <2>3, HandType
<1> QED BY <1>1, <1>2, <1>3, <1>4, <1>5, <1>6, <1>7 DEF Work

\* Every variable keeps its type: in particular neither channel is ever filled
\* beyond its capacity, and a worker that sends holds a response.
THEOREM TypeCorrect == Spec => []TypeOK
<1>1. Init => TypeOK
  BY BoundsAssumption, CapacitiesAssumption DEF Init, TypeOK, Ids
<1>2. TypeOK /\ [Next]_vars => TypeOK'
  <2> SUFFICES ASSUME TypeOK, [Next]_vars PROVE TypeOK'
    OBVIOUS
  <2>1. CASE Client
    BY <2>1, ClientType
  <2>2. CASE ReadMessage \/ TakeCompleted \/ Joined
    BY <2>2, LoopType
  <2>3. ASSUME NEW w \in Workers, Work(w)
        PROVE  TypeOK'
    BY <2>3, WorkType
  <2>4. CASE UNCHANGED vars
    BY <2>4 DEF vars, client, loop, pool, TypeOK
  <2> QED BY <2>1, <2>2, <2>3, <2>4 DEF Next
<1> QED BY <1>1, <1>2, PTL DEF Spec

-----------------------------------------------------------------------------
(***************************************************************************)
(* One response for each request.  AnsweredOnce alone is not inductive: a  *)
(* response is sent for a request that is read, or registered, and neither *)
(* may have been answered before.                                          *)
(***************************************************************************)

\* A request is in the inbox once.
AskedOnce ==
    \A id \in Ids : \A i, j \in DOMAIN inbox :
        Asking(id, inbox[i]) /\ Asking(id, inbox[j]) => i = j

\* A request that was not read, or not even sent, is in nobody's books.
UnreadIsOpen ==
    \A id \in Ids : Unread(id) \/ id \notin DOMAIN asked =>
        id \notin incoming /\ answers[id] = <<>>

UnreadWasAsked == \A id \in Ids : Unread(id) => id \in DOMAIN asked

RegisteredIsOpen == \A id \in incoming : answers[id] = <<>>

AnswerInv ==
    /\ TypeOK
    /\ AskedOnce /\ UnreadIsOpen /\ UnreadWasAsked /\ RegisteredIsOpen
    /\ AnsweredOnce
    /\ NoneForgotten

LEMMA AskedIds ==
  ASSUME TypeOK
  PROVE  DOMAIN asked = 1..Len(asked) /\ Len(asked) \in Nat /\ DOMAIN asked \subseteq Ids
<1>1. DOMAIN asked = 1..Len(asked) /\ Len(asked) \in Nat /\ Len(asked) <= MaxRequests
  BY DEF TypeOK
<1> QED BY <1>1, BoundsAssumption DEF Ids

\* Answering a request that is open leaves it, and it alone, answered once.
LEMMA AnswerOpen ==
  ASSUME TypeOK, NEW id \in Ids, NEW how, NEW seen,
         Answer(id, how, seen), answers[id] = <<>>
  PROVE  /\ answers'[id] # <<>> /\ Len(answers'[id]) <= 1
         /\ \A other \in Ids \ {id} : answers'[other] = answers[other]
BY DEF Answer, TypeOK

\* What posting and reading do to the requests in the inbox.
LEMMA Posted ==
  ASSUME TypeOK, NEW m \in Messages, Post(m)
  PROVE  /\ \A id : Unread(id)' <=> Unread(id) \/ Asking(id, m)
         /\ AskedOnce /\ (\A id \in Ids : Asking(id, m) => ~Unread(id)) => AskedOnce'
<1>1. inbox \in Seq(Messages) /\ inbox' = Append(inbox, m)
  BY DEF TypeOK, Post
<1>2. /\ DOMAIN inbox' = DOMAIN inbox \cup {Len(inbox) + 1}
      /\ Len(inbox) + 1 \notin DOMAIN inbox
      /\ inbox'[Len(inbox) + 1] = m
      /\ \A i \in DOMAIN inbox : inbox'[i] = inbox[i]
  BY <1>1
<1>3. \A id : Unread(id)' <=> Unread(id) \/ Asking(id, m)
  BY <1>2 DEF Unread, Asking
<1>4. ASSUME AskedOnce, \A id \in Ids : Asking(id, m) => ~Unread(id)
      PROVE  AskedOnce'
  BY <1>2, <1>4 DEF AskedOnce, Unread, Asking
<1> QED BY <1>3, <1>4

LEMMA WasRead ==
  ASSUME TypeOK, AskedOnce, NEW kind, Read(kind)
  PROVE  /\ AskedOnce'
         /\ \A id \in Ids : Unread(id)' <=> Unread(id) /\ ~Asking(id, Head(inbox))
<1>1. inbox \in Seq(Messages) /\ inbox # <<>> /\ inbox' = Tail(inbox)
  BY DEF TypeOK, Read
<1>2. /\ \A i \in DOMAIN inbox' : i + 1 \in DOMAIN inbox /\ inbox'[i] = inbox[i + 1] /\ i + 1 # 1
      /\ \A i \in DOMAIN inbox : i = 1 \/ (i - 1 \in DOMAIN inbox' /\ inbox'[i - 1] = inbox[i])
      /\ 1 \in DOMAIN inbox /\ inbox[1] = Head(inbox)
  BY <1>1
<1>3. \A i \in DOMAIN inbox' : i \in Nat
  BY <1>1
<1>4. AskedOnce'
  <2> SUFFICES ASSUME NEW id \in Ids, NEW i \in DOMAIN inbox', NEW j \in DOMAIN inbox',
                      Asking(id, inbox'[i]), Asking(id, inbox'[j])
               PROVE  i = j
    BY DEF AskedOnce, Asking
  <2>1. i + 1 = j + 1
    BY <1>2 DEF AskedOnce
  <2> QED BY <1>3, <2>1
<1>5. ASSUME NEW id \in Ids
      PROVE  Unread(id)' <=> Unread(id) /\ ~Asking(id, Head(inbox))
  <2>1. ASSUME Unread(id)'
        PROVE  Unread(id) /\ ~Asking(id, Head(inbox))
    <3>1. PICK i \in DOMAIN inbox' : Asking(id, inbox'[i])
      BY <2>1 DEF Unread, Asking
    <3>2. i + 1 \in DOMAIN inbox /\ Asking(id, inbox[i + 1]) /\ i + 1 # 1
      BY <1>2, <3>1
    <3> QED BY <1>2, <3>2 DEF Unread, AskedOnce
  <2>2. ASSUME Unread(id), ~Asking(id, Head(inbox))
        PROVE  Unread(id)'
    <3>1. PICK i \in DOMAIN inbox : Asking(id, inbox[i])
      BY <2>2 DEF Unread
    <3>2. i - 1 \in DOMAIN inbox' /\ Asking(id, inbox'[i - 1])
      BY <1>2, <2>2, <3>1
    <3> QED BY <3>2 DEF Unread, Asking
  <2> QED BY <2>1, <2>2
<1> QED BY <1>4, <1>5

LEMMA HeadAsks ==
  ASSUME TypeOK, NEW kind, Read(kind)
  PROVE  /\ kind \in {"request", "command"} =>
                /\ Unread(Head(inbox).id)
                /\ \A id : Asking(id, Head(inbox)) <=> id = Head(inbox).id
         /\ kind \in {"cancel", "change", "end"} => \A id : ~Asking(id, Head(inbox))
<1>1. 1 \in DOMAIN inbox /\ inbox[1] = Head(inbox) /\ Head(inbox).kind = kind
  BY DEF TypeOK, Read
<1> QED BY <1>1 DEF Unread, Asking

-----------------------------------------------------------------------------
(* The client's steps. *)

LEMMA ClientInv ==
  ASSUME AnswerInv, Client
  PROVE  AnswerInv'
<1>0. TypeOK /\ TypeOK'
  BY ClientType DEF AnswerInv
<1>1. UNCHANGED <<answers, incoming, session, jobs, at, hand, completed>>
  BY DEF Client, Ask, Withdraw, Change, End, Post, loop, pool
<1>2. \A id : InPool(id)' <=> InPool(id)
  BY <1>1 DEF InPool
<1>3. ASSUME NEW kind \in {"request", "command"}, Ask(kind)
      PROVE  AnswerInv'
  <2> DEFINE new == Len(asked) + 1
  <2>1. new \in Ids /\ new \notin DOMAIN asked /\ DOMAIN asked' = DOMAIN asked \cup {new}
    <3>1. asked' = Append(asked, changes) /\ Len(asked) < MaxRequests /\ asked \in Seq(Nat)
      BY <1>0, <1>3 DEF Ask, TypeOK
    <3>2. DOMAIN asked' = 1..(Len(asked) + 1)
      BY <3>1
    <3> QED BY <1>0, <3>1, <3>2, AskedIds, BoundsAssumption DEF Ids
  <2> DEFINE m == [kind |-> kind, id |-> new]
  <2>2. m \in Messages /\ Post(m)
    BY <1>3, <2>1, MessageTypes DEF Ask
  <2>3. \A id : Asking(id, m) <=> id = new
    BY DEF Asking
  <2> HIDE DEF new, m
  <2>4. \A id : Unread(id)' <=> Unread(id) \/ id = new
    BY <1>0, <2>2, <2>3, Posted
  <2>5. ~Unread(new)
    BY <2>1 DEF AnswerInv, UnreadWasAsked
  <2>6. AskedOnce'
    BY <1>0, <2>2, <2>3, <2>5, Posted DEF AnswerInv
  <2>7. UnreadIsOpen' /\ UnreadWasAsked'
    BY <1>1, <2>1, <2>4 DEF AnswerInv, UnreadIsOpen, UnreadWasAsked
  <2>8. RegisteredIsOpen' /\ AnsweredOnce'
    BY <1>1 DEF AnswerInv, RegisteredIsOpen, AnsweredOnce
  <2>9. NoneForgotten'
    BY <1>1, <1>2, <2>1, <2>4 DEF AnswerInv, NoneForgotten
  <2> QED BY <1>0, <2>6, <2>7, <2>8, <2>9 DEF AnswerInv
<1>4. ASSUME NEW m \in Messages, m.kind \in {"cancel", "change", "end"}, Post(m),
             UNCHANGED asked
      PROVE  AnswerInv'
  <2>1. \A id : ~Asking(id, m)
    BY <1>4 DEF Asking
  <2>2. \A id : Unread(id)' <=> Unread(id)
    BY <1>0, <1>4, <2>1, Posted
  <2>3. AskedOnce'
    BY <1>0, <1>4, <2>1, Posted DEF AnswerInv
  <2>4. UnreadIsOpen' /\ UnreadWasAsked' /\ RegisteredIsOpen' /\ AnsweredOnce'
    BY <1>1, <1>4, <2>2 DEF AnswerInv, UnreadIsOpen, UnreadWasAsked, RegisteredIsOpen, AnsweredOnce
  <2>5. NoneForgotten'
    BY <1>1, <1>2, <1>4, <2>2 DEF AnswerInv, NoneForgotten
  <2> QED BY <1>0, <2>3, <2>4, <2>5 DEF AnswerInv
<1>5. ASSUME NEW id \in Ids, Withdraw(id)
      PROVE  AnswerInv'
  <2>1. [kind |-> "cancel", id |-> id] \in Messages
    BY MessageTypes
  <2> QED BY <1>4, <1>5, <2>1 DEF Withdraw
<1>6. CASE Change
  BY <1>4, <1>6, MessageTypes DEF Change
<1>7. CASE End
  BY <1>4, <1>7, MessageTypes DEF End, client
<1> QED BY <1>3, <1>5, <1>6, <1>7 DEF Client

-----------------------------------------------------------------------------
(* The loop's steps. *)

\* A request that is answered when it is read.
LEMMA AnsweredAtOnce ==
  ASSUME AnswerInv, TypeOK', NEW kind \in {"request", "command"}, Read(kind), NEW how,
         Answer(Head(inbox).id, how, docs), UNCHANGED <<incoming, session, pool>>
  PROVE  AnswerInv'
<1> DEFINE id == Head(inbox).id
<1>1. Unread(id) /\ (\A any : Asking(any, Head(inbox)) <=> any = id) /\ id \in Ids
  BY HeadAsks, ReadType DEF AnswerInv
<1>2. id \notin incoming /\ answers[id] = <<>> /\ id \in DOMAIN asked
  BY <1>1 DEF AnswerInv, UnreadIsOpen, UnreadWasAsked
<1> HIDE DEF id
<1>3. /\ answers'[id] # <<>> /\ Len(answers'[id]) <= 1
      /\ \A other \in Ids \ {id} : answers'[other] = answers[other]
  BY <1>1, <1>2, AnswerOpen DEF AnswerInv, id
<1>4. AskedOnce' /\ \A any \in Ids : Unread(any)' <=> Unread(any) /\ any # id
  BY <1>1, WasRead DEF AnswerInv
<1>5. asked' = asked /\ incoming' = incoming /\ session' = session /\ DOMAIN asked \subseteq Ids
  BY AskedIds DEF Read, client, AnswerInv
<1>6. UnreadIsOpen'
  BY <1>2, <1>3, <1>4, <1>5 DEF AnswerInv, UnreadIsOpen
<1>7. UnreadWasAsked'
  BY <1>4, <1>5 DEF AnswerInv, UnreadWasAsked
<1>8. RegisteredIsOpen'
  <2>1. incoming \subseteq Ids \ {id}
    BY <1>2 DEF AnswerInv, TypeOK
  <2> QED BY <1>3, <1>5, <2>1 DEF AnswerInv, RegisteredIsOpen
<1>9. AnsweredOnce'
  <2> SUFFICES ASSUME NEW any \in Ids PROVE Len(answers'[any]) <= 1
    BY DEF AnsweredOnce
  <2>1. CASE any = id
    BY <1>3, <2>1
  <2>2. CASE any # id
    BY <1>3, <2>2 DEF AnswerInv, AnsweredOnce
  <2> QED BY <2>1, <2>2
<1>10. NoneForgotten'
  <2>1. \A any : InPool(any) => InPool(any)'
    BY DEF InPool, pool
  <2> QED BY <1>3, <1>4, <1>5, <2>1 DEF AnswerInv, NoneForgotten
<1> QED BY <1>4, <1>6, <1>7, <1>8, <1>9, <1>10 DEF AnswerInv

\* A registered request that is answered and leaves the register.
LEMMA AnsweredLater ==
  ASSUME AnswerInv, TypeOK', AskedOnce',
         NEW id \in incoming, NEW how, NEW seen, Answer(id, how, seen),
         incoming' = incoming \ {id}, UNCHANGED <<asked, session>>,
         \A any \in Ids : Unread(any)' <=> Unread(any),
         \A any \in Ids \ {id} : InPool(any) => InPool(any)'
  PROVE  AnswerInv'
<1>1. id \in Ids /\ incoming \subseteq Ids /\ DOMAIN asked \subseteq Ids
  BY AskedIds DEF AnswerInv, TypeOK
<1>2. answers[id] = <<>> /\ ~Unread(id) /\ id \in DOMAIN asked
  BY <1>1 DEF AnswerInv, RegisteredIsOpen, UnreadIsOpen
<1>3. /\ answers'[id] # <<>> /\ Len(answers'[id]) <= 1
      /\ \A other \in Ids \ {id} : answers'[other] = answers[other]
  BY <1>1, <1>2, AnswerOpen DEF AnswerInv
<1>4. UnreadIsOpen' /\ UnreadWasAsked'
  BY <1>2, <1>3 DEF AnswerInv, UnreadIsOpen, UnreadWasAsked
<1>5. RegisteredIsOpen'
  BY <1>1, <1>3 DEF AnswerInv, RegisteredIsOpen
<1>6. AnsweredOnce'
  <2> SUFFICES ASSUME NEW any \in Ids PROVE Len(answers'[any]) <= 1
    BY DEF AnsweredOnce
  <2>1. CASE any = id
    BY <1>3, <2>1
  <2>2. CASE any # id
    BY <1>3, <2>2 DEF AnswerInv, AnsweredOnce
  <2> QED BY <2>1, <2>2
<1>7. NoneForgotten'
  BY <1>1, <1>3 DEF AnswerInv, NoneForgotten
<1> QED BY <1>4, <1>5, <1>6, <1>7 DEF AnswerInv

\* A step that changes neither the register nor a response, and loses no job.
LEMMA NothingAnswered ==
  ASSUME AnswerInv, TypeOK', AskedOnce', UNCHANGED <<asked, incoming, answers>>,
         \A any \in Ids : Unread(any)' <=> Unread(any),
         session' = "serving" => session = "serving",
         session' = "serving" => \A any \in incoming : answers[any] = <<>> /\ InPool(any) => InPool(any)'
  PROVE  AnswerInv'
<1>1. DOMAIN asked \subseteq Ids
  BY AskedIds DEF AnswerInv
<1>2. UnreadIsOpen' /\ UnreadWasAsked' /\ RegisteredIsOpen' /\ AnsweredOnce'
  BY DEF AnswerInv, UnreadIsOpen, UnreadWasAsked, RegisteredIsOpen, AnsweredOnce
<1>3. NoneForgotten'
  BY <1>1 DEF AnswerInv, NoneForgotten
<1> QED BY <1>2, <1>3 DEF AnswerInv

LEMMA LoopInv ==
  ASSUME AnswerInv, ReadMessage \/ TakeCompleted \/ Joined
  PROVE  AnswerInv'
<1>0. TypeOK /\ TypeOK' /\ AskedOnce
  BY LoopType DEF AnswerInv
<1>1. CASE ReadRequest
  <2>1. Read("request") /\ session' = session /\ asked' = asked
    BY <1>1 DEF ReadRequest, Read, client
  <2>2. PICK id \in Ids : id = Head(inbox).id
    BY <1>0, <2>1, ReadType
  <2>3. CASE Len(jobs) < JobCapacity
    <3>1. Unread(id) /\ \A any : Asking(any, Head(inbox)) <=> any = id
      BY <1>0, <2>2, <2>1, HeadAsks
    <3>2. id \notin incoming /\ answers[id] = <<>> /\ id \in DOMAIN asked
      BY <3>1 DEF AnswerInv, UnreadIsOpen, UnreadWasAsked
    <3>3. /\ jobs' = Append(jobs, [id |-> id, how |-> "todo", docs |-> docs])
          /\ incoming' = incoming \cup {id}
          /\ UNCHANGED <<answers, at, hand, completed>>
      BY <1>1, <2>2, <2>3 DEF ReadRequest, Dispatch
    <3>4. AskedOnce' /\ \A any \in Ids : Unread(any)' <=> Unread(any) /\ any # id
      BY <1>0, <2>1, <3>1, WasRead
    <3>5. InPool(id)' /\ \A any : InPool(any) => InPool(any)'
      <4>1. jobs \in Seq(Job)
        BY <1>0 DEF TypeOK
      <4>2. /\ Len(jobs) + 1 \in DOMAIN jobs' /\ jobs'[Len(jobs) + 1].id = id
            /\ \A i \in DOMAIN jobs : i \in DOMAIN jobs' /\ jobs'[i] = jobs[i]
        BY <3>3, <4>1
      <4> QED BY <3>3, <4>2 DEF InPool
    <3>6. UnreadIsOpen' /\ UnreadWasAsked' /\ AnsweredOnce'
      BY <2>1, <3>2, <3>3, <3>4 DEF AnswerInv, UnreadIsOpen, UnreadWasAsked, AnsweredOnce
    <3>7. RegisteredIsOpen'
      BY <3>2, <3>3 DEF AnswerInv, RegisteredIsOpen
    <3>8. NoneForgotten'
      <4>1. DOMAIN asked \subseteq Ids
        BY <1>0, AskedIds
      <4> QED BY <2>1, <3>3, <3>4, <3>5, <4>1 DEF AnswerInv, NoneForgotten
    <3> QED BY <1>0, <3>4, <3>6, <3>7, <3>8 DEF AnswerInv
  <2>4. CASE ~(Len(jobs) < JobCapacity)
    <3>1. Answer(id, "refused", docs) /\ UNCHANGED <<incoming, session, pool>>
      BY <1>1, <2>2, <2>4 DEF ReadRequest, Dispatch, pool
    <3> QED BY <1>0, <2>2, <2>1, <3>1, AnsweredAtOnce
  <2> QED BY <2>3, <2>4
<1>2. CASE ReadCommand
  <2>1. /\ Read("command") /\ Answer(Head(inbox).id, "result", docs)
        /\ UNCHANGED <<incoming, session, pool>>
    BY <1>2 DEF ReadCommand, loop
  <2> QED BY <1>0, <2>1, AnsweredAtOnce
<1>3. ASSUME NEW kind \in {"cancel", "change", "end"}, Read(kind)
      PROVE  /\ AskedOnce' /\ UNCHANGED asked
             /\ \A any \in Ids : Unread(any)' <=> Unread(any)
  <2>1. \A any : ~Asking(any, Head(inbox))
    BY <1>0, <1>3, HeadAsks
  <2> QED BY <1>0, <1>3, <2>1, WasRead DEF Read, client
<1>4. CASE ReadCancel
  <2>1. AskedOnce' /\ UNCHANGED asked /\ \A any \in Ids : Unread(any)' <=> Unread(any)
    BY <1>3, <1>4 DEF ReadCancel
  <2>2. UNCHANGED session /\ \A any : InPool(any) <=> InPool(any)'
    BY <1>4 DEF ReadCancel, InPool, pool
  <2>3. CASE Head(inbox).id \in incoming
    <3>1. /\ incoming' = incoming \ {Head(inbox).id}
          /\ Answer(Head(inbox).id, "cancelled", docs)
      BY <1>4, <2>3 DEF ReadCancel, CancelRequest
    <3> QED BY <1>0, <2>1, <2>2, <2>3, <3>1, AnsweredLater
  <2>4. CASE Head(inbox).id \notin incoming
    <3>1. UNCHANGED <<incoming, answers>>
      BY <1>4, <2>4 DEF ReadCancel, CancelRequest
    <3> QED BY <1>0, <2>1, <2>2, <3>1, NothingAnswered
  <2> QED BY <2>3, <2>4
<1>5. CASE ReadChange
  <2>1. AskedOnce' /\ UNCHANGED asked /\ \A any \in Ids : Unread(any)' <=> Unread(any)
    BY <1>3, <1>5 DEF ReadChange
  <2>2. UNCHANGED <<session, incoming, answers>> /\ \A any : InPool(any) <=> InPool(any)'
    BY <1>5 DEF ReadChange, InPool, pool
  <2> QED BY <1>0, <2>1, <2>2, NothingAnswered
<1>6. CASE ReadEnd
  <2>1. AskedOnce' /\ UNCHANGED asked /\ \A any \in Ids : Unread(any)' <=> Unread(any)
    BY <1>3, <1>6 DEF ReadEnd
  <2>2. session' # "serving" /\ UNCHANGED <<incoming, answers>>
    BY <1>6 DEF ReadEnd
  <2> QED BY <1>0, <2>1, <2>2, NothingAnswered
<1>7. CASE TakeCompleted
  <2> DEFINE r == Head(completed)
  <2>1. UNCHANGED <<asked, inbox, session, jobs, at, hand>>
    BY <1>7 DEF TakeCompleted, client
  <2>2. AskedOnce' /\ \A any \in Ids : Unread(any)' <=> Unread(any)
    BY <1>0, <2>1 DEF AskedOnce, Unread
  <2>3. \A any \in Ids \ {r.id} : InPool(any) => InPool(any)'
    <3>1. completed \in Seq(Response) /\ completed # <<>> /\ completed' = Tail(completed)
      BY <1>0, <1>7 DEF TypeOK, TakeCompleted
    <3>2. \A i \in DOMAIN completed :
              \/ completed[i] = r
              \/ i - 1 \in DOMAIN completed' /\ completed'[i - 1] = completed[i]
      BY <3>1
    <3> QED BY <2>1, <3>2 DEF InPool
  <2>4. CASE r.id \in incoming
    <3>1. incoming' = incoming \ {r.id} /\ Answer(r.id, r.how, r.docs)
      BY <1>7, <2>4 DEF TakeCompleted, HandleCompleted
    <3> HIDE DEF r
    <3> QED BY <1>0, <2>1, <2>2, <2>3, <2>4, <3>1, AnsweredLater
  <2>5. CASE r.id \notin incoming
    <3>1. UNCHANGED <<incoming, answers>>
      BY <1>7, <2>5 DEF TakeCompleted, HandleCompleted
    <3>2. \A any \in incoming : InPool(any) => InPool(any)'
      BY <1>0, <2>3, <2>5 DEF TypeOK
    <3> QED BY <1>0, <2>1, <2>2, <3>1, <3>2, NothingAnswered
  <2> QED BY <2>4, <2>5
<1>8. CASE Joined
  <2>1. session' # "serving" /\ UNCHANGED <<asked, inbox, incoming, answers>>
    BY <1>8 DEF Joined, client
  <2>2. AskedOnce' /\ \A any \in Ids : Unread(any)' <=> Unread(any)
    BY <1>0, <2>1 DEF AskedOnce, Unread
  <2> QED BY <1>0, <2>1, <2>2, NothingAnswered
<1> QED BY <1>1, <1>2, <1>4, <1>5, <1>6, <1>7, <1>8 DEF ReadMessage

-----------------------------------------------------------------------------
(* The workers' steps lose no job while the session lasts. *)

LEMMA WorkInv ==
  ASSUME AnswerInv, NEW w \in Workers, Work(w)
  PROVE  AnswerInv'
<1>0. TypeOK /\ TypeOK' /\ AskedOnce
  BY WorkType DEF AnswerInv
<1>1. UNCHANGED <<asked, inbox, answers, incoming, session>>
  BY DEF Work, TakeJob, Skip, Start, Respond, Send, SendFails, Leave, client, loop
<1>2. AskedOnce' /\ \A any \in Ids : Unread(any)' <=> Unread(any)
  BY <1>0, <1>1 DEF AskedOnce, Unread
<1>3. at \in [Workers -> {"receiving", "checking", "responding", "sending", "gone"}]
      /\ hand \in [Workers -> Job \cup Response \cup {Idle}]
  BY <1>0 DEF TypeOK
<1>4. ASSUME session = "serving", NEW any, InPool(any)
      PROVE  InPool(any)'
  <2>1. CASE TakeJob(w)
    <3>1. jobs \in Seq(Job) /\ jobs # <<>> /\ jobs' = Tail(jobs) /\ completed' = completed
      BY <1>0, <2>1 DEF TypeOK, TakeJob
    <3>2. \A i \in DOMAIN jobs :
              \/ jobs[i] = Head(jobs)
              \/ i - 1 \in DOMAIN jobs' /\ jobs'[i - 1] = jobs[i]
      BY <3>1
    <3>3. at[w] = "receiving" /\ at'[w] = "checking" /\ hand'[w] = Head(jobs)
      BY <1>3, <2>1 DEF TakeJob, Step
    <3>4. \A v \in Workers \ {w} : at'[v] = at[v] /\ hand'[v] = hand[v]
      BY <1>3, <2>1 DEF TakeJob, Step
    <3> QED BY <1>4, <3>1, <3>2, <3>3, <3>4 DEF InPool
  <2>2. CASE Skip(w) \/ Start(w) \/ Respond(w)
    <3>1. at'[w] \notin {"receiving", "gone"}
      BY <1>3, <2>2 DEF Skip, Start, Respond, Step
    <3>2. hand'[w].id = hand[w].id
      <4>1. hand[w] \in Job
        BY <1>0, <2>2 DEF TypeOK, Skip, Start, Respond, Step
      <4> QED BY <1>3, <2>2, <4>1 DEF Job, Skip, Start, Respond
    <3>3. \A v \in Workers \ {w} : at'[v] = at[v] /\ hand'[v] = hand[v]
      BY <1>3, <2>2 DEF Skip, Start, Respond, Step
    <3>4. UNCHANGED <<jobs, completed>>
      BY <2>2 DEF Skip, Start, Respond
    <3> QED BY <1>4, <3>1, <3>2, <3>3, <3>4 DEF InPool
  <2>3. CASE Send(w)
    <3>1. completed \in Seq(Response) /\ completed' = Append(completed, hand[w]) /\ jobs' = jobs
      BY <1>0, <2>3 DEF TypeOK, Send
    <3>2. /\ Len(completed) + 1 \in DOMAIN completed'
          /\ completed'[Len(completed) + 1] = hand[w]
          /\ \A i \in DOMAIN completed : i \in DOMAIN completed' /\ completed'[i] = completed[i]
      BY <3>1
    <3>3. \A v \in Workers \ {w} : at'[v] = at[v] /\ hand'[v] = hand[v]
      BY <1>3, <2>3 DEF Send, Step
    <3> QED BY <1>4, <3>1, <3>2, <3>3 DEF InPool
  <2>4. CASE SendFails(w) \/ Leave(w)
    BY <1>4, <2>4 DEF SendFails, Disconnected, Leave
  <2> QED BY <2>1, <2>2, <2>3, <2>4 DEF Work
<1> QED BY <1>0, <1>1, <1>2, <1>4, NothingAnswered

LEMMA AnswerInvariant == Spec => []AnswerInv
<1>1. Init => AnswerInv
  <2> SUFFICES ASSUME Init PROVE AnswerInv
    OBVIOUS
  <2>1. TypeOK
    BY BoundsAssumption, CapacitiesAssumption DEF Init, TypeOK, Ids
  <2>2. AskedOnce /\ UnreadIsOpen /\ UnreadWasAsked /\ RegisteredIsOpen /\ NoneForgotten
    BY DEF Init, AskedOnce, UnreadIsOpen, UnreadWasAsked, RegisteredIsOpen, NoneForgotten, Unread
  <2>3. AnsweredOnce
    BY DEF Init, AnsweredOnce
  <2> QED BY <2>1, <2>2, <2>3 DEF AnswerInv
<1>2. AnswerInv /\ [Next]_vars => AnswerInv'
  <2> SUFFICES ASSUME AnswerInv, [Next]_vars PROVE AnswerInv'
    OBVIOUS
  <2>1. CASE Client
    BY <2>1, ClientInv
  <2>2. CASE ReadMessage \/ TakeCompleted \/ Joined
    BY <2>2, LoopInv
  <2>3. ASSUME NEW w \in Workers, Work(w)
        PROVE  AnswerInv'
    BY <2>3, WorkInv
  <2>4. CASE UNCHANGED vars
    BY <2>4 DEF vars, client, loop, pool, AnswerInv, TypeOK, AskedOnce, UnreadIsOpen,
                UnreadWasAsked, RegisteredIsOpen, AnsweredOnce, NoneForgotten, Unread, InPool
  <2> QED BY <2>1, <2>2, <2>3, <2>4 DEF Next
<1> QED BY <1>1, <1>2, PTL DEF Spec

\* No request ever gets two responses, from the worker, the cancel and the
\* full queue together.
THEOREM OneAnswer == Spec => []AnsweredOnce
<1>1. AnswerInv => AnsweredOnce
  BY DEF AnswerInv
<1> QED BY <1>1, AnswerInvariant, PTL

\* While the session lasts, no request that was read falls between the register,
\* the pool and the answers, whatever the capacities.
THEOREM NoRequestIsLost == Spec => []NoneForgotten
<1>1. AnswerInv => NoneForgotten
  BY DEF AnswerInv
<1> QED BY <1>1, AnswerInvariant, PTL

-----------------------------------------------------------------------------
(***************************************************************************)
(* A response sees the documents its client saw.  The property compares a  *)
(* response with the past: it follows because the inbox still says what    *)
(* the client had sent when, and the pool has kept what the loop gave it.  *)
(***************************************************************************)

\* f[i] changes have been applied when the i-th message is read; a request is
\* read when as many have been as the client had sent before it.
Replays(f, messages, sent, from, to) ==
    /\ f \in [1..Len(messages) + 1 -> Nat]
    /\ f[1] = from /\ f[Len(messages) + 1] = to
    /\ \A i \in 1..Len(messages) :
          /\ f[i + 1] = IF messages[i].kind = "change" THEN f[i] + 1 ELSE f[i]
          /\ messages[i].kind \in {"request", "command"} => sent[messages[i].id] = f[i]

InboxInStep ==
    \E f \in [1..Len(inbox) + 1 -> Nat] : Replays(f, inbox, asked, docs, changes)

InStep(response) == response.id \in DOMAIN asked /\ response.docs = asked[response.id]

PoolInStep ==
    /\ \A i \in DOMAIN jobs : InStep(jobs[i])
    /\ \A w \in Workers : at[w] \notin {"receiving", "gone"} => InStep(hand[w])
    /\ \A i \in DOMAIN completed : InStep(completed[i])

SnapshotInv == InboxInStep /\ PoolInStep /\ AnswersSeeTheirChanges

-----------------------------------------------------------------------------
(* Reading and posting keep the inbox in step. *)

LEMMA ReplayTail ==
  ASSUME NEW messages \in Seq(Messages), messages # <<>>,
         NEW sent, NEW from, NEW to, NEW f, Replays(f, messages, sent, from, to)
  PROVE  /\ \E g \in [1..Len(Tail(messages)) + 1 -> Nat] :
               Replays(g, Tail(messages), sent,
                       IF Head(messages).kind = "change" THEN from + 1 ELSE from, to)
         /\ Head(messages).kind \in {"request", "command"} => sent[Head(messages).id] = from
<1> DEFINE n == Len(messages)
           rest == Tail(messages)
           g == [i \in 1..n |-> f[i + 1]]
<1>1. /\ n \in Nat \ {0} /\ Len(rest) = n - 1 /\ Len(rest) + 1 = n
      /\ \A i \in 1..Len(rest) : rest[i] = messages[i + 1] /\ i + 1 \in 1..n
      /\ 1 \in 1..n /\ Head(messages) = messages[1]
  OBVIOUS
<1>2. \A i \in 1..n : i + 1 \in 1..n + 1
  BY <1>1
<1>3. g \in [1..n -> Nat]
  BY <1>2 DEF Replays
<1>4. g[1] = IF Head(messages).kind = "change" THEN from + 1 ELSE from
  BY <1>1 DEF Replays
<1>5. g[n] = to
  BY <1>1 DEF Replays
<1>6. ASSUME NEW i \in 1..Len(rest)
      PROVE  /\ g[i + 1] = IF rest[i].kind = "change" THEN g[i] + 1 ELSE g[i]
             /\ rest[i].kind \in {"request", "command"} => sent[rest[i].id] = g[i]
  <2>1. i \in 1..n /\ i + 1 \in 1..n /\ g[i] = f[i + 1] /\ g[i + 1] = f[(i + 1) + 1]
    BY <1>1
  <2> QED BY <1>1, <2>1 DEF Replays
<1>7. Replays(g, rest, sent, IF Head(messages).kind = "change" THEN from + 1 ELSE from, to)
  <2> HIDE DEF g, rest, n
  <2>1. g \in [1..Len(rest) + 1 -> Nat] /\ g[Len(rest) + 1] = to
    BY <1>1, <1>3, <1>5
  <2> QED BY <1>4, <1>6, <2>1 DEF Replays
<1>8. Head(messages).kind \in {"request", "command"} => sent[Head(messages).id] = from
  BY <1>1 DEF Replays
<1> QED BY <1>1, <1>3, <1>7, <1>8

LEMMA ReplayAppend ==
  ASSUME NEW messages \in Seq(Messages), NEW m \in Messages,
         NEW sent, NEW now, NEW from, NEW to \in Nat, NEW f, Replays(f, messages, sent, from, to),
         \A i \in 1..Len(messages) :
             messages[i].kind \in {"request", "command"} =>
                 now[messages[i].id] = sent[messages[i].id],
         m.kind \in {"request", "command"} => now[m.id] = to
  PROVE  \E g \in [1..Len(Append(messages, m)) + 1 -> Nat] :
             Replays(g, Append(messages, m), now, from,
                     IF m.kind = "change" THEN to + 1 ELSE to)
<1> DEFINE n == Len(messages)
           more == Append(messages, m)
           end == IF m.kind = "change" THEN to + 1 ELSE to
           g == [i \in 1..(n + 2) |-> IF i = n + 2 THEN end ELSE f[i]]
<1>1. /\ n \in Nat /\ Len(more) = n + 1 /\ Len(more) + 1 = n + 2
      /\ \A i \in 1..n : more[i] = messages[i]
      /\ more[n + 1] = m
  OBVIOUS
<1>2. \A i \in 1..n + 2 : i # n + 2 => i \in 1..n + 1
  BY <1>1
<1>3. end \in Nat
  OBVIOUS
<1>4. g \in [1..(n + 2) -> Nat]
  BY <1>2, <1>3 DEF Replays
<1>5. g[1] = from /\ g[n + 2] = end
  BY <1>1 DEF Replays
<1>6. ASSUME NEW i \in 1..(n + 1)
      PROVE  /\ g[i + 1] = IF more[i].kind = "change" THEN g[i] + 1 ELSE g[i]
             /\ more[i].kind \in {"request", "command"} => now[more[i].id] = g[i]
  <2>1. CASE i = n + 1
    <3>1. g[i + 1] = end /\ g[i] = f[n + 1] /\ more[i] = m
      BY <1>1, <2>1
    <3>2. f[n + 1] = to
      BY DEF Replays
    <3> QED BY <3>1, <3>2
  <2>2. CASE i \in 1..n
    <3>1. g[i + 1] = f[i + 1] /\ g[i] = f[i] /\ more[i] = messages[i]
      BY <1>1, <2>2
    <3> QED BY <2>2, <3>1 DEF Replays
  <2> QED BY <1>1, <2>1, <2>2
<1>7. Replays(g, more, now, from, end)
  <2> HIDE DEF g, more, n, end
  <2> QED BY <1>1, <1>4, <1>5, <1>6 DEF Replays
<1> QED BY <1>1, <1>4, <1>7

LEMMA ReadInStep ==
  ASSUME TypeOK, InboxInStep, NEW kind, Read(kind),
         docs' = IF kind = "change" THEN docs + 1 ELSE docs
  PROVE  /\ InboxInStep'
         /\ kind \in {"request", "command"} => asked[Head(inbox).id] = docs
<1>1. inbox \in Seq(Messages) /\ inbox # <<>> /\ Head(inbox).kind = kind
  BY DEF TypeOK, Read
<1>2. inbox' = Tail(inbox) /\ asked' = asked /\ changes' = changes
  BY DEF Read, client
<1>3. PICK f \in [1..Len(inbox) + 1 -> Nat] : Replays(f, inbox, asked, docs, changes)
  BY DEF InboxInStep
<1>4. /\ \E g \in [1..Len(Tail(inbox)) + 1 -> Nat] :
            Replays(g, Tail(inbox), asked, IF Head(inbox).kind = "change" THEN docs + 1 ELSE docs, changes)
      /\ kind \in {"request", "command"} => asked[Head(inbox).id] = docs
  BY <1>1, <1>3, ReplayTail
<1> QED BY <1>1, <1>2, <1>4 DEF InboxInStep

\* A message that asks for nothing, or asks with what has been sent by now.
LEMMA PostInStep ==
  ASSUME AnswerInv, InboxInStep, NEW m \in Messages, Post(m),
         \A id \in DOMAIN asked : asked'[id] = asked[id],
         changes' = IF m.kind = "change" THEN changes + 1 ELSE changes,
         m.kind \in {"request", "command"} => asked'[m.id] = changes
  PROVE  InboxInStep'
<1>1. inbox \in Seq(Messages) /\ changes \in Nat
  BY BoundsAssumption DEF AnswerInv, TypeOK
<1>2. PICK f \in [1..Len(inbox) + 1 -> Nat] : Replays(f, inbox, asked, docs, changes)
  BY DEF InboxInStep
<1>3. ASSUME NEW i \in 1..Len(inbox), inbox[i].kind \in {"request", "command"}
      PROVE  asked'[inbox[i].id] = asked[inbox[i].id]
  <2>1. i \in DOMAIN inbox /\ inbox[i] \in Messages
    BY <1>1
  <2>2. inbox[i].id \in Ids
    BY <1>3, <2>1, MessageTypes
  <2>3. Unread(inbox[i].id)
    BY <1>3, <2>1 DEF Unread, Asking
  <2> QED BY <2>2, <2>3 DEF AnswerInv, UnreadWasAsked
<1>4. \E g \in [1..Len(Append(inbox, m)) + 1 -> Nat] :
          Replays(g, Append(inbox, m), asked', docs, IF m.kind = "change" THEN changes + 1 ELSE changes)
  BY <1>1, <1>2, <1>3, ReplayAppend
<1> QED BY <1>4 DEF InboxInStep, Post, loop

-----------------------------------------------------------------------------
(* One lemma for each group of actions. *)

LEMMA ClientSnapshot ==
  ASSUME AnswerInv, SnapshotInv, Client
  PROVE  SnapshotInv'
<1>1. ASSUME NEW kind \in {"request", "command"}, Ask(kind)
      PROVE  SnapshotInv'
  <2> DEFINE new == Len(asked) + 1
  <2>1. /\ asked' = Append(asked, changes) /\ changes' = changes /\ changes \in Nat
        /\ asked \in Seq(Nat)
    BY <1>1, BoundsAssumption DEF Ask, AnswerInv, TypeOK
  <2>2. /\ \A id \in DOMAIN asked : asked'[id] = asked[id] /\ id \in DOMAIN asked'
        /\ asked'[new] = changes /\ DOMAIN asked' = DOMAIN asked \cup {new}
        /\ new \notin DOMAIN asked
    BY <2>1
  <2>3. new \in Ids
    BY <1>1, <2>1, BoundsAssumption DEF Ask, Ids
  <2>4. InboxInStep'
    <3>1. [kind |-> kind, id |-> new] \in Messages
      BY <2>3, MessageTypes
    <3>2. Post([kind |-> kind, id |-> new])
      BY <1>1 DEF Ask
    <3> QED BY <2>1, <2>2, <3>1, <3>2, PostInStep DEF SnapshotInv
  <2>5. PoolInStep'
    BY <1>1, <2>2 DEF SnapshotInv, PoolInStep, InStep, Ask, Post, pool
  <2>6. AnswersSeeTheirChanges'
    <3>1. answers' = answers /\ answers[new] = <<>>
      BY <1>1, <2>2, <2>3 DEF Ask, Post, AnswerInv, UnreadIsOpen
    <3> QED BY <2>2, <3>1 DEF SnapshotInv, AnswersSeeTheirChanges
  <2> QED BY <2>4, <2>5, <2>6 DEF SnapshotInv
<1>2. ASSUME NEW m \in Messages, Post(m), asked' = asked,
             changes' = IF m.kind = "change" THEN changes + 1 ELSE changes,
             m.kind \in {"cancel", "change", "end"}
      PROVE  SnapshotInv'
  <2>1. InboxInStep'
    BY <1>2, PostInStep DEF SnapshotInv
  <2> QED BY <1>2, <2>1 DEF SnapshotInv, PoolInStep, InStep, AnswersSeeTheirChanges, Post, pool
<1>3. ASSUME NEW id \in Ids, Withdraw(id)
      PROVE  SnapshotInv'
  BY <1>2, <1>3, MessageTypes DEF Withdraw
<1>4. CASE Change
  BY <1>2, <1>4, MessageTypes DEF Change
<1>5. CASE End
  BY <1>2, <1>5, MessageTypes DEF End, client
<1> QED BY <1>1, <1>3, <1>4, <1>5 DEF Client

\* An answer that is no result, or is one of these documents, keeps the promise.
LEMMA AnswerSnapshot ==
  ASSUME TypeOK, AnswersSeeTheirChanges, NEW id \in Ids, NEW how, NEW seen,
         Answer(id, how, seen), asked' = asked,
         how = "result" => id \in DOMAIN asked /\ seen = asked[id]
  PROVE  AnswersSeeTheirChanges'
<1>1. answers[id] \in Seq(Response)
  BY DEF TypeOK
<1> DEFINE response == [id |-> id, how |-> how, docs |-> seen]
<1>2. /\ answers'[id] = Append(answers[id], response)
      /\ \A other \in Ids \ {id} : answers'[other] = answers[other]
  BY DEF Answer, TypeOK
<1>3. \A i \in DOMAIN answers'[id] :
          answers'[id][i] = response \/ (i \in DOMAIN answers[id] /\ answers'[id][i] = answers[id][i])
  BY <1>1, <1>2
<1>4. DOMAIN asked \subseteq Ids
  BY AskedIds
<1> QED BY <1>2, <1>3, <1>4 DEF AnswersSeeTheirChanges

LEMMA LoopSnapshot ==
  ASSUME AnswerInv, SnapshotInv, ReadMessage \/ TakeCompleted \/ Joined
  PROVE  SnapshotInv'
<1>0. TypeOK /\ docs \in Nat /\ jobs \in Seq(Job) /\ completed \in Seq(Response)
  BY DEF AnswerInv, TypeOK
<1> DEFINE id == Head(inbox).id
<1>1. ASSUME NEW kind \in {"request", "command"}, Read(kind)
      PROVE  id \in Ids /\ id \in DOMAIN asked
  BY <1>0, <1>1, ReadType, HeadAsks DEF AnswerInv, UnreadWasAsked
<1>2. CASE ReadRequest
  <2>1. /\ InboxInStep' /\ asked[id] = docs
        /\ id \in Ids /\ id \in DOMAIN asked /\ asked' = asked
    BY <1>0, <1>1, <1>2, ReadInStep DEF ReadRequest, SnapshotInv, Read, client
  <2>2. PoolInStep'
    <3>1. ASSUME NEW i \in DOMAIN jobs'
          PROVE  InStep(jobs'[i])
      <4>1. jobs' = jobs \/ jobs' = Append(jobs, [id |-> id, how |-> "todo", docs |-> docs])
        BY <1>2 DEF ReadRequest, Dispatch
      <4> QED BY <1>0, <2>1, <4>1 DEF SnapshotInv, PoolInStep, InStep
    <3> QED BY <1>2, <2>1, <3>1 DEF SnapshotInv, PoolInStep, InStep, ReadRequest
  <2>3. AnswersSeeTheirChanges'
    <3>1. CASE answers' = answers
      BY <2>1, <3>1 DEF SnapshotInv, AnswersSeeTheirChanges
    <3>2. CASE Answer(id, "refused", docs)
      BY <1>0, <2>1, <3>2, AnswerSnapshot DEF SnapshotInv
    <3> QED BY <1>2, <3>1, <3>2 DEF ReadRequest, Dispatch
  <2> QED BY <2>1, <2>2, <2>3 DEF SnapshotInv
<1>3. CASE ReadCommand
  <2>1. /\ InboxInStep' /\ asked[id] = docs
        /\ id \in Ids /\ id \in DOMAIN asked /\ asked' = asked
    BY <1>0, <1>1, <1>3, ReadInStep DEF ReadCommand, SnapshotInv, Read, client, loop
  <2>2. PoolInStep'
    BY <1>3, <2>1 DEF SnapshotInv, PoolInStep, InStep, ReadCommand, pool
  <2>3. AnswersSeeTheirChanges'
    BY <1>0, <1>3, <2>1, AnswerSnapshot DEF ReadCommand, SnapshotInv
  <2> QED BY <2>1, <2>2, <2>3 DEF SnapshotInv
<1>4. CASE ReadCancel
  <2>1. InboxInStep' /\ id \in Ids /\ asked' = asked
    BY <1>0, <1>4, ReadInStep, ReadType DEF ReadCancel, SnapshotInv, Read, client
  <2>2. PoolInStep'
    BY <1>4, <2>1 DEF SnapshotInv, PoolInStep, InStep, ReadCancel, pool
  <2>3. AnswersSeeTheirChanges'
    <3>1. CASE answers' = answers
      BY <2>1, <3>1 DEF SnapshotInv, AnswersSeeTheirChanges
    <3>2. CASE Answer(id, "cancelled", docs)
      BY <1>0, <2>1, <3>2, AnswerSnapshot DEF SnapshotInv
    <3> QED BY <1>4, <3>1, <3>2 DEF ReadCancel, CancelRequest
  <2> QED BY <2>1, <2>2, <2>3 DEF SnapshotInv
<1>5. CASE ReadChange
  <2>1. InboxInStep' /\ asked' = asked
    BY <1>0, <1>5, ReadInStep DEF ReadChange, SnapshotInv, Read, client
  <2> QED BY <1>5, <2>1 DEF SnapshotInv, PoolInStep, InStep, AnswersSeeTheirChanges, ReadChange, pool
<1>6. CASE ReadEnd
  <2>1. InboxInStep' /\ asked' = asked
    BY <1>0, <1>6, ReadInStep DEF ReadEnd, SnapshotInv, Read, client
  <2> QED BY <1>6, <2>1 DEF SnapshotInv, PoolInStep, InStep, AnswersSeeTheirChanges, ReadEnd
<1>7. CASE TakeCompleted
  <2> DEFINE response == Head(completed)
  <2>1. /\ response \in Response /\ InStep(response)
        /\ \A i \in DOMAIN completed' : i + 1 \in DOMAIN completed /\ completed'[i] = completed[i + 1]
    BY <1>0, <1>7 DEF TakeCompleted, SnapshotInv, PoolInStep
  <2>2. InboxInStep' /\ asked' = asked
    BY <1>7 DEF TakeCompleted, SnapshotInv, InboxInStep, client
  <2>3. PoolInStep'
    BY <1>7, <2>1, <2>2 DEF SnapshotInv, PoolInStep, InStep, TakeCompleted
  <2>4. AnswersSeeTheirChanges'
    <3>1. CASE answers' = answers
      BY <2>2, <3>1 DEF SnapshotInv, AnswersSeeTheirChanges
    <3>2. CASE Answer(response.id, response.how, response.docs)
      <4>1. response.id \in Ids
        BY <2>1 DEF Response
      <4> QED BY <1>0, <2>1, <2>2, <3>2, <4>1, AnswerSnapshot DEF SnapshotInv, InStep
    <3> QED BY <1>7, <3>1, <3>2 DEF TakeCompleted, HandleCompleted
  <2> QED BY <2>2, <2>3, <2>4 DEF SnapshotInv
<1>8. CASE Joined
  BY <1>8 DEF Joined, SnapshotInv, InboxInStep, PoolInStep, InStep, AnswersSeeTheirChanges, client, pool
<1> QED BY <1>2, <1>3, <1>4, <1>5, <1>6, <1>7, <1>8 DEF ReadMessage

LEMMA WorkSnapshot ==
  ASSUME AnswerInv, SnapshotInv, NEW w \in Workers, Work(w)
  PROVE  SnapshotInv'
<1>0. /\ jobs \in Seq(Job) /\ completed \in Seq(Response)
      /\ hand \in [Workers -> Job \cup Response \cup {Idle}]
      /\ at \in [Workers -> {"receiving", "checking", "responding", "sending", "gone"}]
      /\ at[w] \in {"checking", "responding"} => hand[w] \in Job
      /\ at[w] = "sending" => hand[w] \in Response
  BY DEF AnswerInv, TypeOK
<1>1. asked' = asked /\ changes' = changes /\ inbox' = inbox /\ docs' = docs /\ answers' = answers
  BY DEF Work, TakeJob, Skip, Start, Respond, Send, SendFails, Leave, client, loop
<1>2. InboxInStep' /\ AnswersSeeTheirChanges'
  BY <1>1 DEF SnapshotInv, InboxInStep, AnswersSeeTheirChanges
<1>3. ASSUME NEW from, NEW to, Step(w, from, to)
      PROVE  at[w] = from /\ \A v \in Workers : at'[v] = IF v = w THEN to ELSE at[v]
  BY <1>0, <1>3 DEF Step
<1>4. CASE TakeJob(w)
  <2>1. /\ InStep(Head(jobs))
        /\ \A i \in DOMAIN jobs' : i + 1 \in DOMAIN jobs /\ jobs'[i] = jobs[i + 1]
    BY <1>0, <1>4 DEF TakeJob, SnapshotInv, PoolInStep
  <2>2. \A v \in Workers : hand'[v] = IF v = w THEN Head(jobs) ELSE hand[v]
    BY <1>0, <1>4 DEF TakeJob
  <2>3. completed' = completed /\ Step(w, "receiving", "checking")
    BY <1>4 DEF TakeJob
  <2> QED BY <1>1, <1>2, <1>3, <2>1, <2>2, <2>3 DEF SnapshotInv, PoolInStep, InStep
\* The worker keeps what it holds; it may only write down how it ends.
<1>5. CASE Skip(w) \/ Start(w) \/ Respond(w)
  <2>1. /\ at[w] \in {"checking", "responding"}
        /\ \A v \in Workers \ {w} : at'[v] = at[v] /\ hand'[v] = hand[v]
        /\ jobs' = jobs /\ completed' = completed
    BY <1>0, <1>3, <1>5 DEF Skip, Start, Respond
  <2>2. hand'[w].id = hand[w].id /\ hand'[w].docs = hand[w].docs
    <3>1. hand[w] \in Job
      BY <1>0, <2>1
    <3>2. hand' = hand \/ \E how : hand' = [hand EXCEPT ![w].how = how]
      BY <1>5 DEF Skip, Start, Respond
    <3> QED BY <1>0, <3>1, <3>2 DEF Job
  <2>3. InStep(hand[w])
    BY <2>1 DEF SnapshotInv, PoolInStep
  <2> QED BY <1>1, <1>2, <2>1, <2>2, <2>3 DEF SnapshotInv, PoolInStep, InStep
<1>6. CASE Send(w)
  <2>1. /\ InStep(hand[w]) /\ completed' = Append(completed, hand[w]) /\ hand[w] \in Response
        /\ \A v \in Workers \ {w} : at'[v] = at[v] /\ hand'[v] = hand[v]
        /\ at'[w] = "receiving" /\ jobs' = jobs
    BY <1>0, <1>3, <1>6 DEF Send, SnapshotInv, PoolInStep, Step
  <2>2. \A i \in DOMAIN completed' :
            completed'[i] = hand[w] \/ (i \in DOMAIN completed /\ completed'[i] = completed[i])
    BY <1>0, <2>1
  <2> QED BY <1>1, <1>2, <2>1, <2>2 DEF SnapshotInv, PoolInStep, InStep
<1>7. CASE SendFails(w) \/ Leave(w)
  <2>1. /\ \A v \in Workers \ {w} : at'[v] = at[v] /\ hand'[v] = hand[v]
        /\ at'[w] = "gone" /\ jobs' = jobs /\ completed' = completed
    BY <1>0, <1>3, <1>7 DEF SendFails, Leave, Step
  <2> QED BY <1>1, <1>2, <2>1 DEF SnapshotInv, PoolInStep, InStep
<1> QED BY <1>4, <1>5, <1>6, <1>7 DEF Work

\* A response that is a result was computed from the documents with every
\* change the client had sent before it asked and none that it sent later,
\* however many workers there are and however late they run.
THEOREM AnswersAreTimely == Spec => []AnswersSeeTheirChanges
<1>1. Init => SnapshotInv
  <2> SUFFICES ASSUME Init PROVE SnapshotInv
    OBVIOUS
  <2>1. InboxInStep
    <3> DEFINE f == [i \in 1..1 |-> 0]
    <3>1. inbox = <<>> /\ Len(inbox) = 0 /\ docs = 0 /\ changes = 0
      BY DEF Init
    <3>2. f \in [1..Len(inbox) + 1 -> Nat] /\ Replays(f, inbox, asked, docs, changes)
      BY <3>1 DEF Replays
    <3> QED BY <3>2 DEF InboxInStep
  <2> QED BY <2>1 DEF Init, SnapshotInv, PoolInStep, AnswersSeeTheirChanges
<1>2. AnswerInv /\ SnapshotInv /\ [Next]_vars => SnapshotInv'
  <2> SUFFICES ASSUME AnswerInv, SnapshotInv, [Next]_vars PROVE SnapshotInv'
    OBVIOUS
  <2>1. CASE Client
    BY <2>1, ClientSnapshot
  <2>2. CASE ReadMessage \/ TakeCompleted \/ Joined
    BY <2>2, LoopSnapshot
  <2>3. ASSUME NEW w \in Workers, Work(w)
        PROVE  SnapshotInv'
    BY <2>3, WorkSnapshot
  <2>4. CASE UNCHANGED vars
    BY <2>4 DEF vars, client, loop, pool, SnapshotInv, InboxInStep, PoolInStep, InStep,
                AnswersSeeTheirChanges
  <2> QED BY <2>1, <2>2, <2>3, <2>4 DEF Next
<1>3. SnapshotInv => AnswersSeeTheirChanges
  BY DEF SnapshotInv
<1> QED BY <1>1, <1>2, <1>3, AnswerInvariant, PTL DEF Spec
=============================================================================
