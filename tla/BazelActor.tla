----------------------------- MODULE BazelActor -----------------------------
(***************************************************************************)
(* The Bazel thread (src/src/actor.rs): one thread that serves             *)
(* configuration, refresh and run messages by running Bazel commands, and  *)
(* the senders, which may interrupt the command in flight.                 *)
(*                                                                         *)
(* The lock `running` is the mutex around Running.  A sender holds it from *)
(* Mark to Deliver, so the thread's own critical sections, each one action *)
(* here, wait for LockFree.  `sweep` is the one drain done without it.     *)
(*                                                                         *)
(* A Bazel command reads the workspace no earlier than it starts: its      *)
(* answer carries the version of the workspace at that moment, the oldest  *)
(* it can reflect.                                                         *)
(***************************************************************************)
EXTENDS Mailbox

CONSTANTS Enabled,     \* the configurations with bazel.enable = true
          MaxAsks,     \* bound: Configure and Run messages ever sent
          MaxQueue,    \* bound: messages waiting in the channel for a Refresh
          MaxEdits     \* bound: changes of the workspace

ASSUME ActorAssumption ==
    /\ Enabled \subseteq Configs
    /\ MaxAsks \in Nat /\ MaxQueue \in Nat /\ MaxEdits \in Nat

VARIABLES
    \* the mailbox
    rx,         \* the channel
    sending,    \* the message a sender has marked and not yet sent
    running,    \* the Running behind the mutex
    \* the thread
    pc,         \* its next step
    pending,    \* messages drained from the channel and not yet served
    config,     \* the last configuration it finished probing
    client,     \* the configuration of its BazelClient
    next,       \* the configuration it is probing
    stage,      \* the Bazel command of the operation in progress
    child,      \* the running Bazel
    reply,      \* what the last Bazel command answered
    mapping,    \* the repository mapping read before the query
    \* what it publishes
    graph, repos, catalog, wake,
    \* its surroundings
    hasRoot,    \* a workspace root was found
    world,      \* the version of the workspace's files
    \* history: what was asked of the thread and what it did about it
    issued, served, closed, wanted, requested, verdict, answered

mailbox   == <<rx, sending, running>>
thread    == <<pc, pending, config, client, next, stage, child, reply, mapping>>
published == <<graph, repos, catalog, wake>>
around    == <<hasRoot, world>>
asked     == <<issued, closed, wanted, requested>>
done      == <<served, verdict, answered>>

vars == <<mailbox, thread, published, around, asked, done>>

-----------------------------------------------------------------------------
(* Types *)

\* The commands of a stage: `bazel --version`, `help flags-as-proto`,
\* `mod dump_repo_mapping`, `info output_base` and `query`.
Stages == {"version", "flags", "dump", "info", "query"}

Operation(s) == IF s \in {"version", "flags"} THEN "probe" ELSE "refresh"

Idle == [operation |-> "none", interrupt |-> "none", superseded |-> FALSE]

NoChild == [command |-> "none", seen |-> 0, signalled |-> FALSE]

\* A published tier: the configuration and workspace version it came from.
\* NoTier is Tier::default() and Repos::default().
NoTier == [config |-> NoConfig, seen |-> 0]
Tier   == [config : Configs \cup {NoConfig}, seen : Nat]

Labels == {"recv", "claim", "sweep", "settle", "clear", "spawn", "register",
           "wait", "finish", "adopt", "stopped"}

TypeOK ==
    /\ rx \in Seq(Message)
    /\ sending \in Message \cup {NoMessage}
    /\ running \in [operation : Operations \cup {"none"},
                    interrupt : Stages \cup {"none"}, superseded : BOOLEAN]
    /\ pc \in Labels
    /\ pending \in Seq(Message)
    /\ config \in Configs \cup {NoConfig}
    /\ client \in Configs \cup {NoConfig}
    /\ next \in Configs \cup {NoConfig}
    /\ stage \in Stages
    /\ child \in [command : Stages \cup {"none"}, seen : Nat, signalled : BOOLEAN]
    /\ reply \in [seen : Nat, ok : BOOLEAN]
    /\ mapping \in Tier
    /\ graph \in Tier /\ repos \in Tier
    /\ catalog \in Configs \cup {NoConfig} /\ wake \in BOOLEAN
    /\ hasRoot \in BOOLEAN /\ world \in Nat
    /\ issued \in Nat /\ served \in Nat /\ closed \in BOOLEAN
    /\ wanted \in Configs \cup {NoConfig} /\ requested \in Nat
    /\ verdict \in [config : Configs \cup {NoConfig}, ok : BOOLEAN]
    /\ answered \in Tier

Init ==
    /\ rx = <<>> /\ sending = NoMessage /\ running = Idle
    /\ pc = "recv" /\ pending = <<>>
    /\ config = NoConfig /\ client = NoConfig /\ next = NoConfig
    /\ stage = "version" /\ child = NoChild
    /\ reply = [seen |-> 0, ok |-> FALSE] /\ mapping = NoTier
    /\ graph = NoTier /\ repos = NoTier /\ catalog = NoConfig /\ wake = FALSE
    /\ hasRoot \in BOOLEAN /\ world = 0
    /\ issued = 0 /\ served = 0 /\ closed = FALSE
    /\ wanted = NoConfig /\ requested = 0
    /\ verdict = [config |-> NoConfig, ok |-> FALSE] /\ answered = NoTier

-----------------------------------------------------------------------------
(* Senders: Bazel::enqueue, one critical section in two steps. *)

LockFree == sending = NoMessage

\* SIGINT to the child registered under `target`, if it still runs.
Interrupted(target) ==
    IF target # "none" /\ child.command = target
    THEN [child EXCEPT !.signalled = TRUE]
    ELSE child

\* Mutant: any message interrupts the registered operation.
HitsAlways(m) == running.operation # "none"
\* The message makes the registered operation worthless.
Hits(m) == m.kind \in Superseding(running.operation)

\* Take the lock; mark and interrupt the operation the message supersedes.
Mark(m) ==
    /\ LockFree /\ ~closed
    /\ sending' = m
    /\ running' = [running EXCEPT !.superseded = @ \/ Hits(m)]
    /\ child' = IF Hits(m) THEN Interrupted(running.interrupt) ELSE child
    /\ UNCHANGED <<rx, pc, pending, config, client, next, stage, reply, mapping>>
    /\ UNCHANGED <<published, around, done, wanted, requested>>

\* Bazel::reconfigure, from the main loop.
Reconfigure(c) ==
    /\ issued < MaxAsks
    /\ Mark(Configure(c, issued + 1))
    /\ issued' = issued + 1 /\ UNCHANGED closed

\* Bazel::run_target, from the main loop.
RunTarget ==
    /\ issued < MaxAsks
    /\ Mark(Run(issued + 1))
    /\ issued' = issued + 1 /\ UNCHANGED closed

\* Bazel::refresh, from the watch thread.
AskRefresh ==
    /\ Len(rx) < MaxQueue
    /\ Mark(Refresh)
    /\ UNCHANGED <<issued, closed>>

\* Drop for Bazel, which runs once every sender is gone.
DropBazel ==
    /\ Mark(Stop)
    /\ closed' = TRUE /\ UNCHANGED issued

\* Send the message and release the lock.
Deliver ==
    /\ ~LockFree
    /\ rx' = Append(rx, sending) /\ sending' = NoMessage
    /\ wanted' = IF sending.kind = "configure" THEN sending.config ELSE wanted
    /\ requested' = IF sending.kind = "refresh" THEN world ELSE requested
    /\ UNCHANGED <<running, thread, published, around, done, issued, closed>>

\* The workspace changes.
Edit ==
    /\ world < MaxEdits
    /\ world' = world + 1
    /\ UNCHANGED <<mailbox, thread, published, hasRoot, asked, done>>

\* The main loop takes the semantic wake.
TakeWake ==
    /\ wake
    /\ wake' = FALSE
    /\ UNCHANGED <<mailbox, thread, graph, repos, catalog, around, asked, done>>

-----------------------------------------------------------------------------
(* The thread takes a message: the head of `pending`, else of the channel. *)

Waiting  == pending # <<>> \/ rx # <<>>
Upcoming == IF pending # <<>> THEN Head(pending) ELSE Head(rx)

\* Mutant: the head of `pending` is read and left in place.
Peek(kind) ==
    /\ pc = "recv" /\ Waiting
    /\ Upcoming.kind = kind
    /\ rx' = (IF pending # <<>> THEN rx ELSE Tail(rx)) /\ pending' = pending
    /\ served' = IF kind \in {"configure", "run"} THEN Upcoming.id ELSE served
    /\ UNCHANGED <<sending, running, child, reply, mapping, around, asked, verdict, answered>>
Receive(kind) ==
    /\ pc = "recv" /\ Waiting
    /\ Upcoming.kind = kind
    /\ IF pending # <<>> THEN pending' = Tail(pending) /\ rx' = rx
                         ELSE rx' = Tail(rx) /\ pending' = pending
    /\ served' = IF kind \in {"configure", "run"} THEN Upcoming.id ELSE served
    /\ UNCHANGED <<sending, running, child, reply, mapping, around, asked, verdict, answered>>

ReceiveStop ==
    /\ Receive("stop")
    /\ pc' = "stopped"
    /\ UNCHANGED <<config, client, next, stage, published>>

\* The configuration is the one in force, with nothing left to start.
InForce(c) == config = c /\ (client # NoConfig \/ c \notin Enabled)

ReceiveSameConfiguration ==
    /\ Receive("configure") /\ InForce(Upcoming.config)
    /\ UNCHANGED <<pc, config, client, next, stage, published>>

\* Withdraw everything the old configuration published, then probe the new one.
ReceiveConfiguration ==
    /\ Receive("configure") /\ ~InForce(Upcoming.config)
    /\ client' = NoConfig
    /\ graph' = NoTier /\ repos' = NoTier /\ catalog' = NoConfig /\ wake' = TRUE
    /\ next' = Upcoming.config /\ stage' = "version"
    /\ IF hasRoot THEN pc' = "claim" /\ UNCHANGED config
                  ELSE pc' = "recv" /\ config' = Upcoming.config

ReceiveRefresh ==
    /\ Receive("refresh")
    /\ graph' = NoTier /\ repos' = NoTier
    /\ IF client = NoConfig THEN UNCHANGED <<pc, stage>>
                            ELSE pc' = "claim" /\ stage' = "dump"
    /\ UNCHANGED <<config, client, next, catalog, wake>>

\* Start the user's command and forget it, or warn that there is no client.
ReceiveRun ==
    /\ Receive("run")
    /\ UNCHANGED <<pc, config, client, next, stage, published>>

-----------------------------------------------------------------------------
(* prepare: register the operation, then look for what supersedes it. *)

Claim ==
    /\ pc = "claim" /\ LockFree
    /\ running' = [operation |-> Operation(stage), interrupt |-> "none", superseded |-> FALSE]
    /\ pc' = "sweep"
    /\ UNCHANGED <<rx, sending, pending, config, client, next, stage, child, reply, mapping>>
    /\ UNCHANGED <<published, around, asked, done>>

Sweep ==
    /\ pc = "sweep"
    /\ pending' = Drain(pending, rx) /\ rx' = <<>>
    /\ pc' = "settle"
    /\ UNCHANGED <<sending, running, config, client, next, stage, child, reply, mapping>>
    /\ UNCHANGED <<published, around, asked, done>>

\* Mutant: only the flag is looked at, not the drained messages.
IsMarked(q) == running.superseded
IsSuperseded(q) == running.superseded \/ Holds(q, Superseding(Operation(stage)))

Settle ==
    /\ pc = "settle" /\ LockFree
    /\ pc' = IF IsSuperseded(pending) THEN "clear" ELSE "spawn"
    /\ UNCHANGED <<mailbox, pending, config, client, next, stage, child, reply, mapping>>
    /\ UNCHANGED <<published, around, asked, done>>

\* What a superseded operation leaves to do.
Leftover(q) == IF Operation(stage) = "refresh" THEN PreserveRefresh(q) ELSE q

Clear ==
    /\ pc = "clear" /\ LockFree
    /\ running' = Idle
    /\ pending' = Leftover(pending)
    /\ pc' = "recv"
    /\ UNCHANGED <<rx, sending, config, client, next, stage, child, reply, mapping>>
    /\ UNCHANGED <<published, around, asked, done>>

-----------------------------------------------------------------------------
(* A Bazel command: spawned, registered, waited for. *)

Spawn ==
    /\ pc = "spawn"
    /\ stage = "version" => next \in Enabled
    /\ child' = [command |-> stage, seen |-> world, signalled |-> FALSE]
    /\ pc' = "register"
    /\ UNCHANGED <<mailbox, pending, config, client, next, stage, reply, mapping>>
    /\ UNCHANGED <<published, around, asked, done>>

\* The subsystem is disabled or the process cannot be started.
SpawnFails ==
    /\ pc = "spawn"
    /\ reply' = [seen |-> world, ok |-> FALSE]
    /\ pc' = "finish"
    /\ UNCHANGED <<mailbox, pending, config, client, next, stage, child, mapping>>
    /\ UNCHANGED <<published, around, asked, done>>

\* Mutant: set_running does not look at `superseded`.
RegisterBlindly ==
    /\ pc = "register" /\ LockFree
    /\ running' = [running EXCEPT !.interrupt = stage]
    /\ pc' = "wait"
    /\ UNCHANGED <<rx, sending, pending, config, client, next, stage, child, reply, mapping>>
    /\ UNCHANGED <<published, around, asked, done>>
\* set_running: a command superseded before it was registered is interrupted
\* as it is registered.
Register ==
    /\ pc = "register" /\ LockFree
    /\ running' = [running EXCEPT !.interrupt = stage]
    /\ child' = IF running.superseded THEN Interrupted(stage) ELSE child
    /\ pc' = "wait"
    /\ UNCHANGED <<rx, sending, pending, config, client, next, stage, reply, mapping>>
    /\ UNCHANGED <<published, around, asked, done>>

\* The command exits and its answer is read: usable or not, interrupted or
\* not.  `info output_base` follows a usable repository mapping.
Exit(ok) ==
    /\ pc = "wait"
    /\ child' = NoChild
    /\ reply' = [seen |-> child.seen, ok |-> ok]
    /\ IF stage = "dump" /\ ok
       THEN /\ stage' = "info" /\ pc' = "spawn"
            /\ mapping' = [config |-> client, seen |-> child.seen]
       ELSE pc' = "finish" /\ UNCHANGED <<stage, mapping>>
    /\ UNCHANGED <<mailbox, pending, config, client, next>>
    /\ UNCHANGED <<published, around, asked, done>>

-----------------------------------------------------------------------------
(* finish and publish_current: under the lock, drain, decide, reset. *)

Finish(superseded) ==
    /\ pc = "finish" /\ LockFree
    /\ superseded = IsSuperseded(Drain(pending, rx))
    /\ rx' = <<>>
    /\ running' = Idle
    /\ UNCHANGED <<sending, client, next, child, reply, around, asked, served>>

FinishSuperseded ==
    /\ Finish(TRUE)
    /\ pending' = Leftover(Drain(pending, rx))
    /\ pc' = "recv"
    /\ UNCHANGED <<config, stage, mapping, published, verdict, answered>>

\* The probe stands.  Only Bazel 8.7 is asked for its flags.
FinishProbe(flags) ==
    /\ stage = "version" /\ Finish(FALSE)
    /\ pending' = Drain(pending, rx)
    /\ config' = next
    /\ verdict' = [config |-> next, ok |-> reply.ok]
    /\ \/ ~reply.ok /\ ~flags /\ pc' = "recv" /\ UNCHANGED stage
       \/ reply.ok /\ ~flags /\ pc' = "adopt" /\ UNCHANGED stage
       \/ reply.ok /\ flags /\ pc' = "claim" /\ stage' = "flags"
    /\ UNCHANGED <<mapping, published, answered>>

FinishFlags ==
    /\ stage = "flags" /\ Finish(FALSE)
    /\ pending' = Drain(pending, rx)
    /\ pc' = "adopt"
    /\ UNCHANGED <<config, stage, mapping, published, verdict, answered>>

FinishRepos ==
    /\ stage \in {"dump", "info"} /\ Finish(FALSE)
    /\ pending' = Drain(pending, rx)
    /\ mapping' = IF reply.ok THEN mapping ELSE NoTier
    /\ stage' = "query" /\ pc' = "claim"
    /\ UNCHANGED <<config, published, verdict, answered>>

Publish ==
    /\ stage = "query" /\ Finish(FALSE)
    /\ pending' = Drain(pending, rx)
    /\ repos' = IF mapping = NoTier THEN repos ELSE mapping
    /\ graph' = IF reply.ok THEN [config |-> client, seen |-> reply.seen] ELSE graph
    /\ answered' = [config |-> client, seen |-> reply.seen]
    /\ pc' = "recv"
    /\ UNCHANGED <<config, stage, mapping, catalog, wake, verdict>>

\* The client takes over and asks for the first refresh.
Adopt ==
    /\ pc = "adopt"
    /\ IF stage = "flags" /\ reply.ok THEN catalog' = next /\ wake' = TRUE
                                      ELSE UNCHANGED <<catalog, wake>>
    /\ client' = next
    /\ pending' = CoalesceRefreshes(Append(pending, Refresh))
    /\ pc' = "recv"
    /\ UNCHANGED <<mailbox, config, next, stage, child, reply, mapping, graph, repos>>
    /\ UNCHANGED <<around, asked, done>>

-----------------------------------------------------------------------------
Take == \/ ReceiveStop \/ ReceiveSameConfiguration \/ ReceiveConfiguration
        \/ ReceiveRefresh \/ ReceiveRun

Finished == \/ FinishSuperseded \/ (\E flags \in BOOLEAN : FinishProbe(flags))
            \/ FinishFlags \/ FinishRepos \/ Publish

\* The steps of the thread itself.
Serve == \/ Take \/ Claim \/ Sweep \/ Settle \/ Clear
         \/ Spawn \/ SpawnFails \/ Register \/ Finished \/ Adopt

Senders == \/ (\E c \in Configs : Reconfigure(c))
           \/ RunTarget \/ AskRefresh \/ DropBazel

\* Drop for Bazel has joined the thread.
Joined == pc = "stopped" /\ UNCHANGED vars

Next == \/ Senders \/ Deliver \/ Edit \/ TakeWake
        \/ Serve \/ (\E ok \in BOOLEAN : Exit(ok)) \/ Joined

Spec == Init /\ [][Next]_vars

\* A sender that holds the lock goes on, the thread is scheduled, and a Bazel
\* command comes to an end by itself or because it was interrupted.
Fairness == /\ WF_vars(Deliver)
            /\ WF_vars(Serve)
            /\ WF_vars(\E ok \in BOOLEAN : Exit(ok))

FairSpec == Spec /\ Fairness

-----------------------------------------------------------------------------
(* Properties *)

\* Everything published belongs to the client in force: no reader sees a
\* graph, a repository mapping or a flag catalog of another configuration than
\* the one that answers its next question (actor.rs, store_* and catalog.*).
PublishedByTheClient ==
    {graph.config, repos.config, catalog} \subseteq {client, NoConfig}

\* No interrupt is lost: a command that runs on behalf of an operation which a
\* message sent meanwhile supersedes has been sent SIGINT, whichever came
\* first, the message or the registration of the command.
SupersededChildIsSignalled ==
    pc = "wait" /\ Holds(pending \o rx \o <<sending>>, Superseding(Operation(stage)))
        => child.signalled

\* No interrupt strays: a command is sent SIGINT only for a message the thread
\* has not taken yet, so a sender never interrupts the work it asked for.
InterruptHasACause ==
    child.signalled => Holds(rx \o <<sending>>, Superseding(Operation(stage)))

\* Draining, coalescing and preserving refreshes neither lose, repeat nor
\* reorder a Configure or a Run: what is queued is what was sent and not yet
\* taken, in the order in which it was sent.
Unserved == pending \o rx \o <<sending>>
ServedInOrder ==
    ~closed =>
        LET asks == {i \in DOMAIN Unserved : Unserved[i].id # 0} IN
        /\ {Unserved[i].id : i \in asks} = (served + 1)..issued
        /\ \A i, j \in asks : i < j => Unserved[i].id < Unserved[j].id

\* At rest nothing that was asked is forgotten: the last configuration sent is
\* the one in force, it has a client exactly if its probe succeeded, and with
\* a client Bazel has been asked for the graph since the last refresh.
Quiet == pc = "recv" /\ ~Waiting /\ LockFree
RestReflectsAsks ==
    Quiet /\ ~closed =>
        /\ config = wanted
        /\ client = IF hasRoot /\ verdict = [config |-> wanted, ok |-> TRUE]
                    THEN wanted ELSE NoConfig
        /\ client # NoConfig => answered.config = client /\ answered.seen >= requested

\* The thread implements what its readers rely on: what it publishes is as
\* current as the last configuration and refresh that were asked for.
Promise == INSTANCE PublishedTiers WITH
    world <- world, wanted <- wanted, requested <- requested, closed <- closed,
    graph <- graph, repos <- repos
KeepsPromise == Promise!Spec

\* Told to stop, the thread stops: dropping the last Bazel does not hang.
StopReturns == closed ~> pc = "stopped"

\* The thread superseding its own work again and again is impossible: once the
\* senders are silent it comes to rest.
ComesToRest == <>[]LockFree => <>[](Quiet \/ pc = "stopped")

=============================================================================
