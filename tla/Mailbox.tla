------------------------------- MODULE Mailbox -------------------------------
(***************************************************************************)
(* The messages of the Bazel thread and the queue operators of its         *)
(* mailbox (src/src/actor.rs).  The thread owns `pending`, a VecDeque it   *)
(* refills from the channel `rx`; every operator here is a pure function   *)
(* of those two sequences.                                                 *)
(***************************************************************************)
EXTENDS Naturals, Sequences, FiniteSets, VecDeque

CONSTANTS Configs,   \* the values of BazelConfig that a client may send
          NoConfig   \* stands for None: no configuration, client or catalog

ASSUME NoConfigAssumption == NoConfig \notin Configs

-----------------------------------------------------------------------------
(* Messages.  `id` numbers the Configure and Run messages in the order in  *)
(* which they were sent; the program does not look at it.                  *)

Kinds == {"configure", "refresh", "run", "stop"}

Message == [kind : {"configure"}, config : Configs, id : Nat]
           \cup [kind : Kinds \ {"configure"}, config : {NoConfig}, id : Nat]

Configure(c, n) == [kind |-> "configure", config |-> c, id |-> n]
Run(n)          == [kind |-> "run", config |-> NoConfig, id |-> n]
Refresh         == [kind |-> "refresh", config |-> NoConfig, id |-> 0]
Stop            == [kind |-> "stop", config |-> NoConfig, id |-> 0]

\* No message: the mailbox lock is free.
NoMessage       == [kind |-> "none", config |-> NoConfig, id |-> 0]

Operations == {"probe", "refresh"}

\* The kinds of message that make the outcome of an operation worthless.
Superseding(operation) ==
    CASE operation = "probe"   -> {"configure", "stop"}
      [] operation = "refresh" -> {"configure", "refresh", "run", "stop"}
      [] OTHER                 -> {}

-----------------------------------------------------------------------------
(* Queues *)

\* Some message of q is of one of these kinds.
Holds(q, kinds) == \E i \in DOMAIN q : q[i].kind \in kinds

\* The positions coalesce_refreshes keeps: every message but a Refresh that
\* another one follows.
Kept(q) ==
    {i \in DOMAIN q :
        q[i].kind = "refresh" => \A j \in DOMAIN q : j > i => q[j].kind # "refresh"}

\* Keep only the last refresh in a burst.
CoalesceRefreshes(q) == Retain(q, Kept(q))

\* Mutant: a Stop is discarded with the rest.
DropStop(q, r) == IF Holds(q \o r, {"stop"}) THEN <<>> ELSE CoalesceRefreshes(q \o r)
\* Move everything received into `pending`.  A Stop discards all the rest.
Drain(q, r) ==
    IF Holds(q \o r, {"stop"}) THEN <<Stop>> ELSE CoalesceRefreshes(q \o r)

\* Mutant: a superseded refresh is forgotten.
ForgetRefresh(q) == q
\* What a superseded refresh leaves behind: itself, unless a refresh follows
\* anyway or nothing will.
PreserveRefresh(q) ==
    IF Holds(q, {"refresh", "stop"}) THEN q ELSE Append(q, Refresh)

=============================================================================
