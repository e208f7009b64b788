--------------------------- MODULE PublishedTiers ---------------------------
(***************************************************************************)
(* What the Bazel thread promises to the readers of the index, without the *)
(* thread: a tier that is published comes from the configuration asked for *)
(* last and from a workspace no older than the last refresh asked for, as  *)
(* if Bazel had answered at once at some moment since then; a tier may be  *)
(* withdrawn at any time; nothing is published once the thread is told to  *)
(* stop.                                                                   *)
(***************************************************************************)
EXTENDS Naturals

CONSTANTS Configs, NoConfig

VARIABLES world, wanted, requested, closed, graph, repos

tiers == <<graph, repos>>
asks  == <<wanted, requested, closed>>
vars  == <<world, asks, tiers>>

NoTier == [config |-> NoConfig, seen |-> 0]

\* The answers Bazel can still give.
Current == [config : {wanted}, seen : requested..world]

Init ==
    /\ world = 0 /\ wanted = NoConfig /\ requested = 0 /\ closed = FALSE
    /\ graph = NoTier /\ repos = NoTier

Edit == world' = world + 1 /\ UNCHANGED <<asks, tiers>>

AskConfiguration(c) == wanted' = c /\ UNCHANGED <<world, requested, closed, tiers>>

AskRefresh == requested' = world /\ UNCHANGED <<world, wanted, closed, tiers>>

AskStop == closed' = TRUE /\ UNCHANGED <<world, wanted, requested, tiers>>

Withdraw == graph' = NoTier /\ repos' = NoTier /\ UNCHANGED <<world, asks>>

Publish ==
    /\ ~closed /\ wanted # NoConfig
    /\ graph' \in Current \cup {graph}
    /\ repos' \in Current \cup {repos}
    /\ UNCHANGED <<world, asks>>

Next == \/ Edit \/ (\E c \in Configs : AskConfiguration(c)) \/ AskRefresh \/ AskStop
        \/ Withdraw \/ Publish

Spec == Init /\ [][Next]_vars

=============================================================================
