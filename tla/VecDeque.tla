------------------------------ MODULE VecDeque ------------------------------
(***************************************************************************)
(* VecDeque::retain, which the mailbox of the Bazel thread and the queue   *)
(* of the latest-work worker are thinned with.                             *)
(***************************************************************************)
EXTENDS Naturals, FiniteSets

\* What the sequence q holds at the positions in I, in q's order.
Retain(q, I) ==
    [k \in 1..Cardinality(I) |->
        q[CHOOSE i \in I : Cardinality({j \in I : j <= i}) = k]]
=============================================================================
