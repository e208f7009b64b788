---------------------------- MODULE QueryPromise ----------------------------
(***************************************************************************)
(* What a query of the graph promises (src/src/graph.rs): of a command     *)
(* that exited with success the answer is what the whole of its output     *)
(* says, an error if that is not a sequence of messages; of any other      *)
(* there is nothing to add to the index.  It is given once.                *)
(***************************************************************************)
EXTENDS Sequences

CONSTANTS
    Byte,           \* what is written
    Says(_)         \* what an output says as a whole

VARIABLES
    written,        \* what the command wrote
    status,         \* "unborn", "running", "ok" or "failed"
    lost,           \* whether the command could not be started or read
    answer          \* what the query returned

None == [says |-> "none", targets |-> {}]
Error == [says |-> "error", targets |-> {}]
Empty == [says |-> "tier", targets |-> {}]

Init == written = <<>> /\ status = "unborn" /\ lost = FALSE /\ answer = None

Command ==
    /\ status \in {"unborn", "running"}
    /\ \/ status' \in {"running", "ok", "failed"} /\ UNCHANGED <<written, lost>>
       \/ \E b \in Byte : written' = Append(written, b) /\ UNCHANGED <<status, lost>>
    /\ UNCHANGED answer

Lose == lost' = TRUE /\ UNCHANGED <<written, status, answer>>

Answer ==
    /\ answer = None
    /\ \/ lost /\ answer' = Error
       \/ ~lost /\ status = "ok" /\ answer' = Says(written)
       \/ ~lost /\ status = "failed" /\ answer' = Empty
    /\ UNCHANGED <<written, status, lost>>

Next == Command \/ Lose \/ Answer

Spec == Init /\ [][Next]_<<written, status, lost, answer>>
=============================================================================
