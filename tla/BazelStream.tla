----------------------------- MODULE BazelStream ----------------------------
(***************************************************************************)
(* One Bazel command (BazelClient::stream_with, src/src/bazel.rs): the     *)
(* process, its two pipes, the thread that reads its output chunk by chunk *)
(* and the one that drains its errors.  Whether an interrupt stops it is   *)
(* the command's own business: it may stop at any time (the sending of one *)
(* is in BazelActor).                                                      *)
(***************************************************************************)
EXTENDS Naturals, Sequences

CONSTANTS
    Byte,           \* what is written
    Outputs,        \* what the command may have to say on stdout
    MaxErrors,      \* bound: how much it writes on stderr
    OutRoom,        \* how much the pipe of stdout holds
    ErrRoom,        \* how much the pipe of stderr holds
    BufferSize      \* how much is read at once

ASSUME StreamAssumption ==
    /\ Outputs \subseteq Seq(Byte) /\ MaxErrors \in Nat
    /\ OutRoom \in Nat \ {0} /\ ErrRoom \in Nat \ {0} /\ BufferSize \in Nat \ {0}

VARIABLES
    output, errors,     \* what the process has yet to write on stdout and stderr
    status,             \* "unborn", "running", then how it exited: "ok" or "failed"
    written,            \* what it wrote on stdout
    out, err,           \* what the pipes hold
    pc,                 \* where stream_with is
    draining,           \* whether the thread on stderr runs
    got                 \* what the sink was given

process == <<output, errors, status, written>>
streamVars == <<output, errors, status, written, out, err, pc, draining, got>>

StreamInit ==
    /\ output \in Outputs /\ errors \in 0 .. MaxErrors
    /\ status = "unborn" /\ written = <<>>
    /\ out = <<>> /\ err = 0
    /\ pc = "spawning" /\ draining = FALSE /\ got = <<>>

-----------------------------------------------------------------------------
(* The process. *)

WriteOut ==
    /\ status = "running" /\ Len(output) > 0 /\ Len(out) < OutRoom
    /\ output' = Tail(output)
    /\ out' = Append(out, Head(output)) /\ written' = Append(written, Head(output))
    /\ UNCHANGED <<errors, status, err, pc, draining, got>>

WriteErr ==
    /\ status = "running" /\ errors > 0 /\ err < ErrRoom
    /\ errors' = errors - 1 /\ err' = err + 1
    /\ UNCHANGED <<output, status, written, out, pc, draining, got>>

\* It exits with 0 only when it has said everything.
Exit ==
    /\ status = "running" /\ output = <<>> /\ errors = 0
    /\ status' \in {"ok", "failed"}
    /\ UNCHANGED <<output, errors, written, out, err, pc, draining, got>>

\* It is killed, or stops because it was asked to.
Abort ==
    /\ status = "running"
    /\ status' = "failed"
    /\ UNCHANGED <<output, errors, written, out, err, pc, draining, got>>

-----------------------------------------------------------------------------
(* stream_with. *)

SpawnFails ==
    /\ pc = "spawning" /\ pc' = "failed"
    /\ UNCHANGED <<process, out, err, draining, got>>

\* The process starts, its interrupt is handed out, and stderr has its thread.
Spawn ==
    /\ pc = "spawning" /\ pc' = "reading"
    /\ status' = "running" /\ draining' = TRUE
    /\ UNCHANGED <<output, errors, written, out, err, got>>

\* One read of stdout: some of what the pipe holds, given to the sink.
Read ==
    /\ pc = "reading"
    /\ \E n \in 1 .. Len(out) :
          /\ n <= BufferSize
          /\ got' = got \o SubSeq(out, 1, n)
          /\ out' = SubSeq(out, n + 1, Len(out))
    /\ UNCHANGED <<process, err, pc, draining>>

\* Mutant: nothing to read is taken for the end.
EndOfOutputEarly ==
    /\ pc = "reading" /\ out = <<>>
    /\ pc' = "waiting"
    /\ UNCHANGED <<process, out, err, draining, got>>

\* The end of stdout, once the process is gone and its pipe is empty.
EndOfOutput ==
    /\ pc = "reading" /\ out = <<>> /\ status \in {"ok", "failed"}
    /\ pc' = "waiting"
    /\ UNCHANGED <<process, out, err, draining, got>>

ReadFails ==
    /\ pc = "reading" /\ pc' = "failed"
    /\ UNCHANGED <<process, out, err, draining, got>>

Wait ==
    /\ pc = "waiting" /\ status \in {"ok", "failed"}
    /\ pc' = "joining"
    /\ UNCHANGED <<process, out, err, draining, got>>

Join ==
    /\ pc = "joining" /\ ~draining
    /\ pc' = "returned"
    /\ UNCHANGED <<process, out, err, draining, got>>

\* Mutant: stderr is read only once stdout has ended.
DrainAfterOutput ==
    /\ draining /\ err > 0 /\ pc # "reading"
    /\ err' = err - 1
    /\ UNCHANGED <<process, out, pc, draining, got>>

\* The thread on stderr.
Drain ==
    /\ draining /\ err > 0
    /\ err' = err - 1
    /\ UNCHANGED <<process, out, pc, draining, got>>

EndOfErrors ==
    /\ draining /\ err = 0 /\ status \in {"ok", "failed"}
    /\ draining' = FALSE
    /\ UNCHANGED <<process, out, err, pc, got>>

-----------------------------------------------------------------------------
Process == WriteOut \/ WriteErr \/ Exit \/ Abort
Reader == SpawnFails \/ Spawn \/ Read \/ EndOfOutput \/ ReadFails \/ Wait \/ Join
Drainer == Drain \/ EndOfErrors

StreamNext == Process \/ Reader \/ Drainer

StreamSpec == StreamInit /\ [][StreamNext]_streamVars

\* stdout is what it is, whole and in order: the sink has had what was written
\* but for what is in the pipe; and once the command has returned with success
\* the sink has had everything the command had to say, so that an answer is
\* never a truncated one (graph.rs, "A refused or interrupted query wrote a
\* truncated stream").
StreamIsWhole ==
    /\ written = got \o out
    /\ pc \in {"waiting", "joining", "returned"} => got = written
    /\ pc = "returned" /\ status = "ok" => output = <<>>
=============================================================================
