----------------------------- MODULE GraphQuery -----------------------------
(***************************************************************************)
(* The query of the graph (query, src/src/graph.rs): Bazel's answer is a   *)
(* sequence of messages, each behind its length, and is decoded as the     *)
(* chunks of it arrive.                                                    *)
(*                                                                         *)
(* A byte of a length has Base values and, above them, those of a byte     *)
(* that another one follows (Base is 128 in the code, and a length has at  *)
(* most MaxVarint bytes, 10 in the code).                                  *)
(***************************************************************************)
EXTENDS BazelStream, FiniteSetsExt

CONSTANTS
    Base,           \* values of a byte of a length
    MaxVarint,      \* bytes of a length, at most
    Declared        \* what a message declares: a target, or one of these

NoTarget == "no target"         \* not a rule, or one that has no place
Malformed == "malformed"        \* not a message

ASSUME QueryAssumption ==
    /\ Base \in Nat \ {0, 1} /\ MaxVarint \in Nat \ {0} /\ Byte = 0 .. 2 * Base - 1

VARIABLES
    pending,        \* Decoder: bytes of messages that have not arrived whole
    tier,           \* Decoder: the targets so far
    failed,         \* Decoder: whether something went wrong
    answer          \* what query returned

decoder == <<pending, tier, failed>>
vars == <<streamVars, decoder, answer>>

-----------------------------------------------------------------------------
(***************************************************************************)
(* Decoder.                                                                *)
(***************************************************************************)
\* decode_length_delimiter: the bytes of the length, 0 if they do not end.
Header(bytes) ==
    LET ends == {i \in DOMAIN bytes : i <= MaxVarint /\ bytes[i] < Base}
    IN  IF ends = {} THEN 0 ELSE Min(ends)

Rest(bytes, n) == SubSeq(bytes, n + 1, Len(bytes))

\* The number whose digits those bytes are, the lowest first.
Number(digits) ==
    LET from[i \in 0 .. Len(digits)] ==
            IF i = Len(digits) THEN 0 ELSE (digits[i + 1] % Base) + Base * from[i + 1]
    IN  from[0]

Length(bytes) == Number(SubSeq(bytes, 1, Header(bytes)))

Extent(bytes) == Header(bytes) + Length(bytes)

Message(bytes) == SubSeq(bytes, Header(bytes) + 1, Extent(bytes))

State(left, targets, wrong) == [pending |-> left, tier |-> targets, failed |-> wrong]

Adding(s, targets) == [s EXCEPT !.tier = @ \cup targets]

\* Whether a message has arrived whole.
Arrived(bytes) == Header(bytes) > 0 /\ Extent(bytes) <= Len(bytes)

Declares(bytes) == {Declared[Message(bytes)]} \ {NoTarget}

\* Mutant: a length that has not arrived whole is taken for one that is malformed.
WrongHastily(bytes, eof) ==
    \/ bytes # <<>> /\ Header(bytes) = 0
    \/ Arrived(bytes) /\ Declared[Message(bytes)] = Malformed

\* The errors of Decoder::drain: no length where one should be, no message behind it.
Wrong(bytes, eof) ==
    \/ bytes # <<>> /\ Header(bytes) = 0 /\ (eof \/ Len(bytes) >= MaxVarint)
    \/ Arrived(bytes) /\ Declared[Message(bytes)] = Malformed

\* Decoder::drain: every message that has arrived whole, up to one that is wrong.
DrainMessages(bytes, targets, eof) ==
    LET from[p \in 0 .. Len(bytes)] ==
            LET rest == Rest(bytes, p)
            IN  IF Arrived(rest) /\ ~Wrong(rest, eof)
                THEN Adding(from[p + Extent(rest)], Declares(rest))
                ELSE State(rest, targets, Wrong(rest, eof))
    IN  from[0]

\* Decoder::push, of the chunk the sink was given.
Push(chunk) ==
    LET next == DrainMessages(pending \o chunk, tier, FALSE)
    IN  IF failed THEN UNCHANGED decoder
        ELSE /\ pending' = next.pending /\ tier' = next.tier /\ failed' = next.failed

\* Decoder::finish.
Finished ==
    LET last == DrainMessages(pending, tier, TRUE)
    IN  IF failed \/ last.failed \/ last.pending # <<>> THEN [says |-> "error", targets |-> {}]
        ELSE [says |-> "tier", targets |-> last.tier]

-----------------------------------------------------------------------------
NoAnswer == [says |-> "none", targets |-> {}]

Init == StreamInit /\ pending = <<>> /\ tier = {} /\ failed = FALSE /\ answer = NoAnswer

ReadChunk == Read /\ Push(Rest(got', Len(got))) /\ UNCHANGED answer

\* query returns: stream_with failed, Bazel did not succeed, or it has answered.
Return ==
    /\ answer = NoAnswer
    /\ \/ pc = "failed" /\ answer' = [says |-> "error", targets |-> {}]
       \/ pc = "returned" /\ status # "ok" /\ answer' = [says |-> "tier", targets |-> {}]
       \/ pc = "returned" /\ status = "ok" /\ answer' = Finished
    /\ UNCHANGED <<streamVars, decoder>>

\* query has returned.
Over == answer # NoAnswer /\ UNCHANGED vars

Alone(step) == step /\ UNCHANGED <<decoder, answer>>

Next ==
    \/ Alone(Process) \/ Alone(Drainer)
    \/ Alone(SpawnFails \/ Spawn \/ EndOfOutput \/ ReadFails \/ Wait \/ Join)
    \/ ReadChunk \/ Return \/ Over

Spec == Init /\ [][Next]_vars

\* The threads run, and so does the process: it writes while there is room and
\* exits in the end.
Fairness ==
    /\ WF_vars(ReadChunk) /\ WF_vars(Return)
    /\ WF_vars(Alone(SpawnFails \/ Spawn \/ EndOfOutput \/ Wait \/ Join))
    /\ WF_vars(Alone(Drainer)) /\ WF_vars(Alone(WriteOut \/ WriteErr \/ Exit))

FairSpec == Spec /\ Fairness

-----------------------------------------------------------------------------
(***************************************************************************)
(* Properties.                                                             *)
(***************************************************************************)
\* The place past the message that starts at p, if it is all there.
Past(bytes, p) ==
    LET rest == Rest(bytes, p)
    IN  IF Arrived(rest) THEN p + Extent(rest) ELSE p

\* The places where the messages of an output start, and where the last one
\* ends: the first, and with each the one past its message.
Starts(bytes) ==
    LET places == 0 .. Len(bytes)
        past   == [p \in places |-> Past(bytes, p)]
        closed == {C \in SUBSET places : 0 \in C /\ \A p \in C : past[p] \in C}
    IN  {p \in places : \A C \in closed : p \in C}

\* What an output says as a whole: what its messages declare, if they lead to its end.
SaysAsAWhole(bytes) ==
    LET starts == Starts(bytes)
        said   == {Declared[Message(Rest(bytes, p))] : p \in starts \ {Len(bytes)}}
    IN  IF Len(bytes) \in starts /\ Malformed \notin said
        THEN [says |-> "tier", targets |-> said \ {NoTarget}]
        ELSE [says |-> "error", targets |-> {}]

\* Decoding an output as its chunks arrive gives the answer of the whole of it,
\* however it is cut into chunks, and gives none of a command that did not
\* succeed: this implements QueryPromise.
Promise == INSTANCE QueryPromise
               WITH written <- written, status <- status, lost <- pc = "failed", answer <- answer,
                    Byte <- Byte, Says <- SaysAsAWhole

AnswersTheWhole == Promise!Spec

\* Every command returns: no pipe is full that nobody reads (bazel.rs, "a child
\* that fills a pipe nobody is reading blocks forever").
CommandReturns == <>(answer # NoAnswer)
=============================================================================
