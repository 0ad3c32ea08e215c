--------------------------- MODULE ProcessCapture ---------------------------
(***************************************************************************)
(* container/process_output.go: runBoundedProcess, which runs a command    *)
(* under a deadline and keeps the last bytes of its two output streams,    *)
(* and boundRunnerOutput, which bounds what a runner returned once more.   *)
(*                                                                         *)
(* Two goroutines copy the pipes into one capture.  The command can start  *)
(* a process that outlives it and holds its streams; the deadline, the end *)
(* of the command, the ends of the streams and the drain timer race.       *)
(*                                                                         *)
(* A byte is its position in its stream, so what a tail holds shows where  *)
(* it was taken from.                                                      *)
(***************************************************************************)
EXTENDS Integers, Sequences

CONSTANTS
  Limits,    \* effective output limits: the runner's and the caller's
  Supply,    \* bound: bytes written to one stream
  Capacity   \* bytes a pipe holds

ASSUME CaptureAssumption ==
  /\ Limits \subseteq Nat \ {0}
  /\ Supply \in Nat
  /\ Capacity \in Nat \ {0}

Streams == {"out", "err"}
Writers == {"command", "heir"}
NoBytes == [s \in Streams |-> <<>>]
NoCount == [s \in Streams |-> 0]
Nothing == [kind |-> "none", bytes |-> NoBytes, count |-> NoCount]

VARIABLES
  pc,        \* the calling goroutine
  limit,     \* the runner's limit and that of boundRunnerOutput
  expired,   \* ctx.Err() # nil
  alive,     \* external: the command and a process it left behind
  holds,     \* external: who holds the write end of each stream
  sent,      \* external: bytes written to each stream
  buffer,    \* bytes each drain has read and not yet handed to the capture
  tail,      \* capture: the rolling tails
  original,  \* capture: the byte counts
  drain,     \* the result of each drain goroutine
  taken,     \* results received from the channel
  timer,     \* the drain timer
  complete,  \* runBoundedProcess's verdict
  result     \* what the call returns: kind, bytes and byte counts

process == <<alive, holds, sent>>
capture == <<tail, original>>
vars    == <<pc, limit, expired, alive, holds, sent, buffer, tail, original,
             drain, taken, timer, complete, result>>

\* n bytes of a stream, up to the one at position last.
UpTo(last, n) == [i \in 1 .. n |-> last - n + i]

\* What a tail and a returned stream hold.
Bytes == UNION {{UpTo(last, n) : n \in 0 .. last} : last \in 0 .. Supply}

TypeOK ==
  /\ pc \in {"start", "wait", "drain", "bound", "done"}
  /\ limit \in [runner : Limits, caller : Limits]
  /\ expired \in BOOLEAN
  /\ alive \in SUBSET Writers
  /\ holds \in [Streams -> SUBSET Writers]
  /\ sent \in [Streams -> 0 .. Supply]
  /\ buffer \in [Streams -> 0 .. Supply]
  /\ tail \in [Streams -> Bytes]
  /\ original \in [Streams -> 0 .. Supply]
  /\ drain \in [Streams -> {"idle", "copying", "eof", "closed"}]
  /\ taken \in SUBSET Streams
  /\ timer \in {"unset", "running", "fired"}
  /\ complete \in BOOLEAN
  /\ result \in [kind  : {"none", "whole", "limit", "incomplete"},
                 bytes : [Streams -> Bytes],
                 count : [Streams -> 0 .. Supply]]

-----------------------------------------------------------------------------
(* The definitions whose comment says "Mutant" are what the code does not  *)
(* do: each stands before the definition it replaces to show that a        *)
(* property of a run would notice.                                         *)

Least(a, b)   == IF a <= b THEN a ELSE b
LastOf(q, n)  == SubSeq(q, Len(q) - n + 1, Len(q))
Total(counts) == counts["out"] + counts["err"]

\* Mutant of Kept: room for p is made at the wrong end.
KeptOldest(old, p, max) ==
  IF Len(p) >= max THEN LastOf(p, max) ELSE SubSeq(old, 1, Least(Len(old), max - Len(p))) \o p

\* processCaptureWriter.Write: the tail after p was written to it.
Kept(old, p, max) ==
  IF Len(p) >= max THEN LastOf(p, max) ELSE LastOf(old, Least(Len(old), max - Len(p))) \o p

\* Mutant of Share: what one stream leaves unused is lost.
HalfEach(a, b, max) == [s \in Streams |-> IF s = "out" THEN Least(a, max \div 2)
                                          ELSE Least(b, max - max \div 2)]

\* processCapture.result: how many bytes of tails of a and b bytes are kept.
Share(a, b, max) ==
  LET x     == Least(a, max \div 2)
      y     == Least(b, max - max \div 2)
      extra == Least(max - x - y, a - x)
      both  == [out |-> x + extra, err |-> y + Least(max - x - y - extra, b - y)]
  IN  IF a + b > max THEN both ELSE [out |-> a, err |-> b]

Rebalanced(tails, max) ==
  LET share == Share(Len(tails["out"]), Len(tails["err"]), max) IN
  [s \in Streams |-> LastOf(tails[s], share[s])]

Exceeds(counts, max) == Total(counts) > max

-----------------------------------------------------------------------------
Init ==
  /\ pc = "start"
  /\ limit \in [runner : Limits, caller : Limits]
  /\ expired = FALSE
  /\ alive = {}
  /\ holds = [s \in Streams |-> {}]
  /\ sent = NoCount
  /\ buffer = NoCount
  /\ tail = NoBytes
  /\ original = NoCount
  /\ drain = [s \in Streams |-> "idle"]
  /\ taken = {}
  /\ timer = "unset"
  /\ complete = FALSE
  /\ result = Nothing

(* The command and what it leaves behind.                                  *)

\* The read ends are open until the drain timer closes them.
Pending(s) == sent[s] - original[s] - buffer[s]

Emits(w, s) ==
  /\ w \in holds[s]
  /\ timer # "fired"
  /\ sent[s] < Supply /\ Pending(s) < Capacity
  /\ sent' = [sent EXCEPT ![s] = @ + 1]
  /\ UNCHANGED <<pc, limit, expired, alive, holds, buffer, capture, drain,
                 taken, timer, complete, result>>

ClosesStream(w, s) ==
  /\ w \in holds[s]
  /\ holds' = [holds EXCEPT ![s] = @ \ {w}]
  /\ UNCHANGED <<pc, limit, expired, alive, sent, buffer, capture, drain,
                 taken, timer, complete, result>>

LeavesHeir ==
  /\ "command" \in alive /\ "heir" \notin alive
  /\ alive' = Writers
  /\ holds' = [s \in Streams |-> IF "command" \in holds[s] THEN Writers ELSE holds[s]]
  /\ UNCHANGED <<pc, limit, expired, sent, buffer, capture, drain, taken,
                 timer, complete, result>>

Ends(w) ==
  /\ w \in alive
  /\ alive' = alive \ {w}
  /\ holds' = [s \in Streams |-> holds[s] \ {w}]
  /\ UNCHANGED <<pc, limit, expired, sent, buffer, capture, drain, taken,
                 timer, complete, result>>

\* The context is done: its deadline, a minute if the caller set none, or a
\* cancellation.  exec kills the command, not what the command started.
Expire ==
  /\ ~expired
  /\ expired' = TRUE
  /\ UNCHANGED <<pc, limit, process, buffer, capture, drain, taken, timer,
                 complete, result>>

Kill == expired /\ Ends("command")

-----------------------------------------------------------------------------
(* The calling goroutine, the two drains and the timer.                    *)

\* The pipes are made and the command starts; exec starts nothing when the
\* context is done.
StartCommand ==
  /\ pc = "start" /\ ~expired
  /\ alive' = {"command"}
  /\ holds' = [s \in Streams |-> {"command"}]
  /\ drain' = [s \in Streams |-> "copying"]
  /\ pc' = "wait"
  /\ UNCHANGED <<limit, expired, sent, buffer, capture, taken, timer, complete,
                 result>>

StartFails ==
  /\ pc = "start"
  /\ result' = [Nothing EXCEPT !.kind = "whole"]
  /\ pc' = "bound"
  /\ UNCHANGED <<limit, expired, process, buffer, capture, drain, taken, timer,
                 complete>>

\* Mutant of Readable: once the tail is full the pipe is left alone.
ReadableBelowLimit(s) == Pending(s) > 0 /\ original[s] < limit.runner

Readable(s) == Pending(s) > 0

\* io.Copy takes what is there, at most its buffer ...
ReadsPipe(s) ==
  /\ drain[s] = "copying" /\ buffer[s] = 0
  /\ timer # "fired"
  /\ Readable(s)
  /\ \E n \in 1 .. Pending(s) : buffer' = [buffer EXCEPT ![s] = n]
  /\ UNCHANGED <<pc, limit, expired, process, capture, drain, taken, timer,
                 complete, result>>

\* ... and hands it to the capture.
WritesCapture(s) ==
  /\ buffer[s] > 0
  /\ tail' = [tail EXCEPT ![s] =
                Kept(@, UpTo(original[s] + buffer[s], buffer[s]), limit.runner)]
  /\ original' = [original EXCEPT ![s] = @ + buffer[s]]
  /\ buffer' = [buffer EXCEPT ![s] = 0]
  /\ UNCHANGED <<pc, limit, expired, process, drain, taken, timer, complete,
                 result>>

\* Mutant of AtEof: the command is gone, so its streams are over.
CommandGone(s) == Pending(s) = 0 /\ "command" \notin holds[s]

AtEof(s) == Pending(s) = 0 /\ holds[s] = {}

EndsDrain(s) ==
  /\ drain[s] = "copying" /\ buffer[s] = 0
  /\ \/ /\ timer = "fired"
        /\ drain' = [drain EXCEPT ![s] = "closed"]
     \/ /\ timer # "fired" /\ AtEof(s)
        /\ drain' = [drain EXCEPT ![s] = "eof"]
  /\ UNCHANGED <<pc, limit, expired, process, buffer, capture, taken, timer,
                 complete, result>>

\* cmd.Wait.  ErrWaitDelay is about standard input: a process left behind can
\* keep exec's copy of it waiting.
WaitReturns ==
  /\ pc = "wait" /\ "command" \notin alive
  /\ \E delayed \in BOOLEAN :
       /\ delayed => "heir" \in alive
       /\ complete' = (~expired /\ ~delayed)
  /\ timer' = "running"
  /\ pc' = "drain"
  /\ UNCHANGED <<limit, expired, process, buffer, capture, drain, taken, result>>

TakesDrain(s) ==
  /\ pc = "drain"
  /\ drain[s] \in {"eof", "closed"} /\ s \notin taken
  /\ taken' = taken \cup {s}
  /\ complete' = (complete /\ drain[s] = "eof")
  /\ UNCHANGED <<pc, limit, expired, process, buffer, capture, drain, timer,
                 result>>

\* Mutant of Overdue: the timer is looked at after a first drain has ended.
OverdueOnceOneEnded == timer = "running" /\ taken # {} /\ taken # Streams

Overdue == timer = "running" /\ taken # Streams

TimerFires ==
  /\ pc = "drain" /\ Overdue
  /\ timer' = "fired"
  /\ complete' = FALSE
  /\ UNCHANGED <<pc, limit, expired, process, buffer, capture, drain, taken,
                 result>>

\* Mutant of Drained: the timer ends the loop.
DrainedOrOverdue == taken = Streams \/ timer = "fired"

Drained == taken = Streams

Collect ==
  /\ pc = "drain" /\ Drained
  /\ result' =
       IF ~complete THEN [kind |-> "incomplete", bytes |-> NoBytes, count |-> original]
       ELSE [kind  |-> IF Exceeds(original, limit.runner) THEN "limit" ELSE "whole",
             bytes |-> Rebalanced(tail, limit.runner),
             count |-> original]
  /\ pc' = "bound"
  /\ UNCHANGED <<limit, expired, process, buffer, capture, drain, taken, timer,
                 complete>>

\* The counts a later reader goes by: those of the metadata, if there is any.
CountOf(r) == IF r.kind = "limit" THEN r.count
              ELSE [s \in Streams |-> Len(r.bytes[s])]

\* boundRunnerOutput: an incomplete capture passes through; the rest is kept,
\* and shared out, as by a capture with the caller's limit.
BoundRunnerOutput ==
  /\ pc = "bound"
  /\ result' =
       IF result.kind = "incomplete" THEN result
       ELSE LET kept == [s \in Streams |-> Kept(<<>>, result.bytes[s], limit.caller)] IN
            [kind  |-> IF Exceeds(CountOf(result), limit.caller) THEN "limit" ELSE result.kind,
             bytes |-> Rebalanced(kept, limit.caller),
             count |-> CountOf(result)]
  /\ pc' = "done"
  /\ UNCHANGED <<limit, expired, process, buffer, capture, drain, taken, timer,
                 complete>>

\* Nothing more happens to the call.
Quiet == pc = "done" /\ UNCHANGED vars

Drains(s) == ReadsPipe(s) \/ WritesCapture(s) \/ EndsDrain(s)

Caller == \/ StartCommand \/ StartFails
          \/ WaitReturns
          \/ \E s \in Streams : TakesDrain(s)
          \/ Collect
          \/ BoundRunnerOutput

Next ==
  \/ Caller \/ TimerFires \/ Expire \/ Kill \/ LeavesHeir \/ Quiet
  \/ \E s \in Streams : Drains(s)
  \/ \E w \in Writers : Ends(w)
  \/ \E w \in Writers, s \in Streams : Emits(w, s) \/ ClosesStream(w, s)

Spec == Init /\ [][Next]_vars

\* Goroutines run, timers fire and a kill arrives.  Neither the command nor
\* what it leaves behind need ever end, write or close anything.
Fairness ==
  /\ WF_vars(Caller) /\ WF_vars(TimerFires) /\ WF_vars(Kill)
  /\ \A s \in Streams : WF_vars(Drains(s))

FairSpec == Spec /\ Fairness

-----------------------------------------------------------------------------
(* Properties.                                                             *)

Returned == pc \in {"bound", "done"} /\ result.kind # "incomplete"

\* OutputCaptureMetadata's comment: a capture that is reported complete has
\* both streams to their ends, so its counts are exact and stay exact, although
\* a process the command left behind may have held the streams.
CompleteIsExact ==
  Returned => \A s \in Streams : holds[s] = {} /\ result.count[s] = sent[s]

\* Write and result: what is returned of a stream is its end, in order and
\* without a gap, however the reads were cut and the two limits differ.
ReturnsStreamEnds ==
  Returned => \A s \in Streams :
    result.bytes[s] = UpTo(sent[s], Len(result.bytes[s]))

\* result and boundRunnerOutput: the smaller limit is kept, no byte of it is
\* wasted, and neither stream pushes the other below its half.
SharesTheLimit ==
  pc = "done" /\ result.kind # "incomplete" =>
    LET max  == Least(limit.runner, limit.caller)
        size == [s \in Streams |-> Len(result.bytes[s])]
    IN  /\ Total(size) = Least(Total(sent), max)
        /\ \A s \in Streams : size[s] >= Least(sent[s], max \div 2)

\* boundRunnerOutput and Run: a result without metadata is all the command
\* wrote; one that was cut by either limit says so.
CutIsReported ==
  pc = "done" /\ result.kind = "whole" =>
    \A s \in Streams : Len(result.bytes[s]) = sent[s]

\* runBoundedProcess: when the call has taken its result no drain adds to the
\* capture any more.
NoLateBytes == [][UNCHANGED capture \/ pc \notin {"bound", "done"}]_vars

\* The comment on processCapture: writers always drain, so a command that
\* exceeds the limit never waits for room in its pipe.
WritersNeverBlock ==
  \A s \in Streams : Pending(s) = Capacity ~> Pending(s) < Capacity \/ timer = "fired"

\* runBoundedProcess: a call returns once its context or its command is over,
\* whoever holds the streams then.
EveryCaptureReturns ==
  pc = "wait" /\ (expired \/ "command" \notin alive) ~> pc = "done"
=============================================================================
