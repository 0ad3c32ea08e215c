---------------------------- MODULE BoundedCapture ----------------------------
(* What a bounded capture promises those who run a command under it, without *)
(* pipes, goroutines, timers, tails and the order of two bounds: an answer   *)
(* that is either incomplete and says nothing, or exact.                     *)
EXTENDS Integers

Streams == {"out", "err"}

VARIABLES
  stage,    \* how far the call is
  limit,    \* the smaller of the limits it is under
  late,     \* its deadline has passed
  open,     \* the streams someone may still write to
  sent,     \* bytes written to each stream
  sure,     \* nothing has made the capture doubtful yet
  answer    \* what the call returns: its kind, and bytes of each stream

promise == <<stage, limit, late, open, sent, sure, answer>>

Empty == [s \in Streams |-> 0]
Total(counts) == counts["out"] + counts["err"]
Least(a, b) == IF a <= b THEN a ELSE b

Init ==
  /\ stage = "new"
  /\ limit \in Nat \ {0}
  /\ late = FALSE
  /\ open = {}
  /\ sent = Empty
  /\ sure = FALSE
  /\ answer = [kind |-> "none", size |-> Empty]

\* Together the streams fill the limit, and neither is pushed below its half.
Fair(size) ==
  /\ Total(size) = Least(Total(sent), limit)
  /\ \A s \in Streams : size[s] \in Least(sent[s], limit \div 2) .. sent[s]

-----------------------------------------------------------------------------
\* A command starts only before the deadline.
Start ==
  /\ stage = "new" /\ ~late
  /\ stage' = "running"
  /\ open' = Streams
  /\ UNCHANGED <<limit, late, sent, sure, answer>>

Expire ==
  /\ ~late
  /\ late' = TRUE
  /\ UNCHANGED <<stage, limit, open, sent, sure, answer>>

\* The command, and what it leaves behind, write when they like and for as long
\* as they hold a stream, whether or not the call has returned.
Write(s) ==
  /\ s \in open
  /\ sent' = [sent EXCEPT ![s] = @ + 1]
  /\ UNCHANGED <<stage, limit, late, open, sure, answer>>

Close ==
  /\ open' \in SUBSET open
  /\ UNCHANGED <<stage, limit, late, sent, sure, answer>>

\* The command has been waited for; late is late.
Reap ==
  /\ stage = "running"
  /\ stage' = "reaped"
  /\ sure' \in BOOLEAN /\ (sure' => ~late)
  /\ UNCHANGED <<limit, late, open, sent, answer>>

\* A stream did not end in time.
Doubt ==
  /\ stage = "reaped"
  /\ sure' = FALSE
  /\ UNCHANGED <<stage, limit, late, open, sent, answer>>

\* All that was written, or fair ends of it and the remark that it was more than
\* the limit; in either case nothing can be written any more.
Complete(a) ==
  /\ open = {} /\ Fair(a.size)
  /\ a.kind = IF Total(sent) > limit THEN "limit" ELSE "whole"

Return ==
  /\ stage \in {"new", "reaped"}
  /\ stage' = "returned"
  /\ \/ /\ stage = "reaped"
        /\ answer' = [kind |-> "incomplete", size |-> Empty]
     \/ /\ stage = "new" \/ sure
        /\ Complete(answer')
  /\ UNCHANGED <<limit, late, open, sent, sure>>

Next ==
  \/ Start \/ Expire \/ Close \/ Reap \/ Doubt \/ Return
  \/ \E s \in Streams : Write(s)

Spec == Init /\ [][Next]_promise
=============================================================================
