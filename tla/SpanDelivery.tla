---------------------------- MODULE SpanDelivery ----------------------------
(***************************************************************************)
(* What the export pipeline promises, without channel, worker or timers:   *)
(* a span that is sent is ignored, refused and counted, or queued; queued  *)
(* spans are settled oldest first, a group at a time; once the queue is    *)
(* closed it takes nothing more; and a shutdown call that waited for the   *)
(* worker reports success only when the queue is closed and every queued   *)
(* span has been settled.                                                  *)
(***************************************************************************)
EXTENDS Naturals, Sequences, Functions

CONSTANTS Spans, Callers, MaxGroup

VARIABLES
  fate,     \* what became of every span
  queue,    \* accepted spans that are not settled, oldest first
  open,     \* TRUE while the queue accepts spans
  refused,  \* how many spans were refused
  answer    \* what every shutdown call answered

vars == <<fate, queue, open, refused, answer>>

Init ==
  /\ fate = [s \in Spans |-> "open"]
  /\ queue = <<>>
  /\ open \in BOOLEAN
  /\ refused = 0
  /\ answer = [c \in Callers |-> "none"]

Ignore(s) ==
  /\ fate[s] = "open"
  /\ fate' = [fate EXCEPT ![s] = "ignored"]
  /\ UNCHANGED <<queue, open, refused, answer>>

Refuse(s) ==
  /\ fate[s] = "open"
  /\ fate' = [fate EXCEPT ![s] = "dropped"]
  /\ refused' = refused + 1
  /\ UNCHANGED <<queue, open, answer>>

Accept(s) ==
  /\ open
  /\ fate[s] = "open"
  /\ fate' = [fate EXCEPT ![s] = "accepted"]
  /\ queue' = Append(queue, s)
  /\ UNCHANGED <<open, refused, answer>>

\* The n oldest spans of the queue are exported, or lost to a failed export.
Settle(n, outcome) ==
  /\ fate' = [s \in Spans |->
               IF s \in Range(SubSeq(queue, 1, n)) THEN outcome ELSE fate[s]]
  /\ queue' = SubSeq(queue, n + 1, Len(queue))
  /\ UNCHANGED <<open, refused, answer>>

Close ==
  /\ open
  /\ open' = FALSE
  /\ UNCHANGED <<fate, queue, refused, answer>>

\* The worker dies: whatever is queued is lost.
Crash ==
  /\ open' = FALSE
  /\ fate' = [s \in Spans |-> IF s \in Range(queue) THEN "discarded"
                                                   ELSE fate[s]]
  /\ queue' = <<>>
  /\ UNCHANGED <<refused, answer>>

Answer(c, a) ==
  /\ answer[c] = "none"
  /\ a = "flushed" => ~open /\ queue = <<>>
  /\ answer' = [answer EXCEPT ![c] = a]
  /\ UNCHANGED <<fate, queue, open, refused>>

Next ==
  \/ \E s \in Spans : Ignore(s) \/ Refuse(s) \/ Accept(s)
  \/ \E n \in 1..MaxGroup, outcome \in {"exported", "failed"} :
       n <= Len(queue) /\ Settle(n, outcome)
  \/ Close
  \/ Crash
  \/ \E c \in Callers, a \in {"noop", "flushed", "panicked", "timedOut",
                              "cancelled"} : Answer(c, a)

Spec == Init /\ [][Next]_vars
=============================================================================
