----------------------------- MODULE HttpPoster -----------------------------
(* One export over HTTP: HttpPoster::post_with_retry (exporter/http.rs)     *)
(* with the full-jitter backoff of exporter/retry.rs, against a collector   *)
(* behind a network that loses, delays and answers requests late.  A        *)
(* request the client has given up on may still arrive, so a batch may be   *)
(* stored more than once.                                                   *)
EXTENDS Integers, Sequences, FiniteSets

CONSTANTS
  MaxRetries,  \* Backoff::max_retries, 2 in the code
  Base,        \* Backoff::base, 100 ms in the code
  Cap,         \* Backoff::cap, 5 s in the code
  WordBits     \* width of the u32 that holds the multiplier

ASSUME BackoffAssumption ==
  MaxRetries \in Nat /\ Base \in Nat /\ Cap \in Nat /\ WordBits \in Nat

VARIABLES
  phase,     \* control state of post_with_retry
  attempt,   \* failed attempts so far
  delay,     \* the delay the client sleeps
  requests,  \* state of every request sent, in order
  seen,      \* history: what the client learnt of every request
  stored,    \* history: the requests whose body the collector stored
  slept      \* history: time slept so far

client == <<phase, attempt, delay, seen, slept>>
vars   == <<client, requests, stored>>

\* Status classes: 2xx, 429, 5xx, and all the others.
Statuses == {"success", "tooMany", "serverError", "rejected"}
Finished == {"ok", "rejected", "gaveUp"}

Min2(a, b) == IF a <= b THEN a ELSE b

-----------------------------------------------------------------------------
(* Backoff::delay_for.                                                      *)

\* Mutants: one retry too many, and one too few.
MayRetryOnceMore(n) == n <= MaxRetries + 1
MayRetryOnceLess(n) == n < MaxRetries

MayRetry(n) == n # 0 /\ n <= MaxRetries

\* 1u32.checked_shl(n - 1), saturating.
Multiplier(n) == IF n - 1 < WordBits THEN 2^(n - 1) ELSE 2^WordBits - 1

\* Mutant: the cap is forgotten.
UncappedCeiling(n) == Base * Multiplier(n)

Ceiling(n) == Min2(Base * Multiplier(n), Cap)

-----------------------------------------------------------------------------
(* The client.                                                              *)

\* Mutants: every status but 5xx is a success; every status may be retried.
LaxDisposition(status) ==
  IF status = "serverError" THEN "retryable" ELSE "success"
EagerDisposition(status) ==
  IF status = "success" THEN "success" ELSE "retryable"

\* send_once classifies the answer.
Disposition(status) ==
  CASE status = "success"                    -> "success"
    [] status \in {"serverError", "tooMany"} -> "retryable"
    [] status = "rejected"                   -> "permanent"

\* The loop after a retryable outcome: sleep a jittered delay, or give up.
Retry ==
  /\ attempt' = attempt + 1
  /\ IF MayRetry(attempt')
     THEN phase' = "sleeping" /\ delay' \in 0..Ceiling(attempt')
     ELSE phase' = "gaveUp" /\ UNCHANGED delay

Send ==
  /\ phase = "ready" /\ phase' = "waiting"
  /\ requests' = Append(requests, "travelling")
  /\ UNCHANGED <<attempt, delay, seen, slept, stored>>

\* The answer to the current request arrives in time.
ReadAnswer ==
  LET status == requests[Len(requests)] IN
  /\ phase = "waiting" /\ status \in Statuses
  /\ seen' = Append(seen, status)
  /\ CASE Disposition(status) = "success" ->
            phase' = "ok" /\ UNCHANGED <<attempt, delay>>
       [] Disposition(status) = "permanent" ->
            phase' = "rejected" /\ UNCHANGED <<attempt, delay>>
       [] Disposition(status) = "retryable" -> Retry
  /\ UNCHANGED <<requests, slept, stored>>

\* Mutant: a client without a timeout only notices a broken connection.
NoTimeout ==
  /\ phase = "waiting" /\ requests[Len(requests)] = "lost"
  /\ seen' = Append(seen, "error")
  /\ Retry
  /\ UNCHANGED <<requests, slept, stored>>

\* A transport error, or EXPORT_TIMEOUT: retryable, whatever became of the
\* request.
TransportError ==
  /\ phase = "waiting"
  /\ seen' = Append(seen, "error")
  /\ Retry
  /\ UNCHANGED <<requests, slept, stored>>

Wake ==
  /\ phase = "sleeping" /\ phase' = "ready"
  /\ slept' = slept + delay
  /\ UNCHANGED <<attempt, delay, seen, requests, stored>>

-----------------------------------------------------------------------------
(* The network and the collector.                                           *)

\* A request is processed and answered, even after the client stopped waiting
\* for it.  A 2xx means the body was stored; a server error may hide that it
\* was.
Process(k) ==
  /\ requests[k] = "travelling"
  /\ \E status \in Statuses :
       /\ requests' = [requests EXCEPT ![k] = status]
       /\ stored' \in CASE status = "success"     -> {stored \cup {k}}
                        [] status = "serverError" -> {stored, stored \cup {k}}
                        [] OTHER                  -> {stored}
  /\ UNCHANGED client

Lose(k) ==
  /\ requests[k] = "travelling"
  /\ requests' = [requests EXCEPT ![k] = "lost"]
  /\ UNCHANGED <<client, stored>>

Init ==
  /\ phase = "ready" /\ attempt = 0 /\ delay = 0 /\ slept = 0
  /\ requests = <<>> /\ seen = <<>> /\ stored = {}

Next ==
  \/ Send \/ ReadAnswer \/ TransportError \/ Wake
  \/ \E k \in DOMAIN requests : Process(k) \/ Lose(k)

Spec == Init /\ [][Next]_vars

-----------------------------------------------------------------------------
(* Properties.                                                              *)

\* The counter stays within the retry budget and a delay within the cap.
TypeOK ==
  /\ phase \in {"ready", "waiting", "sleeping"} \cup Finished
  /\ attempt \in 0..MaxRetries + 1
  /\ delay \in 0..Cap
  /\ requests \in Seq(Statuses \cup {"travelling", "lost"})
  /\ seen \in Seq(Statuses \cup {"error"})
  /\ stored \subseteq DOMAIN requests
  /\ slept \in Nat

\* export returns Ok only for a batch the collector has stored; flush counts
\* on it when it forgets the batch.
OkMeansStored == phase = "ok" => stored # {}

\* A body is sent again only after an outcome the policy calls transient: never
\* after a success, never after a definitive rejection (http.rs:28).
ResentOnlyIfTransient ==
  \A k \in 1..Len(requests) : k < Len(requests) =>
     k <= Len(seen) /\ seen[k] \in {"error", "serverError", "tooMany"}

\* An export gives up exactly when the first attempt and every retry were used
\* and all of them failed for a transient reason; it never sends more.
GivesUpWhenSpent ==
  /\ Len(requests) <= MaxRetries + 1
  /\ phase = "gaveUp" =>
       /\ Len(requests) = MaxRetries + 1
       /\ \A k \in 1..Len(seen) : seen[k] \notin {"success", "rejected"}

\* The time an export spends between attempts is bounded by the capped
\* exponential series of retry.rs:9, whatever the jitter.
BackoffBudget ==
  slept <= Min2(MaxRetries * Cap, Base * (2^MaxRetries - 1))

-----------------------------------------------------------------------------
(* The inductive invariant.                                                 *)

Transient == {"error", "serverError", "tooMany"}

\* Every request but the last has had its outcome, and the counter counts the
\* transient ones; a client that gave up has counted all it may.
AttemptsCounted ==
  /\ Len(requests) = IF phase \in {"ready", "sleeping", "gaveUp"}
                     THEN attempt ELSE attempt + 1
  /\ Len(seen) = IF phase \in {"ok", "rejected"} THEN attempt + 1 ELSE attempt
  /\ IF phase = "gaveUp" THEN attempt = MaxRetries + 1 ELSE attempt <= MaxRetries
  /\ \A k \in 1..attempt : seen[k] \in Transient

\* A request that was answered with success has been stored; a client that
\* returned Ok read such an answer.
SuccessStored ==
  /\ \A k \in 1..Len(requests) : requests[k] = "success" => k \in stored
  /\ phase = "ok" => requests[Len(requests)] = "success"

\* How many delays lie behind the client.
Sleeps == IF phase \in {"sleeping", "gaveUp"} THEN attempt - 1 ELSE attempt

\* The time slept is within the series up to the delays slept, and the delay
\* being slept is within its own ceiling.
SleptWithinSeries ==
  /\ phase = "sleeping" => attempt > 0 /\ delay <= Ceiling(attempt)
  /\ slept <= Sleeps * Cap
  /\ slept <= Base * (2^Sleeps - 1)

IInv == TypeOK /\ AttemptsCounted /\ SuccessStored /\ SleptWithinSeries

-----------------------------------------------------------------------------
(* Fairness and liveness.                                                   *)

\* The runtime polls the task, time passes, and the client's own timeout ends
\* an attempt nobody answers.
FairSpec ==
  Spec /\ WF_vars(Send) /\ WF_vars(ReadAnswer \/ TransportError) /\ WF_vars(Wake)

\* An export always comes to an end, however the collector behaves: the worker
\* is never stuck in flush for ever.
PostReturns == <>(phase \in Finished)
=============================================================================
