--------------------------- MODULE HttpPosterProofs ---------------------------
(* Proofs about one export over HTTP, for every retry budget, every backoff *)
(* and every behaviour of the network and the collector.                    *)
EXTENDS HttpPoster, SequenceTheorems, FiniteSetTheorems, TLAPS

USE BackoffAssumption

-----------------------------------------------------------------------------
(* Powers of two.                                                           *)

\* The powers of two count the subsets of an interval, so they are positive
\* natural numbers.
LEMMA PowerIsSubsets ==
  ASSUME NEW n \in Nat
  PROVE  /\ IsFiniteSet(SUBSET (1..n)) /\ Cardinality(SUBSET (1..n)) = 2^n
         /\ 2^n \in Nat /\ 2^n >= 1
<1>1. IsFiniteSet(1..n) /\ Cardinality(1..n) = n
  BY FS_Interval
<1>2. IsFiniteSet(SUBSET (1..n)) /\ Cardinality(SUBSET (1..n)) = 2^n
  BY <1>1, FS_SUBSET
<1>3. Cardinality(SUBSET (1..n)) # 0
  <2>1. {} \in SUBSET (1..n) OBVIOUS
  <2> QED BY <1>2, <2>1, FS_EmptySet
<1> QED BY <1>2, <1>3, FS_CardinalityType

\* A larger exponent gives a larger power.
LEMMA PowerMonotone ==
  ASSUME NEW m \in Nat, NEW n \in Nat, m <= n
  PROVE  2^m <= 2^n
<1>1. SUBSET (1..m) \in SUBSET (SUBSET (1..n)) OBVIOUS
<1>2. Cardinality(SUBSET (1..m)) <= Cardinality(SUBSET (1..n))
  <2>1. IsFiniteSet(SUBSET (1..n)) BY PowerIsSubsets
  <2> QED BY <1>1, <2>1, FS_Subset
<1>3. Cardinality(SUBSET (1..m)) = 2^m BY PowerIsSubsets
<1>4. Cardinality(SUBSET (1..n)) = 2^n BY PowerIsSubsets
<1> QED BY <1>2, <1>3, <1>4

\* The next power is twice the last one: half of the subsets of 1..n + 1 hold
\* the new element, half do not.
LEMMA PowerDoubles ==
  ASSUME NEW n \in Nat
  PROVE  2^(n + 1) = 2^n + 2^n
<1> DEFINE S == SUBSET (1..n)
           T == {A \cup {n + 1} : A \in S}
           f == [A \in S |-> A \cup {n + 1}]
<1>1. \A A \in S : n + 1 \notin A
  OBVIOUS
<1>2. f \in Bijection(S, T)
  <2>1. \A A, B \in S : f[A] = f[B] => A = B
    <3> TAKE A, B \in S
    <3>1. A = (A \cup {n + 1}) \ {n + 1} /\ B = (B \cup {n + 1}) \ {n + 1}
      BY <1>1
    <3> QED BY <3>1
  <2>2. f \in [S -> T] OBVIOUS
  <2>3. \A t \in T : \E s \in S : f[s] = t OBVIOUS
  <2> HIDE DEF S, T, f
  <2> QED BY <2>1, <2>2, <2>3 DEF Bijection, Injection, Surjection, IsInjective
<1>3. IsFiniteSet(T) /\ Cardinality(T) = 2^n
  BY <1>2, PowerIsSubsets, FS_Bijection DEF ExistsBijection
<1>4. S \cap T = {} 
  BY <1>1
<1>5. SUBSET (1..n + 1) = S \cup T
  <2>1. ASSUME NEW A \in SUBSET (1..n + 1), n + 1 \in A PROVE A \in T
    <3>1. A \ {n + 1} \in S BY <2>1
    <3>2. A = (A \ {n + 1}) \cup {n + 1} BY <2>1
    <3> QED BY <3>1, <3>2
  <2>2. ASSUME NEW A \in SUBSET (1..n + 1), n + 1 \notin A PROVE A \in S
    BY <2>2
  <2>3. S \subseteq SUBSET (1..n + 1) OBVIOUS
  <2>4. T \subseteq SUBSET (1..n + 1)
    <3>1. ASSUME NEW A \in S PROVE A \cup {n + 1} \in SUBSET (1..n + 1)
      OBVIOUS
    <3> QED BY <3>1, ZenonT(30)
  <2> HIDE DEF S, T
  <2> QED BY <2>1, <2>2, <2>3, <2>4
<1>6. Cardinality(S \cup T) = 2^n + 2^n
  <2>0. IsFiniteSet(S) /\ Cardinality(S) = 2^n /\ 2^n \in Nat BY PowerIsSubsets
  <2> HIDE DEF S, T
  <2>1. Cardinality(S \cap T) = 0 BY <1>4, FS_EmptySet
  <2>2. Cardinality(S \cup T) = Cardinality(S) + Cardinality(T) - Cardinality(S \cap T)
    BY <1>3, <2>0, FS_Union
  <2> QED BY <1>3, <2>0, <2>1, <2>2
<1>7. n + 1 \in Nat OBVIOUS
<1>8. Cardinality(SUBSET (1..n + 1)) = 2^(n + 1)
  BY <1>7, PowerIsSubsets
<1> QED BY <1>5, <1>6, <1>8

-----------------------------------------------------------------------------
(* The backoff.                                                             *)

\* A delay never exceeds the cap, nor the term of the exponential series it
\* stands for: saturating the multiplier only shortens it.
LEMMA CeilingBounds ==
  ASSUME NEW n \in Nat, n > 0
  PROVE  /\ Ceiling(n) \in Nat
         /\ Ceiling(n) <= Cap
         /\ Ceiling(n) <= Base * 2^(n - 1)
<1>1. n - 1 \in Nat OBVIOUS
<1>2. 2^(n - 1) \in Nat /\ 2^WordBits \in Nat /\ 2^WordBits >= 1
  BY <1>1, PowerIsSubsets
<1>3. Multiplier(n) \in Nat /\ Multiplier(n) <= 2^(n - 1)
  <2>1. CASE n - 1 < WordBits BY <1>2, <2>1 DEF Multiplier
  <2>2. CASE ~(n - 1 < WordBits)
    <3>1. WordBits <= n - 1 BY <2>2
    <3>2. 2^WordBits <= 2^(n - 1) BY <1>1, <3>1, PowerMonotone
    <3> QED BY <1>2, <2>2, <3>2 DEF Multiplier
  <2> QED BY <2>1, <2>2
<1>4. \A b, p, q \in Nat : p <= q => b * p \in Nat /\ b * p <= b * q
  OBVIOUS
<1>5. Base * Multiplier(n) \in Nat /\ Base * Multiplier(n) <= Base * 2^(n - 1)
  BY <1>2, <1>3, <1>4
<1>6. Base * 2^(n - 1) \in Nat BY <1>2, <1>4
<1> QED BY <1>5, <1>6 DEF Ceiling, Min2

\* One more term of the series, and one more delay of at most the cap.
LEMMA SeriesStep ==
  ASSUME NEW n \in Nat, NEW s \in Nat, NEW d \in Nat,
         s <= n * Cap, s <= Base * (2^n - 1),
         d <= Cap, d <= Base * 2^n
  PROVE  /\ s + d <= (n + 1) * Cap
         /\ s + d <= Base * (2^(n + 1) - 1)
<1>1. s + d <= (n + 1) * Cap
  <2>1. (n + 1) * Cap = n * Cap + Cap OBVIOUS
  <2>2. n * Cap \in Nat OBVIOUS
  <2> QED BY <2>1, <2>2
<1>2. s + d <= Base * (2^(n + 1) - 1)
  <2>1. 2^n \in Nat /\ 2^(n + 1) = 2^n + 2^n BY PowerIsSubsets, PowerDoubles
  <2>2. \A b, p \in Nat : /\ b * (p - 1) \in Int /\ b * p \in Nat
                           /\ b * (p - 1) + b * p = b * ((p + p) - 1)
    OBVIOUS
  <2>3. /\ Base * (2^n - 1) \in Int /\ Base * 2^n \in Nat
        /\ Base * (2^n - 1) + Base * 2^n = Base * (2^(n + 1) - 1)
    BY <2>1, <2>2
  <2> QED BY <2>3
<1> QED BY <1>1, <1>2

-----------------------------------------------------------------------------
(* The inductive invariant.                                                 *)

\* Nothing sent, nothing slept.
LEMMA InvInit == Init => IInv
<1> SUFFICES ASSUME Init PROVE IInv
  OBVIOUS
<1>1. /\ <<>> \in Seq(Statuses \cup {"travelling", "lost"})
      /\ <<>> \in Seq(Statuses \cup {"error"}) /\ Len(<<>>) = 0
  BY EmptySeq
<1>2. TypeOK BY <1>1 DEF Init, TypeOK
<1>3. AttemptsCounted BY <1>1 DEF Init, AttemptsCounted
<1>4. SuccessStored BY <1>1 DEF Init, SuccessStored
<1>5. SleptWithinSeries
  <2>1. 2^0 = 1 /\ Base * (1 - 1) = 0 OBVIOUS
  <2> QED BY <2>1 DEF Init, SleptWithinSeries, Sleeps
<1> QED BY <1>2, <1>3, <1>4, <1>5 DEF IInv

\* A new request joins the outcomes of the earlier ones.
LEMMA InvSend == IInv /\ Send => IInv'
<1> SUFFICES ASSUME IInv, Send PROVE IInv'
  OBVIOUS
<1> DEFINE R == Statuses \cup {"travelling", "lost"}
<1>1. /\ requests \in Seq(R) /\ requests' = Append(requests, "travelling")
      /\ requests' \in Seq(R) /\ Len(requests') = Len(requests) + 1
      /\ \A k \in 1..Len(requests) : requests'[k] = requests[k]
      /\ requests'[Len(requests) + 1] = "travelling"
      /\ Len(requests) \in Nat
      /\ DOMAIN requests = 1..Len(requests)
      /\ DOMAIN requests' = 1..Len(requests')
  BY AppendProperties, LenProperties DEF IInv, TypeOK, Send
<1>2. /\ phase = "ready" /\ phase' = "waiting"
      /\ UNCHANGED <<attempt, delay, seen, slept, stored>>
  BY DEF Send
<1>3. TypeOK'
  <2>1. stored' \subseteq DOMAIN requests' BY <1>1, <1>2 DEF IInv, TypeOK
  <2> QED BY <1>1, <1>2, <2>1 DEF IInv, TypeOK
<1>4. AttemptsCounted' BY <1>1, <1>2 DEF IInv, AttemptsCounted
<1>5. SuccessStored'
  BY <1>1, <1>2 DEF IInv, SuccessStored
<1>6. SleptWithinSeries'
  BY <1>2 DEF IInv, SleptWithinSeries, Sleeps
<1> QED BY <1>3, <1>4, <1>5, <1>6 DEF IInv

\* An outcome is added to what the client has seen.
LEMMA Learnt ==
  ASSUME TypeOK, NEW a \in Statuses \cup {"error"}, seen' = Append(seen, a)
  PROVE  /\ seen' \in Seq(Statuses \cup {"error"})
         /\ Len(seen) \in Nat /\ Len(seen') = Len(seen) + 1
         /\ seen'[Len(seen) + 1] = a
         /\ \A k \in 1..Len(seen) : seen'[k] = seen[k]
BY AppendProperties, LenProperties DEF TypeOK

\* A transient outcome: the counter, the budget and the next delay agree,
\* whether the client sleeps or gives up.
LEMMA InvRetry ==
  ASSUME IInv, phase = "waiting", NEW a \in Transient,
         seen' = Append(seen, a), Retry, UNCHANGED <<requests, slept, stored>>
  PROVE  IInv'
<1>1. /\ seen' \in Seq(Statuses \cup {"error"})
      /\ Len(seen) \in Nat /\ Len(seen') = Len(seen) + 1
      /\ seen'[Len(seen) + 1] = a
      /\ \A k \in 1..Len(seen) : seen'[k] = seen[k]
  BY Learnt DEF IInv, Transient, Statuses
<1>2. /\ attempt \in Nat /\ attempt <= MaxRetries /\ attempt' = attempt + 1
      /\ Len(seen) = attempt /\ Len(requests) = attempt + 1
  BY DEF IInv, TypeOK, AttemptsCounted, Retry
<1>3. \/ /\ attempt' <= MaxRetries /\ phase' = "sleeping"
         /\ delay' \in 0..Ceiling(attempt')
      \/ /\ attempt' = MaxRetries + 1 /\ phase' = "gaveUp"
         /\ delay' = delay
  BY <1>2 DEF Retry, MayRetry
<1>4. /\ Ceiling(attempt') \in Nat /\ Ceiling(attempt') <= Cap
  BY <1>2, CeilingBounds
<1>5. TypeOK'
  BY <1>1, <1>2, <1>3, <1>4 DEF IInv, TypeOK, Finished
<1>6. AttemptsCounted'
  BY <1>1, <1>2, <1>3 DEF IInv, AttemptsCounted
<1>7. SuccessStored'
  BY <1>3 DEF IInv, SuccessStored
<1>8. SleptWithinSeries'
  <2>1. Sleeps' = Sleeps BY <1>2, <1>3 DEF Sleeps
  <2> QED BY <1>2, <1>3, <1>4, <2>1 DEF IInv, SleptWithinSeries
<1> QED BY <1>5, <1>6, <1>7, <1>8 DEF IInv

\* A definitive outcome ends the export; a success is one the collector gave.
LEMMA InvFinish ==
  ASSUME IInv, phase = "waiting", NEW a \in {"success", "rejected"},
         a = requests[Len(requests)],
         phase' = IF a = "success" THEN "ok" ELSE "rejected",
         seen' = Append(seen, a),
         UNCHANGED <<attempt, delay, requests, slept, stored>>
  PROVE  IInv'
<1>1. /\ seen' \in Seq(Statuses \cup {"error"})
      /\ Len(seen) \in Nat /\ Len(seen') = Len(seen) + 1
      /\ \A k \in 1..Len(seen) : seen'[k] = seen[k]
  BY Learnt DEF IInv, Statuses
<1>2. phase' \in {"ok", "rejected"} /\ (phase' = "ok" => a = "success")
  OBVIOUS
<1>3. TypeOK' BY <1>1, <1>2 DEF IInv, TypeOK, Finished
<1>4. AttemptsCounted' BY <1>1, <1>2 DEF IInv, AttemptsCounted, TypeOK
<1>5. SuccessStored' BY <1>2 DEF IInv, SuccessStored
<1>6. SleptWithinSeries'
  BY <1>2 DEF IInv, SleptWithinSeries, Sleeps
<1> QED BY <1>3, <1>4, <1>5, <1>6 DEF IInv

\* The client reads an answer: it ends the export or is transient.
LEMMA InvReadAnswer == IInv /\ ReadAnswer => IInv'
<1> SUFFICES ASSUME IInv, ReadAnswer PROVE IInv'
  OBVIOUS
<1> DEFINE status == requests[Len(requests)]
<1>1. /\ phase = "waiting" /\ status \in Statuses
      /\ seen' = Append(seen, status)
      /\ UNCHANGED <<requests, slept, stored>>
  BY DEF ReadAnswer
<1>2. CASE status = "success"
  <2>1. Disposition(status) = "success" BY <1>2 DEF Disposition
  <2>2. phase' = "ok" /\ UNCHANGED <<attempt, delay>>
    BY <2>1 DEF ReadAnswer
  <2> QED BY <1>1, <1>2, <2>2, InvFinish
<1>3. CASE status = "rejected"
  <2>1. Disposition(status) = "permanent" BY <1>3 DEF Disposition
  <2>2. phase' = "rejected" /\ UNCHANGED <<attempt, delay>>
    BY <2>1 DEF ReadAnswer
  <2> QED BY <1>1, <1>3, <2>2, InvFinish
<1>4. CASE status \in {"serverError", "tooMany"}
  <2>1. Disposition(status) = "retryable" BY <1>4 DEF Disposition
  <2>2. Retry BY <2>1 DEF ReadAnswer
  <2>3. status \in Transient BY <1>4 DEF Transient
  <2> QED BY <1>1, <2>2, <2>3, InvRetry
<1> QED BY <1>1, <1>2, <1>3, <1>4 DEF Statuses

\* The client gives up on an attempt.
LEMMA InvTransportError == IInv /\ TransportError => IInv'
BY InvRetry DEF TransportError, Transient

\* The client has slept one delay more.
LEMMA InvWake == IInv /\ Wake => IInv'
<1> SUFFICES ASSUME IInv, Wake PROVE IInv'
  OBVIOUS
<1> DEFINE n == attempt - 1
<1>1. /\ phase = "sleeping" /\ phase' = "ready" /\ slept' = slept + delay
      /\ UNCHANGED <<attempt, delay, seen, requests, stored>>
  BY DEF Wake
<1>2. /\ attempt \in Nat /\ attempt > 0 /\ n \in Nat /\ n + 1 = attempt
      /\ slept \in Nat /\ delay \in Nat /\ Sleeps = n /\ Sleeps' = n + 1
  BY <1>1 DEF IInv, TypeOK, SleptWithinSeries, Sleeps
<1>3. TypeOK' BY <1>1, <1>2 DEF IInv, TypeOK
<1>4. AttemptsCounted' BY <1>1 DEF IInv, AttemptsCounted
<1>5. SuccessStored' BY <1>1 DEF IInv, SuccessStored
<1>6. SleptWithinSeries'
  <2>1. /\ slept <= n * Cap /\ slept <= Base * (2^n - 1)
        /\ delay <= Ceiling(attempt)
    BY <1>1, <1>2 DEF IInv, SleptWithinSeries
  <2>2. delay <= Cap /\ delay <= Base * 2^n
    <3>1. /\ Ceiling(attempt) \in Nat /\ Ceiling(attempt) <= Cap
          /\ Ceiling(attempt) <= Base * 2^n
      BY <1>2, CeilingBounds
    <3>2. \A b, p \in Nat : b * p \in Nat OBVIOUS
    <3>3. Base * 2^n \in Nat BY <1>2, <3>2, PowerIsSubsets
    <3> QED BY <1>2, <2>1, <3>1, <3>3
  <2>3. /\ slept + delay <= (n + 1) * Cap
        /\ slept + delay <= Base * (2^(n + 1) - 1)
    BY <1>2, <2>1, <2>2, SeriesStep
  <2> QED BY <1>1, <1>2, <2>3 DEF SleptWithinSeries
<1> QED BY <1>3, <1>4, <1>5, <1>6 DEF IInv

\* The network and the collector change a request that is still travelling, and
\* store what they answer with success.
LEMMA InvNetwork ==
  ASSUME IInv, NEW k \in DOMAIN requests, Process(k) \/ Lose(k)
  PROVE  IInv'
<1> DEFINE R == Statuses \cup {"travelling", "lost"}
<1>1. /\ requests \in Seq(R) /\ Len(requests) \in Nat
      /\ DOMAIN requests = 1..Len(requests)
  BY LenProperties DEF IInv, TypeOK
<1>2. PICK status \in R \ {"travelling"} :
        /\ requests[k] = "travelling"
        /\ requests' = [requests EXCEPT ![k] = status]
        /\ stored \subseteq stored' /\ stored' \subseteq stored \cup {k}
        /\ status = "success" => k \in stored'
  BY DEF Process, Lose, Statuses
<1>3. UNCHANGED <<phase, attempt, delay, seen, slept>>
  BY DEF Process, Lose, client
<1>4. /\ requests' \in Seq(R) /\ Len(requests') = Len(requests)
      /\ DOMAIN requests' = DOMAIN requests
      /\ requests'[k] = status
      /\ \A j \in 1..Len(requests) : j # k => requests'[j] = requests[j]
  BY <1>1, <1>2, ExceptSeq
<1>5. TypeOK' BY <1>2, <1>3, <1>4 DEF IInv, TypeOK
<1>6. AttemptsCounted' BY <1>3, <1>4 DEF IInv, AttemptsCounted
<1>7. SuccessStored'
  <2>1. \A j \in 1..Len(requests') : requests'[j] = "success" => j \in stored'
    BY <1>1, <1>2, <1>4 DEF IInv, SuccessStored
  <2>2. ASSUME phase' = "ok" PROVE requests'[Len(requests')] = "success"
    <3>1. /\ requests[Len(requests)] = "success" /\ Len(requests) # k
          /\ Len(requests) \in 1..Len(requests)
      BY <1>1, <1>2, <1>3, <2>2 DEF IInv, SuccessStored, AttemptsCounted, TypeOK
    <3> QED BY <1>4, <3>1
  <2> QED BY <2>1, <2>2 DEF SuccessStored
<1>8. SleptWithinSeries' BY <1>3 DEF IInv, SleptWithinSeries, Sleeps
<1> QED BY <1>5, <1>6, <1>7, <1>8 DEF IInv

\* Every step keeps the invariant.
LEMMA InvStep == IInv /\ [Next]_vars => IInv'
<1>1. IInv /\ UNCHANGED vars => IInv'
  BY DEF IInv, TypeOK, AttemptsCounted, SuccessStored, SleptWithinSeries,
         Sleeps, vars, client
<1> QED
  BY <1>1, InvSend, InvReadAnswer, InvTransportError, InvWake, InvNetwork
     DEF Next

\* In every reachable state of an export the counter, the requests, what the
\* client has seen of them, what the collector has stored and the time slept
\* fit together.
THEOREM InvCorrect == Spec => []IInv
BY InvInit, InvStep, PTL DEF Spec

-----------------------------------------------------------------------------
(* The properties.                                                          *)

\* The counter stays within the retry budget and a delay within the cap.
THEOREM TypeCorrect == Spec => []TypeOK
BY InvCorrect, PTL DEF IInv

\* An export that returns Ok delivered its batch: the collector stored it.
THEOREM OkCorrect == Spec => []OkMeansStored
<1>1. IInv => OkMeansStored
  <2> SUFFICES ASSUME IInv, phase = "ok" PROVE stored # {}
    BY DEF OkMeansStored
  <2>1. Len(requests) \in 1..Len(requests)
    BY DEF IInv, TypeOK, AttemptsCounted
  <2> QED BY <2>1 DEF IInv, SuccessStored
<1> QED BY <1>1, InvCorrect, PTL

\* A body is sent again only after a transient outcome of the request before
\* it: never after a success, never after a definitive rejection.
THEOREM ResendCorrect == Spec => []ResentOnlyIfTransient
<1>1. IInv => ResentOnlyIfTransient
  <2> SUFFICES ASSUME IInv, NEW k \in 1..Len(requests), k < Len(requests)
               PROVE  k <= Len(seen) /\ seen[k] \in Transient
    BY DEF ResentOnlyIfTransient, Transient
  <2>1. attempt \in Nat /\ Len(requests) <= attempt + 1 /\ attempt <= Len(seen)
    BY DEF IInv, TypeOK, AttemptsCounted
  <2>2. k \in 1..attempt /\ k <= Len(seen) BY <2>1
  <2> QED BY <2>2 DEF IInv, AttemptsCounted
<1> QED BY <1>1, InvCorrect, PTL

\* An export sends at most MaxRetries + 1 requests and gives up only when all
\* of them failed for a transient reason.
THEOREM GivesUpCorrect == Spec => []GivesUpWhenSpent
<1>1. IInv => GivesUpWhenSpent
  BY DEF IInv, TypeOK, AttemptsCounted, Transient, GivesUpWhenSpent
<1> QED BY <1>1, InvCorrect, PTL

\* The time between the attempts of an export is bounded by the capped
\* exponential series, whatever the jitter and whatever the retry budget.
THEOREM BudgetCorrect == Spec => []BackoffBudget
<1>1. IInv => BackoffBudget
  <2> SUFFICES ASSUME IInv PROVE BackoffBudget
    OBVIOUS
  <2>1. Sleeps \in Nat /\ Sleeps <= MaxRetries /\ slept \in Nat
    BY DEF IInv, TypeOK, AttemptsCounted, SleptWithinSeries, Sleeps
  <2>2. slept <= Sleeps * Cap /\ slept <= Base * (2^Sleeps - 1)
    BY DEF IInv, SleptWithinSeries
  <2>3. /\ 2^Sleeps \in Nat /\ 2^MaxRetries \in Nat /\ 2^Sleeps >= 1
        /\ 2^MaxRetries >= 1 /\ 2^Sleeps <= 2^MaxRetries
    BY <2>1, PowerIsSubsets, PowerMonotone
  <2>4. \A b, p, q \in Nat : p <= q => /\ b * p <= b * q
                                      /\ p * b <= q * b
                                      /\ b * p \in Nat /\ b * q \in Nat
                                      /\ p * b \in Nat /\ q * b \in Nat
    OBVIOUS
  <2>5. Sleeps * Cap <= MaxRetries * Cap /\ Sleeps * Cap \in Nat
        /\ MaxRetries * Cap \in Nat
    BY <2>1, <2>4
  <2>6. /\ 2^Sleeps - 1 \in Nat /\ 2^MaxRetries - 1 \in Nat
        /\ 2^Sleeps - 1 <= 2^MaxRetries - 1
    BY <2>3
  <2>7. /\ Base * (2^Sleeps - 1) <= Base * (2^MaxRetries - 1)
        /\ Base * (2^Sleeps - 1) \in Nat /\ Base * (2^MaxRetries - 1) \in Nat
    BY <2>4, <2>6
  <2> QED BY <2>1, <2>2, <2>5, <2>7 DEF BackoffBudget, Min2
<1> QED BY <1>1, InvCorrect, PTL
=============================================================================
