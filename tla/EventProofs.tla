----------------------------- MODULE EventProofs ------------------------------
(***************************************************************************)
(* Proofs about the way of an event: Ingestor, for every set of jobs and        *)
(* flushes and every bound, and Analytics, for every set of rows, of browsers    *)
(* and of pages.                                                           *)
(***************************************************************************)
EXTENDS Ingestor, Analytics, TLAPS, FunctionTheorems, FiniteSetTheorems, SequenceTheorems

USE IngestorAssumption

-------------------------------------------------------------------------------
(* Types.                                                                  *)

\* A worker that is not idle holds a job that was started.
Busy == pc # "idle" => job \in Events /\ starts[job] \in 1..MaxStarts

\* Only an attempt that has a successor backs off.
AttemptLeft == \A f \in Flushes : flight[f].phase = "backoff" => flight[f].attempt < MaxAttempts

TypeInv == TypeOK /\ Busy /\ AttemptLeft

LEMMA NoFlightTyped == NoFlight \in Flight /\ IsFiniteSet(NoFlight.batch)
<1>1. 1 \in 1..MaxAttempts
    OBVIOUS
<1>2. {} \in SUBSET Delivery
    OBVIOUS
<1>3. NoFlight \in Flight
    BY <1>1, <1>2 DEF NoFlight, Flight
<1> QED BY <1>3, FS_EmptySet DEF NoFlight

\* A step that puts a well-typed flight in one place keeps all of them typed.
LEMMA OneFlight ==
    ASSUME TypeOK, AttemptLeft, NEW f \in Flushes, NEW next \in Flight, IsFiniteSet(next.batch),
           next.phase = "backoff" => next.attempt < MaxAttempts,
           flight' = [flight EXCEPT ![f] = next]
    PROVE  /\ flight' \in [Flushes -> Flight]
           /\ \A g \in Flushes : IsFiniteSet(flight'[g].batch)
           /\ AttemptLeft'
BY DEF TypeOK, AttemptLeft

\* The rows of an insert are rows, and as finite as its batch.
LEMMA RowsTyped ==
    ASSUME TypeOK, NEW f \in Flushes
    PROVE  RowsOf(f) \subseteq Row /\ IsFiniteSet(RowsOf(f))
<1>1. flight[f].batch \subseteq Delivery /\ IsFiniteSet(flight[f].batch)
      /\ flight[f].attempt \in 1..MaxAttempts
    BY DEF TypeOK, Flight
<1>2. RowsOf(f) \subseteq Row
    BY <1>1 DEF RowsOf, Row
<1>3. IsFiniteSet(RowsOf(f))
    <2> DEFINE write == [d \in flight[f].batch |-> [d |-> d, by |-> <<f, flight[f].attempt>>]]
    <2>1. write \in Surjection(flight[f].batch, RowsOf(f))
        BY DEF Surjection, RowsOf
    <2> QED BY <2>1, <1>1, FS_Surjection
<1> QED BY <1>2, <1>3

\* The table's message rows are finitely many.
LEMMA MessageRowsFinite ==
    ASSUME TypeOK
    PROVE  IsFiniteSet(MessageRows) /\ Cardinality(MessageRows) \in Nat
<1>1. MessageRows \subseteq rawEvents /\ IsFiniteSet(rawEvents)
    BY DEF TypeOK, MessageRows
<1> QED BY <1>1, FS_Subset, FS_CardinalityType

\* A flush that begins keeps the types of the buffer and of the flights.
LEMMA BeginTyped ==
    ASSUME TypeOK, AttemptLeft, NEW f \in Flushes, NEW batch, batch \subseteq Delivery,
           IsFiniteSet(batch), BeginFlush(f, batch)
    PROVE  /\ buffer' = {} /\ IsFiniteSet(buffer')
           /\ flight' \in [Flushes -> Flight]
           /\ \A g \in Flushes : IsFiniteSet(flight'[g].batch)
           /\ AttemptLeft'
<1> DEFINE next == [phase |-> "inserting", batch |-> batch, attempt |-> 1, total |-> 0, left |-> 0]
<1>1. 1 \in 1..MaxAttempts
    OBVIOUS
<1>2. next \in Flight /\ IsFiniteSet(next.batch) /\ next.phase # "backoff"
    BY <1>1 DEF Flight
<1>3. flight' = [flight EXCEPT ![f] = next] /\ buffer' = {}
    BY DEF BeginFlush
<1> HIDE DEF next
<1> QED BY <1>2, <1>3, OneFlight, FS_EmptySet

\* A step that leaves the flights alone keeps AttemptLeft.
LEMMA SameFlights == AttemptLeft /\ UNCHANGED flight => AttemptLeft'
BY DEF AttemptLeft

\* What the worker pushes is a delivery.
LEMMA DeliveredTyped ==
    ASSUME TypeInv, pc # "idle"
    PROVE  Delivered \in Delivery
BY DEF TypeInv, TypeOK, Busy, Delivered, Delivery, EventOrNone

LEMMA ErrorTyped ==
    ASSUME TypeOK, NEW f \in Flushes, InsertReportsError(f)
    PROVE  /\ rawEvents' \subseteq Row /\ IsFiniteSet(rawEvents') /\ rawEvents \subseteq rawEvents'
           /\ ambiguous' \subseteq Delivery
<1>1. flight[f].batch \subseteq Delivery
    BY DEF TypeOK, Flight
<1>2. RowsOf(f) \subseteq Row /\ IsFiniteSet(RowsOf(f))
    BY RowsTyped
<1>3. IsFiniteSet(rawEvents \cup RowsOf(f))
    BY <1>2, FS_Union DEF TypeOK
<1> QED BY <1>1, <1>2, <1>3 DEF InsertReportsError, TypeOK

\* A row that leaves changes nothing of a flight but what left since its count.
SameButLeft(g, f) == g.phase = f.phase /\ g.batch = f.batch /\ g.attempt = f.attempt /\ g.total = f.total

LEMMA WithLeft ==
    ASSUME NEW g \in Flight, NEW k \in Nat
    PROVE  [g EXCEPT !.left = k] \in Flight /\ SameButLeft([g EXCEPT !.left = k], g)
<1> DEFINE h == [g EXCEPT !.left = k]
<1>1. h.phase = g.phase /\ h.batch = g.batch /\ h.attempt = g.attempt /\ h.total = g.total
    BY DEF Flight
<1>2. h \in Flight
    BY DEF Flight
<1> QED BY <1>1, <1>2 DEF SameButLeft

LEMMA LeavesTyped ==
    ASSUME TypeOK, NEW r \in rawEvents, RowLeaves(r)
    PROVE  /\ flight' \in [Flushes -> Flight] /\ left' \in Nat
           /\ \A f \in Flushes : SameButLeft(flight'[f], flight[f])
<1> DEFINE n == IF Kind[r.d.ev] = "message" THEN 1 ELSE 0
           after(f) == [flight[f] EXCEPT !.left = IF flight[f].phase = "publishing" THEN @ + n ELSE @]
<1>1. n \in Nat
    OBVIOUS
<1>2. flight' = [f \in Flushes |-> after(f)] /\ left' = left + n
    BY DEF RowLeaves
<1> HIDE DEF n, after
<1>3. ASSUME NEW f \in Flushes
      PROVE  after(f) \in Flight /\ SameButLeft(after(f), flight[f])
    <2>1. flight[f] \in Flight
        BY DEF TypeOK
    <2>2. flight[f].left + n \in Nat
        BY <1>1, <2>1 DEF Flight
    <2> DEFINE k == IF flight[f].phase = "publishing" THEN flight[f].left + n ELSE flight[f].left
    <2>3. after(f) = [flight[f] EXCEPT !.left = k] /\ k \in Nat
        BY <2>1, <2>2 DEF Flight, after
    <2> HIDE DEF k
    <2> QED BY <2>1, <2>3, WithLeft
<1> QED BY <1>1, <1>2, <1>3 DEF TypeOK

LEMMA TypingStep == TypeInv /\ [Next]_vars => TypeInv'
<1> SUFFICES ASSUME TypeInv, [Next]_vars PROVE TypeInv'
    OBVIOUS
<1> USE DEF TypeInv, EventOrNone
<1>1. ASSUME NEW e \in Events, Enqueue(e) PROVE TypeInv'
    BY <1>1, SameFlights DEF Enqueue, TypeOK, Busy, procVars, workerVars, bufferVars, historyVars
<1>2. ASSUME NEW e \in Events, RecoverStalled(e) PROVE TypeInv'
    BY <1>2, SameFlights DEF RecoverStalled, TypeOK, Busy, procVars, workerVars, bufferVars, historyVars
<1>24. ASSUME NEW e \in Events, RetryFailed(e) PROVE TypeInv'
    BY <1>24, SameFlights DEF RetryFailed, TypeOK, Busy, procVars, workerVars, bufferVars, historyVars
<1>3. ASSUME NEW u \in Users, ExpireJoin(u) PROVE TypeInv'
    BY <1>3, SameFlights DEF ExpireJoin, TypeOK, Busy, procVars, workerVars, bufferVars, historyVars
<1>23. CASE CountMessage
    BY <1>23, SameFlights DEF CountMessage, TypeOK, Busy, procVars, workerVars, bufferVars, historyVars
<1>25. ASSUME NEW r \in rawEvents, RowLeaves(r) PROVE TypeInv'
    <2>1. /\ flight' \in [Flushes -> Flight] /\ left' \in Nat
          /\ \A f \in Flushes : SameButLeft(flight'[f], flight[f])
        BY <1>25, LeavesTyped
    <2>2. AttemptLeft' /\ \A f \in Flushes : IsFiniteSet(flight'[f].batch)
        BY <2>1 DEF AttemptLeft, SameButLeft, TypeOK
    <2>3. gone' \subseteq rawEvents' /\ UNCHANGED rawEvents
        BY <1>25 DEF RowLeaves, TypeOK
    <2> QED BY <1>25, <2>1, <2>2, <2>3 DEF RowLeaves, TypeOK, Busy, procVars, workerVars, historyVars
<1>4. ASSUME NEW e \in Events, TakeJob(e) PROVE TypeInv'
    BY <1>4, SameFlights DEF TakeJob, TypeOK, Busy, procVars, bufferVars, historyVars
<1>5. CASE JobThrows
    BY <1>5, SameFlights DEF JobThrows, LeaveWorker, TypeOK, Busy, procVars, bufferVars, historyVars
<1>6. CASE DropInvalidPayload \/ Enrich
    BY <1>6, SameFlights DEF DropInvalidPayload, Enrich, TypeOK, Busy, redisVars, procVars,
                bufferVars, historyVars
<1>7. CASE RecordJoin
    BY <1>7, SameFlights DEF RecordJoin, TypeOK, Busy, Users, procVars, bufferVars, historyVars
<1>8. CASE ReadJoin
    BY <1>8, SameFlights DEF ReadJoin, TypeOK, Busy, Users, redisVars, procVars, bufferVars, historyVars
<1>9. CASE DeleteJoin
    BY <1>9, SameFlights DEF DeleteJoin, TypeOK, Busy, Users, procVars, bufferVars, historyVars
<1>10. CASE PushEvent
    <2>1. Delivered \in Delivery
        BY <1>10, DeliveredTyped DEF PushEvent
    <2>2. buffer \cup {Delivered} \subseteq Delivery /\ IsFiniteSet(buffer \cup {Delivered})
        BY <2>1, FS_AddElement DEF TypeOK
    <2>3. /\ buffer' \subseteq Delivery /\ IsFiniteSet(buffer')
          /\ flight' \in [Flushes -> Flight]
          /\ \A g \in Flushes : IsFiniteSet(flight'[g].batch)
          /\ AttemptLeft'
        <3>1. CASE \E f \in Flushes : BeginFlush(f, buffer \cup {Delivered})
            BY <3>1, <2>2, BeginTyped
        <3>2. CASE buffer' = buffer \cup {Delivered} /\ UNCHANGED flight
            BY <3>2, <2>2, SameFlights DEF TypeOK
        <3> QED BY <1>10, <3>1, <3>2 DEF PushEvent
    <2> QED BY <1>10, <2>1, <2>3 DEF PushEvent, TypeOK, Busy, redisVars, procVars
<1>11. CASE CompleteJob \/ CompletionLost
    BY <1>11, SameFlights DEF CompleteJob, CompletionLost, LeaveWorker, TypeOK, Busy, procVars,
                 bufferVars, historyVars
<1>12. ASSUME NEW f \in Flushes, OnTimer(f) PROVE TypeInv'
    <2>1. BeginFlush(f, buffer)
        BY <1>12 DEF OnTimer
    <2>2. /\ buffer' = {} /\ IsFiniteSet(buffer') /\ flight' \in [Flushes -> Flight]
          /\ (\A g \in Flushes : IsFiniteSet(flight'[g].batch)) /\ AttemptLeft'
        BY <2>1, BeginTyped DEF TypeOK
    <2> QED BY <1>12, <2>2 DEF OnTimer, TypeOK, Busy, redisVars, procVars, workerVars,
                               historyVars
<1>13. ASSUME NEW f \in Flushes, InsertOk(f) PROVE TypeInv'
    <2>1. flight' \in [Flushes -> Flight] /\ (\A g \in Flushes : IsFiniteSet(flight'[g].batch))
          /\ AttemptLeft'
        <3> DEFINE next == IF CountsMessages(f)
                         THEN [flight[f] EXCEPT !.phase = "counting", !.batch = {}]
                         ELSE NoFlight
        <3>1. next \in Flight /\ IsFiniteSet(next.batch)
              /\ (next.phase = "backoff" => next.attempt < MaxAttempts)
            BY <1>13, NoFlightTyped, FS_EmptySet DEF TypeOK, Flight, NoFlight
        <3>2. flight' = [flight EXCEPT ![f] = next]
            BY <1>13 DEF InsertOk
        <3> HIDE DEF next
        <3> QED BY <3>1, <3>2, OneFlight
    <2>2. rawEvents' \subseteq Row /\ IsFiniteSet(rawEvents')
        BY <1>13, RowsTyped, FS_Union DEF InsertOk, TypeOK
    <2> QED BY <1>13, <2>1, <2>2 DEF InsertOk, TypeOK, Busy, redisVars, procVars, workerVars,
                                     historyVars
<1>14. ASSUME NEW f \in Flushes, InsertFails(f) PROVE TypeInv'
    <2>1. flight' \in [Flushes -> Flight] /\ (\A g \in Flushes : IsFiniteSet(flight'[g].batch))
          /\ AttemptLeft'
        <3> DEFINE next == [flight[f] EXCEPT !.phase = "backoff"]
        <3>1. next \in Flight /\ IsFiniteSet(next.batch)
              /\ (next.phase = "backoff" => next.attempt < MaxAttempts)
            BY <1>14, NoFlightTyped, FS_EmptySet DEF InsertFails, TypeOK, Flight
        <3>2. flight' = [flight EXCEPT ![f] = next]
            BY <1>14 DEF InsertFails
        <3> HIDE DEF next
        <3> QED BY <3>1, <3>2, OneFlight
    <2>2. /\ rawEvents' \subseteq Row /\ IsFiniteSet(rawEvents') /\ rawEvents \subseteq rawEvents'
          /\ ambiguous' \subseteq Delivery
        BY <1>14, ErrorTyped DEF InsertFails
    <2> QED BY <1>14, <2>1, <2>2 DEF InsertFails, TypeOK, Busy, redisVars, procVars, workerVars
<1>15. ASSUME NEW f \in Flushes, Retry(f) PROVE TypeInv'
    <2> DEFINE next == [flight[f] EXCEPT !.phase = "inserting", !.attempt = @ + 1]
    <2>1. flight[f] \in Flight /\ flight[f].attempt < MaxAttempts /\ IsFiniteSet(flight[f].batch)
        BY <1>15 DEF Retry, TypeOK, AttemptLeft
    <2>2. next \in Flight /\ IsFiniteSet(next.batch) /\ next.phase # "backoff"
        <3>1. flight[f].attempt + 1 \in 1..MaxAttempts
            BY <2>1 DEF Flight
        <3>2. next \in Flight
            BY <2>1, <3>1 DEF Flight
        <3>3. next.phase = "inserting" /\ next.batch = flight[f].batch
            BY <2>1 DEF Flight
        <3> QED BY <3>2, <3>3, <2>1
    <2>3. flight' = [flight EXCEPT ![f] = next]
        BY <1>15 DEF Retry
    <2> HIDE DEF next
    <2>4. flight' \in [Flushes -> Flight] /\ (\A g \in Flushes : IsFiniteSet(flight'[g].batch))
          /\ AttemptLeft'
        BY <2>2, <2>3, OneFlight
    <2> QED BY <1>15, <2>4 DEF Retry, TypeOK, Busy, redisVars, procVars, workerVars, historyVars
<1>16. ASSUME NEW f \in Flushes, GiveUp(f) PROVE TypeInv'
    <2>1. flight' \in [Flushes -> Flight] /\ (\A g \in Flushes : IsFiniteSet(flight'[g].batch))
          /\ AttemptLeft'
        <3> DEFINE next == NoFlight
        <3>1. next \in Flight /\ IsFiniteSet(next.batch)
              /\ (next.phase = "backoff" => next.attempt < MaxAttempts)
            BY <1>16, NoFlightTyped, FS_EmptySet DEF NoFlight
        <3>2. flight' = [flight EXCEPT ![f] = next]
            BY <1>16 DEF GiveUp
        <3> HIDE DEF next
        <3> QED BY <3>1, <3>2, OneFlight
    <2>2. /\ rawEvents' \subseteq Row /\ IsFiniteSet(rawEvents') /\ rawEvents \subseteq rawEvents'
          /\ ambiguous' \subseteq Delivery
        BY <1>16, ErrorTyped DEF GiveUp
    <2>3. buffer' \subseteq Delivery /\ IsFiniteSet(buffer')
        BY <1>16, FS_Union DEF GiveUp, TypeOK, Flight
    <2> QED BY <1>16, <2>1, <2>2, <2>3 DEF GiveUp, TypeOK, Busy, redisVars, workerVars
<1>17. ASSUME NEW f \in Flushes, CountRows(f) PROVE TypeInv'
    <2>1. PICK total \in {Cardinality(MessageRows), 0} :
             flight' = [flight EXCEPT ![f].phase = "publishing", ![f].total = total]
        BY <1>17 DEF CountRows
    <2> DEFINE next == [flight[f] EXCEPT !.phase = "publishing", !.total = total]
    <2>2. next \in Flight /\ IsFiniteSet(next.batch) /\ next.phase # "backoff"
        <3>1. total \in Nat /\ flight[f] \in Flight /\ IsFiniteSet(flight[f].batch)
            BY MessageRowsFinite DEF TypeOK
        <3>2. next \in Flight /\ next.phase = "publishing" /\ next.batch = flight[f].batch
            BY <3>1 DEF Flight
        <3> QED BY <3>1, <3>2
    <2>3. flight' = [flight EXCEPT ![f] = next]
        BY <2>1
    <2> HIDE DEF next
    <2>4. flight' \in [Flushes -> Flight] /\ (\A g \in Flushes : IsFiniteSet(flight'[g].batch))
          /\ AttemptLeft'
        BY <2>2, <2>3, OneFlight
    <2> QED BY <1>17, <2>4 DEF CountRows, TypeOK, Busy, redisVars, procVars, workerVars,
                               historyVars
<1>18. ASSUME NEW f \in Flushes, PublishTotal(f) PROVE TypeInv'
    <2>1. flight' \in [Flushes -> Flight] /\ (\A g \in Flushes : IsFiniteSet(flight'[g].batch))
          /\ AttemptLeft'
        <3> DEFINE next == NoFlight
        <3>1. next \in Flight /\ IsFiniteSet(next.batch)
              /\ (next.phase = "backoff" => next.attempt < MaxAttempts)
            BY <1>18, NoFlightTyped, FS_EmptySet DEF NoFlight
        <3>2. flight' = [flight EXCEPT ![f] = next]
            BY <1>18 DEF PublishTotal
        <3> HIDE DEF next
        <3> QED BY <3>1, <3>2, OneFlight
    <2>2. messageCount' \in Nat /\ left' \in Nat
        BY <1>18 DEF PublishTotal, TypeOK, Flight
    <2> QED BY <1>18, <2>1, <2>2 DEF PublishTotal, TypeOK, Busy, procVars, workerVars,
                                     historyVars
<1>19. CASE Stop
    <2>1. /\ buffer' \subseteq Delivery /\ IsFiniteSet(buffer')
          /\ flight' \in [Flushes -> Flight]
          /\ \A g \in Flushes : IsFiniteSet(flight'[g].batch)
          /\ AttemptLeft'
        <3>1. CASE UNCHANGED bufferVars
            BY <3>1, SameFlights DEF bufferVars, TypeOK
        <3>2. CASE \E f \in Flushes : BeginFlush(f, buffer)
            BY <3>2, BeginTyped DEF TypeOK
        <3> QED BY <1>19, <3>1, <3>2 DEF Stop
    <2> QED BY <1>19, <2>1 DEF Stop, TypeOK, Busy, redisVars, workerVars, historyVars
<1>20. CASE Die
    <2>1. flight' \in [Flushes -> Flight] /\ (\A g \in Flushes : IsFiniteSet(flight'[g].batch))
          /\ AttemptLeft'
        BY <1>20, NoFlightTyped DEF Die, AttemptLeft, NoFlight
    <2>2. kills' \in 0..MaxKills
        BY <1>20 DEF Die, TypeOK
    <2> QED BY <1>20, <2>1, <2>2, FS_EmptySet DEF Die, TypeOK, Busy, redisVars, historyVars
<1>21. CASE Restart
    BY <1>21, SameFlights DEF Restart, TypeOK, Busy, redisVars, workerVars, bufferVars, historyVars
<1>22. CASE UNCHANGED vars
    BY <1>22, SameFlights DEF vars, TypeOK, Busy
<1> QED BY <1>1, <1>2, <1>3, <1>4, <1>5, <1>6, <1>7, <1>8, <1>9, <1>10, <1>11, <1>12,
           <1>13, <1>14, <1>15, <1>16, <1>17, <1>18, <1>19, <1>20, <1>21, <1>22, <1>23, <1>24,
           <1>25
        DEF Next, Consume, FlushStep

LEMMA TypingInit == Init => TypeInv
<1> SUFFICES ASSUME Init PROVE TypeInv
    OBVIOUS
<1>1. flight \in [Flushes -> Flight] /\ (\A f \in Flushes : IsFiniteSet(flight[f].batch))
      /\ AttemptLeft
    BY NoFlightTyped DEF Init, AttemptLeft, NoFlight
<1> QED BY <1>1, FS_EmptySet DEF Init, TypeInv, TypeOK, Busy, EventOrNone

\* Every state has the declared types, and a busy worker holds a started job.
THEOREM Typing == Spec => []TypeInv
BY TypingInit, TypingStep, PTL DEF Spec

\* The type invariant the runs check (TypeOK of Ingestor).
THEOREM TypeCorrect == Spec => []TypeOK
<1>1. TypeInv => TypeOK
    BY DEF TypeInv
<1> QED BY <1>1, Typing, PTL

-------------------------------------------------------------------------------
(* How steps move deliveries.  Ownership depends only on the buffer, the     *)
(* batches, the table and what was pushed: five kinds of step change them.   *)

SameBatches == \A g \in Flushes : flight'[g].batch = flight[g].batch

Quiet == UNCHANGED <<pushed, buffer, rawEvents, ambiguous>> /\ SameBatches

HandOver(f) ==
    /\ buffer # {} /\ BeginFlush(f, buffer)
    /\ UNCHANGED <<pushed, rawEvents, ambiguous>>

\* Exactly the flushes that insert or back off have a batch.
Batched ==
    \A f \in Flushes : flight[f].batch # {} <=> flight[f].phase \in {"inserting", "backoff"}

LEMMA StepKinds ==
    ASSUME TypeInv, Batched, [Next]_vars
    PROVE  \/ Quiet
           \/ PushEvent
           \/ \E f \in Flushes : HandOver(f) \/ InsertOk(f) \/ InsertFails(f) \/ GiveUp(f)
           \/ Die
<1> USE DEF Quiet, SameBatches
<1>1. ASSUME NEW e \in Events, Enqueue(e) \/ RecoverStalled(e) \/ RetryFailed(e) \/ TakeJob(e)
      PROVE Quiet
    BY <1>1 DEF Enqueue, RecoverStalled, RetryFailed, TakeJob, bufferVars, historyVars
<1>2. ASSUME NEW u \in Users, ExpireJoin(u) PROVE Quiet
    BY <1>2 DEF ExpireJoin, bufferVars, historyVars
<1>10. CASE CountMessage
    BY <1>10 DEF CountMessage, bufferVars, historyVars
<1>11. ASSUME NEW r \in rawEvents, RowLeaves(r) PROVE Quiet
    BY <1>11, LeavesTyped DEF RowLeaves, historyVars, TypeInv, SameButLeft
<1>3. CASE JobThrows \/ CompleteJob \/ CompletionLost
    BY <1>3 DEF JobThrows, CompleteJob, CompletionLost, LeaveWorker, bufferVars, historyVars
<1>4. CASE DropInvalidPayload \/ Enrich \/ RecordJoin \/ ReadJoin \/ DeleteJoin
    BY <1>4 DEF DropInvalidPayload, Enrich, RecordJoin, ReadJoin, DeleteJoin, bufferVars,
                historyVars
<1>5. ASSUME NEW f \in Flushes, OnTimer(f) PROVE HandOver(f)
    BY <1>5 DEF OnTimer, HandOver, historyVars
<1>6. ASSUME NEW f \in Flushes, Retry(f) \/ CountRows(f) PROVE Quiet
    BY <1>6 DEF Retry, CountRows, historyVars, TypeInv, TypeOK, Flight
<1>7. ASSUME NEW f \in Flushes, PublishTotal(f) PROVE Quiet
    BY <1>7 DEF PublishTotal, Batched, historyVars, TypeInv, TypeOK, NoFlight
<1>8. CASE Stop
    BY <1>8 DEF Stop, HandOver, bufferVars, historyVars
<1>9. CASE Restart \/ UNCHANGED vars
    BY <1>9 DEF Restart, vars, bufferVars, historyVars
<1> QED BY <1>1, <1>2, <1>3, <1>4, <1>5, <1>6, <1>7, <1>8, <1>9, <1>10,
           <1>11
        DEF Next, Consume, FlushStep

LEMMA BatchedStep == TypeInv /\ Batched /\ [Next]_vars => Batched'
<1> SUFFICES ASSUME TypeInv, Batched, [Next]_vars PROVE Batched'
    OBVIOUS
<1> USE DEF Batched
<1>1. CASE UNCHANGED flight
    BY <1>1
<1>2. ASSUME NEW f \in Flushes, NEW batch, batch # {}, BeginFlush(f, batch) PROVE Batched'
    BY <1>2 DEF BeginFlush, TypeInv, TypeOK
<1>3. ASSUME NEW f \in Flushes, FlushStep(f) PROVE Batched'
    <2>1. CASE OnTimer(f)
        BY <2>1, <1>2 DEF OnTimer
    <2>2. CASE InsertFails(f) \/ Retry(f) \/ CountRows(f)
        BY <2>2 DEF InsertFails, Retry, CountRows, TypeInv, TypeOK, Flight
    <2>3. CASE InsertOk(f) \/ GiveUp(f) \/ PublishTotal(f)
        <3>1. NoFlight.phase = "idle" /\ NoFlight.batch = {}
            BY DEF NoFlight
        <3>2. flight[f] \in Flight /\ flight \in [Flushes -> Flight]
            BY DEF TypeInv, TypeOK
        <3>3. CASE flight' = [flight EXCEPT ![f] = NoFlight]
            BY <3>1, <3>2, <3>3
        <3>4. CASE flight' = [flight EXCEPT ![f] =
                                [flight[f] EXCEPT !.phase = "counting", !.batch = {}]]
            BY <3>2, <3>4 DEF Flight
        <3> QED BY <2>3, <3>3, <3>4 DEF InsertOk, GiveUp, PublishTotal
    <2> QED BY <1>3, <2>1, <2>2, <2>3 DEF FlushStep
<1>4. CASE PushEvent
    BY <1>4, <1>1, <1>2 DEF PushEvent
<1>5. CASE Stop
    BY <1>5, <1>1, <1>2 DEF Stop, bufferVars
<1>6. CASE Die
    BY <1>6 DEF Die, NoFlight
<1>7. CASE Restart \/ UNCHANGED vars
    BY <1>7, <1>1 DEF Restart, bufferVars, vars
<1>8. ASSUME NEW e \in Events, Enqueue(e) \/ RecoverStalled(e) \/ RetryFailed(e) \/ TakeJob(e)
      PROVE Batched'
    BY <1>8, <1>1 DEF Enqueue, RecoverStalled, RetryFailed, TakeJob, bufferVars
<1>9. ASSUME NEW u \in Users, ExpireJoin(u) PROVE Batched'
    BY <1>9, <1>1 DEF ExpireJoin, bufferVars
<1>12. CASE CountMessage
    BY <1>12, <1>1 DEF CountMessage, bufferVars
<1>13. ASSUME NEW r \in rawEvents, RowLeaves(r) PROVE Batched'
    BY <1>13, LeavesTyped DEF TypeInv, SameButLeft
<1>10. CASE JobThrows \/ CompleteJob \/ CompletionLost
    BY <1>10, <1>1 DEF JobThrows, CompleteJob, CompletionLost, LeaveWorker, bufferVars
<1>11. CASE DropInvalidPayload \/ Enrich \/ RecordJoin \/ ReadJoin \/ DeleteJoin
    BY <1>11, <1>1 DEF DropInvalidPayload, Enrich, RecordJoin, ReadJoin, DeleteJoin, bufferVars
<1> QED BY <1>3, <1>4, <1>5, <1>6, <1>7, <1>8, <1>9, <1>10, <1>11, <1>12,
           <1>13
        DEF Next, Consume

\* A job pushes at most once in each of its starts.
Fresh ==
    \A d \in pushed :
        /\ d.epoch <= epoch
        /\ d.n <= starts[d.ev]
        /\ d.ev = job /\ pc \in {"received", "enriched", "leaving", "ready"} => d.n < starts[d.ev]

LEMMA FreshStep == TypeInv /\ Fresh /\ [Next]_vars => Fresh'
<1> SUFFICES ASSUME TypeInv, Fresh, [Next]_vars, NEW d \in pushed'
             PROVE  /\ d.epoch <= epoch'
                    /\ d.n <= starts'[d.ev]
                    /\ d.ev = job' /\ pc' \in {"received", "enriched", "leaving", "ready"}
                          => d.n < starts'[d.ev]
    BY DEF Fresh
<1> USE DEF Fresh, TypeInv, TypeOK
<1>0. ASSUME d \in pushed PROVE d.ev \in Events /\ d.n \in Nat /\ d.epoch \in Nat
                                /\ starts[d.ev] \in Nat
    BY <1>0 DEF Delivery
<1>1. CASE UNCHANGED <<pushed, epoch, starts, job, pc>>
    BY <1>1
<1>2. ASSUME NEW e \in Events, Enqueue(e) \/ RecoverStalled(e) \/ RetryFailed(e)
      PROVE UNCHANGED <<pushed, epoch, starts, job, pc>>
    BY <1>2 DEF Enqueue, RecoverStalled, RetryFailed, procVars, workerVars, historyVars
<1>3. ASSUME NEW u \in Users, ExpireJoin(u) PROVE UNCHANGED <<pushed, epoch, starts, job, pc>>
    BY <1>3 DEF ExpireJoin, procVars, workerVars, historyVars
<1>13. CASE CountMessage
    BY <1>13, <1>1 DEF CountMessage, procVars, workerVars, historyVars
<1>14. ASSUME NEW r \in rawEvents, RowLeaves(r) PROVE UNCHANGED <<pushed, epoch, starts, job, pc>>
    BY <1>14 DEF RowLeaves, procVars, workerVars, historyVars
<1>4. ASSUME NEW e \in Events, TakeJob(e)
      PROVE  /\ d.epoch <= epoch'
             /\ d.n <= starts'[d.ev]
             /\ d.ev = job' => d.n < starts'[d.ev]
    <2>1. d \in pushed /\ epoch' = epoch /\ job' = e
        BY <1>4 DEF TakeJob, procVars, historyVars
    <2>2. starts' = [starts EXCEPT ![e] = @ + 1]
        BY <1>4 DEF TakeJob
    <2> QED BY <2>1, <2>2, <1>0
<1>5. CASE JobThrows \/ CompleteJob \/ CompletionLost
    BY <1>5 DEF JobThrows, CompleteJob, CompletionLost, LeaveWorker, procVars, historyVars
<1>6. CASE DropInvalidPayload \/ Enrich \/ RecordJoin \/ ReadJoin \/ DeleteJoin
    BY <1>6 DEF DropInvalidPayload, Enrich, RecordJoin, ReadJoin, DeleteJoin, redisVars, procVars,
                historyVars
<1>7. CASE PushEvent
    <2>1. epoch' = epoch /\ starts' = starts /\ pc' = "returned"
        BY <1>7 DEF PushEvent, redisVars, procVars
    <2>2. CASE d \in pushed
        BY <2>1, <2>2
    <2>3. CASE d = Delivered
        <3>1. d.epoch = epoch /\ d.n = starts[d.ev] /\ epoch \in Nat
            BY <2>3 DEF Delivered
        <3>2. starts[d.ev] \in Nat
            BY <1>7, <2>3 DEF Delivered, Busy, PushEvent
        <3> QED BY <2>1, <3>1, <3>2
    <2> QED BY <1>7, <2>2, <2>3 DEF PushEvent
<1>8. ASSUME NEW f \in Flushes, FlushStep(f) PROVE UNCHANGED <<pushed, epoch, starts, job, pc>>
    BY <1>8 DEF FlushStep, OnTimer, InsertOk, InsertFails, Retry, GiveUp, CountRows, PublishTotal,
                redisVars, procVars, workerVars, historyVars
<1>9. CASE Stop
    BY <1>9, <1>1 DEF Stop, redisVars, workerVars, historyVars
<1>10. CASE Die
    BY <1>10 DEF Die, redisVars, historyVars
<1>11. CASE Restart
    BY <1>11, <1>0 DEF Restart, redisVars, workerVars, historyVars
<1>12. CASE UNCHANGED vars
    BY <1>12, <1>1 DEF vars
<1> QED BY <1>1, <1>2, <1>3, <1>4, <1>5, <1>6, <1>7, <1>8, <1>9, <1>10, <1>11, <1>12,
           <1>13, <1>14
        DEF Next, Consume

\* So what it pushes was never pushed before.
LEMMA PushedOnce == TypeInv /\ Fresh /\ PushEvent => Delivered \in Delivery /\ Delivered \notin pushed
<1> SUFFICES ASSUME TypeInv, Fresh, PushEvent
             PROVE  Delivered \in Delivery /\ Delivered \notin pushed
    OBVIOUS
<1>1. Delivered \in Delivery /\ pc \in {"enriched", "ready"}
    BY DeliveredTyped DEF PushEvent
<1>2. Delivered.ev = job /\ Delivered.n = starts[job] /\ starts[job] \in Nat
    BY <1>1 DEF Delivered, TypeInv, Busy
<1> QED BY <1>1, <1>2 DEF Fresh

-------------------------------------------------------------------------------
(* Ownership.                                                              *)

Known == InMemory \cup Inserted \subseteq pushed

Ownership == TypeInv /\ Batched /\ Fresh /\ Known /\ SingleOwner /\ NoDuplicateRows

\* What an insert adds to the set of stored deliveries.
LEMMA InsertedGrows ==
    ASSUME NEW f \in Flushes, rawEvents' = rawEvents \cup RowsOf(f)
    PROVE  Inserted' = Inserted \cup flight[f].batch
<1>1. ASSUME NEW d \in Inserted' PROVE d \in Inserted \cup flight[f].batch
    <2>1. PICK r \in rawEvents \cup RowsOf(f) : r.d = d
        BY <1>1 DEF Inserted
    <2> QED BY <2>1 DEF Inserted, RowsOf
<1>2. ASSUME NEW d \in flight[f].batch PROVE d \in Inserted'
    <2> DEFINE r == [d |-> d, by |-> <<f, flight[f].attempt>>]
    <2>1. r \in rawEvents' /\ r.d = d
        BY DEF RowsOf
    <2> QED BY <2>1 DEF Inserted
<1>3. Inserted \subseteq Inserted'
    BY DEF Inserted
<1> QED BY <1>1, <1>2, <1>3

\* A step that adds no row duplicates none.
LEMMA RowsOnlyByInserts ==
    ASSUME UNCHANGED <<rawEvents, ambiguous>>, NoDuplicateRows
    PROVE  NoDuplicateRows'
BY DEF NoDuplicateRows

\* A batch that is not stored, or is ambiguous, adds at most one row for each delivery.
LEMMA NewRows ==
    ASSUME TypeInv, NoDuplicateRows, NEW f \in Flushes,
           rawEvents' = rawEvents \cup RowsOf(f), ambiguous \subseteq ambiguous',
           flight[f].batch \cap Inserted \subseteq ambiguous'
    PROVE  NoDuplicateRows'
<1> SUFFICES ASSUME NEW r \in rawEvents', NEW s \in rawEvents', r.d = s.d, r # s
             PROVE  r.d \in ambiguous'
    BY DEF NoDuplicateRows
<1>1. CASE r \in rawEvents /\ s \in rawEvents
    BY <1>1 DEF NoDuplicateRows
<1>2. CASE r \in RowsOf(f) /\ s \in RowsOf(f)
    BY <1>2 DEF RowsOf
<1>3. CASE r \in RowsOf(f) /\ s \in rawEvents
    BY <1>3 DEF RowsOf, Inserted
<1>4. CASE r \in rawEvents /\ s \in RowsOf(f)
    BY <1>4 DEF RowsOf, Inserted
<1> QED BY <1>1, <1>2, <1>3, <1>4

LEMMA OwnershipStep ==
    ASSUME Ownership, [Next]_vars
    PROVE  Known' /\ SingleOwner' /\ NoDuplicateRows'
<1> USE DEF Ownership
<1>0. flight \in [Flushes -> Flight]
    BY DEF TypeInv, TypeOK
<1>1. CASE Quiet
    <2>1. InMemory' = InMemory /\ Inserted' = Inserted
        BY <1>1 DEF Quiet, SameBatches, InMemory, Inserted
    <2> QED BY <1>1, <2>1, RowsOnlyByInserts DEF Quiet, SameBatches, Known, SingleOwner
<1>2. CASE PushEvent
    <2>1. Delivered \notin pushed /\ pushed' = pushed \cup {Delivered}
          /\ UNCHANGED <<rawEvents, ambiguous>>
        BY <1>2, PushedOnce DEF PushEvent
    <2>2. Delivered \notin buffer /\ Delivered \notin Inserted
          /\ \A g \in Flushes : Delivered \notin flight[g].batch
        BY <2>1 DEF Known, InMemory
    <2>3. Inserted' = Inserted
        BY <2>1 DEF Inserted
    <2>4. CASE buffer' = buffer \cup {Delivered} /\ UNCHANGED flight
        <3>1. InMemory' = InMemory \cup {Delivered}
            BY <2>4 DEF InMemory
        <3> QED BY <2>1, <2>2, <2>3, <2>4, <3>1, RowsOnlyByInserts DEF Known, SingleOwner
    <2>5. ASSUME NEW f \in Flushes, BeginFlush(f, buffer \cup {Delivered})
          PROVE  Known' /\ SingleOwner' /\ NoDuplicateRows'
        <3>1. flight'[f].batch = buffer \cup {Delivered} /\ flight[f].batch = {} /\ buffer' = {}
              /\ \A g \in Flushes \ {f} : flight'[g].batch = flight[g].batch
            BY <2>5, <1>0 DEF BeginFlush, Batched
        <3>2. InMemory' = InMemory \cup {Delivered}
            BY <3>1 DEF InMemory
        <3> QED BY <2>1, <2>2, <2>3, <3>1, <3>2, RowsOnlyByInserts DEF Known, SingleOwner
    <2> QED BY <1>2, <2>4, <2>5 DEF PushEvent
<1>3. ASSUME NEW f \in Flushes, HandOver(f) PROVE Known' /\ SingleOwner' /\ NoDuplicateRows'
    <2>1. flight'[f].batch = buffer /\ flight[f].batch = {} /\ buffer' = {}
          /\ \A g \in Flushes \ {f} : flight'[g].batch = flight[g].batch
        BY <1>3, <1>0 DEF HandOver, BeginFlush, Batched
    <2>2. InMemory' = InMemory /\ Inserted' = Inserted
        BY <1>3, <2>1 DEF HandOver, InMemory, Inserted
    <2> QED BY <1>3, <2>1, <2>2, RowsOnlyByInserts DEF HandOver, Known, SingleOwner
<1>4. ASSUME NEW f \in Flushes, InsertOk(f) PROVE Known' /\ SingleOwner' /\ NoDuplicateRows'
    <2>1. UNCHANGED <<buffer, pushed, ambiguous>> /\ rawEvents' = rawEvents \cup RowsOf(f)
        BY <1>4 DEF InsertOk, historyVars
    <2>2. flight[f] \in Flight
        BY DEF TypeInv, TypeOK
    <2>3. flight'[f].batch = {}
          /\ \A g \in Flushes \ {f} : flight'[g].batch = flight[g].batch
        BY <1>4, <2>2, <1>0 DEF InsertOk, NoFlight, Flight
    <2>4. Inserted' = Inserted \cup flight[f].batch
        BY <2>1, InsertedGrows
    <2>5. flight[f].batch \cap Inserted \subseteq ambiguous
        BY DEF SingleOwner, InMemory
    <2>6. NoDuplicateRows'
        BY <2>1, <2>5, NewRows
    <2>7. Known'
        BY <2>1, <2>3, <2>4 DEF Known, InMemory
    <2>8. SingleOwner'
        <3>1. InMemory' \subseteq InMemory /\ InMemory' \cap flight[f].batch = {}
            BY <2>1, <2>3 DEF InMemory, SingleOwner
        <3> QED BY <2>1, <2>3, <2>4, <3>1 DEF SingleOwner
    <2> QED BY <2>6, <2>7, <2>8
<1>5. ASSUME NEW f \in Flushes, InsertReportsError(f), flight[f].batch # {}, UNCHANGED pushed,
             InMemory' = InMemory,
             \A g \in Flushes : buffer' \cap flight'[g].batch = {},
             \A g, h \in Flushes : g # h => flight'[g].batch \cap flight'[h].batch = {}
      PROVE  Known' /\ SingleOwner' /\ NoDuplicateRows'
    <2>1. CASE UNCHANGED <<rawEvents, ambiguous>>
        <3>1. Inserted' = Inserted
            BY <2>1 DEF Inserted
        <3> QED BY <1>5, <2>1, <3>1, RowsOnlyByInserts DEF Known, SingleOwner
    <2>2. CASE rawEvents' = rawEvents \cup RowsOf(f)
               /\ ambiguous' = ambiguous \cup flight[f].batch
        <3>1. Inserted' = Inserted \cup flight[f].batch
            BY <2>2, InsertedGrows
        <3>2. flight[f].batch \subseteq InMemory
            BY DEF InMemory
        <3>3. NoDuplicateRows'
            BY <2>2, NewRows
        <3> QED BY <1>5, <2>2, <3>1, <3>2, <3>3 DEF Known, SingleOwner
    <2> QED BY <1>5, <2>1, <2>2 DEF InsertReportsError
<1>6. ASSUME NEW f \in Flushes, InsertFails(f) PROVE Known' /\ SingleOwner' /\ NoDuplicateRows'
    <2>1. flight[f] \in Flight /\ flight[f].batch # {} /\ UNCHANGED <<buffer, pushed>>
        BY <1>6 DEF InsertFails, TypeInv, TypeOK, Batched
    <2>2. SameBatches
        BY <1>6, <2>1, <1>0 DEF InsertFails, SameBatches, Flight
    <2>3. InMemory' = InMemory
        BY <2>1, <2>2 DEF InMemory, SameBatches
    <2> QED BY <1>5, <1>6, <2>1, <2>2, <2>3 DEF InsertFails, SameBatches, SingleOwner
<1>7. ASSUME NEW f \in Flushes, GiveUp(f) PROVE Known' /\ SingleOwner' /\ NoDuplicateRows'
    <2>1. flight[f].batch # {} /\ UNCHANGED pushed /\ buffer' = buffer \cup flight[f].batch
        BY <1>7 DEF GiveUp, Batched
    <2>2. flight'[f].batch = {} /\ \A g \in Flushes \ {f} : flight'[g].batch = flight[g].batch
        BY <1>7, <1>0 DEF GiveUp, NoFlight
    <2>3. InMemory' = InMemory
        BY <2>1, <2>2 DEF InMemory
    <2> QED BY <1>5, <1>7, <2>1, <2>2, <2>3 DEF GiveUp, SingleOwner
<1>8. CASE Die
    <2>1. InMemory' = {} /\ \A g \in Flushes : flight'[g].batch = {}
        BY <1>8 DEF Die, InMemory, NoFlight
    <2>2. UNCHANGED <<rawEvents, pushed, ambiguous>> /\ Inserted' = Inserted
        BY <1>8 DEF Die, historyVars, Inserted
    <2> QED BY <1>8, <2>1, <2>2, RowsOnlyByInserts DEF Die, Known, SingleOwner
<1> QED BY StepKinds, <1>1, <1>2, <1>3, <1>4, <1>6, <1>7, <1>8

\* Every delivery has one owner, and rows are duplicated only by inserts that
\* reported an error.
THEOREM Owned == Spec => []Ownership
<1>1. Init => Ownership
    <2> SUFFICES ASSUME Init PROVE Ownership
        OBVIOUS
    <2>1. InMemory = {} /\ Inserted = {} /\ \A f \in Flushes : flight[f] = NoFlight
        BY DEF Init, InMemory, Inserted, NoFlight
    <2> QED BY <2>1, TypingInit DEF Init, Ownership, Batched, Fresh, Known, SingleOwner,
                                    NoDuplicateRows, NoFlight
<1>2. Ownership /\ [Next]_vars => Ownership'
    BY TypingStep, BatchedStep, FreshStep, OwnershipStep DEF Ownership
<1> QED BY <1>1, <1>2, PTL DEF Spec

\* A delivery is in the buffer or in one flush, and in neither once it is stored
\* (SingleOwner of Ingestor).
THEOREM OneOwner == Spec => []SingleOwner
BY Owned, PTL DEF Ownership

\* Overlapping flushes and retries store no delivery twice, unless an insert
\* reported an error (NoDuplicateRows of Ingestor).
THEOREM NoDuplicates == Spec => []NoDuplicateRows
BY Owned, PTL DEF Ownership

-------------------------------------------------------------------------------
(* The sink: each kind of step is a step of BufferedSink or a stutter.      *)

LEMMA Effects ==
    ASSUME Ownership, [Next]_vars
    PROVE  \/ UNCHANGED <<pushed, InMemory, Inserted>>
           \/ Delivered \in Delivery /\ Sink!Accept(Delivered)
           \/ \E items \in SUBSET InMemory : Sink!Confirm(items) \/ Sink!Unconfirmed(items)
           \/ Die /\ Sink!Crash
<1> USE DEF Ownership
<1>0. flight \in [Flushes -> Flight]
    BY DEF TypeInv, TypeOK
<1>1. ASSUME Quiet PROVE UNCHANGED <<pushed, InMemory, Inserted>>
    BY <1>1 DEF Quiet, SameBatches, InMemory, Inserted
<1>2. ASSUME PushEvent PROVE Delivered \in Delivery /\ Sink!Accept(Delivered)
    <2>1. Delivered \in Delivery /\ Delivered \notin pushed
          /\ pushed' = pushed \cup {Delivered} /\ Inserted' = Inserted
        BY <1>2, PushedOnce DEF PushEvent, Inserted
    <2>2. CASE buffer' = buffer \cup {Delivered} /\ UNCHANGED flight
        BY <2>1, <2>2 DEF InMemory, Sink!Accept
    <2>3. ASSUME NEW f \in Flushes, BeginFlush(f, buffer \cup {Delivered})
          PROVE  Sink!Accept(Delivered)
        <3>1. flight'[f].batch = buffer \cup {Delivered} /\ flight[f].batch = {} /\ buffer' = {}
              /\ \A g \in Flushes \ {f} : flight'[g].batch = flight[g].batch
            BY <2>3, <1>0 DEF BeginFlush, Batched
        <3>2. InMemory' = InMemory \cup {Delivered}
            BY <3>1 DEF InMemory
        <3> QED BY <2>1, <3>2 DEF Sink!Accept
    <2> QED BY <1>2, <2>1, <2>2, <2>3 DEF PushEvent
<1>3. ASSUME NEW f \in Flushes, HandOver(f) PROVE UNCHANGED <<pushed, InMemory, Inserted>>
    <2>1. flight'[f].batch = buffer /\ flight[f].batch = {} /\ buffer' = {}
          /\ \A g \in Flushes \ {f} : flight'[g].batch = flight[g].batch
        BY <1>3, <1>0 DEF HandOver, BeginFlush, Batched
    <2> QED BY <1>3, <2>1 DEF HandOver, InMemory, Inserted
<1>4. ASSUME NEW f \in Flushes, InsertOk(f)
      PROVE  \E items \in SUBSET InMemory : Sink!Confirm(items)
    <2>1. flight[f] \in Flight /\ flight[f].batch # {} /\ flight[f].batch \subseteq InMemory
        BY <1>4, <1>0 DEF InsertOk, Batched, InMemory
    <2>2. UNCHANGED <<buffer, pushed>> /\ rawEvents' = rawEvents \cup RowsOf(f)
        BY <1>4 DEF InsertOk, historyVars
    <2>3. flight'[f].batch = {}
          /\ \A g \in Flushes \ {f} : flight'[g].batch = flight[g].batch
        BY <1>4, <2>1, <1>0 DEF InsertOk, NoFlight, Flight
    <2>4. InMemory' = InMemory \ flight[f].batch
        BY <2>2, <2>3 DEF InMemory, SingleOwner
    <2>5. Sink!Confirm(flight[f].batch)
        BY <2>1, <2>2, <2>4, InsertedGrows DEF Sink!Confirm
    <2> QED BY <2>1, <2>5
<1>5. ASSUME NEW f \in Flushes, InsertFails(f) \/ GiveUp(f)
      PROVE  \/ UNCHANGED <<pushed, InMemory, Inserted>>
             \/ \E items \in SUBSET InMemory : Sink!Unconfirmed(items)
    <2>1. InsertReportsError(f) /\ UNCHANGED pushed /\ flight[f] \in Flight
          /\ flight[f].batch \subseteq InMemory
        BY <1>5, <1>0 DEF InsertFails, GiveUp, InMemory
    <2>2. InMemory' = InMemory
        <3>1. CASE InsertFails(f)
            <4>1. SameBatches /\ UNCHANGED buffer
                BY <3>1, <2>1, <1>0 DEF InsertFails, SameBatches, Flight
            <4> QED BY <4>1 DEF InMemory, SameBatches
        <3>2. CASE GiveUp(f)
            <4>1. buffer' = buffer \cup flight[f].batch /\ flight'[f].batch = {}
                  /\ \A g \in Flushes \ {f} : flight'[g].batch = flight[g].batch
                BY <3>2, <1>0 DEF GiveUp, NoFlight
            <4> QED BY <4>1 DEF InMemory
        <3> QED BY <1>5, <3>1, <3>2
    <2>3. CASE UNCHANGED rawEvents
        BY <2>1, <2>2, <2>3 DEF Inserted
    <2>4. CASE rawEvents' = rawEvents \cup RowsOf(f)
        BY <2>1, <2>2, <2>4, InsertedGrows DEF Sink!Unconfirmed
    <2> QED BY <2>1, <2>3, <2>4 DEF InsertReportsError
<1>6. ASSUME Die PROVE Sink!Crash
    <2>1. buffer' = {} /\ \A g \in Flushes : flight'[g].batch = {}
        BY <1>6 DEF Die, NoFlight
    <2>2. InMemory' = {} /\ pushed' = pushed /\ rawEvents' = rawEvents
        BY <1>6, <2>1 DEF Die, InMemory, historyVars
    <2> QED BY <2>2 DEF Sink!Crash, Inserted
<1> QED BY StepKinds, <1>1, <1>2, <1>3, <1>4, <1>5, <1>6

\* The worker implements the sink that loses what it accepted only by losing its
\* whole memory (ImplementsSink of Ingestor).
THEOREM RefinesSink == Spec => ImplementsSink
<1>1. Init => Sink!Init
    BY DEF Init, Sink!Init, InMemory, Inserted, NoFlight
<1>2. Ownership /\ [Next]_vars => [Sink!Next]_(Sink!vars)
    BY Effects DEF Sink!Next, Sink!vars
<1> QED BY <1>1, <1>2, Owned, PTL DEF Spec, ImplementsSink, Sink!Spec

-------------------------------------------------------------------------------
(* Nothing is lost while the process runs.                                  *)

\* An incarnation ends in "down" and only a restart leaves it.
LEMMA Incarnations ==
    ASSUME TypeInv, [Next]_vars
    PROVE  \/ epoch' = epoch /\ (proc = "down" => proc' = "down")
           \/ epoch' = epoch + 1 /\ pushed' = pushed
<1>1. ASSUME NEW e \in Events, Enqueue(e) \/ RecoverStalled(e) \/ RetryFailed(e) \/ TakeJob(e)
      PROVE  UNCHANGED <<epoch, proc>>
    BY <1>1 DEF Enqueue, RecoverStalled, RetryFailed, TakeJob, procVars
<1>2. ASSUME NEW u \in Users, ExpireJoin(u) PROVE UNCHANGED <<epoch, proc>>
    BY <1>2 DEF ExpireJoin, procVars
<1>10. CASE CountMessage
    BY <1>10 DEF CountMessage, procVars
<1>11. ASSUME NEW r \in rawEvents, RowLeaves(r) PROVE UNCHANGED <<epoch, proc>>
    BY <1>11 DEF RowLeaves, procVars
<1>3. CASE JobThrows \/ CompleteJob \/ CompletionLost
    BY <1>3 DEF JobThrows, CompleteJob, CompletionLost, LeaveWorker, procVars
<1>4. CASE DropInvalidPayload \/ Enrich \/ RecordJoin \/ ReadJoin \/ DeleteJoin \/ PushEvent
    BY <1>4 DEF DropInvalidPayload, Enrich, RecordJoin, ReadJoin, DeleteJoin, PushEvent, procVars
<1>5. ASSUME NEW f \in Flushes, FlushStep(f), ~GiveUp(f) PROVE UNCHANGED <<epoch, proc>>
    BY <1>5 DEF FlushStep, OnTimer, InsertOk, InsertFails, Retry, CountRows, PublishTotal, procVars
<1>6. ASSUME NEW f \in Flushes, GiveUp(f) PROVE epoch' = epoch /\ proc # "down"
    BY <1>6 DEF GiveUp, Running
<1>7. CASE Stop \/ Die
    BY <1>7 DEF Stop, Die
<1>8. CASE Restart
    BY <1>8 DEF Restart, historyVars
<1>9. CASE UNCHANGED vars
    BY <1>9 DEF vars
<1> QED BY <1>1, <1>2, <1>3, <1>4, <1>5, <1>6, <1>7, <1>8, <1>9, <1>10, <1>11 DEF Next, Consume

\* Whatever the running process accepted is in memory or stored
\* (NothingLostWhileRunning of Ingestor).
THEOREM NothingLost == Spec => []NothingLostWhileRunning
<1>1. Init => NothingLostWhileRunning
    BY DEF Init, NothingLostWhileRunning
<1>2. ASSUME Ownership, Ownership', NothingLostWhileRunning, [Next]_vars
      PROVE  NothingLostWhileRunning'
    <2> SUFFICES ASSUME proc' # "down", NEW d \in pushed', d.epoch = epoch'
                 PROVE  d \in InMemory' \cup Inserted'
        BY DEF NothingLostWhileRunning
    <2>1. ~ Die
        BY DEF Die
    <2>2. CASE epoch' = epoch + 1 /\ pushed' = pushed
        BY <1>2, <2>2 DEF Ownership, Fresh, TypeInv, TypeOK, Delivery
    <2>3. CASE epoch' = epoch /\ proc # "down"
        <3>1. CASE d \in pushed
            <4>1. d \in InMemory \cup Inserted
                BY <1>2, <2>3, <3>1 DEF NothingLostWhileRunning
            <4> QED BY <1>2, <2>1, <4>1, Effects DEF Sink!Accept, Sink!Confirm, Sink!Unconfirmed
        <3>2. CASE d \notin pushed
            BY <1>2, <2>1, <3>2, Effects DEF Sink!Accept, Sink!Confirm, Sink!Unconfirmed
        <3> QED BY <3>1, <3>2
    <2> QED BY <1>2, <2>2, <2>3, Incarnations DEF Ownership
<1>3. Ownership /\ Ownership' /\ NothingLostWhileRunning /\ [Next]_vars => NothingLostWhileRunning'
    BY <1>2
<1> QED BY <1>1, <1>3, Owned, PTL DEF Spec

-------------------------------------------------------------------------------
(* The published total.                                                     *)

LEMMA RowsStay == [Next]_vars /\ TypeInv /\ Batched => rawEvents \subseteq rawEvents'
<1> SUFFICES ASSUME [Next]_vars, TypeInv, Batched PROVE rawEvents \subseteq rawEvents'
    OBVIOUS
<1>1. CASE Quiet \/ PushEvent \/ Die
    BY <1>1 DEF Quiet, PushEvent, Die
<1>2. ASSUME NEW f \in Flushes, HandOver(f) \/ InsertOk(f) \/ InsertFails(f) \/ GiveUp(f)
      PROVE  rawEvents \subseteq rawEvents'
    BY <1>2 DEF HandOver, InsertOk, InsertFails, GiveUp, InsertReportsError
<1> QED BY StepKinds, <1>1, <1>2

\* Hence the number of message rows falls only when one leaves.
LEMMA CountGrows ==
    ASSUME TypeInv, TypeInv', Batched, [Next]_vars, gone' = gone
    PROVE  Cardinality(MessageRows) <= Cardinality(MessageRows')
<1>1. MessageRows \subseteq MessageRows'
    BY RowsStay DEF MessageRows
<1>2. IsFiniteSet(MessageRows')
    <2>1. MessageRows' \subseteq rawEvents' /\ IsFiniteSet(rawEvents')
        BY DEF TypeInv, TypeOK, MessageRows
    <2> QED BY <2>1, FS_Subset
<1> QED BY <1>1, <1>2, FS_Subset

(* A flight has counted nothing before it publishes.                          *)
Unpublished == \A f \in Flushes : flight[f].phase # "publishing" => flight[f].total = 0

(* What a step other than a row's leaving makes of a flight's total.            *)
Follows(g) ==
    \/ /\ flight'[g].total = flight[g].total /\ flight'[g].left = flight[g].left
       /\ flight'[g].phase = "publishing" <=> flight[g].phase = "publishing"
    \/ flight'[g].total = 0
    \/ flight'[g].total = Cardinality(MessageRows) /\ flight'[g].phase = "publishing"

\* Where the total of a flush, and the key, come from.
LEMMA Totals ==
    ASSUME TypeInv, [Next]_vars, \A r \in rawEvents : ~RowLeaves(r)
    PROVE  /\ \/ UNCHANGED <<messageCount, counted, left>>
              \/ messageCount' = messageCount + 1 /\ counted' = counted + 1 /\ left' = left
              \/ \E f \in Flushes :
                    messageCount' = flight[f].total /\ counted' = 0 /\ left' = flight[f].left
           /\ gone' = gone /\ \A g \in Flushes : Follows(g)
<1> DEFINE Key == UNCHANGED <<messageCount, counted, left>> /\ gone' = gone
           Kept == Key /\ UNCHANGED flight
<1> USE DEF Follows
<1>0. flight \in [Flushes -> Flight]
    BY DEF TypeInv, TypeOK
<1>1. ASSUME NEW f \in Flushes, NEW batch, BeginFlush(f, batch)
      PROVE  \A g \in Flushes : Follows(g)
    BY <1>0, <1>1 DEF BeginFlush
<1>2. ASSUME NEW e \in Events, Enqueue(e) \/ RecoverStalled(e) \/ RetryFailed(e) \/ TakeJob(e)
      PROVE Kept
    BY <1>2 DEF Enqueue, RecoverStalled, RetryFailed, TakeJob, bufferVars
<1>3. ASSUME NEW u \in Users, ExpireJoin(u) PROVE Kept
    BY <1>3 DEF ExpireJoin, bufferVars
<1>15. CASE CountMessage
    BY <1>15 DEF CountMessage, bufferVars
<1>4. ASSUME JobThrows \/ CompleteJob \/ CompletionLost PROVE Kept
    BY <1>4 DEF JobThrows, CompleteJob, CompletionLost, LeaveWorker, bufferVars
<1>5. ASSUME DropInvalidPayload \/ Enrich \/ RecordJoin \/ ReadJoin \/ DeleteJoin PROVE Kept
    BY <1>5 DEF DropInvalidPayload, Enrich, RecordJoin, ReadJoin, DeleteJoin, bufferVars, redisVars
<1>6. CASE PushEvent
    BY <1>6, <1>1 DEF PushEvent, redisVars
<1>7. ASSUME NEW f \in Flushes, OnTimer(f)
      PROVE  Key /\ \A g \in Flushes : Follows(g)
    BY <1>7, <1>1 DEF OnTimer, redisVars
<1>8. ASSUME NEW f \in Flushes, InsertFails(f) \/ Retry(f)
      PROVE  Key /\ \A g \in Flushes : Follows(g)
    BY <1>0, <1>8 DEF InsertFails, Retry, redisVars, Flight
<1>9. ASSUME NEW f \in Flushes, InsertOk(f) \/ GiveUp(f)
      PROVE  Key /\ \A g \in Flushes : Follows(g)
    <2>1. NoFlight.total = 0
        BY DEF NoFlight
    <2>2. CASE flight' = [flight EXCEPT ![f] = NoFlight]
        BY <1>0, <1>9, <2>1, <2>2 DEF InsertOk, GiveUp, redisVars
    <2>3. CASE flight' = [flight EXCEPT ![f] = [flight[f] EXCEPT !.phase = "counting", !.batch = {}]]
        BY <1>0, <1>9, <2>3 DEF InsertOk, GiveUp, redisVars, Flight
    <2> QED BY <1>9, <2>2, <2>3 DEF InsertOk, GiveUp
<1>10. ASSUME NEW f \in Flushes, CountRows(f)
       PROVE  Key /\ \A g \in Flushes : Follows(g)
    BY <1>0, <1>10 DEF CountRows, redisVars, Flight
<1>11. ASSUME NEW f \in Flushes, PublishTotal(f)
       PROVE  /\ \/ messageCount' = flight[f].total /\ counted' = 0 /\ left' = flight[f].left
                 \/ UNCHANGED <<messageCount, counted, left>>
              /\ gone' = gone /\ \A g \in Flushes : Follows(g)
    BY <1>0, <1>11 DEF PublishTotal, NoFlight
<1>12. CASE Stop
    BY <1>12, <1>1 DEF Stop, redisVars, bufferVars
<1>13. CASE Die
    BY <1>13 DEF Die, redisVars, NoFlight
<1>14. CASE Restart \/ UNCHANGED vars
    BY <1>14 DEF Restart, redisVars, bufferVars, vars
<1> QED BY <1>2, <1>3, <1>4, <1>5, <1>6, <1>7, <1>8, <1>9, <1>10, <1>11, <1>12, <1>13, <1>14,
           <1>15
        DEF Next, Consume, FlushStep

\* A row that leaves is one message less, and every count that had it knows one more.
LEMMA OneRowLess ==
    ASSUME TypeInv, Unpublished, CountNeverAhead, NEW r \in rawEvents, RowLeaves(r)
    PROVE  Unpublished' /\ CountNeverAhead'
<1> DEFINE n == IF Kind[r.d.ev] = "message" THEN 1 ELSE 0
           now == Cardinality(MessageRows)
           then == Cardinality(MessageRows')
<1>1. now \in Nat /\ then \in Nat /\ now <= then + n
    <2>1. IsFiniteSet(MessageRows) /\ now \in Nat
        BY MessageRowsFinite DEF TypeInv
    <2>2. UNCHANGED rawEvents /\ gone' = gone \cup {r} /\ r \in rawEvents \ gone
        BY DEF RowLeaves
    <2>3. CASE Kind[r.d.ev] = "message"
        <3>1. MessageRows' = MessageRows \ {r} /\ r \in MessageRows
            BY <2>2, <2>3 DEF MessageRows
        <3>2. Cardinality(MessageRows \ {r}) = Cardinality(MessageRows) - 1
              /\ Cardinality(MessageRows \ {r}) \in Nat
            BY <2>1, <3>1, FS_RemoveElement, FS_CardinalityType
        <3>3. n = 1
            BY <2>3
        <3> QED BY <2>1, <3>1, <3>2, <3>3
    <2>4. CASE Kind[r.d.ev] # "message"
        <3>1. MessageRows' = MessageRows
            BY <2>2, <2>4 DEF MessageRows
        <3> QED BY <2>1, <2>4, <3>1
    <2> QED BY <2>3, <2>4
<1>2. n \in Nat /\ left \in Nat /\ messageCount \in Nat /\ counted \in Nat
    BY DEF TypeInv, TypeOK
<1>3. left' = left + n /\ UNCHANGED <<messageCount, counted>>
    BY DEF RowLeaves
<1>4. messageCount <= now + counted + left
    BY DEF CountNeverAhead
<1>5. ASSUME NEW f \in Flushes
      PROVE  /\ flight'[f].total <= then + flight'[f].left
             /\ flight'[f].phase # "publishing" => flight'[f].total = 0
    <2>1. flight[f] \in Flight /\ flight[f].total \in Nat /\ flight[f].left \in Nat
          /\ flight[f].total <= now + flight[f].left
        BY DEF TypeInv, TypeOK, Flight, CountNeverAhead
    <2>2. SameButLeft(flight'[f], flight[f]) /\ flight'[f] \in Flight
        BY LeavesTyped DEF TypeInv
    <2>3. CASE flight[f].phase = "publishing"
        <3>1. flight'[f].left = flight[f].left + n
            BY <2>1, <2>3 DEF RowLeaves, Flight
        <3> HIDE DEF n, now, then
        <3> QED BY <1>1, <1>2, <2>1, <2>2, <2>3, <3>1 DEF SameButLeft
    <2>4. CASE flight[f].phase # "publishing"
        <3>1. flight'[f].total = 0 /\ flight'[f].left \in Nat
            BY <2>2, <2>4 DEF SameButLeft, Unpublished, Flight
        <3> HIDE DEF n, now, then
        <3> QED BY <1>1, <3>1
    <2> QED BY <2>3, <2>4
<1> HIDE DEF n, now, then
<1>6. messageCount' <= then + counted' + left'
    BY <1>1, <1>2, <1>3, <1>4
<1> QED BY <1>5, <1>6 DEF Unpublished, CountNeverAhead, then

\* However counts, SETs, INCRs and the end of rows are ordered, the key exceeds the rows of
\* the table by no more than the INCRs since its last SET and the rows that left since the
\* count behind that SET (CountNeverAhead of Ingestor).
THEOREM NeverAhead == Spec => []CountNeverAhead
<1> DEFINE Inv == Unpublished /\ CountNeverAhead
<1>1. Init => Inv
    <2> SUFFICES ASSUME Init PROVE Inv
        OBVIOUS
    <2>1. Cardinality(MessageRows) \in Nat
        BY TypingInit, MessageRowsFinite DEF TypeInv
    <2> QED BY <2>1 DEF Init, CountNeverAhead, Unpublished, NoFlight
<1>2. ASSUME Ownership, Ownership', Inv, [Next]_vars PROVE Inv'
    <2>0. TypeInv /\ TypeInv' /\ Batched
        BY <1>2 DEF Ownership
    <2>1. CASE \E r \in rawEvents : RowLeaves(r)
        BY <1>2, <2>0, <2>1, OneRowLess
    <2>2. CASE \A r \in rawEvents : ~RowLeaves(r)
        <3> DEFINE now == Cardinality(MessageRows)
                   then == Cardinality(MessageRows')
        <3>1. /\ \/ UNCHANGED <<messageCount, counted, left>>
                 \/ messageCount' = messageCount + 1 /\ counted' = counted + 1 /\ left' = left
                 \/ \E f \in Flushes :
                       messageCount' = flight[f].total /\ counted' = 0 /\ left' = flight[f].left
              /\ gone' = gone /\ \A g \in Flushes : Follows(g)
            BY <1>2, <2>0, <2>2, Totals
        <3>2. now \in Nat /\ then \in Nat /\ now <= then
            <4>1. MessageRows' \subseteq rawEvents' /\ IsFiniteSet(rawEvents')
                BY <2>0 DEF TypeInv, TypeOK, MessageRows
            <4>2. now \in Nat /\ then \in Nat
                BY <2>0, <4>1, MessageRowsFinite, FS_Subset, FS_CardinalityType DEF TypeInv
            <4> QED BY <1>2, <2>0, <3>1, <4>2, CountGrows
        <3>3. /\ messageCount \in Nat /\ counted \in Nat /\ left \in Nat
              /\ messageCount <= now + counted + left
              /\ \A f \in Flushes : /\ flight[f].total \in Nat /\ flight[f].left \in Nat
                                    /\ flight'[f].left \in Nat
                                    /\ flight[f].total <= now + flight[f].left
            BY <1>2, <2>0 DEF CountNeverAhead, TypeInv, TypeOK, Flight
        <3>4. Unpublished'
            BY <1>2, <3>1 DEF Unpublished, Follows
        <3> HIDE DEF now, then
        <3>5. messageCount' <= then + counted' + left'
            BY <3>1, <3>2, <3>3
        <3>6. ASSUME NEW f \in Flushes PROVE flight'[f].total <= then + flight'[f].left
            BY <3>1, <3>2, <3>3 DEF Follows, now
        <3> QED BY <3>4, <3>5, <3>6 DEF CountNeverAhead, then
    <2> QED BY <2>1, <2>2
<1>3. Ownership /\ Ownership' /\ Inv /\ [Next]_vars => Inv'
    BY <1>2
<1>4. Inv => CountNeverAhead
    OBVIOUS
<1> HIDE DEF Inv
<1> QED BY <1>1, <1>3, <1>4, Owned, PTL DEF Spec

-------------------------------------------------------------------------------
(* Voice sessions: the ingestor credits one no more often than the job of its *)
(* join was delivered.  A delivery of the join may still lead to one credit    *)
(* while it is undecided, and then while the join is recorded, in its key or    *)
(* in the hands of a leave.                                                  *)

Credits(e) == {d \in pushed : d.session = e}
Recorded(e) == voiceJoin[User[e]] = e \/ (session = e /\ pc \in {"leaving", "ready"})
Undecided(e) == job = e /\ pc \in {"received", "enriched"}

\* A key holds a join of its own user, and a leave has taken one of its own user's,
\* whose key it deletes before it pushes.
Keyed ==
    /\ \A u \in Users : voiceJoin[u] # NoEvent => User[voiceJoin[u]] = u
    /\ session # NoEvent => /\ pc \in {"leaving", "ready", "returned"}
                            /\ User[session] = User[job]
    /\ pc = "ready" => voiceJoin[User[job]] = NoEvent

Credited ==
    \A e \in Events :
        Cardinality(Credits(e)) + (IF Recorded(e) THEN 1 ELSE 0)
                                + (IF Undecided(e) THEN 1 ELSE 0) <= starts[e]

VoiceInv == IsFiniteSet(pushed) /\ Keyed /\ Credited

LEMMA CreditsFinite ==
    ASSUME IsFiniteSet(pushed), NEW e
    PROVE  IsFiniteSet(Credits(e)) /\ Cardinality(Credits(e)) \in Nat
<1>1. Credits(e) \in SUBSET pushed
    BY DEF Credits
<1> QED
    BY <1>1, FS_Subset, FS_CardinalityType

\* A step that pushes nothing may only take back what deliveries may lead to.
LEMMA NothingCredited ==
    ASSUME TypeInv, VoiceInv, UNCHANGED <<pushed, starts>>,
           \A e \in Events : /\ Recorded(e)' => Recorded(e) \/ (Undecided(e) /\ ~Undecided(e)')
                             /\ Undecided(e)' => Undecided(e)
    PROVE  IsFiniteSet(pushed)' /\ Credited'
<1> SUFFICES ASSUME NEW e \in Events
             PROVE  Cardinality(Credits(e))' + (IF Recorded(e)' THEN 1 ELSE 0)
                        + (IF Undecided(e)' THEN 1 ELSE 0) <= starts[e]
    BY DEF Credited, VoiceInv
<1>1. Credits(e)' = Credits(e) /\ Cardinality(Credits(e)) \in Nat
    BY CreditsFinite DEF Credits, VoiceInv
<1>2. Cardinality(Credits(e)) + (IF Recorded(e) THEN 1 ELSE 0)
          + (IF Undecided(e) THEN 1 ELSE 0) <= starts[e] /\ starts[e] \in Nat
    BY DEF VoiceInv, Credited, TypeInv, TypeOK
<1> QED
    BY <1>1, <1>2

LEMMA VoiceInit == Init => VoiceInv
<1> SUFFICES ASSUME Init PROVE VoiceInv
    OBVIOUS
<1>1. IsFiniteSet(pushed) /\ Keyed
    BY FS_EmptySet DEF Init, Keyed
<1>2. ASSUME NEW e \in Events
      PROVE  Credits(e) = {} /\ ~Recorded(e) /\ ~Undecided(e) /\ starts[e] = 0
    BY DEF Init, Credits, Recorded, Undecided, Users
<1> QED
    BY <1>1, <1>2, FS_EmptySet DEF VoiceInv, Credited

\* Neither Redis' expiry nor the worker's own turns credit more than they may.
LEMMA VoiceStep == TypeInv /\ Fresh /\ VoiceInv /\ [Next]_vars => VoiceInv'
<1> SUFFICES ASSUME TypeInv, Fresh, VoiceInv, [Next]_vars PROVE VoiceInv'
    OBVIOUS
<1>0. ASSUME UNCHANGED <<pushed, starts, voiceJoin, pc, job, session>> PROVE VoiceInv'
    BY <1>0, NothingCredited DEF VoiceInv, Keyed, Recorded, Undecided
<1>1. ASSUME NEW e \in Events, Enqueue(e) \/ RecoverStalled(e) \/ RetryFailed(e)
      PROVE  VoiceInv'
    BY <1>0, <1>1 DEF Enqueue, RecoverStalled, RetryFailed, workerVars, historyVars
<1>2. CASE CountMessage \/ Stop \/ Restart \/ UNCHANGED vars
    BY <1>0, <1>2 DEF CountMessage, Stop, Restart, redisVars, workerVars, historyVars, vars
<1>12. ASSUME NEW r \in rawEvents, RowLeaves(r) PROVE VoiceInv'
    BY <1>0, <1>12 DEF RowLeaves, workerVars, historyVars
<1>3. ASSUME NEW f \in Flushes, FlushStep(f) PROVE VoiceInv'
    BY <1>0, <1>3 DEF FlushStep, OnTimer, InsertOk, InsertFails, Retry, GiveUp, CountRows,
                      PublishTotal, redisVars, workerVars, historyVars
<1>4. ASSUME NEW u \in Users, ExpireJoin(u) PROVE VoiceInv'
    <2>1. /\ voiceJoin' = [voiceJoin EXCEPT ![u] = NoEvent]
          /\ UNCHANGED <<pushed, starts, pc, job, session>>
        BY <1>4 DEF ExpireJoin, workerVars, historyVars
    <2>2. \A e \in Events : voiceJoin'[User[e]] = e => voiceJoin[User[e]] = e
        BY <2>1 DEF TypeInv, TypeOK, Users
    <2>3. Keyed'
        BY <2>1 DEF Keyed, VoiceInv, TypeInv, TypeOK, Users, Busy
    <2> QED
        BY <2>1, <2>2, <2>3, NothingCredited DEF VoiceInv, Recorded, Undecided
<1>5. ASSUME NEW e \in Events, TakeJob(e) PROVE VoiceInv'
    <2>1. /\ pc = "idle" /\ pc' = "received" /\ job' = e
          /\ starts' = [starts EXCEPT ![e] = @ + 1]
          /\ UNCHANGED <<pushed, voiceJoin, session>>
        BY <1>5 DEF TakeJob, historyVars
    <2>2. Keyed'
        BY <2>1 DEF Keyed, VoiceInv
    <2>3. ASSUME NEW d \in Events
          PROVE  Cardinality(Credits(d))' + (IF Recorded(d)' THEN 1 ELSE 0)
                     + (IF Undecided(d)' THEN 1 ELSE 0) <= starts'[d]
        <3>1. Credits(d)' = Credits(d) /\ Cardinality(Credits(d)) \in Nat
            BY <2>1, CreditsFinite DEF Credits, VoiceInv
        <3>2. (Recorded(d)' => Recorded(d)) /\ ~Undecided(d) /\ (Undecided(d)' => d = e)
            BY <2>1 DEF Recorded, Undecided
        <3>3. starts[d] \in Nat /\ starts'[d] = IF d = e THEN starts[d] + 1 ELSE starts[d]
            BY <2>1 DEF TypeInv, TypeOK
        <3>4. Cardinality(Credits(d)) + (IF Recorded(d) THEN 1 ELSE 0) <= starts[d]
            BY <3>1, <3>2 DEF VoiceInv, Credited
        <3> QED
            BY <3>1, <3>2, <3>3, <3>4
    <2> QED
        BY <2>1, <2>2, <2>3 DEF VoiceInv, Credited
<1>6. CASE JobThrows \/ CompleteJob \/ CompletionLost \/ Die
    <2>1. /\ pc' = "idle" /\ session' = NoEvent
          /\ UNCHANGED <<pushed, starts, voiceJoin>>
        BY <1>6 DEF JobThrows, CompleteJob, CompletionLost, Die, LeaveWorker, redisVars,
                    historyVars
    <2>2. Keyed'
        BY <2>1 DEF Keyed, VoiceInv
    <2> QED
        BY <2>1, <2>2, NothingCredited DEF VoiceInv, Recorded, Undecided
<1>7. CASE DropInvalidPayload \/ Enrich
    <2>1. /\ pc = "received" /\ pc' \in {"returned", "enriched"}
          /\ UNCHANGED <<pushed, starts, voiceJoin, job, session>>
        BY <1>7 DEF DropInvalidPayload, Enrich, redisVars, historyVars
    <2>2. Keyed'
        BY <2>1 DEF Keyed, VoiceInv
    <2> QED
        BY <2>1, <2>2, NothingCredited DEF VoiceInv, Recorded, Undecided
<1>8. CASE RecordJoin
    <2>1. /\ pc = "enriched" /\ pc' = "returned"
          /\ voiceJoin' = [voiceJoin EXCEPT ![User[job]] = job]
          /\ UNCHANGED <<pushed, starts, job, session>>
        BY <1>8 DEF RecordJoin, historyVars
    <2>2. job \in Events /\ voiceJoin \in [Users -> EventOrNone]
        BY <2>1 DEF TypeInv, TypeOK, Busy
    <2>3. Keyed'
        BY <2>1, <2>2 DEF Keyed, VoiceInv
    <2>4. ASSUME NEW e \in Events
          PROVE  /\ Recorded(e)' => Recorded(e) \/ (Undecided(e) /\ ~Undecided(e)')
                 /\ Undecided(e)' => Undecided(e)
        BY <2>1, <2>2 DEF Recorded, Undecided, Users
    <2> QED
        BY <2>1, <2>3, <2>4, NothingCredited DEF VoiceInv
<1>9. CASE ReadJoin
    <2>1. /\ pc = "enriched" /\ pc' = "leaving" /\ session' = voiceJoin[User[job]]
          /\ UNCHANGED <<pushed, starts, voiceJoin, job>>
        BY <1>9 DEF ReadJoin, redisVars, historyVars
    <2>2. job \in Events /\ User[job] \in Users
        BY <2>1 DEF TypeInv, TypeOK, Busy, Users
    <2>3. Keyed'
        BY <2>1, <2>2 DEF Keyed, VoiceInv
    <2>4. ASSUME NEW e \in Events
          PROVE  /\ Recorded(e)' => Recorded(e)
                 /\ Undecided(e)' => Undecided(e)
        BY <2>1, <2>2 DEF Recorded, Undecided, Keyed, VoiceInv
    <2> QED
        BY <2>1, <2>3, <2>4, NothingCredited DEF VoiceInv
<1>10. CASE DeleteJoin
    <2>1. /\ pc = "leaving" /\ pc' = "ready"
          /\ voiceJoin' = [voiceJoin EXCEPT ![User[job]] = NoEvent]
          /\ UNCHANGED <<pushed, starts, job, session>>
        BY <1>10 DEF DeleteJoin, historyVars
    <2>2. job \in Events /\ User[job] \in Users /\ voiceJoin \in [Users -> EventOrNone]
        BY <2>1 DEF TypeInv, TypeOK, Busy, Users
    <2>3. Keyed'
        BY <2>1, <2>2 DEF Keyed, VoiceInv
    <2>4. ASSUME NEW e \in Events
          PROVE  /\ Recorded(e)' => Recorded(e)
                 /\ Undecided(e)' => Undecided(e)
        BY <2>1, <2>2 DEF Recorded, Undecided, Users
    <2> QED
        BY <2>1, <2>3, <2>4, NothingCredited DEF VoiceInv
<1>11. CASE PushEvent
    <2>1. /\ pc \in {"ready", "enriched"} /\ pc' = "returned"
          /\ pushed' = pushed \cup {Delivered}
          /\ UNCHANGED <<starts, voiceJoin, job, session>>
        BY <1>11 DEF PushEvent, redisVars
    <2>2. job \in Events /\ Delivered \notin pushed /\ Delivered.session = session
        BY <1>11, <2>1, PushedOnce DEF TypeInv, Busy, Delivered
    <2>3. Keyed'
        BY <2>1 DEF Keyed, VoiceInv
    <2>4. IsFiniteSet(pushed')
        BY <2>1, FS_AddElement DEF VoiceInv
    <2>5. ASSUME NEW e \in Events
          PROVE  Cardinality(Credits(e))' + (IF Recorded(e)' THEN 1 ELSE 0)
                     + (IF Undecided(e)' THEN 1 ELSE 0) <= starts'[e]
        <3>1. /\ IsFiniteSet(Credits(e)) /\ Cardinality(Credits(e)) \in Nat
              /\ starts[e] \in Nat
            BY CreditsFinite DEF VoiceInv, TypeInv, TypeOK
        <3>2. ~Undecided(e)'
            BY <2>1 DEF Undecided
        <3>3. CASE session = e
            <4>1. pc = "ready" /\ User[e] = User[job]
                BY <2>1, <3>3 DEF VoiceInv, Keyed
            <4>2. Recorded(e) /\ ~Recorded(e)' /\ ~Undecided(e)
                BY <2>1, <3>3, <4>1 DEF Recorded, Undecided, VoiceInv, Keyed
            <4>3. Credits(e)' = Credits(e) \cup {Delivered}
                BY <2>1, <2>2, <3>3 DEF Credits
            <4>4. Cardinality(Credits(e))' = Cardinality(Credits(e)) + 1
                BY <2>2, <3>1, <4>3, FS_AddElement DEF Credits
            <4>5. Cardinality(Credits(e)) + 1 <= starts[e]
                BY <3>1, <4>2 DEF VoiceInv, Credited
            <4> QED
                BY <2>1, <3>1, <3>2, <4>2, <4>4, <4>5
        <3>4. CASE session # e
            <4>1. Recorded(e)' => Recorded(e)
                BY <2>1 DEF Recorded
            <4>2. Credits(e)' = Credits(e)
                BY <2>1, <2>2, <3>4 DEF Credits
            <4>3. Cardinality(Credits(e)) + (IF Recorded(e) THEN 1 ELSE 0) <= starts[e]
                BY <3>1 DEF VoiceInv, Credited
            <4> QED
                BY <2>1, <3>1, <3>2, <4>1, <4>2, <4>3
        <3> QED
            BY <3>3, <3>4
    <2> QED
        BY <2>3, <2>4, <2>5 DEF VoiceInv, Credited
<1> QED
    BY <1>1, <1>2, <1>3, <1>4, <1>5, <1>6, <1>7, <1>8, <1>9, <1>10, <1>11, <1>12 DEF Next, Consume

\* However often joins and leaves are delivered, the minutes of a join are credited no
\* more often than the join was delivered (VoiceSessionCreditedOnce of Ingestor).
THEOREM CreditedOnce == Spec => []VoiceSessionCreditedOnce
<1>1. Ownership => TypeInv /\ Fresh
    BY DEF Ownership
<1>2. Spec => []VoiceInv
    BY Owned, <1>1, VoiceInit, VoiceStep, PTL DEF Spec
<1>3. TypeInv /\ VoiceInv => VoiceSessionCreditedOnce
    <2> SUFFICES ASSUME TypeInv, VoiceInv, NEW e \in Events
                 PROVE  Cardinality(Credits(e)) <= starts[e]
        BY DEF VoiceSessionCreditedOnce, Credits
    <2>1. Cardinality(Credits(e)) \in Nat /\ starts[e] \in Nat
        BY CreditsFinite DEF VoiceInv, TypeInv, TypeOK
    <2> QED
        BY <2>1 DEF VoiceInv, Credited
<1> QED
    BY Typing, <1>2, <1>3, PTL

HIDE IngestorAssumption

-------------------------------------------------------------------------------
(* Sums.                                                                   *)

Fiber(X, key, d) == {x \in X : key[x] = d}
Stack(K, n) == UNION {{d} \X (1..n[d]) : d \in K}

LEMMA InStack ==
    ASSUME NEW K, NEW n, NEW p
    PROVE  p \in Stack(K, n) <=> \E d \in K : \E i \in 1..n[d] : p = <<d, i>>
BY DEF Stack

\* A sum over keys of the number of elements with that key is the number of elements.
LEMMA Fibers ==
    ASSUME NEW X, IsFiniteSet(X), NEW K, NEW key \in [X -> K], NEW n,
           \A d \in K : n[d] = Cardinality(Fiber(X, key, d))
    PROVE  Cardinality(Stack(K, n)) = Cardinality(X)
<1> DEFINE U == Stack(K, n)
           B(d) == Bijection(1..n[d], Fiber(X, key, d))
           f == [d \in K |-> CHOOSE g : g \in B(d)]
           F == [p \in U |-> f[p[1]][p[2]]]
<1>1. ASSUME NEW d \in K PROVE f[d] \in B(d)
    <2>1. Fiber(X, key, d) \in SUBSET X
        BY DEF Fiber
    <2>2. IsFiniteSet(Fiber(X, key, d))
        BY <2>1, FS_Subset, Zenon
    <2>3. ExistsBijection(1..n[d], Fiber(X, key, d))
        BY <2>2, FS_CardinalityType
    <2>4. B(d) # {}
        BY <2>3, Fun_ExistsBij, Zenon
    <2>5. (CHOOSE g : g \in B(d)) \in B(d)
        BY <2>4, Zenon
    <2> QED
        BY <2>5
<1> HIDE DEF f
<1>2. ASSUME NEW d \in K
      PROVE  /\ f[d] \in [1..n[d] -> Fiber(X, key, d)]
             /\ \A i, j \in 1..n[d] : f[d][i] = f[d][j] => i = j
             /\ \A x \in Fiber(X, key, d) : \E i \in 1..n[d] : f[d][i] = x
    <2>1. f[d] \in B(d)
        BY <1>1
    <2> QED
        BY <2>1, Zenon DEF Bijection, Injection, Surjection, IsInjective
<1>3. ASSUME NEW p \in U
      PROVE  p[1] \in K /\ p[2] \in 1..n[p[1]] /\ p = <<p[1], p[2]>>
    <2>1. PICK d \in K : \E i \in 1..n[d] : p = <<d, i>>
        BY InStack
    <2> QED
        BY <2>1
<1>4. ASSUME NEW p \in U
      PROVE  F[p] = f[p[1]][p[2]] /\ F[p] \in X /\ key[F[p]] = p[1]
    <2>1. F[p] = f[p[1]][p[2]]
        OBVIOUS
    <2>2. p[1] \in K /\ p[2] \in 1..n[p[1]]
        BY <1>3
    <2>3. f[p[1]][p[2]] \in Fiber(X, key, p[1])
        BY <1>2, <2>2
    <2> HIDE DEF F
    <2> QED
        BY <2>1, <2>3 DEF Fiber
<1>5. F \in [U -> X]
    BY <1>4
<1>6. \A p, q \in U : F[p] = F[q] => p = q
    <2>1. SUFFICES ASSUME NEW p \in U, NEW q \in U, F[p] = F[q] PROVE p = q
        OBVIOUS
    <2>2. p[1] = q[1]
        BY <1>4, <2>1
    <2>3. f[p[1]][p[2]] = f[p[1]][q[2]]
        BY <1>4, <2>1, <2>2
    <2>4. p[2] = q[2]
        BY <1>2, <1>3, <2>2, <2>3
    <2> QED
        BY <1>3, <2>2, <2>4
<1>7. \A x \in X : \E p \in U : F[p] = x
    <2> SUFFICES ASSUME NEW x \in X PROVE \E p \in U : F[p] = x
        OBVIOUS
    <2>1. key[x] \in K /\ x \in Fiber(X, key, key[x])
        BY DEF Fiber
    <2>2. PICK i \in 1..n[key[x]] : f[key[x]][i] = x
        BY <1>2, <2>1
    <2>3. <<key[x], i>> \in U
        BY <2>1, InStack
    <2>4. F[<<key[x], i>>] = x
        BY <2>2, <2>3
    <2> QED
        BY <2>3, <2>4
<1> HIDE DEF F, U
<1>8. F \in Bijection(U, X)
    BY <1>5, <1>6, <1>7, Fun_IsBij, Zenon
<1>9. ExistsBijection(U, X)
    BY <1>8, Fun_ExistsBij
<1>10. ExistsBijection(X, U)
    BY <1>9, Fun_ExistsBijSymmetric, Zenon
<1> QED
    BY <1>10, FS_Bijection, Zenon DEF U

\* A set of pairs of an event and a minute is finite.
LEMMA StackFinite ==
    ASSUME NEW S, IsFiniteSet(S), NEW n, \A e \in S : n[e] \in Nat
    PROVE  IsFiniteSet(Stack(S, n))
<1> DEFINE Sets == {{e} \X (1..n[e]) : e \in S}
           g == [e \in S |-> {e} \X (1..n[e])]
<1>1. g \in Surjection(S, Sets)
    BY Fun_IsSurj
<1>2. IsFiniteSet(Sets)
    BY <1>1, FS_Surjection, Zenon
<1>3. \A T \in Sets : IsFiniteSet(T)
    <2> SUFFICES ASSUME NEW e \in S PROVE IsFiniteSet({e} \X (1..n[e]))
        OBVIOUS
    <2>1. IsFiniteSet({e})
        BY FS_Singleton, Zenon
    <2>2. IsFiniteSet(1..n[e])
        BY FS_Interval
    <2> QED
        BY <2>1, <2>2, FS_Product, Zenon
<1> QED
    BY <1>2, <1>3, FS_UNION, Zenon DEF Stack

-------------------------------------------------------------------------------
(* What queries compute.                                                   *)

LEMMA EventsFinite ==
    ASSUME NEW S \in SUBSET Event
    PROVE  IsFiniteSet(S) /\ Cardinality(S) \in Nat
<1>1. IsFiniteSet(S)
    BY FS_Subset, AnalyticsAssumption, Zenon
<1> QED
    BY <1>1, FS_CardinalityType, Zenon

LEMMA FewerEvents ==
    ASSUME NEW S \in SUBSET Event, NEW T \in SUBSET S
    PROVE  Cardinality(T) <= Cardinality(S)
BY EventsFinite, FS_Subset, Zenon

LEMMA Bounds ==
    /\ Today \in Int /\ PageSize \in Nat /\ PageSize > 0
    /\ TopLimit \in Nat /\ BoardLimit \in Nat /\ KeyLimit \in Nat
<1>1. /\ Today \in Nat \ {0} /\ PageSize \in Nat \ {0}
      /\ TopLimit \in Nat /\ BoardLimit \in Nat /\ KeyLimit \in Nat
    BY AnalyticsAssumption, Zenon DEF AnalyticsAssumption
<1> QED
    BY <1>1

LEMMA EventColumns ==
    ASSUME NEW e \in Event
    PROVE  /\ Of[e].kind \in {"message", "voice"} /\ Of[e].day \in Day /\ Of[e].day \in Int
           /\ Of[e].minutes \in Nat /\ Minutes(e) \in Nat
<1>1. /\ Of[e].kind \in {"message", "voice"} /\ Of[e].day \in Day /\ Of[e].minutes \in Nat
    BY AnalyticsAssumption, Zenon DEF AnalyticsAssumption
<1>2. Today \in Int
    BY Bounds
<1> QED
    BY <1>1, <1>2 DEF Minutes, Day

LEMMA Selected ==
    ASSUME NEW S \in SUBSET Event, NEW g, NEW p
    PROVE  /\ In(S, g) \in SUBSET S /\ Messages(S) \in SUBSET S /\ During(S, p) \in SUBSET S
           /\ In(S, g) \in SUBSET Event /\ Messages(S) \in SUBSET Event /\ During(S, p) \in SUBSET Event
BY DEF In, Messages, During

\* A sum of the numbers of events with each key is the number of events.
LEMMA EventsByKey ==
    ASSUME NEW S \in SUBSET Event, NEW K, NEW key \in [S -> K], NEW n,
           \A d \in K : n[d] = Cardinality(Fiber(S, key, d))
    PROVE  Cardinality(Stack(K, n)) = Cardinality(S)
<1>1. IsFiniteSet(S)
    BY EventsFinite
<1> QED
    BY <1>1, Fibers

MinutesOf == [e \in Event |-> Minutes(e)]

LEMMA MinutesStack ==
    ASSUME NEW S \in SUBSET Event
    PROVE  Total(Minutes, S) = Cardinality(Stack(S, MinutesOf)) /\ IsFiniteSet(Stack(S, MinutesOf))
<1>1. {{e} \X (1..Minutes(e)) : e \in S} = {{e} \X (1..MinutesOf[e]) : e \in S}
    BY DEF MinutesOf
<1>2. \A e \in S : MinutesOf[e] \in Nat
    BY EventColumns DEF MinutesOf
<1>3. IsFiniteSet(Stack(S, MinutesOf))
    BY <1>2, EventsFinite, StackFinite, Zenon
<1> QED
    BY <1>1, <1>3, Zenon DEF Total, Stack

LEMMA MinutesNat ==
    ASSUME NEW S \in SUBSET Event
    PROVE  Total(Minutes, S) \in Nat
BY MinutesStack, FS_CardinalityType, Zenon

\* A sum of the minutes of the events with each key is the minutes of all of them.
LEMMA MinutesByKey ==
    ASSUME NEW S \in SUBSET Event, NEW K, NEW key \in [S -> K], NEW n,
           \A d \in K : n[d] = Total(Minutes, Fiber(S, key, d))
    PROVE  Cardinality(Stack(K, n)) = Total(Minutes, S)
<1> DEFINE X == Stack(S, MinutesOf)
           at == [x \in X |-> key[x[1]]]
           Part(d) == Fiber(S, key, d)
<1>1. ASSUME NEW x \in X PROVE x[1] \in S /\ \E i \in 1..MinutesOf[x[1]] : x = <<x[1], i>>
    <2>1. PICK e \in S : \E i \in 1..MinutesOf[e] : x = <<e, i>>
        BY InStack
    <2> QED
        BY <2>1
<1>2. ASSUME NEW d \in K PROVE Fiber(X, at, d) = Stack(Part(d), MinutesOf)
    <2>1. ASSUME NEW x \in Fiber(X, at, d) PROVE x \in Stack(Part(d), MinutesOf)
        <3>1. x \in X /\ key[x[1]] = d
            BY DEF Fiber
        <3>2. x[1] \in Part(d)
            BY <3>1, <1>1 DEF Fiber
        <3> QED
            BY <3>1, <3>2, <1>1, InStack
    <2>2. ASSUME NEW x \in Stack(Part(d), MinutesOf) PROVE x \in Fiber(X, at, d)
        <3>1. PICK e \in Part(d) : \E i \in 1..MinutesOf[e] : x = <<e, i>>
            BY InStack
        <3>2. x \in X
            <4>1. e \in S
                BY DEF Fiber
            <4> QED
                BY <3>1, <4>1, InStack
        <3>3. x[1] = e
            BY <3>1
        <3>4. key[e] = d
            BY DEF Fiber
        <3> QED
            BY <3>2, <3>3, <3>4 DEF Fiber
    <2> QED
        BY <2>1, <2>2
<1>3. at \in [X -> K]
    BY <1>1
<1>4. ASSUME NEW d \in K PROVE n[d] = Cardinality(Fiber(X, at, d))
    <2>1. Part(d) \in SUBSET Event
        BY DEF Fiber
    <2>2. Total(Minutes, Part(d)) = Cardinality(Stack(Part(d), MinutesOf))
        BY <2>1, MinutesStack, Zenon
    <2> QED
        BY <2>2, <1>2
<1>5. IsFiniteSet(X)
    BY MinutesStack
<1> HIDE DEF X, at
<1>6. Cardinality(Stack(K, n)) = Cardinality(X)
    BY <1>3, <1>4, <1>5, Fibers
<1> QED
    BY <1>6, MinutesStack DEF X

LEMMA AllStack ==
    ASSUME NEW f
    PROVE  All(f) = Cardinality(Stack(DOMAIN f, f))
BY DEF All, Stack

\* A day's row of the chart, and the sums over them.
LEMMA ChartMessages ==
    ASSUME NEW S \in SUBSET Event, NEW g, NEW p \in Int \X Int
    PROVE  Sum(Chart(S, g, p), "messages") = Cardinality(Messages(During(In(S, g), p)))
<1> DEFINE K == p[1]..p[2]
           X == Messages(During(In(S, g), p))
           Rows(d) == During(In(S, g), <<d, d>>)
           n == [d \in K |-> Cardinality(Messages(Rows(d)))]
           key == [e \in X |-> Of[e].day]
<1>1. p[1] \in Int /\ p[2] \in Int
    OBVIOUS
<1>2. X \in SUBSET Event /\ \A e \in X : e \in S /\ Of[e].day \in Int /\ Of[e].day \in K
    BY <1>1, EventColumns DEF Messages, During, In
<1>3. key \in [X -> K]
    BY <1>2
<1>4. ASSUME NEW d \in K PROVE Messages(Rows(d)) = Fiber(X, key, d)
    <2>1. d \in Int /\ p[1] <= d /\ d <= p[2]
        BY <1>1
    <2>2. \A e \in In(S, g) : Of[e].day \in Int
        BY EventColumns DEF In
    <2> QED
        BY <2>1, <2>2, <1>1 DEF Messages, During, Fiber
<1>5. Cardinality(Stack(K, n)) = Cardinality(X)
    <2>1. \A d \in K : n[d] = Cardinality(Fiber(X, key, d))
        BY <1>4
    <2>2. X \in SUBSET Event
        BY <1>2
    <2> HIDE DEF n, key, X, K
    <2> QED
        BY <2>1, <2>2, <1>3, EventsByKey
<1>6. {{d} \X (1..Chart(S, g, p)[d]["messages"]) : d \in DOMAIN Chart(S, g, p)} = {{d} \X (1..n[d]) : d \in K}
    <2>1. DOMAIN Chart(S, g, p) = K
        BY DEF Chart
    <2>2. \A d \in K : Chart(S, g, p)[d]["messages"] = n[d]
        BY DEF Chart
    <2> HIDE DEF n, K
    <2> QED
        BY <2>1, <2>2
<1> QED
    BY <1>5, <1>6, Zenon DEF Sum, Total, Stack

LEMMA ChartMinutes ==
    ASSUME NEW S \in SUBSET Event, NEW g, NEW p \in Int \X Int
    PROVE  Sum(Chart(S, g, p), "voiceMinutes") = Total(Minutes, During(In(S, g), p))
<1> DEFINE K == p[1]..p[2]
           X == During(In(S, g), p)
           Rows(d) == During(In(S, g), <<d, d>>)
           n == [d \in K |-> Total(Minutes, Rows(d))]
           key == [e \in X |-> Of[e].day]
<1>1. p[1] \in Int /\ p[2] \in Int
    OBVIOUS
<1>2. X \in SUBSET Event /\ \A e \in X : e \in S /\ Of[e].day \in Int /\ Of[e].day \in K
    BY <1>1, EventColumns DEF During, In
<1>3. key \in [X -> K]
    BY <1>2
<1>4. ASSUME NEW d \in K PROVE Rows(d) = Fiber(X, key, d)
    <2>1. d \in Int /\ p[1] <= d /\ d <= p[2]
        BY <1>1
    <2>2. \A e \in In(S, g) : Of[e].day \in Int
        BY EventColumns DEF In
    <2> QED
        BY <2>1, <2>2, <1>1 DEF During, Fiber
<1>5. Cardinality(Stack(K, n)) = Total(Minutes, X)
    <2>1. \A d \in K : n[d] = Total(Minutes, Fiber(X, key, d))
        BY <1>4
    <2>2. X \in SUBSET Event
        BY <1>2
    <2> HIDE DEF n, key, X, K
    <2> QED
        BY <2>1, <2>2, <1>3, MinutesByKey
<1>6. {{d} \X (1..Chart(S, g, p)[d]["voiceMinutes"]) : d \in DOMAIN Chart(S, g, p)} = {{d} \X (1..n[d]) : d \in K}
    <2>1. DOMAIN Chart(S, g, p) = K
        BY DEF Chart
    <2>2. \A d \in K : Chart(S, g, p)[d]["voiceMinutes"] = n[d]
        BY DEF Chart
    <2> HIDE DEF n, K
    <2> QED
        BY <2>1, <2>2
<1> QED
    BY <1>5, <1>6, Zenon DEF Sum, Total, Stack


LEMMA AllEvents ==
    ASSUME NEW S \in SUBSET Event, NEW f, NEW key \in [S -> DOMAIN f],
           \A d \in DOMAIN f : f[d] = Cardinality(Fiber(S, key, d))
    PROVE  All(f) = Cardinality(S)
<1>1. Cardinality(Stack(DOMAIN f, f)) = Cardinality(S)
    BY EventsByKey
<1> QED
    BY <1>1, AllStack

\* Guilds, hours, channels, commands and roles: their numbers add up.
LEMMA GuildMessages ==
    ASSUME NEW S \in SUBSET Event
    PROVE  All(MessagesOfGuilds(S, {Of[e].guild : e \in Event})) = GlobalMessages(S)
<1> DEFINE f == MessagesOfGuilds(S, {Of[e].guild : e \in Event})
           X == Messages(S)
           key == [e \in X |-> Of[e].guild]
<1>1. X \in SUBSET Event /\ X \in SUBSET S
    BY Selected
<1>2. DOMAIN f = {Of[e].guild : e \in S}
    <2>1. {Of[e].guild : e \in S} \cap {Of[e].guild : e \in Event} = {Of[e].guild : e \in S}
        OBVIOUS
    <2> QED
        BY <2>1 DEF MessagesOfGuilds
<1>3. key \in [X -> DOMAIN f]
    BY <1>1, <1>2
<1>4. ASSUME NEW g \in DOMAIN f PROVE f[g] = Cardinality(Fiber(X, key, g))
    <2>1. f[g] = Cardinality(Messages(In(S, g)))
        BY <1>2 DEF MessagesOfGuilds, TotalMessages
    <2>2. Messages(In(S, g)) = Fiber(X, key, g)
        BY DEF Messages, In, Fiber
    <2> QED
        BY <2>1, <2>2
<1> HIDE DEF f, key, X
<1>5. All(f) = Cardinality(X)
    BY <1>1, <1>3, <1>4, AllEvents
<1> QED
    BY <1>5 DEF f, X, GlobalMessages

LEMMA HeatmapMessages ==
    ASSUME NEW S \in SUBSET Event, NEW g
    PROVE  All(Heatmap(S, g)) = Cardinality(Messages(In(S, g)))
<1> DEFINE f == Heatmap(S, g)
           X == Messages(In(S, g))
           key == [e \in X |-> Of[e].hour]
<1>1. X \in SUBSET Event
    BY DEF Messages, In
<1>2. DOMAIN f = {Of[e].hour : e \in Event}
    BY DEF Heatmap
<1>3. key \in [X -> DOMAIN f]
    BY <1>1, <1>2
<1>4. ASSUME NEW h \in DOMAIN f PROVE f[h] = Cardinality(Fiber(X, key, h))
    <2>1. f[h] = Cardinality({e \in X : Of[e].hour = h})
        BY <1>2 DEF Heatmap
    <2>2. {e \in X : Of[e].hour = h} = Fiber(X, key, h)
        BY DEF Fiber
    <2> QED
        BY <2>1, <2>2
<1> HIDE DEF f, key, X
<1>5. All(f) = Cardinality(X)
    BY <1>1, <1>3, <1>4, AllEvents
<1> QED
    BY <1>5 DEF f, X

\* A limit takes nothing away where it cuts nothing off, and adds nothing anywhere.
LEMMA TopsAreFewer ==
    ASSUME NEW f, IsFiniteSet(DOMAIN f), \A c \in DOMAIN f : f[c] \in Nat, NEW top \in Tops(f)
    PROVE  All(top) <= All(f) /\ All(top) \in Nat /\ (Few(f) => All(top) = All(f))
<1>1. PICK keys \in SUBSET DOMAIN f : /\ Cardinality(keys) = Least(KeyLimit, Cardinality(DOMAIN f))
                                      /\ top = [c \in keys |-> f[c]]
    BY DEF Tops
<1>2. Stack(DOMAIN top, top) = Stack(keys, f)
    <2>1. DOMAIN top = keys /\ \A c \in keys : top[c] = f[c]
        BY <1>1
    <2>2. {{c} \X (1..top[c]) : c \in DOMAIN top} = {{c} \X (1..f[c]) : c \in keys}
        BY <2>1
    <2> QED
        BY <2>2, Zenon DEF Stack
<1>3. IsFiniteSet(Stack(DOMAIN f, f))
    BY StackFinite, Zenon
<1>4. Stack(keys, f) \in SUBSET Stack(DOMAIN f, f)
    BY InStack
<1>5. All(top) <= All(f) /\ All(top) \in Nat
    BY <1>2, <1>3, <1>4, AllStack, FS_Subset, FS_CardinalityType, Zenon
<1>6. ASSUME Few(f) PROVE All(top) = All(f)
    <2>1. Cardinality(DOMAIN f) \in Nat /\ KeyLimit \in Nat
        BY FS_CardinalityType, Bounds
    <2>2. Cardinality(keys) = Cardinality(DOMAIN f)
        BY <1>1, <1>6, <2>1 DEF Few, Least
    <2>3. keys = DOMAIN f
        BY <2>2, FS_Subset, Zenon
    <2> QED
        BY <1>2, <2>3, AllStack, Zenon
<1> QED
    BY <1>5, <1>6

\* What has a number is the key of some event.
LEMMA KeysFinite ==
    ASSUME NEW X \in SUBSET Event, NEW K, NEW key \in [X -> K], K = {key[e] : e \in X}
    PROVE  IsFiniteSet(K)
<1>1. key \in Surjection(X, K)
    BY Fun_IsSurj, Zenon
<1> QED
    BY <1>1, EventsFinite, FS_Surjection, Zenon

LEMMA FiberCount ==
    ASSUME NEW X \in SUBSET Event, NEW key, NEW c
    PROVE  /\ Fiber(X, key, c) \in SUBSET Event /\ Cardinality(Fiber(X, key, c)) \in Nat
           /\ Total(Minutes, Fiber(X, key, c)) \in Nat
<1>1. Fiber(X, key, c) \in SUBSET Event
    BY DEF Fiber
<1> QED
    BY <1>1, EventsFinite, MinutesNat

LEMMA ChannelMessages ==
    ASSUME NEW S \in SUBSET Event, NEW g, NEW p
    PROVE  LET f == PerMessageChannel(S, g, p)
           IN  /\ All(f) = Cardinality(Messages(During(In(S, g), p)))
               /\ IsFiniteSet(DOMAIN f) /\ \A c \in DOMAIN f : f[c] \in Nat
<1> DEFINE f == PerMessageChannel(S, g, p)
           X == Messages(During(In(S, g), p))
           key == [e \in X |-> Of[e].channel]
<1>1. X \in SUBSET Event
    BY DEF Messages, During, In
<1>9. Channelled(X) = X
    <2>1. \A e \in Event : Of[e].kind = "message" => Of[e].channel # ""
        BY AnalyticsAssumption, Zenon DEF AnalyticsAssumption
    <2> QED
        BY <1>1, <2>1 DEF Channelled, Messages
<1>2. DOMAIN f = {Of[e].channel : e \in X}
    BY <1>9 DEF PerMessageChannel
<1>3. key \in [X -> DOMAIN f]
    BY <1>2
<1>4. ASSUME NEW c \in DOMAIN f PROVE f[c] = Cardinality(Fiber(X, key, c))
    <2>1. f[c] = Cardinality({e \in X : Of[e].channel = c})
        BY <1>2, <1>9 DEF PerMessageChannel
    <2>2. {e \in X : Of[e].channel = c} = Fiber(X, key, c)
        BY DEF Fiber
    <2> QED
        BY <2>1, <2>2
<1>5. DOMAIN f = {key[e] : e \in X}
    BY <1>2
<1> HIDE DEF f, key, X
<1>6. All(f) = Cardinality(X)
    BY <1>1, <1>3, <1>4, AllEvents
<1>7. IsFiniteSet(DOMAIN f) /\ \A c \in DOMAIN f : f[c] \in Nat
    BY <1>1, <1>3, <1>4, <1>5, KeysFinite, FiberCount
<1> QED
    BY <1>6, <1>7 DEF f, X

\* Rows that are no voice sessions have no minutes; those of no channel count for none.
LEMMA ChannelMinutes ==
    ASSUME NEW S \in SUBSET Event, NEW g, NEW p
    PROVE  LET f == PerVoiceChannel(S, g, p)
               R == During(In(S, g), p)
           IN  /\ All(f) + Total(Minutes, R \ Channelled(R)) = Total(Minutes, R)
               /\ IsFiniteSet(DOMAIN f) /\ \A c \in DOMAIN f : f[c] \in Nat
<1> DEFINE f == PerVoiceChannel(S, g, p)
           R == During(In(S, g), p)
           N == R \ Channelled(R)
           X == {e \in Channelled(R) : Of[e].kind = "voice"}
           key == [e \in X |-> Of[e].channel]
<1>1. R \in SUBSET Event /\ X \in SUBSET Event /\ N \in SUBSET Event
    BY DEF During, In, Channelled
<1>2. DOMAIN f = {Of[e].channel : e \in X}
    BY DEF PerVoiceChannel
<1>3. key \in [X -> DOMAIN f]
    BY <1>2
<1>4. ASSUME NEW c \in DOMAIN f PROVE f[c] = Total(Minutes, Fiber(X, key, c))
    <2>1. f[c] = Total(Minutes, {e \in X : Of[e].channel = c})
        BY <1>2 DEF PerVoiceChannel
    <2>2. {e \in X : Of[e].channel = c} = Fiber(X, key, c)
        BY DEF Fiber
    <2> QED
        BY <2>1, <2>2
<1>5. DOMAIN f = {key[e] : e \in X}
    BY <1>2
<1>6. Stack(X, MinutesOf) \cup Stack(N, MinutesOf) = Stack(R, MinutesOf)
    <2>1. ASSUME NEW x \in Stack(R, MinutesOf)
          PROVE  x \in Stack(X, MinutesOf) \/ x \in Stack(N, MinutesOf)
        <3>1. PICK e \in R : \E i \in 1..MinutesOf[e] : x = <<e, i>>
            BY InStack
        <3>2. Of[e].kind = "voice"
            BY <1>1, <3>1 DEF MinutesOf, Minutes
        <3>3. e \in X \/ e \in N
            BY <3>2
        <3> QED
            BY <3>1, <3>3, InStack
    <2>2. ASSUME NEW x, x \in Stack(X, MinutesOf) \/ x \in Stack(N, MinutesOf)
          PROVE  x \in Stack(R, MinutesOf)
        <3>1. X \subseteq R /\ N \subseteq R
            BY DEF Channelled
        <3> QED
            BY <2>2, <3>1, InStack
    <2> QED
        BY <2>1, <2>2
<1>7. Stack(X, MinutesOf) \cap Stack(N, MinutesOf) = {}
    <2>1. X \cap N = {}
        OBVIOUS
    <2> QED
        BY <2>1, InStack
<1>8. Total(Minutes, X) + Total(Minutes, N) = Total(Minutes, R)
    <2> HIDE DEF X, N, R
    <2> DEFINE A == Stack(X, MinutesOf)
               B == Stack(N, MinutesOf)
    <2>1. /\ IsFiniteSet(A) /\ IsFiniteSet(B)
          /\ Total(Minutes, X) = Cardinality(A) /\ Total(Minutes, N) = Cardinality(B)
          /\ Total(Minutes, R) = Cardinality(A \cup B)
        BY <1>1, <1>6, MinutesStack, Zenon
    <2>2. Cardinality(A \cap B) = 0
        BY <1>7, FS_EmptySet, Zenon
    <2> HIDE DEF A, B
    <2>3. Cardinality(A \cup B) = Cardinality(A) + Cardinality(B) - Cardinality(A \cap B)
        BY <2>1, FS_Union, Zenon
    <2>4. Cardinality(A) \in Nat /\ Cardinality(B) \in Nat
        BY <2>1, FS_CardinalityType, Zenon
    <2> QED
        BY <2>1, <2>2, <2>3, <2>4
<1> HIDE DEF f, key, X, N, R
<1>9. Cardinality(Stack(DOMAIN f, f)) = Total(Minutes, X)
    BY <1>1, <1>3, <1>4, MinutesByKey
<1>10. IsFiniteSet(DOMAIN f) /\ \A c \in DOMAIN f : f[c] \in Nat
    BY <1>1, <1>3, <1>4, <1>5, KeysFinite, FiberCount
<1> QED
    BY <1>8, <1>9, <1>10, AllStack DEF f, R, N

LEMMA CommandRows ==
    ASSUME NEW S \in SUBSET Event, NEW g, NEW p
    PROVE  LET f == PerCommand(S, g, p)
           IN  /\ All(f) = Cardinality({e \in During(In(S, g), p) : Of[e].command # ""})
               /\ IsFiniteSet(DOMAIN f) /\ \A c \in DOMAIN f : f[c] \in Nat
<1> DEFINE f == PerCommand(S, g, p)
           X == {e \in During(In(S, g), p) : Of[e].command # ""}
           key == [e \in X |-> Of[e].command]
<1>1. X \in SUBSET Event
    BY DEF During, In
<1>2. DOMAIN f = {Of[e].command : e \in X}
    BY DEF PerCommand
<1>3. key \in [X -> DOMAIN f]
    BY <1>2
<1>4. ASSUME NEW c \in DOMAIN f PROVE f[c] = Cardinality(Fiber(X, key, c))
    <2>1. f[c] = Cardinality({e \in X : Of[e].command = c})
        BY <1>2 DEF PerCommand
    <2>2. {e \in X : Of[e].command = c} = Fiber(X, key, c)
        BY DEF Fiber
    <2> QED
        BY <2>1, <2>2
<1>5. DOMAIN f = {key[e] : e \in X}
    BY <1>2
<1> HIDE DEF f, key, X
<1>6. All(f) = Cardinality(X)
    BY <1>1, <1>3, <1>4, AllEvents
<1>7. IsFiniteSet(DOMAIN f) /\ \A c \in DOMAIN f : f[c] \in Nat
    BY <1>1, <1>3, <1>4, <1>5, KeysFinite, FiberCount
<1> QED
    BY <1>6, <1>7 DEF f, X

LEMMA RoleRows ==
    ASSUME NEW S \in SUBSET Event, NEW g, NEW p
    PROVE  All(Roles(S, g, p)) = Cardinality({e \in During(In(S, g), p) : Of[e].role # ""})
<1> DEFINE f == Roles(S, g, p)
           X == {e \in During(In(S, g), p) : Of[e].role # ""}
           key == [e \in X |-> Of[e].role]
<1>1. X \in SUBSET Event
    BY DEF During, In
<1>2. DOMAIN f = {Of[e].role : e \in X}
    BY DEF Roles
<1>3. key \in [X -> DOMAIN f]
    BY <1>2
<1>4. ASSUME NEW c \in DOMAIN f PROVE f[c] = Cardinality(Fiber(X, key, c))
    <2>1. f[c] = Cardinality({e \in X : Of[e].role = c})
        BY <1>2 DEF Roles
    <2>2. {e \in X : Of[e].role = c} = Fiber(X, key, c)
        BY DEF Fiber
    <2> QED
        BY <2>1, <2>2
<1> HIDE DEF f, key, X
<1>5. All(f) = Cardinality(X)
    BY <1>1, <1>3, <1>4, AllEvents
<1> QED
    BY <1>5 DEF f, X

\* No row is of a command and of a role.
LEMMA CommandsAndRoles ==
    ASSUME NEW S \in SUBSET Event, NEW g, NEW p, NEW top \in Commands(S, g, p)
    PROVE  All(top) + All(Roles(S, g, p)) <= Cardinality(S)
<1> DEFINE C == {e \in During(In(S, g), p) : Of[e].command # ""}
           R == {e \in During(In(S, g), p) : Of[e].role # ""}
<1>1. C \in SUBSET S /\ R \in SUBSET S
    BY DEF During, In
<1>2. C \cap R = {}
    <2>1. \A e \in Event : Of[e].command = "" \/ Of[e].role = ""
        BY AnalyticsAssumption, Zenon DEF AnalyticsAssumption
    <2> QED
        BY <1>1, <2>1
<1>3. All(top) <= Cardinality(C) /\ All(top) \in Nat /\ All(Roles(S, g, p)) = Cardinality(R)
    <2> DEFINE f == PerCommand(S, g, p)
    <2>1. /\ All(f) = Cardinality(C)
          /\ IsFiniteSet(DOMAIN f) /\ \A c \in DOMAIN f : f[c] \in Nat
        BY CommandRows
    <2>2. top \in Tops(f)
        BY DEF Commands
    <2> HIDE DEF f
    <2>3. All(top) <= All(f) /\ All(top) \in Nat
        BY <2>1, <2>2, TopsAreFewer
    <2> QED
        BY <2>1, <2>3, RoleRows
<1> HIDE DEF C, R
<1>4. IsFiniteSet(C) /\ IsFiniteSet(R) /\ Cardinality(C) \in Nat /\ Cardinality(R) \in Nat
    BY <1>1, EventsFinite
<1>5. Cardinality(C \cup R) = Cardinality(C) + Cardinality(R) - Cardinality(C \cap R)
    BY <1>4, FS_Union
<1>6. Cardinality(C \cap R) = 0
    BY <1>2, FS_EmptySet
<1>7. Cardinality(C \cup R) <= Cardinality(S) /\ Cardinality(S) \in Nat
    BY <1>1, FewerEvents, EventsFinite
<1> QED
    BY <1>3, <1>4, <1>5, <1>6, <1>7


-------------------------------------------------------------------------------
(* The order of the members, and what a page of it says.                      *)

Metrics == {"messages", "voice"}
Members(R) == {MemberId(e) : e \in R}

\* The members of the rows R in an order of the metric.
Lists(R, metric) ==
    {t \in SetToSeqs(Members(R)) :
        \A i, j \in DOMAIN t : i < j => ~Ahead(R, metric, t[j], t[i])}

LEMMA MembersFinite ==
    ASSUME NEW R \in SUBSET Event
    PROVE  IsFiniteSet(Members(R)) /\ Cardinality(Members(R)) \in Nat
<1> DEFINE f == [e \in R |-> MemberId(e)]
<1>1. f \in Surjection(R, Members(R))
    BY Fun_IsSurj DEF Members
<1>2. IsFiniteSet(R)
    BY EventsFinite
<1>3. IsFiniteSet(Members(R))
    BY <1>1, <1>2, FS_Surjection
<1> QED
    BY <1>3, FS_CardinalityType

LEMMA AmountNat ==
    ASSUME NEW R \in SUBSET Event, NEW id, NEW metric
    PROVE  Amount(R, id, metric) \in Nat
<1> DEFINE rows == {e \in R : MemberId(e) = id}
<1>1. rows \in SUBSET Event /\ Messages(rows) \in SUBSET Event
    BY DEF Messages
<1>2. Cardinality(Messages(rows)) \in Nat /\ Total(Minutes, rows) \in Nat
    BY <1>1, EventsFinite, MinutesNat
<1> HIDE DEF rows
<1>3. Amount(R, id, metric) = IF metric = "messages" THEN Cardinality(Messages(rows)) ELSE Total(Minutes, rows)
    BY Zenon DEF Amount, rows
<1> QED
    BY <1>2, <1>3

LEMMA NotAheadOfItself ==
    ASSUME NEW R \in SUBSET Event, NEW id, NEW metric
    PROVE  ~Ahead(R, metric, id, id)
<1>1. Amount(R, id, metric) \in Nat /\ Amount(R, id, Other(metric)) \in Nat
    BY AmountNat
<1> QED
    BY <1>1 DEF Ahead

\* A list has each member once.
LEMMA ListPlaces ==
    ASSUME NEW R \in SUBSET Event, NEW metric, NEW t \in Lists(R, metric)
    PROVE  LET n == Cardinality(Members(R))
           IN  /\ n \in Nat /\ t \in Seq(Members(R)) /\ Len(t) = n /\ DOMAIN t = 1..n
               /\ \A i, j \in 1..n : t[i] = t[j] => i = j
               /\ \A m \in Members(R) : \E i \in 1..n : t[i] = m
               /\ \A i, j \in 1..n : i < j => ~Ahead(R, metric, t[j], t[i])
<1> DEFINE n == Cardinality(Members(R))
           M == Members(R)
<1>1. n \in Nat /\ IsFiniteSet(M)
    BY MembersFinite
<1>2. t \in [1..n -> M] /\ \A i, j \in 1..n : i # j => t[i] # t[j]
    BY DEF Lists, SetToSeqs
<1>3. \A i, j \in 1..n : i < j => ~Ahead(R, metric, t[j], t[i])
    BY <1>2 DEF Lists
<1> HIDE DEF n, M
<1>4. t \in Seq(M) /\ Len(t) = n /\ DOMAIN t = 1..n
    BY <1>1, <1>2
<1>5. t \in Injection(1..n, M)
    BY <1>2, Fun_IsInj
<1>6. Cardinality(1..n) = n
    BY <1>1, FS_Interval
<1>7. t \in Surjection(1..n, M)
    BY <1>1, <1>5, <1>6, FS_Injection DEF n, M
<1>8. \A m \in M : \E i \in 1..n : t[i] = m
    BY <1>7 DEF Surjection
<1> QED
    BY <1>1, <1>2, <1>3, <1>4, <1>8 DEF n, M

Section(t, a, b) == {t[i] : i \in a..b}

LEMMA SectionSize ==
    ASSUME NEW M, NEW n \in Nat, NEW t \in [1..n -> M],
           \A i, j \in 1..n : t[i] = t[j] => i = j,
           NEW a \in Int, NEW b \in Int, 1 <= a, a <= b + 1, b <= n
    PROVE  IsFiniteSet(Section(t, a, b)) /\ Cardinality(Section(t, a, b)) = b - a + 1
<1> DEFINE T == Section(t, a, b)
           f == [i \in a..b |-> t[i]]
<1>1. f \in Surjection(a..b, T)
    BY Fun_IsSurj DEF Section
<1>2. f \in [a..b -> T] /\ \A i, j \in a..b : f[i] = f[j] => i = j
    BY DEF Section
<1>3. IsFiniteSet(a..b) /\ Cardinality(a..b) = b - a + 1
    <2>1. IsFiniteSet(a..b) /\ Cardinality(a..b) = IF a > b THEN 0 ELSE b - a + 1
        BY FS_Interval
    <2> QED
        BY <2>1
<1> HIDE DEF f, T
<1>4. f \in Injection(a..b, T)
    BY <1>2, Fun_IsInj
<1>5. IsFiniteSet(T) /\ Cardinality(T) = Cardinality(a..b)
    BY <1>1, <1>3, <1>4, FS_Surjection
<1> QED
    BY <1>3, <1>5 DEF T

AheadOf(R, metric, id) == {j \in Members(R) : Ahead(R, metric, j, id)}
Behind(R, metric, id) == {j \in Members(R) : Ahead(R, metric, id, j)}

\* Who is ahead of the member in place m is before it, who is behind it is after it, and,
\* where no two tie, all who are before it are ahead.
LEMMA PlaceCounts ==
    ASSUME NEW R \in SUBSET Event, NEW metric, NEW t \in Lists(R, metric),
           NEW m \in 1..Cardinality(Members(R))
    PROVE  LET n == Cardinality(Members(R))
               ahead == AheadOf(R, metric, t[m])
               behind == Behind(R, metric, t[m])
           IN  /\ Cardinality(ahead) <= m - 1 /\ Cardinality(ahead) \in Nat
               /\ Cardinality(behind) <= n - m /\ Cardinality(behind) \in Nat
               /\ (\A i, j \in Members(R) : i # j => Ahead(R, metric, i, j) \/ Ahead(R, metric, j, i))
                     => Cardinality(ahead) = m - 1
<1> DEFINE M == Members(R)
           n == Cardinality(M)
           ahead == {j \in M : Ahead(R, metric, j, t[m])}
           behind == {j \in M : Ahead(R, metric, t[m], j)}
           first == Section(t, 1, m - 1)
           rest == Section(t, m + 1, n)
<1>1. /\ n \in Nat /\ t \in [1..n -> M]
      /\ \A i, j \in 1..n : t[i] = t[j] => i = j
      /\ \A x \in M : \E i \in 1..n : t[i] = x
      /\ \A i, j \in 1..n : i < j => ~Ahead(R, metric, t[j], t[i])
    BY ListPlaces
<1>2. ~Ahead(R, metric, t[m], t[m])
    BY NotAheadOfItself
<1>3. m \in 1..n /\ m \in Int
    BY <1>1
<1> HIDE DEF M, n
<1>4. ahead \subseteq first
    <2> SUFFICES ASSUME NEW x \in ahead PROVE x \in first
        OBVIOUS
    <2>1. PICK i \in 1..n : t[i] = x
        BY <1>1
    <2>2. ~(m < i) /\ i # m
        BY <1>1, <1>2, <1>3, <2>1
    <2>3. i \in 1..(m - 1)
        BY <1>1, <1>3, <2>2
    <2> QED
        BY <2>1, <2>3 DEF Section
<1>5. behind \subseteq rest
    <2> SUFFICES ASSUME NEW x \in behind PROVE x \in rest
        OBVIOUS
    <2>1. PICK i \in 1..n : t[i] = x
        BY <1>1
    <2>2. ~(i < m) /\ i # m
        BY <1>1, <1>2, <1>3, <2>1
    <2>3. i \in (m + 1)..n
        BY <1>1, <1>3, <2>2
    <2> QED
        BY <2>1, <2>3 DEF Section
<1>0. n \in Nat /\ t \in [1..n -> M] /\ \A i, j \in 1..n : t[i] = t[j] => i = j
    BY <1>1
<1>6. IsFiniteSet(first) /\ Cardinality(first) = m - 1
    <2>1. 1 \in Int /\ m - 1 \in Int /\ 1 <= 1 /\ 1 <= (m - 1) + 1 /\ m - 1 <= n
        BY <1>1, <1>3
    <2>2. IsFiniteSet(first) /\ Cardinality(first) = (m - 1) - 1 + 1
        BY <1>0, <2>1, SectionSize
    <2> QED
        BY <1>3, <2>2
<1>7. IsFiniteSet(rest) /\ Cardinality(rest) = n - m
    <2>1. m + 1 \in Int /\ n \in Int /\ 1 <= m + 1 /\ m + 1 <= n + 1 /\ n <= n
        BY <1>1, <1>3
    <2>2. IsFiniteSet(rest) /\ Cardinality(rest) = n - (m + 1) + 1
        BY <1>0, <2>1, SectionSize
    <2> QED
        BY <1>1, <1>3, <2>2
<1> HIDE DEF ahead, behind, first, rest
<1>8. /\ IsFiniteSet(ahead) /\ Cardinality(ahead) <= Cardinality(first)
      /\ IsFiniteSet(behind) /\ Cardinality(behind) <= Cardinality(rest)
    BY <1>4, <1>5, <1>6, <1>7, FS_Subset
<1>9. Cardinality(ahead) \in Nat /\ Cardinality(behind) \in Nat
    BY <1>8, FS_CardinalityType
<1>10. ASSUME \A i, j \in M : i # j => Ahead(R, metric, i, j) \/ Ahead(R, metric, j, i)
       PROVE  Cardinality(ahead) = m - 1
    <2>1. ASSUME NEW x \in first PROVE x \in ahead
        <3>1. PICK i \in 1..(m - 1) : x = t[i]
            BY DEF first, Section
        <3>2. i \in 1..n /\ i < m
            BY <1>1, <1>3
        <3>3. t[i] \in M /\ t[m] \in M /\ t[i] # t[m] /\ ~Ahead(R, metric, t[m], t[i])
            BY <1>1, <1>3, <3>2
        <3> QED
            BY <1>10, <3>1, <3>3 DEF ahead
    <2>2. ahead = first
        BY <1>4, <2>1
    <2> QED
        BY <1>6, <2>2
<1> QED
    BY <1>6, <1>7, <1>8, <1>9, <1>10 DEF ahead, behind, n, M, AheadOf, Behind

\* s has the first members of a list, as many as the limit allows.
FirstOf(s, R, metric, limit) ==
    LET n == Cardinality(Members(R))
        L == Least(limit, n)
    IN  \E t \in Lists(R, metric) :
           /\ s \in Seq(Members(R)) /\ Len(s) = L /\ DOMAIN s = 1..L
           /\ L \in Nat /\ L <= n /\ L <= limit /\ (L < limit => L = n) /\ (n <= limit => L = n)
           /\ \A i \in 1..L : s[i] = t[i]

LEMMA TopOfList ==
    ASSUME NEW S \in SUBSET Event, NEW g, NEW metric, NEW limit \in Nat,
           NEW s \in TopMembers(S, g, metric, limit)
    PROVE  FirstOf(s, In(S, g), metric, limit)
<1> DEFINE M == Members(In(S, g))
           n == Cardinality(M)
           L == Least(limit, n)
<1>1. PICK t \in Lists(In(S, g), metric) : s = SubSeq(t, 1, Least(limit, Len(t)))
    BY Zenon DEF TopMembers, Lists, Members
<1>2. In(S, g) \in SUBSET Event
    BY Selected
<1>3. n \in Nat /\ t \in Seq(M) /\ Len(t) = n
    BY <1>2, ListPlaces
<1> HIDE DEF M, n
<1>4. L \in Nat /\ L <= n /\ L <= limit /\ (L < limit => L = n) /\ (n <= limit => L = n)
    BY <1>3 DEF Least
<1> HIDE DEF L
<1>5. s = SubSeq(t, 1, L)
    BY <1>1, <1>3 DEF L
<1>6. s \in Seq(M) /\ Len(s) = L /\ \A i \in 1..L : s[i] = t[i]
    <2>1. \A i \in 1..L : t[i] \in M
        BY <1>3, <1>4
    <2>2. /\ SubSeq(t, 1, L) \in Seq(M)
          /\ Len(SubSeq(t, 1, L)) = IF 1 <= L THEN L - 1 + 1 ELSE 0
          /\ \A i \in 1..(L - 1 + 1) : SubSeq(t, 1, L)[i] = t[1 + i - 1]
        BY <1>4, <2>1, SubSeqProperties
    <2> QED
        BY <1>4, <1>5, <2>2
<1>7. DOMAIN s = 1..L
    BY <1>6
<1> QED
    BY <1>1, <1>4, <1>6, <1>7 DEF L, n, M, FirstOf


\* Where nobody is cut off, the members' messages are the rows' messages.
LEMMA TopTotal ==
    ASSUME NEW S \in SUBSET Event, NEW g,
           NEW s \in TopMembers(S, g, "messages", TopLimit), Len(s) < TopLimit
    PROVE  Total(LAMBDA i : Amount(In(S, g), s[i], "messages"), DOMAIN s) = Cardinality(Messages(In(S, g)))
<1> DEFINE R == In(S, g)
           M == Members(R)
           n == Cardinality(M)
           X == Messages(R)
           amount == [i \in 1..n |-> Amount(R, s[i], "messages")]
<1>1. R \in SUBSET Event /\ X \in SUBSET R /\ X \in SUBSET Event
    BY Selected
<1>2. TopLimit \in Nat
    BY Bounds
<1>3. PICK t \in Lists(R, "messages") :
         /\ Len(s) = Least(TopLimit, n) /\ DOMAIN s = 1..Least(TopLimit, n)
         /\ Least(TopLimit, n) < TopLimit => Least(TopLimit, n) = n
         /\ \A i \in 1..Least(TopLimit, n) : s[i] = t[i]
    <2>1. FirstOf(s, R, "messages", TopLimit)
        BY <1>2, TopOfList
    <2> QED
        BY <2>1 DEF FirstOf
<1>4. DOMAIN s = 1..n /\ \A i \in 1..n : s[i] = t[i]
    BY <1>3
<1>5. /\ \A i, j \in 1..n : s[i] = s[j] => i = j
      /\ \A x \in M : \E i \in 1..n : s[i] = x
    BY <1>1, <1>4, ListPlaces
<1> DEFINE key == [e \in X |-> CHOOSE i \in 1..n : s[i] = MemberId(e)]
<1>6. ASSUME NEW e \in X PROVE key[e] \in 1..n /\ s[key[e]] = MemberId(e)
    <2>1. MemberId(e) \in M
        BY <1>1 DEF Members
    <2> QED
        BY <1>5, <2>1
<1> HIDE DEF key
<1>7. key \in [X -> 1..n]
    BY <1>6 DEF key
<1>8. ASSUME NEW i \in 1..n PROVE amount[i] = Cardinality(Fiber(X, key, i))
    <2>1. amount[i] = Cardinality(Messages({e \in R : MemberId(e) = s[i]}))
        BY DEF Amount
    <2>2. Messages({e \in R : MemberId(e) = s[i]}) = Fiber(X, key, i)
        <3>1. ASSUME NEW e \in X PROVE MemberId(e) = s[i] <=> key[e] = i
            BY <1>5, <1>6
        <3>2. Messages({e \in R : MemberId(e) = s[i]}) = {e \in X : MemberId(e) = s[i]}
            BY DEF Messages
        <3> QED
            BY <3>1, <3>2 DEF Fiber
    <2> QED
        BY <2>1, <2>2
<1>9. {{i} \X (1..Amount(R, s[i], "messages")) : i \in DOMAIN s} = {{i} \X (1..amount[i]) : i \in 1..n}
    BY <1>4
<1> HIDE DEF amount, X, R, n
<1>10. Cardinality(Stack(1..n, amount)) = Cardinality(X)
    <2> DEFINE K == 1..n
    <2>1. X \in SUBSET Event
        BY <1>1
    <2>2. key \in [X -> K] /\ \A d \in K : amount[d] = Cardinality(Fiber(X, key, d))
        BY <1>7, <1>8
    <2> HIDE DEF K
    <2>3. Cardinality(Stack(K, amount)) = Cardinality(X)
        BY <2>1, <2>2, EventsByKey
    <2> QED
        BY <2>3 DEF K
<1>11. Total(LAMBDA i : Amount(R, s[i], "messages"), DOMAIN s) = Cardinality(Stack(1..n, amount))
    BY <1>9, Zenon DEF Total, Stack
<1> QED
    BY <1>10, <1>11 DEF X, R

\* A page has the entries whose ranks are its own.
LEMMA PageEntries ==
    ASSUME NEW M, NEW s \in Seq(M), NEW k \in Nat, k > 0
    PROVE  LET entries == PageOf(s, k)
           IN  /\ \A i \in DOMAIN entries :
                     /\ entries[i].rank \in 1..Len(s) /\ entries[i].id = s[entries[i].rank]
                     /\ (k - 1) * PageSize < entries[i].rank /\ entries[i].rank <= k * PageSize
               /\ \A r \in 1..Len(s) : (k - 1) * PageSize < r /\ r <= k * PageSize =>
                     \E i \in DOMAIN entries : entries[i].rank = r
<1> DEFINE a == (k - 1) * PageSize
           L == Len(s)
           b == Least(k * PageSize, L)
           entries == PageOf(s, k)
<1>1. PageSize \in Nat /\ PageSize > 0
    BY Bounds
<1>2. a \in Nat /\ k * PageSize = a + PageSize
    <2>1. \A x, y \in Nat : x > 0 => (x - 1) * y \in Nat /\ x * y = (x - 1) * y + y
        OBVIOUS
    <2> QED
        BY <1>1, <2>1
<1>3. L \in Nat
    OBVIOUS
<1>4. b \in Nat /\ b <= L /\ b <= a + PageSize /\ (b = L \/ b = a + PageSize)
    BY <1>1, <1>2, <1>3 DEF Least
<1>5. Slice(s, k) = SubSeq(s, a + 1, b)
    BY DEF Slice
<1> HIDE DEF a, b, L
<1>6. \A i \in (a + 1)..b : s[i] \in M
    BY <1>2, <1>3, <1>4 DEF L
<1>7. /\ SubSeq(s, a + 1, b) \in Seq(M)
      /\ Len(SubSeq(s, a + 1, b)) = IF a + 1 <= b THEN b - (a + 1) + 1 ELSE 0
      /\ \A i \in 1..(b - (a + 1) + 1) : SubSeq(s, a + 1, b)[i] = s[(a + 1) + i - 1]
    <2>1. a + 1 \in Int /\ b \in Int
        BY <1>2, <1>4
    <2> QED
        BY <1>6, <2>1, SubSeqProperties
<1>8. DOMAIN Slice(s, k) = 1..(b - a) /\ \A i \in 1..(b - a) : Slice(s, k)[i] = s[a + i]
    <2>1. \A i \in 1..(b - a) : (a + 1) + i - 1 = a + i /\ i \in 1..(b - (a + 1) + 1)
        BY <1>2, <1>4
    <2>2. DOMAIN SubSeq(s, a + 1, b) = 1..Len(SubSeq(s, a + 1, b))
        BY <1>7
    <2>3. 1..Len(SubSeq(s, a + 1, b)) = 1..(b - a)
        BY <1>2, <1>4, <1>7
    <2> QED
        BY <1>5, <1>7, <2>1, <2>2, <2>3
<1>9. entries = [i \in 1..(b - a) |-> [rank |-> a + i, id |-> s[a + i]]]
    BY <1>8 DEF PageOf, a
<1>10. DOMAIN entries = 1..(b - a)
       /\ \A i \in 1..(b - a) : entries[i].rank = a + i /\ entries[i].id = s[a + i]
    BY <1>9
<1> HIDE DEF entries
<1>11. ASSUME NEW i \in DOMAIN entries
       PROVE  /\ entries[i].rank \in 1..L /\ entries[i].id = s[entries[i].rank]
              /\ a < entries[i].rank /\ entries[i].rank <= k * PageSize
    <2>1. i \in Int /\ 1 <= i /\ i <= b - a
        BY <1>2, <1>4, <1>10
    <2>2. entries[i].rank = a + i /\ entries[i].id = s[a + i]
        BY <1>10
    <2>3. a + i \in 1..L /\ a < a + i /\ a + i <= k * PageSize
        BY <1>1, <1>2, <1>3, <1>4, <2>1
    <2> QED
        BY <2>2, <2>3
<1>12. ASSUME NEW r \in 1..L, a < r, r <= k * PageSize
       PROVE  \E i \in DOMAIN entries : entries[i].rank = r
    <2>1. r - a \in 1..(b - a) /\ a + (r - a) = r
        BY <1>2, <1>3, <1>4, <1>12
    <2> QED
        BY <1>10, <2>1
<1> QED
    BY <1>11, <1>12 DEF a, L, entries


-------------------------------------------------------------------------------
(* The inductive invariant.                                                *)

Rows ==
    /\ made \in 0..Len(Table) /\ inserted \subseteq Event /\ removed \subseteq inserted
    /\ view \in [Views -> SUBSET inserted] /\ view["heatmap"] \subseteq view["daily"]

\* A row that bears the id of an erased user was inserted later or is being deleted.
Deletions ==
    /\ queue \subseteq Author /\ erased \subseteq Author /\ late \subseteq inserted
    /\ mutation \subseteq (Author \X SUBSET inserted)
    /\ \A e \in Raw : Of[e].author \in erased /\ ~Of[e].anonymous =>
          e \in late \/ \E m \in mutation : m[1] = Of[e].author /\ e \in m[2]

\* The answers a report has of rows that have not moved are of the rows that are there, and
\* of the same rows once it is shown.  The heatmap, the last one, has all that days have.
Report(x, b) ==
    /\ x \in [pc : {"queries", "heatmap", "shown"}, period : Period,
              asked : SUBSET Asked, answer : [Asked -> SUBSET Event]]
    /\ \A q \in Asked : x.answer[q] \subseteq inserted
    /\ x.pc # "queries" => x.asked = {}
    /\ b \notin moved /\ x.pc # "shown" => \A q \in {"chart", "channels"} \ x.asked : x.answer[q] = Raw
    /\ b \notin moved /\ x.pc = "shown" => x.answer["chart"] = x.answer["channels"]
    /\ x.pc = "shown" /\ view["heatmap"] = inserted => x.answer["chart"] \subseteq x.answer["heatmap"]

\* A page that was read is a page of the members in the order that was asked for.
Ordered(s, o) == IF o[2] = "asc" THEN Reverse(s) ELSE s
ReadPage(p, o, k) ==
    p.read => \E s \in TopMembers(p.of, Home, o[1], BoardLimit) : p.entries = PageOf(Ordered(s, o), k)
BoardOf(x, o, f) ==
    /\ x = [pc |-> "board", order |-> o, page |-> f]
    /\ f = [k \in Pages |-> f[k]]
    /\ \A k \in Pages : f[k].of \subseteq inserted /\ ReadPage(f[k], o, k)
Board(x) == \E o \in Order : \E f : BoardOf(x, o, f)

Screens ==
    /\ moved \subseteq Browser
    /\ screen = [b \in Browser |-> screen[b]]
    /\ \A b \in Browser : screen[b] = Idle \/ Report(screen[b], b) \/ Board(screen[b])

AnalyticsInv == Rows /\ Deletions /\ Screens

LEMMA ViewNames ==
    /\ "heatmap" \in Views /\ "daily" \in Views /\ Len(Table) \in Nat
    /\ {"chart", "channels", "heatmap"} \subseteq Asked /\ Asked \subseteq Query
    /\ "commands" \in Asked => "command" \in Views
    /\ \A m \in 0..Len(Table) :
          (\E i \in 1..m : Table[i] = "heatmap") => \E i \in 1..m : Table[i] = "daily"
<1>1. /\ Table \in Seq(STRING) /\ "heatmap" \in Views
      /\ {"chart", "channels", "heatmap"} \subseteq Asked /\ Asked \subseteq Query
      /\ "commands" \in Asked => "command" \in Views
      /\ \A i \in DOMAIN Table : Table[i] = "heatmap" => \E j \in 1..i : Table[j] = "daily"
    BY AnalyticsAssumption, Zenon DEF AnalyticsAssumption
<1>2. Len(Table) \in Nat /\ DOMAIN Table = 1..Len(Table)
    BY <1>1
<1>3. Views = {Table[i] : i \in DOMAIN Table}
    BY DEF Views, Range
<1>4. ASSUME NEW m \in 0..Len(Table), NEW i \in 1..m, Table[i] = "heatmap"
      PROVE  \E j \in 1..m : Table[j] = "daily"
    <2>1. i \in DOMAIN Table
        BY <1>2
    <2>2. PICK j \in 1..i : Table[j] = "daily"
        BY <1>1, <1>4, <2>1
    <2>3. j \in 1..m
        BY <1>2
    <2> QED
        BY <2>2, <2>3
<1>5. "daily" \in Views
    <2>1. PICK i \in DOMAIN Table : Table[i] = "heatmap"
        BY <1>1, <1>3
    <2>2. PICK j \in 1..i : Table[j] = "daily"
        BY <1>1, <2>1
    <2>3. j \in DOMAIN Table
        BY <1>2
    <2> QED
        BY <1>3, <2>2, <2>3
<1> QED
    BY <1>1, <1>2, <1>4, <1>5

LEMMA AnalyticsInvInit ==
    ASSUME AnalyticsInit PROVE AnalyticsInv
<1>1. Rows
    BY ViewNames DEF AnalyticsInit, Rows
<1>2. Deletions
    BY DEF AnalyticsInit, Deletions, Raw
<1>3. Screens
    BY DEF AnalyticsInit, Screens
<1> QED
    BY <1>1, <1>2, <1>3 DEF AnalyticsInv

\* Screens that stay as they are, while rows come or go.
LEMMA ScreensKept ==
    ASSUME AnalyticsInv, UNCHANGED screen, moved' = moved \cup InProgress,
           inserted \subseteq inserted', view'["heatmap"] = inserted' => view["heatmap"] = inserted
    PROVE  Screens'
<1>1. moved' \subseteq Browser
    BY DEF AnalyticsInv, Screens, InProgress
<1>2. screen' = [b \in Browser |-> screen'[b]]
    BY DEF AnalyticsInv, Screens
<1>3. ASSUME NEW b \in Browser, Report(screen[b], b) PROVE Report(screen[b], b)'
    <2> DEFINE x == screen[b]
    <2>1. /\ x \in [pc : {"queries", "heatmap", "shown"}, period : Period,
                    asked : SUBSET Asked, answer : [Asked -> SUBSET Event]]
          /\ \A q \in Asked : x.answer[q] \subseteq inserted'
          /\ x.pc # "queries" => x.asked = {}
        BY <1>3 DEF Report
    <2>2. x.pc # "shown" => b \in moved'
        BY <2>1 DEF InProgress
    <2>3. b \notin moved' /\ x.pc = "shown" => x.answer["chart"] = x.answer["channels"]
        BY <1>3 DEF Report
    <2>4. x.pc = "shown" /\ view'["heatmap"] = inserted' => x.answer["chart"] \subseteq x.answer["heatmap"]
        BY <1>3 DEF Report
    <2>5. x' = x
        OBVIOUS
    <2> HIDE DEF x
    <2>6. Report(x, b)'
        BY <2>1, <2>2, <2>3, <2>4, <2>5 DEF Report
    <2> QED
        BY <2>6 DEF x
<1>4. ASSUME NEW b \in Browser, Board(screen[b]) PROVE Board(screen[b])'
    <2>1. PICK o \in Order : \E f : BoardOf(screen[b], o, f)
        BY <1>4 DEF Board
    <2>1a. PICK f :
             /\ screen[b] = [pc |-> "board", order |-> o, page |-> f]
             /\ f = [k \in Pages |-> f[k]]
             /\ \A k \in Pages : f[k].of \subseteq inserted /\ ReadPage(f[k], o, k)
        BY <2>1 DEF BoardOf
    <2>2. \A k \in Pages : f[k].of \subseteq inserted'
        BY <2>1a
    <2> QED
        BY <2>1a, <2>2, Zenon DEF Board, BoardOf
<1> QED
    BY <1>1, <1>2, <1>3, <1>4 DEF AnalyticsInv, Screens


\* One screen that changes, while no row does.
LEMMA ScreenSet ==
    ASSUME AnalyticsInv, NEW b \in Browser, NEW x, UNCHANGED store,
           screen' = [screen EXCEPT ![b] = x],
           \/ x = Idle /\ moved' = moved \ {b}
           \/ (Report(x, b) \/ Board(x)) /\ moved' = moved
    PROVE  Screens'
<1>1. moved' \subseteq Browser
    BY DEF AnalyticsInv, Screens
<1>2. screen = [c \in Browser |-> screen[c]]
    BY Zenon DEF AnalyticsInv, Screens
<1>3. screen' = [c \in Browser |-> IF c = b THEN x ELSE screen[c]]
    BY <1>2
<1>4. screen' = [c \in Browser |-> screen'[c]]
    BY <1>3
<1>5. UNCHANGED <<inserted, view, removed>> /\ Raw' = Raw
    BY DEF store, Raw
<1>6. ASSUME NEW c \in Browser
      PROVE  screen'[c] = Idle \/ Report(screen[c], c)' \/ Board(screen[c])'
    <2>1. CASE c = b
        <3>1. screen'[c] = x
            BY <1>3, <2>1
        <3>2. CASE x = Idle
            BY <3>1, <3>2
        <3>3. CASE Report(x, b) /\ moved' = moved
            BY <1>5, <2>1, <3>1, <3>3 DEF Report
        <3>4. CASE Board(x)
            BY <1>5, <3>1, <3>4, Zenon DEF Board, BoardOf
        <3> QED
            BY <3>2, <3>3, <3>4
    <2>2. CASE c # b
        <3>1. screen'[c] = screen[c]
            BY <1>3, <2>2
        <3>2. c \in moved' <=> c \in moved
            BY <2>2
        <3>3. CASE screen[c] = Idle
            BY <3>1, <3>3
        <3>4. CASE Report(screen[c], c)
            BY <1>5, <3>1, <3>2, <3>4 DEF Report
        <3>5. CASE Board(screen[c])
            BY <1>5, <3>1, <3>5, Zenon DEF Board, BoardOf
        <3> QED
            BY <3>3, <3>4, <3>5 DEF AnalyticsInv, Screens
    <2> QED
        BY <2>1, <2>2
<1> QED
    BY <1>1, <1>4, <1>6, Zenon DEF Screens, Idle

LEMMA RowsKept ==
    ASSUME AnalyticsInv, UNCHANGED <<made, inserted, view, removed>>
    PROVE  Rows'
BY DEF AnalyticsInv, Rows

LEMMA CreateInv ==
    ASSUME AnalyticsInv, Create PROVE AnalyticsInv'
<1>1. Rows'
    BY ViewNames DEF AnalyticsInv, Rows, Create
<1>2. Deletions'
    BY DEF AnalyticsInv, Deletions, Create, deletions, Raw
<1>3. Screens'
    <2>1. UNCHANGED <<inserted, view, removed, moved, screen>> /\ Raw' = Raw
        BY DEF Create, Raw
    <2>2. \A b \in Browser : (Report(screen[b], b) => Report(screen[b], b)')
                             /\ (Board(screen[b]) => Board(screen[b])')
        BY <2>1 DEF Report, Board, BoardOf
    <2> QED
        BY <2>1, <2>2 DEF AnalyticsInv, Screens
<1> QED
    BY <1>1, <1>2, <1>3 DEF AnalyticsInv

LEMMA InsertInv ==
    ASSUME AnalyticsInv, NEW batch \in SUBSET Event \ {{}}, Insert(batch) PROVE AnalyticsInv'
<1>1. /\ inserted' = inserted \cup batch /\ batch \cap inserted = {}
      /\ view' = [v \in Views |-> IF Exists(v) THEN view[v] \cup batch ELSE view[v]]
      /\ UNCHANGED <<made, removed, queue, mutation, erased, screen>>
      /\ late' = late \cup {e \in batch : Of[e].author \in erased}
      /\ moved' = moved \cup InProgress
    BY DEF Insert
<1>2. Rows /\ Deletions
    BY DEF AnalyticsInv
<1>3. Exists("heatmap") => Exists("daily")
    BY <1>2, ViewNames DEF Rows, Exists
<1>4. view'["heatmap"] = IF Exists("heatmap") THEN view["heatmap"] \cup batch ELSE view["heatmap"]
    BY <1>1, ViewNames
<1>5. view'["daily"] = IF Exists("daily") THEN view["daily"] \cup batch ELSE view["daily"]
    BY <1>1, ViewNames
<1>6. view["heatmap"] \subseteq inserted /\ view["daily"] \subseteq inserted
    BY <1>2, ViewNames DEF Rows
<1>7. Rows'
    <2>1. view' \in [Views -> SUBSET inserted']
        BY <1>1, <1>2 DEF Rows
    <2>2. view'["heatmap"] \subseteq view'["daily"]
        BY <1>2, <1>3, <1>4, <1>5 DEF Rows
    <2> QED
        BY <1>1, <1>2, <2>1, <2>2 DEF Rows
<1>8. Deletions'
    <2>1. late' \subseteq inserted'
        BY <1>1, <1>2 DEF Deletions
    <2>2. mutation' \subseteq (Author \X SUBSET inserted')
        BY <1>1, <1>2 DEF Deletions
    <2>3. ASSUME NEW e \in Raw', Of[e].author \in erased, ~Of[e].anonymous
          PROVE  e \in late' \/ \E m \in mutation : m[1] = Of[e].author /\ e \in m[2]
        <3>1. CASE e \in batch
            BY <1>1, <2>3, <3>1
        <3>2. CASE e \notin batch
            <4>1. e \in Raw
                BY <1>1, <3>2 DEF Raw
            <4> QED
                BY <1>1, <1>2, <2>3, <4>1 DEF Deletions
        <3> QED
            BY <3>1, <3>2
    <2> QED
        BY <1>1, <1>2, <2>1, <2>2, <2>3 DEF Deletions
<1>9. view'["heatmap"] = inserted' => view["heatmap"] = inserted
    <2> SUFFICES ASSUME view'["heatmap"] = inserted', NEW e \in inserted PROVE e \in view["heatmap"]
        BY <1>6
    <2>1. e \in view'["heatmap"] /\ e \notin batch
        BY <1>1
    <2> QED
        BY <1>4, <2>1
<1>10. Screens'
    BY <1>1, <1>9, ScreensKept
<1> QED
    BY <1>7, <1>8, <1>10 DEF AnalyticsInv

LEMMA ExpireInv ==
    ASSUME AnalyticsInv, NEW e, Expire(e) PROVE AnalyticsInv'
<1>1. /\ e \in Raw /\ removed' = removed \cup {e} /\ moved' = moved \cup InProgress
      /\ UNCHANGED <<made, inserted, view, queue, mutation, erased, late, screen>>
    BY DEF Expire, deletions
<1>2. Rows'
    BY <1>1 DEF AnalyticsInv, Rows, Raw
<1>3. Raw' \subseteq Raw
    BY <1>1 DEF Raw
<1>4. Deletions'
    BY <1>1, <1>3 DEF AnalyticsInv, Deletions
<1>5. Screens'
    BY <1>1, ScreensKept
<1> QED
    BY <1>2, <1>4, <1>5 DEF AnalyticsInv

LEMMA MutateInv ==
    ASSUME AnalyticsInv, NEW m, Mutate(m) PROVE AnalyticsInv'
<1>1. /\ m \in mutation /\ mutation' = mutation \ {m} /\ removed' = removed \cup m[2]
      /\ moved' = moved \cup InProgress
      /\ UNCHANGED <<made, inserted, view, queue, erased, late, screen>>
    BY DEF Mutate
<1>2. Rows /\ Deletions
    BY DEF AnalyticsInv
<1>3. m[2] \subseteq inserted
    BY <1>1, <1>2 DEF Deletions
<1>4. Rows'
    BY <1>1, <1>2, <1>3 DEF Rows
<1>5. ASSUME NEW e \in Raw' PROVE e \in Raw /\ e \notin m[2]
    BY <1>1 DEF Raw
<1>6. Deletions'
    <2>1. mutation' \subseteq (Author \X SUBSET inserted)
        BY <1>1, <1>2 DEF Deletions
    <2>2. ASSUME NEW e \in Raw', Of[e].author \in erased, ~Of[e].anonymous
          PROVE  e \in late \/ \E k \in mutation' : k[1] = Of[e].author /\ e \in k[2]
        <3>1. e \in late \/ \E k \in mutation : k[1] = Of[e].author /\ e \in k[2]
            BY <1>2, <1>5, <2>2 DEF Deletions
        <3> QED
            BY <1>1, <1>5, <3>1
    <2> QED
        BY <1>1, <1>2, <2>1, <2>2 DEF Deletions
<1>7. Screens'
    BY <1>1, ScreensKept
<1> QED
    BY <1>4, <1>6, <1>7 DEF AnalyticsInv

\* Steps of a deletion that change no row and no screen.
LEMMA JobInv ==
    ASSUME AnalyticsInv, NEW u \in Author, AddJob(u) \/ Alter(u) \/ AlterFails(u) PROVE AnalyticsInv'
<1>1. UNCHANGED <<made, inserted, view, removed, late, screen, moved>>
    BY DEF AddJob, Alter, AlterFails, store
<1>2. Rows /\ Deletions
    BY DEF AnalyticsInv
<1>3. Rows'
    BY <1>1, RowsKept
<1>4. Raw' = Raw
    BY <1>1 DEF Raw
<1>5. queue' \subseteq Author
    BY <1>2 DEF Deletions, AddJob, Alter, AlterFails
<1>6. \/ erased' = erased /\ mutation' = mutation
      \/ erased' = erased \cup {u} /\ mutation' = mutation \cup {<<u, RowsOfUser(Raw, u)>>}
    BY DEF AddJob, Alter, AlterFails, Matching
<1>7. RowsOfUser(Raw, u) \subseteq inserted
    BY DEF RowsOfUser, Raw
<1>8. erased' \subseteq Author /\ mutation' \subseteq (Author \X SUBSET inserted)
    BY <1>2, <1>6, <1>7 DEF Deletions
<1>9. ASSUME NEW e \in Raw, Of[e].author \in erased', ~Of[e].anonymous
      PROVE  e \in late \/ \E m \in mutation' : m[1] = Of[e].author /\ e \in m[2]
    <2>1. CASE Of[e].author \in erased
        <3>1. e \in late \/ \E m \in mutation : m[1] = Of[e].author /\ e \in m[2]
            BY <1>2, <1>9, <2>1 DEF Deletions
        <3> QED
            BY <1>6, <3>1
    <2>2. CASE Of[e].author \notin erased
        <3>1. Of[e].author = u /\ mutation' = mutation \cup {<<u, RowsOfUser(Raw, u)>>}
            BY <1>6, <1>9, <2>2
        <3>2. e \in RowsOfUser(Raw, u)
            BY <1>9, <3>1 DEF RowsOfUser
        <3>3. <<u, RowsOfUser(Raw, u)>> \in mutation'
            BY <3>1
        <3> QED
            BY <3>1, <3>2, <3>3
    <2> QED
        BY <2>1, <2>2
<1>10. Deletions'
    BY <1>1, <1>2, <1>4, <1>5, <1>8, <1>9 DEF Deletions
<1>11. Screens'
    <2>1. \A b \in Browser : (Report(screen[b], b) => Report(screen[b], b)')
                             /\ (Board(screen[b]) => Board(screen[b])')
        BY <1>1, <1>4 DEF Report, Board, BoardOf
    <2> QED
        BY <1>1, <2>1 DEF AnalyticsInv, Screens
<1> QED
    BY <1>3, <1>10, <1>11 DEF AnalyticsInv


LEMMA ScreenInv ==
    ASSUME AnalyticsInv, UNCHANGED <<store, deletions>>, Screens' PROVE AnalyticsInv'
<1>1. UNCHANGED <<made, inserted, view, removed, queue, mutation, erased, late>>
    BY DEF store, deletions
<1>2. Rows'
    BY <1>1, RowsKept
<1>3. Deletions'
    <2>1. Raw' = Raw
        BY <1>1 DEF Raw
    <2> QED
        BY <1>1, <2>1 DEF AnalyticsInv, Deletions
<1> QED
    BY <1>2, <1>3 DEF AnalyticsInv

LEMMA AskInv ==
    ASSUME AnalyticsInv, NEW b \in Browser, NEW p \in Period, Ask(b, p) PROVE AnalyticsInv'
<1> DEFINE x == [pc |-> "queries", period |-> p, asked |-> Asked \ {"heatmap"},
                 answer |-> [q \in Asked |-> {}]]
<1>1. UNCHANGED <<store, deletions, moved>> /\ screen' = [screen EXCEPT ![b] = x]
    BY DEF Ask
<1>2. {"chart", "channels"} \subseteq Asked
    BY ViewNames
<1>3. Report(x, b)
    BY <1>2 DEF Report
<1> HIDE DEF x
<1>4. Screens'
    BY <1>1, <1>3, ScreenSet DEF store
<1> QED
    BY <1>1, <1>4, ScreenInv

\* What a query finds are events that were inserted.
LEMMA SourceType ==
    ASSUME Rows, NEW q \in Asked
    PROVE  Source(q) \subseteq inserted /\ (q \in {"chart", "channels"} => Source(q) = Raw)
           /\ (q = "heatmap" => Source(q) = view["heatmap"])
<1>1. q \in Query
    BY ViewNames
<1>2. CASE q \in {"chart", "members", "channels", "voice", "roles"}
    BY <1>2 DEF Source, Raw
<1>3. CASE q = "commands"
    BY <1>3, ViewNames DEF Source, Rows
<1>4. CASE q = "overview"
    BY <1>4, ViewNames DEF Source, Rows
<1>5. CASE q = "heatmap"
    BY <1>5, ViewNames DEF Source, Rows
<1> QED
    BY <1>1, <1>2, <1>3, <1>4, <1>5 DEF Query

LEMMA AnswerInv ==
    ASSUME AnalyticsInv, NEW b \in Browser, NEW q \in Asked, Answer(b, q) PROVE AnalyticsInv'
<1> DEFINE s == screen[b]
<1>1. /\ UNCHANGED <<store, deletions, moved>> /\ s.pc = "queries" /\ q \in s.asked
      /\ screen' = [screen EXCEPT ![b].asked = @ \ {q}, ![b].answer[q] = Source(q),
                                  ![b].pc = IF s.asked = {q} THEN "heatmap" ELSE @]
    BY Zenon DEF Answer
<1>2. Report(s, b)
    BY <1>1 DEF AnalyticsInv, Screens, Idle, Board, BoardOf
<1>3. s \in [pc : {"queries", "heatmap", "shown"}, period : Period,
             asked : SUBSET Asked, answer : [Asked -> SUBSET Event]]
    BY <1>2 DEF Report
<1>4. Rows /\ inserted \subseteq Event
    BY DEF AnalyticsInv, Rows
<1>5. Source(q) \subseteq inserted /\ (q \in {"chart", "channels"} => Source(q) = Raw)
    BY <1>4, SourceType
<1>6. PICK x : x = [pc |-> IF s.asked = {q} THEN "heatmap" ELSE "queries", period |-> s.period,
                    asked |-> s.asked \ {q}, answer |-> [s.answer EXCEPT ![q] = Source(q)]]
    OBVIOUS
<1>7. screen = [c \in Browser |-> screen[c]]
    BY Zenon DEF AnalyticsInv, Screens
<1>8. screen' = [screen EXCEPT ![b] = x]
    <2>1. PICK r, d, a, n : s = r /\ r = [pc |-> "queries", period |-> d, asked |-> a, answer |-> n]
        <3>1. s = [pc |-> "queries", period |-> s.period, asked |-> s.asked, answer |-> s.answer]
            BY <1>1, <1>3
        <3> QED
            BY <3>1
    <2>2. r.pc = "queries" /\ r.period = d /\ r.asked = a /\ r.answer = n
        BY <2>1
    <2>3. PICK v, c, e : v = Source(q) /\ c = (IF a = {q} THEN "heatmap" ELSE "queries") /\ e = a \ {q}
        OBVIOUS
    <2>4. [r EXCEPT !.asked = e, !.answer[q] = v, !.pc = c] = x
        <3>1. [r EXCEPT !.asked = e, !.answer[q] = v, !.pc = c] =
                 [[[r EXCEPT !.asked = e] EXCEPT !.answer[q] = v] EXCEPT !.pc = c]
            OBVIOUS
        <3>2. [r EXCEPT !.asked = e] = [pc |-> "queries", period |-> d, asked |-> e, answer |-> n]
            BY <2>1
        <3>3. [[pc |-> "queries", period |-> d, asked |-> e, answer |-> n] EXCEPT !.answer[q] = v] =
                 [pc |-> "queries", period |-> d, asked |-> e, answer |-> [n EXCEPT ![q] = v]]
            OBVIOUS
        <3>4. [[pc |-> "queries", period |-> d, asked |-> e, answer |-> [n EXCEPT ![q] = v]] EXCEPT !.pc = c] =
                 [pc |-> c, period |-> d, asked |-> e, answer |-> [n EXCEPT ![q] = v]]
            OBVIOUS
        <3>5. x = [pc |-> c, period |-> d, asked |-> e, answer |-> [n EXCEPT ![q] = v]]
            BY <1>6, <2>1, <2>2, <2>3
        <3> QED
            BY <3>1, <3>2, <3>3, <3>4, <3>5
    <2>5. screen' = [screen EXCEPT ![b].asked = e, ![b].answer[q] = v, ![b].pc = c]
        BY <1>1, <2>1, <2>2, <2>3
    <2>6. [screen EXCEPT ![b].asked = e, ![b].answer[q] = v, ![b].pc = c] =
             [screen EXCEPT ![b] = [screen[b] EXCEPT !.asked = e, !.answer[q] = v, !.pc = c]]
        BY <1>7
    <2> QED
        BY <2>1, <2>4, <2>5, <2>6
<1>9. Report(x, b)
    <2>1. x.pc \in {"queries", "heatmap"} /\ x.asked = s.asked \ {q} /\ x.period = s.period
          /\ x.answer = [s.answer EXCEPT ![q] = Source(q)] /\ (x.pc = "heatmap" => s.asked = {q})
        BY <1>6
    <2>2. x.answer \in [Asked -> SUBSET Event]
        BY <1>3, <1>4, <1>5, <2>1
    <2>3. x \in [pc : {"queries", "heatmap", "shown"}, period : Period,
                 asked : SUBSET Asked, answer : [Asked -> SUBSET Event]]
        BY <1>3, <1>6, <2>1, <2>2
    <2>4. \A r \in Asked : x.answer[r] = IF r = q THEN Source(q) ELSE s.answer[r]
        BY <1>3, <2>1
    <2>5. \A r \in Asked : x.answer[r] \subseteq inserted
        BY <1>2, <1>5, <2>4 DEF Report
    <2>6. ASSUME b \notin moved, NEW r \in {"chart", "channels"} \ x.asked PROVE x.answer[r] = Raw
        <3>1. r \in Asked
            BY ViewNames
        <3>2. CASE r = q
            BY <1>5, <2>4, <3>1, <3>2
        <3>3. CASE r # q
            BY <1>1, <1>2, <2>1, <2>4, <2>6, <3>1, <3>3 DEF Report
        <3> QED
            BY <3>2, <3>3
    <2> QED
        BY <2>1, <2>3, <2>5, <2>6 DEF Report
<1>10. Screens'
    BY <1>1, <1>8, <1>9, ScreenSet
<1> QED
    BY <1>1, <1>10, ScreenInv

LEMMA AnswerHeatmapInv ==
    ASSUME AnalyticsInv, NEW b \in Browser, AnswerHeatmap(b) PROVE AnalyticsInv'
<1> DEFINE s == screen[b]
<1>1. /\ UNCHANGED <<store, deletions, moved>> /\ s.pc = "heatmap"
      /\ screen' = [screen EXCEPT ![b].pc = "shown", ![b].answer["heatmap"] = Source("heatmap")]
    BY Zenon DEF AnswerHeatmap
<1>2. Report(s, b)
    BY <1>1 DEF AnalyticsInv, Screens, Idle, Board, BoardOf
<1>3. s \in [pc : {"queries", "heatmap", "shown"}, period : Period,
             asked : SUBSET Asked, answer : [Asked -> SUBSET Event]]
    BY <1>2 DEF Report
<1>4. Rows /\ inserted \subseteq Event /\ {"chart", "channels", "heatmap"} \subseteq Asked
    BY ViewNames DEF AnalyticsInv, Rows
<1>5. Source("heatmap") = view["heatmap"] /\ view["heatmap"] \subseteq inserted
    BY <1>4, SourceType
<1>6. PICK x : x = [pc |-> "shown", period |-> s.period, asked |-> s.asked,
                    answer |-> [s.answer EXCEPT !["heatmap"] = view["heatmap"]]]
    OBVIOUS
<1>7. screen = [c \in Browser |-> screen[c]]
    BY Zenon DEF AnalyticsInv, Screens
<1>8. screen' = [screen EXCEPT ![b] = x]
    <2>1. PICK r, d, a, n : s = r /\ r = [pc |-> "heatmap", period |-> d, asked |-> a, answer |-> n]
        <3>1. s = [pc |-> "heatmap", period |-> s.period, asked |-> s.asked, answer |-> s.answer]
            BY <1>1, <1>3
        <3> QED
            BY <3>1
    <2>2. r.period = d /\ r.asked = a /\ r.answer = n
        BY <2>1
    <2>3. PICK v : v = view["heatmap"]
        OBVIOUS
    <2>4. [r EXCEPT !.pc = "shown", !.answer["heatmap"] = v] = x
        <3>1. [r EXCEPT !.pc = "shown", !.answer["heatmap"] = v] =
                 [[r EXCEPT !.pc = "shown"] EXCEPT !.answer["heatmap"] = v]
            OBVIOUS
        <3>2. [r EXCEPT !.pc = "shown"] = [pc |-> "shown", period |-> d, asked |-> a, answer |-> n]
            BY <2>1
        <3>3. [[pc |-> "shown", period |-> d, asked |-> a, answer |-> n] EXCEPT !.answer["heatmap"] = v] =
                 [pc |-> "shown", period |-> d, asked |-> a, answer |-> [n EXCEPT !["heatmap"] = v]]
            OBVIOUS
        <3> QED
            BY <1>6, <2>1, <2>2, <2>3, <3>1, <3>2, <3>3
    <2>5. screen' = [screen EXCEPT ![b].pc = "shown", ![b].answer["heatmap"] = v]
        BY <1>1, <1>5, <2>3
    <2>6. [screen EXCEPT ![b].pc = "shown", ![b].answer["heatmap"] = v] =
             [screen EXCEPT ![b] = [screen[b] EXCEPT !.pc = "shown", !.answer["heatmap"] = v]]
        BY <1>7
    <2> QED
        BY <2>1, <2>4, <2>5, <2>6
<1>9. Report(x, b)
    <2>1. x.pc = "shown" /\ x.asked = s.asked /\ x.period = s.period
          /\ x.answer = [s.answer EXCEPT !["heatmap"] = view["heatmap"]]
        BY <1>6
    <2>2. x.answer \in [Asked -> SUBSET Event]
        BY <1>3, <1>4, <1>5, <2>1
    <2>3. x \in [pc : {"queries", "heatmap", "shown"}, period : Period,
                 asked : SUBSET Asked, answer : [Asked -> SUBSET Event]]
        BY <1>3, <1>6, <2>1, <2>2
    <2>4. \A r \in Asked : x.answer[r] = IF r = "heatmap" THEN view["heatmap"] ELSE s.answer[r]
        BY <1>3, <2>1
    <2>5. \A r \in Asked : x.answer[r] \subseteq inserted
        BY <1>2, <1>5, <2>4 DEF Report
    <2>6. s.asked = {}
        BY <1>1, <1>2 DEF Report
    <2>7. b \notin moved => s.answer["chart"] = Raw /\ s.answer["channels"] = Raw
        BY <1>1, <1>2, <2>6 DEF Report
    <2>8. x.answer["chart"] = s.answer["chart"] /\ x.answer["channels"] = s.answer["channels"]
          /\ x.answer["heatmap"] = view["heatmap"]
        BY <1>4, <2>4
    <2>9. x.answer["chart"] \subseteq inserted
        BY <1>4, <2>5
    <2> QED
        BY <2>1, <2>3, <2>5, <2>6, <2>7, <2>8, <2>9 DEF Report
<1>10. Screens'
    BY <1>1, <1>8, <1>9, ScreenSet
<1> QED
    BY <1>1, <1>10, ScreenInv

LEMMA GoneInv ==
    ASSUME AnalyticsInv, NEW b \in Browser, Fails(b) \/ Leave(b) PROVE AnalyticsInv'
<1>1. UNCHANGED <<store, deletions>> /\ screen' = [screen EXCEPT ![b] = Idle] /\ moved' = moved \ {b}
    BY DEF Fails, Leave
<1>2. UNCHANGED store
    BY <1>1
<1>3. Screens'
    BY <1>1, <1>2, ScreenSet
<1> QED
    BY <1>1, <1>3, ScreenInv

LEMMA OpenBoardInv ==
    ASSUME AnalyticsInv, NEW b \in Browser, NEW o \in Order, OpenBoard(b, o) PROVE AnalyticsInv'
<1>1. PICK f : f = [k \in Pages |-> Unread]
    OBVIOUS
<1>2. PICK x : x = [pc |-> "board", order |-> o, page |-> f]
    OBVIOUS
<1>3. UNCHANGED <<store, deletions, moved>> /\ screen' = [screen EXCEPT ![b] = x]
    BY <1>1, <1>2 DEF OpenBoard
<1>4. f = [k \in Pages |-> f[k]] /\ \A k \in Pages : f[k] = Unread
    BY <1>1
<1>5. \A k \in Pages : f[k].of \subseteq inserted /\ ReadPage(f[k], o, k)
    BY <1>4 DEF Unread, ReadPage
<1>6. Board(x)
    BY <1>2, <1>4, <1>5, Zenon DEF Board, BoardOf
<1>7. UNCHANGED store /\ moved' = moved
    BY <1>3
<1>8. Screens'
    BY <1>3, <1>6, <1>7, ScreenSet
<1> QED
    BY <1>3, <1>8, ScreenInv

LEMMA TurnToInv ==
    ASSUME AnalyticsInv, NEW b \in Browser, NEW k \in Pages, TurnTo(b, k) PROVE AnalyticsInv'
<1>1. UNCHANGED <<store, deletions, moved>> /\ screen[b].pc = "board"
    BY DEF TurnTo
<1>2. Board(screen[b])
    BY <1>1 DEF AnalyticsInv, Screens, Idle, Report
<1>3. PICK o \in Order : \E f : BoardOf(screen[b], o, f)
    BY <1>2 DEF Board
<1>3a. PICK f :
         /\ screen[b] = [pc |-> "board", order |-> o, page |-> f]
         /\ f = [l \in Pages |-> f[l]]
         /\ \A l \in Pages : f[l].of \subseteq inserted /\ ReadPage(f[l], o, l)
    BY <1>3 DEF BoardOf
<1>4. screen[b].order = o /\ screen[b].page = f
    BY <1>3a
<1>5. PICK s \in TopMembers(Raw, Home, o[1], BoardLimit) :
         screen' = [screen EXCEPT ![b].page[k] =
                      [of |-> Raw, entries |-> PageOf(Ordered(s, o), k), read |-> TRUE]]
    BY <1>4 DEF TurnTo, Ordered
<1>6. PICK p : p = [of |-> Raw, entries |-> PageOf(Ordered(s, o), k), read |-> TRUE]
    OBVIOUS
<1>7. PICK h : h = [f EXCEPT ![k] = p]
    OBVIOUS
<1>8. PICK x : x = [pc |-> "board", order |-> o, page |-> h]
    OBVIOUS
<1>9. screen = [c \in Browser |-> screen[c]]
    BY Zenon DEF AnalyticsInv, Screens
<1>10. screen' = [screen EXCEPT ![b] = x]
    <2>1. screen' = [screen EXCEPT ![b].page[k] = p]
        BY <1>5, <1>6
    <2>2. [screen[b] EXCEPT !.page[k] = p] = x
        BY <1>3a, <1>4, <1>7, <1>8
    <2> QED
        BY <1>9, <2>1, <2>2
<1>11. h = [l \in Pages |-> IF l = k THEN p ELSE f[l]]
    BY <1>3a, <1>7
<1>12. h = [l \in Pages |-> h[l]]
    BY <1>11
<1>13. ASSUME NEW l \in Pages PROVE h[l].of \subseteq inserted /\ ReadPage(h[l], o, l)
    <2>1. CASE l = k
        <3>1. h[l] = p
            BY <1>11, <2>1
        <3>2. p.of = Raw /\ p.entries = PageOf(Ordered(s, o), k)
            BY <1>6
        <3>3. ReadPage(p, o, k)
            BY <1>5, <3>2, Zenon DEF ReadPage
        <3>4. Raw \subseteq inserted
            BY DEF Raw
        <3> QED
            BY <2>1, <3>1, <3>2, <3>3, <3>4
    <2>2. CASE l # k
        <3>1. h[l] = f[l]
            BY <1>11, <2>2
        <3> QED
            BY <1>3a, <3>1
    <2> QED
        BY <2>1, <2>2
<1>14. Board(x)
    BY <1>8, <1>12, <1>13, Zenon DEF Board, BoardOf
<1>15. UNCHANGED store /\ moved' = moved
    BY <1>1
<1>16. Screens'
    BY <1>10, <1>14, <1>15, ScreenSet
<1> QED
    BY <1>1, <1>16, ScreenInv

LEMMA AnalyticsInvNext ==
    ASSUME AnalyticsInv, [AnalyticsNext]_analyticsVars PROVE AnalyticsInv'
<1>1. CASE Storage
    BY <1>1, CreateInv, InsertInv, ExpireInv DEF Storage
<1>2. CASE Deletion
    BY <1>2, JobInv, MutateInv DEF Deletion
<1>3. CASE Reports
    BY <1>3, AskInv, AnswerInv, AnswerHeatmapInv, GoneInv DEF Reports
<1>4. CASE Boards
    BY <1>4, OpenBoardInv, TurnToInv DEF Boards
<1>5. CASE UNCHANGED analyticsVars
    <2>1. UNCHANGED <<made, inserted, view, removed, queue, mutation, erased, late, screen, moved>>
        BY <1>5 DEF analyticsVars, store, deletions
    <2>2. Rows'
        BY <2>1, RowsKept
    <2>3. Raw' = Raw
        BY <2>1 DEF Raw
    <2>4. Deletions'
        BY <2>1, <2>3 DEF AnalyticsInv, Deletions
    <2>5. \A b \in Browser : (Report(screen[b], b) => Report(screen[b], b)')
                             /\ (Board(screen[b]) => Board(screen[b])')
        BY <2>1, <2>3 DEF Report, Board, BoardOf
    <2>6. Screens'
        BY <2>1, <2>5 DEF AnalyticsInv, Screens
    <2> QED
        BY <2>2, <2>4, <2>6 DEF AnalyticsInv
<1> QED
    BY <1>1, <1>2, <1>3, <1>4, <1>5 DEF AnalyticsNext

LEMMA AnalyticsInvariant == AnalyticsSpec => []AnalyticsInv
<1>1. AnalyticsInit => AnalyticsInv
    BY AnalyticsInvInit
<1>2. AnalyticsInv /\ [AnalyticsNext]_analyticsVars => AnalyticsInv'
    BY AnalyticsInvNext
<1> QED
    BY <1>1, <1>2, PTL DEF AnalyticsSpec


-------------------------------------------------------------------------------
(* The deletion of a user's data.                                          *)

\* Once a deletion was carried out, no row bears the user's Discord id but those that
\* were inserted after the command (gdpr-user-delete.consumer.ts:46-62).
THEOREM ErasedStaysGone == AnalyticsSpec => []ErasedIsGone
<1>1. ASSUME AnalyticsInv, NEW u \in erased, \A m \in mutation : m[1] # u
      PROVE  /\ RowsOfUser(Raw, u) \subseteq late
             /\ UserStats(Raw \ late, u) = [totalMessages |-> 0, totalVoiceMinutes |-> 0]
    <2>1. RowsOfUser(Raw, u) \subseteq late
        BY <1>1 DEF AnalyticsInv, Deletions, RowsOfUser
    <2>2. RowsOfUser(Raw \ late, u) = {}
        BY <2>1 DEF RowsOfUser
    <2>3. Messages({}) = {}
        BY DEF Messages
    <2>4. UNION {{e} \X (1..Minutes(e)) : e \in {}} = {}
        OBVIOUS
    <2>5. Total(Minutes, {}) = 0
        BY <2>4, FS_EmptySet, Zenon DEF Total
    <2>6. Cardinality(Messages({})) = 0
        BY <2>3, FS_EmptySet
    <2> QED
        BY <2>1, <2>2, <2>5, <2>6 DEF UserStats
<1>2. AnalyticsInv => ErasedIsGone
    BY <1>1, Zenon DEF ErasedIsGone
<1> QED
    BY <1>2, AnalyticsInvariant, PTL

-------------------------------------------------------------------------------
(* Reports.                                                                *)

LEMMA TypeFollows ==
    ASSUME AnalyticsInv PROVE AnalyticsTypeOK
<1>1. ASSUME NEW b \in Browser
      PROVE  \/ screen[b] = Idle
             \/ screen[b] \in [pc : {"queries", "heatmap", "shown"}, period : Period,
                               asked : SUBSET Asked, answer : [Asked -> SUBSET inserted]]
             \/ /\ screen[b].pc = "board" /\ screen[b].order \in Order
                /\ \A k \in Pages : screen[b].page[k].of \subseteq inserted
    <2>1. CASE Report(screen[b], b)
        <3>1. screen[b].answer \in [Asked -> SUBSET inserted]
            BY <2>1 DEF Report
        <3> QED
            BY <2>1, <3>1 DEF Report
    <2>2. CASE Board(screen[b])
        BY <2>2 DEF Board, BoardOf
    <2> QED
        BY <2>1, <2>2 DEF AnalyticsInv, Screens
<1> QED
    BY <1>1 DEF AnalyticsInv, Rows, Deletions, Screens, AnalyticsTypeOK

\* All days are in the period from the first one until today.
LEMMA AllDays ==
    ASSUME NEW S \in SUBSET Event, NEW g
    PROVE  During(In(S, g), <<1, Today>>) = In(S, g)
<1>1. \A e \in In(S, g) : Of[e].day \in 1..Today /\ Today \in Int
    BY EventColumns, Bounds DEF In, Day
<1> QED
    BY <1>1 DEF During

LEMMA TotalsFollow ==
    ASSUME Rows PROVE TotalsAgree
<1> DEFINE daily == view["daily"]
           hot == view["heatmap"]
           days == <<1, Today>>
           chart == Chart(Raw, Home, days)
<1>1. daily \in SUBSET Event /\ hot \in SUBSET daily /\ hot \in SUBSET Event /\ Raw \in SUBSET Event
    BY ViewNames DEF Rows, Raw
<1>2. days \in Int \X Int
    BY Bounds
<1>3. All(MessagesOfGuilds(daily, {Of[e].guild : e \in Event})) = GlobalMessages(daily)
    BY <1>1, GuildMessages
<1>4. Overview(daily, Home).totalMessages <= TotalMessages(daily, Home)
    <2> DEFINE p == <<Today - OverviewDays, Today>>
    <2>1. Messages(In(daily, Home)) \in SUBSET Event
          /\ Messages(During(In(daily, Home), p)) \in SUBSET Messages(In(daily, Home))
        BY <1>1 DEF Messages, During, In
    <2>2. Cardinality(Messages(During(In(daily, Home), p))) <= Cardinality(Messages(In(daily, Home)))
        BY <2>1, FewerEvents
    <2> QED
        BY <2>2 DEF Overview, TotalMessages
<1>5. All(Heatmap(hot, Home)) <= TotalMessages(daily, Home)
    <2>1. Messages(In(daily, Home)) \in SUBSET Event
          /\ Messages(In(hot, Home)) \in SUBSET Messages(In(daily, Home))
        BY <1>1 DEF Messages, In
    <2>2. Cardinality(Messages(In(hot, Home))) <= Cardinality(Messages(In(daily, Home)))
        BY <2>1, FewerEvents
    <2>3. All(Heatmap(hot, Home)) = Cardinality(Messages(In(hot, Home)))
        BY <1>1, HeatmapMessages
    <2> QED
        BY <2>2, <2>3 DEF TotalMessages
<1>6. Sum(chart, "messages") = TotalMessages(Raw, Home)
    BY <1>1, <1>2, ChartMessages, AllDays DEF TotalMessages
<1>7. Sum(chart, "voiceMinutes") = TotalVoiceMinutes(Raw, Home)
    BY <1>1, <1>2, ChartMinutes, AllDays DEF TotalVoiceMinutes
<1>8. ASSUME NEW top \in VoiceChannels(Raw, Home, days)
      PROVE  LET named == All(top) + Total(Minutes, In(Raw, Home) \ Channelled(Raw))
             IN  /\ named <= Sum(chart, "voiceMinutes")
                 /\ Few(PerVoiceChannel(Raw, Home, days)) => named = Sum(chart, "voiceMinutes")
    <2> DEFINE f == PerVoiceChannel(Raw, Home, days)
               N == In(Raw, Home) \ Channelled(Raw)
    <2>1. N = In(Raw, Home) \ Channelled(In(Raw, Home)) /\ N \in SUBSET Event
        BY <1>1 DEF Channelled, In
    <2>2. /\ All(f) + Total(Minutes, N) = TotalVoiceMinutes(Raw, Home)
          /\ IsFiniteSet(DOMAIN f) /\ \A c \in DOMAIN f : f[c] \in Nat
        <3>1. During(In(Raw, Home), days) = In(Raw, Home)
            BY <1>1, AllDays
        <3>2. /\ All(f) + Total(Minutes, In(Raw, Home) \ Channelled(In(Raw, Home)))
                   = Total(Minutes, In(Raw, Home))
              /\ IsFiniteSet(DOMAIN f) /\ \A c \in DOMAIN f : f[c] \in Nat
            BY <1>1, <3>1, ChannelMinutes, Zenon
        <3> HIDE DEF f
        <3> QED
            BY <2>1, <3>2 DEF TotalVoiceMinutes
    <2>3. All(top) <= All(f) /\ All(top) \in Nat /\ (Few(f) => All(top) = All(f))
        BY <2>2, TopsAreFewer, Zenon DEF VoiceChannels
    <2>4. All(f) \in Nat
        <3>1. IsFiniteSet(Stack(DOMAIN f, f))
            BY <2>2, StackFinite, Zenon
        <3> QED
            BY <3>1, AllStack, FS_CardinalityType, Zenon
    <2>5. Total(Minutes, N) \in Nat
        BY <2>1, MinutesNat
    <2> HIDE DEF f, N
    <2>6. /\ All(top) + Total(Minutes, N) <= Sum(chart, "voiceMinutes")
          /\ Few(f) => All(top) + Total(Minutes, N) = Sum(chart, "voiceMinutes")
        BY <1>7, <2>2, <2>3, <2>4, <2>5
    <2> QED
        BY <2>6 DEF f, N
<1>9. ASSUME NEW top \in Commands(Raw, Home, days)
      PROVE  All(top) + All(Roles(Raw, Home, days)) <= Cardinality(Raw)
    BY <1>1, CommandsAndRoles
<1>10. ASSUME NEW s \in TopMembers(Raw, Home, "messages", TopLimit), Len(s) < TopLimit
       PROVE  Total(LAMBDA i : Amount(In(Raw, Home), s[i], "messages"), DOMAIN s) = Sum(chart, "messages")
    <2>1. Total(LAMBDA i : Amount(In(Raw, Home), s[i], "messages"), DOMAIN s)
             = Cardinality(Messages(In(Raw, Home)))
        BY <1>1, <1>10, TopTotal, Zenon
    <2> QED
        BY <1>6, <2>1 DEF TotalMessages
<1> QED
    BY <1>3, <1>4, <1>5, <1>6, <1>7, <1>8, <1>9, <1>10, Zenon DEF TotalsAgree

LEMMA ReportFollows ==
    ASSUME AnalyticsInv PROVE ReportAgrees
<1> SUFFICES ASSUME NEW b \in Browser, screen[b].pc = "shown"
             PROVE  LET a == screen[b].answer
                        p == screen[b].period
                        messages == Sum(Chart(a["chart"], Home, p), "messages")
                    IN  /\ b \notin moved =>
                              \A top \in MessageChannels(a["channels"], Home, p) :
                                 /\ All(top) <= messages
                                 /\ Few(PerMessageChannel(a["channels"], Home, p)) => All(top) = messages
                        /\ view["heatmap"] = inserted => messages <= All(Heatmap(a["heatmap"], Home))
    BY Zenon DEF ReportAgrees
<1> DEFINE s == screen[b]
           a == s.answer
           p == s.period
<1>1. Report(s, b)
    BY DEF AnalyticsInv, Screens, Idle, Board, BoardOf
<1>2. /\ s.period \in Period /\ s.answer \in [Asked -> SUBSET Event]
      /\ b \notin moved => a["chart"] = a["channels"]
      /\ view["heatmap"] = inserted => a["chart"] \subseteq a["heatmap"]
    BY <1>1 DEF Report
<1>3. a["chart"] \in SUBSET Event /\ a["channels"] \in SUBSET Event /\ a["heatmap"] \in SUBSET Event
    BY <1>2, ViewNames
<1>4. p \in Int \X Int
    <2>1. Day \subseteq Int
        BY Bounds DEF Day
    <2> QED
        BY <1>2, <2>1 DEF Period
<1>5. Sum(Chart(a["chart"], Home, p), "messages") = Cardinality(Messages(During(In(a["chart"], Home), p)))
    BY <1>3, <1>4, ChartMessages
<1>6. ASSUME NEW top \in MessageChannels(a["channels"], Home, p)
      PROVE  LET n == Cardinality(Messages(During(In(a["channels"], Home), p)))
             IN  All(top) <= n /\ (Few(PerMessageChannel(a["channels"], Home, p)) => All(top) = n)
    <2> DEFINE f == PerMessageChannel(a["channels"], Home, p)
    <2>1. /\ All(f) = Cardinality(Messages(During(In(a["channels"], Home), p)))
          /\ IsFiniteSet(DOMAIN f) /\ \A c \in DOMAIN f : f[c] \in Nat
        BY <1>3, ChannelMessages
    <2>2. All(top) <= All(f) /\ (Few(f) => All(top) = All(f))
        BY <2>1, TopsAreFewer, Zenon DEF MessageChannels
    <2> QED
        BY <2>1, <2>2
<1>7. All(Heatmap(a["heatmap"], Home)) = Cardinality(Messages(In(a["heatmap"], Home)))
    BY <1>3, HeatmapMessages
<1>8. ASSUME a["chart"] \subseteq a["heatmap"]
      PROVE  Cardinality(Messages(During(In(a["chart"], Home), p))) <= Cardinality(Messages(In(a["heatmap"], Home)))
    <2>1. Messages(In(a["heatmap"], Home)) \in SUBSET Event
          /\ Messages(During(In(a["chart"], Home), p)) \in SUBSET Messages(In(a["heatmap"], Home))
        BY <1>3, <1>8 DEF Messages, During, In
    <2> QED
        BY <2>1, FewerEvents
<1> QED
    BY <1>2, <1>5, <1>6, <1>7, <1>8

\* What reports say of one guild agrees, for any events, any number of browsers and of days
\* (analytics.service.ts:174-206, shared-analytics.service.ts:21-188).
THEOREM ReportsAgree == AnalyticsSpec => []PartsAgree
<1>1. AnalyticsInv => PartsAgree
    BY TypeFollows, TotalsFollow, ReportFollows DEF PartsAgree, AnalyticsInv
<1> QED
    BY <1>1, AnalyticsInvariant, PTL


-------------------------------------------------------------------------------
(* The leaderboard.                                                        *)

\* The place in the list of the member with rank r, when L members are left of it.
Place(o, L, r) == IF o[2] = "asc" THEN L + 1 - r ELSE r

LEMMA PagesNat ==
    /\ \E n \in Nat : Pages = 1..n
    /\ \A k \in Pages : k \in Nat /\ k > 0
    /\ \A o \in Order : o[1] \in {"messages", "voice"} /\ o[2] \in {"asc", "desc"}
<1>1. \E n \in Nat : Pages = 1..n
    <2>1. IsFiniteSet(Pages) /\ Pages = 1..Cardinality(Pages)
        BY AnalyticsAssumption, Zenon DEF AnalyticsAssumption
    <2>2. Cardinality(Pages) \in Nat
        BY <2>1, FS_CardinalityType
    <2> QED
        BY <2>1, <2>2, Zenon
<1>2. Order \subseteq {"messages", "voice"} \X {"asc", "desc"}
    BY AnalyticsAssumption, Zenon DEF AnalyticsAssumption
<1> QED
    BY <1>1, <1>2

\* What a page that was read shows.
LEMMA PageShows ==
    ASSUME NEW p, NEW o \in Order, NEW k \in Pages, p.of \in SUBSET Event, p.read, ReadPage(p, o, k)
    PROVE  LET R == In(p.of, Home)
               n == Cardinality(Members(R))
               L == Least(BoardLimit, n)
           IN  \E t \in Lists(R, o[1]) :
                  /\ \A i \in DOMAIN p.entries :
                        /\ p.entries[i].rank \in 1..L /\ p.entries[i].id = t[Place(o, L, p.entries[i].rank)]
                        /\ (k - 1) * PageSize < p.entries[i].rank /\ p.entries[i].rank <= k * PageSize
                  /\ \A r \in 1..L : (k - 1) * PageSize < r /\ r <= k * PageSize =>
                        \E i \in DOMAIN p.entries : p.entries[i].rank = r
<1> DEFINE R == In(p.of, Home)
           M == Members(R)
           n == Cardinality(M)
           L == Least(BoardLimit, n)
<1>1. PICK s \in TopMembers(p.of, Home, o[1], BoardLimit) : p.entries = PageOf(Ordered(s, o), k)
    BY DEF ReadPage
<1>2. BoardLimit \in Nat
    BY Bounds
<1>3. PICK t \in Lists(R, o[1]) :
         s \in Seq(M) /\ Len(s) = L /\ DOMAIN s = 1..L /\ L \in Nat /\ \A i \in 1..L : s[i] = t[i]
    <2>1. FirstOf(s, R, o[1], BoardLimit)
        BY <1>2, TopOfList
    <2> QED
        BY <2>1 DEF FirstOf
<1> HIDE DEF L, n, M, R
<1>4. /\ Ordered(s, o) \in Seq(M) /\ Len(Ordered(s, o)) = L
      /\ \A r \in 1..L : Ordered(s, o)[r] = t[Place(o, L, r)]
    <2>1. CASE o[2] = "asc"
        <3>1. Ordered(s, o) = [i \in 1..L |-> s[(L - i) + 1]]
            BY <1>3, <2>1 DEF Ordered, Reverse
        <3>2. \A i \in 1..L : (L - i) + 1 \in 1..L /\ (L - i) + 1 = L + 1 - i
            BY <1>3
        <3>3. \A i \in 1..L : s[(L - i) + 1] \in M
            BY <1>3, <3>2
        <3>4. Ordered(s, o) \in [1..L -> M]
            BY <3>1, <3>3
        <3> HIDE DEF Ordered
        <3>5. Ordered(s, o) \in Seq(M) /\ Len(Ordered(s, o)) = L
            BY <1>3, <3>4
        <3>6. \A r \in 1..L : Ordered(s, o)[r] = t[L + 1 - r]
            BY <1>3, <3>1, <3>2
        <3> QED
            BY <2>1, <3>5, <3>6 DEF Place
    <2>2. CASE o[2] # "asc"
        BY <1>3, <2>2 DEF Ordered, Place
    <2> QED
        BY <2>1, <2>2
<1>5. k \in Nat /\ k > 0
    BY PagesNat
<1>6. PICK q : q = Ordered(s, o)
    OBVIOUS
<1>7. /\ \A i \in DOMAIN PageOf(q, k) :
            /\ PageOf(q, k)[i].rank \in 1..Len(q) /\ PageOf(q, k)[i].id = q[PageOf(q, k)[i].rank]
            /\ (k - 1) * PageSize < PageOf(q, k)[i].rank /\ PageOf(q, k)[i].rank <= k * PageSize
      /\ \A r \in 1..Len(q) : (k - 1) * PageSize < r /\ r <= k * PageSize =>
            \E i \in DOMAIN PageOf(q, k) : PageOf(q, k)[i].rank = r
    BY <1>4, <1>5, <1>6, PageEntries
<1>8. ASSUME NEW i \in DOMAIN p.entries
      PROVE  /\ p.entries[i].rank \in 1..L /\ p.entries[i].id = t[Place(o, L, p.entries[i].rank)]
             /\ (k - 1) * PageSize < p.entries[i].rank /\ p.entries[i].rank <= k * PageSize
    BY <1>1, <1>4, <1>6, <1>7
<1>9. ASSUME NEW r \in 1..L, (k - 1) * PageSize < r, r <= k * PageSize
      PROVE  \E i \in DOMAIN p.entries : p.entries[i].rank = r
    BY <1>1, <1>4, <1>6, <1>7, <1>9
<1> QED
    BY <1>8, <1>9 DEF L, n, M, R

\* A rank is on one page.
LEMMA OnePage ==
    ASSUME NEW k \in Nat, NEW l \in Nat, NEW r \in Int,
           (k - 1) * PageSize < r, r <= k * PageSize, (l - 1) * PageSize < r, r <= l * PageSize
    PROVE  k = l
<1>1. \A x, y, z \in Int : x <= y /\ z >= 0 => x * z <= y * z
    <2> SUFFICES ASSUME NEW x \in Int, NEW y \in Int, NEW z \in Int, x <= y, z >= 0 PROVE x * z <= y * z
        OBVIOUS
    <2>1. y * z = x * z + (y - x) * z
        OBVIOUS
    <2>2. (y - x) * z >= 0
        OBVIOUS
    <2> QED
        BY <2>1, <2>2
<1>2. PageSize \in Int /\ PageSize >= 0
    BY Bounds
<1>3. k * PageSize \in Int /\ l * PageSize \in Int /\ (k - 1) * PageSize \in Int /\ (l - 1) * PageSize \in Int
    BY <1>2
<1>4. ~(k < l)
    <2>1. k < l => k * PageSize <= (l - 1) * PageSize
        BY <1>1, <1>2
    <2> QED
        BY <1>3, <2>1
<1>5. ~(l < k)
    <2>1. l < k => l * PageSize <= (k - 1) * PageSize
        BY <1>1, <1>2
    <2> QED
        BY <1>3, <2>1
<1> QED
    BY <1>4, <1>5

\* Every rank is on a page.
LEMMA SomePage ==
    ASSUME NEW n \in Nat, NEW r \in Nat, r > 0, r <= PageSize * n
    PROVE  \E k \in 1..n : (k - 1) * PageSize < r /\ r <= k * PageSize
<1> DEFINE P == PageSize
           d == (r - 1) \div P
           m == (r - 1) % P
<1>1. P \in Nat /\ P > 0
    BY Bounds
<1>2. d \in Int /\ m \in 0..(P - 1) /\ r - 1 = P * d + m
    BY <1>1
<1> HIDE DEF P, d, m
<1>3. d * P = P * d /\ (d + 1) * P = P * d + P /\ P * d \in Int
    BY <1>1, <1>2
<1>4. d * P < r /\ r <= (d + 1) * P
    BY <1>1, <1>2, <1>3
<1>5. d >= 0
    <2>1. ASSUME d <= 0 - 1 PROVE P * d <= 0 - P
        <3>1. P * (0 - 1 - d) >= 0
            BY <1>1, <1>2, <2>1
        <3>2. P * (0 - 1 - d) = 0 - P - P * d
            BY <1>1, <1>2
        <3> QED
            BY <1>1, <1>3, <3>1, <3>2
    <2> QED
        BY <1>1, <1>2, <1>3, <2>1
<1>6. d < n
    <2>1. ASSUME n <= d PROVE P * n <= P * d
        <3>1. P * (d - n) >= 0
            BY <1>1, <1>2, <2>1
        <3>2. P * (d - n) = P * d - P * n
            BY <1>1, <1>2
        <3>3. P * n \in Int
            BY <1>1
        <3> QED
            BY <1>3, <3>1, <3>2, <3>3
    <2>2. P * n \in Int /\ r <= P * n
        BY <1>1 DEF P
    <2> QED
        BY <1>1, <1>2, <1>3, <2>1, <2>2
<1>7. d + 1 \in 1..n /\ (d + 1) - 1 = d
    BY <1>2, <1>5, <1>6
<1> QED
    BY <1>4, <1>7 DEF P


\* Without ties, a member that two lists have in their places m and n is in the same place.
LEMMA SamePlace ==
    ASSUME NEW R \in SUBSET Event, NEW metric, NEW t \in Lists(R, metric), NEW u \in Lists(R, metric),
           NEW m \in 1..Cardinality(Members(R)), NEW n \in 1..Cardinality(Members(R)), t[m] = u[n],
           \A i, j \in Members(R) : i # j => Ahead(R, metric, i, j) \/ Ahead(R, metric, j, i)
    PROVE  m = n
<1>1. Cardinality(AheadOf(R, metric, t[m])) = m - 1
    BY PlaceCounts
<1>2. Cardinality(AheadOf(R, metric, u[n])) = n - 1
    BY PlaceCounts
<1>3. Cardinality(Members(R)) \in Nat
    BY MembersFinite
<1>4. m \in Int /\ n \in Int
    BY <1>3
<1> QED
    BY <1>1, <1>2, <1>4

\* No more members than its rank says are before a member on any page, and pages that were
\* read of the same rows, with no ties, show nobody twice and leave nobody out, for any
\* number of members and any page size (analytics.service.ts:264-316).
THEOREM PagesArePartition == AnalyticsSpec => []PagesPartition
<1>1. ASSUME AnalyticsInv, NEW b \in Browser, NEW k \in Pages,
             screen[b].pc = "board", screen[b].page[k].read
      PROVE  LET page == screen[b].page
                 rows == In(page[k].of, Home)
                 ids == {MemberId(e) : e \in rows}
                 Leads(i, j) == Before(rows, screen[b].order, i, j)
                 tied == \E i, j \in ids : i # j /\ ~Leads(i, j) /\ ~Leads(j, i)
                 same == {l \in Pages : page[l].read /\ page[l].of = page[k].of}
                 whole == Cardinality(ids) <= BoardLimit
             IN  /\ screen[b].order[2] = "desc" \/ whole => \A i \in DOMAIN page[k].entries :
                       Cardinality({j \in ids : Leads(j, page[k].entries[i].id)}) < page[k].entries[i].rank
                 /\ ~tied => /\ \A l \in same \ {k} : IdsOn(page[k]) \cap IdsOn(page[l]) = {}
                             /\ same = Pages /\ whole /\ Cardinality(ids) <= PageSize * Cardinality(Pages) =>
                                   UNION {IdsOn(page[l]) : l \in Pages} = ids
    <2>1. Board(screen[b])
        BY <1>1 DEF AnalyticsInv, Screens, Idle, Report
    <2>2. PICK o \in Order : \E f : BoardOf(screen[b], o, f)
        BY <2>1 DEF Board
    <2>2a. PICK f :
             /\ screen[b] = [pc |-> "board", order |-> o, page |-> f]
             /\ \A l \in Pages : f[l].of \subseteq inserted /\ ReadPage(f[l], o, l)
        BY <2>2 DEF BoardOf
    <2>3. screen[b].page = f /\ screen[b].order = o
        BY <2>2a
    <2>4. \A l \in Pages : f[l].of \in SUBSET Event
        BY <1>1, <2>2a DEF AnalyticsInv, Rows
    <2> DEFINE R == In(f[k].of, Home)
               M == Members(R)
               n == Cardinality(M)
               L == Least(BoardLimit, n)
               Same == {l \in Pages : f[l].read /\ f[l].of = f[k].of}
               Led == \A i, j \in M : i # j => Ahead(R, o[1], i, j) \/ Ahead(R, o[1], j, i)
    <2>5. R \in SUBSET Event /\ n \in Nat /\ BoardLimit \in Nat
        BY <2>4, Selected, MembersFinite, Bounds
    <2>6. L \in Nat /\ L <= n /\ (n <= BoardLimit => L = n)
        BY <2>5 DEF Least
    <2>7. k \in Same
        BY <1>1, <2>3
    <2>8. ASSUME NEW l \in Same
          PROVE  \E t \in Lists(R, o[1]) :
                    /\ \A i \in DOMAIN f[l].entries :
                          /\ f[l].entries[i].rank \in 1..L
                          /\ f[l].entries[i].id = t[Place(o, L, f[l].entries[i].rank)]
                          /\ (l - 1) * PageSize < f[l].entries[i].rank /\ f[l].entries[i].rank <= l * PageSize
                    /\ \A r \in 1..L : (l - 1) * PageSize < r /\ r <= l * PageSize =>
                          \E i \in DOMAIN f[l].entries : f[l].entries[i].rank = r
        <3>1. PICK p : p = f[l]
            OBVIOUS
        <3>2. p.of = f[k].of /\ p.of \in SUBSET Event /\ p.read /\ ReadPage(p, o, l)
            BY <2>2a, <2>4, <3>1
        <3>3. l \in Pages
            OBVIOUS
        <3>4. \E t \in Lists(R, o[1]) :
                    /\ \A i \in DOMAIN p.entries :
                          /\ p.entries[i].rank \in 1..L
                          /\ p.entries[i].id = t[Place(o, L, p.entries[i].rank)]
                          /\ (l - 1) * PageSize < p.entries[i].rank /\ p.entries[i].rank <= l * PageSize
                    /\ \A r \in 1..L : (l - 1) * PageSize < r /\ r <= l * PageSize =>
                          \E i \in DOMAIN p.entries : p.entries[i].rank = r
            BY <3>2, <3>3, PageShows
        <3> QED
            BY <3>1, <3>4
    <2>9. \A r \in 1..L : Place(o, L, r) \in 1..n
        BY <2>5, <2>6 DEF Place
    <2>10. \A r, q \in 1..L : Place(o, L, r) = Place(o, L, q) => r = q
        BY <2>5, <2>6 DEF Place
    <2>11. ASSUME o[2] = "desc" \/ n <= BoardLimit, NEW i \in DOMAIN f[k].entries
           PROVE  Cardinality({j \in M : Before(R, o, j, f[k].entries[i].id)}) < f[k].entries[i].rank
        <3>1. PICK t \in Lists(R, o[1]) :
                 f[k].entries[i].rank \in 1..L /\ f[k].entries[i].id = t[Place(o, L, f[k].entries[i].rank)]
            BY <2>7, <2>8
        <3>2. PICK r \in 1..L : r = f[k].entries[i].rank
            BY <3>1
        <3>3. PICK m \in 1..n : m = Place(o, L, r)
            BY <2>9
        <3>4. f[k].entries[i].id = t[m]
            BY <3>1, <3>2, <3>3
        <3>5. /\ Cardinality(AheadOf(R, o[1], t[m])) <= m - 1
              /\ Cardinality(AheadOf(R, o[1], t[m])) \in Nat
              /\ Cardinality(Behind(R, o[1], t[m])) <= n - m
              /\ Cardinality(Behind(R, o[1], t[m])) \in Nat
            BY <2>5, PlaceCounts
        <3>6. CASE o[2] = "desc"
            <4>1. {j \in M : Before(R, o, j, t[m])} = AheadOf(R, o[1], t[m])
                BY <3>6 DEF Before, AheadOf
            <4>2. m = r
                BY <3>3, <3>6 DEF Place
            <4> HIDE DEF M, L, n
            <4>3. Cardinality(AheadOf(R, o[1], t[m])) < r
                BY <2>6, <3>5, <4>2
            <4> QED
                BY <3>2, <3>4, <4>1, <4>3
        <3>7. CASE o[2] # "desc"
            <4>1. {j \in M : Before(R, o, j, t[m])} = Behind(R, o[1], t[m])
                BY <3>7 DEF Before, Behind
            <4>2. m = L + 1 - r /\ L = n
                BY <2>6, <2>11, <3>3, <3>7, PagesNat DEF Place
            <4> HIDE DEF M, L, n
            <4>3. Cardinality(Behind(R, o[1], t[m])) < r
                BY <2>5, <2>6, <3>5, <4>2
            <4> QED
                BY <3>2, <3>4, <4>1, <4>3
        <3> QED
            BY <3>6, <3>7
    <2>12. ASSUME Led, NEW l \in Same \ {k} PROVE IdsOn(f[k]) \cap IdsOn(f[l]) = {}
        <3> SUFFICES ASSUME NEW x \in IdsOn(f[k]), x \in IdsOn(f[l]) PROVE FALSE
            OBVIOUS
        <3>1. PICK i \in DOMAIN f[k].entries, j \in DOMAIN f[l].entries :
                 f[k].entries[i].id = x /\ f[l].entries[j].id = x
            BY DEF IdsOn
        <3>2. PICK t \in Lists(R, o[1]) :
                 /\ f[k].entries[i].rank \in 1..L /\ x = t[Place(o, L, f[k].entries[i].rank)]
                 /\ (k - 1) * PageSize < f[k].entries[i].rank /\ f[k].entries[i].rank <= k * PageSize
            BY <2>7, <2>8, <3>1
        <3>3. PICK u \in Lists(R, o[1]) :
                 /\ f[l].entries[j].rank \in 1..L /\ x = u[Place(o, L, f[l].entries[j].rank)]
                 /\ (l - 1) * PageSize < f[l].entries[j].rank /\ f[l].entries[j].rank <= l * PageSize
            BY <2>8, <3>1
        <3>4. PICK r \in 1..L, q \in 1..L : r = f[k].entries[i].rank /\ q = f[l].entries[j].rank
            BY <3>2, <3>3
        <3>5. Place(o, L, r) \in 1..n /\ Place(o, L, q) \in 1..n /\ t[Place(o, L, r)] = u[Place(o, L, q)]
            BY <2>9, <3>2, <3>3, <3>4
        <3>6. Place(o, L, r) = Place(o, L, q)
            BY <2>5, <2>12, <3>5, SamePlace
        <3>7. r = q /\ r \in Int
            BY <2>6, <2>10, <3>6
        <3>8. k \in Nat /\ l \in Nat
            BY PagesNat
        <3>9. k = l
            BY <3>2, <3>3, <3>4, <3>7, <3>8, OnePage
        <3> QED
            BY <3>9
    <2>13. ASSUME Led, Same = Pages, n <= BoardLimit, n <= PageSize * Cardinality(Pages)
           PROVE  UNION {IdsOn(f[l]) : l \in Pages} = M
        <3>1. ASSUME NEW l \in Pages, NEW x \in IdsOn(f[l]) PROVE x \in M
            <4>1. PICK i \in DOMAIN f[l].entries : f[l].entries[i].id = x
                BY DEF IdsOn
            <4>2. l \in Same
                BY <2>13
            <4>3. PICK t \in Lists(R, o[1]) :
                     f[l].entries[i].rank \in 1..L /\ x = t[Place(o, L, f[l].entries[i].rank)]
                BY <2>8, <4>1, <4>2
            <4>4. Place(o, L, f[l].entries[i].rank) \in 1..n
                BY <2>9, <4>3
            <4>5. t \in [1..n -> M]
                BY <2>5, ListPlaces
            <4> QED
                BY <4>3, <4>4, <4>5
        <3>2. ASSUME NEW x \in M PROVE \E l \in Pages : x \in IdsOn(f[l])
            <4>1. PICK t \in Lists(R, o[1]) : TRUE
                BY <2>7, <2>8
            <4>2. PICK m \in 1..n : t[m] = x
                BY <2>5, <4>1, ListPlaces
            <4>3. L = n
                BY <2>6, <2>13
            <4>4. PICK r \in 1..L : Place(o, L, r) = m
                <5>1. CASE o[2] = "asc"
                    <6>1. L + 1 - m \in 1..L /\ L + 1 - (L + 1 - m) = m
                        BY <2>5, <4>3
                    <6> QED
                        BY <5>1, <6>1 DEF Place
                <5>2. CASE o[2] # "asc"
                    BY <4>3, <5>2 DEF Place
                <5> QED
                    BY <5>1, <5>2
            <4>5. PICK c \in Nat : Pages = 1..c
                BY PagesNat
            <4>6. Cardinality(Pages) = c
                BY <4>5, FS_Interval
            <4>7. r \in Nat /\ r > 0 /\ r <= PageSize * c
                <5>1. PageSize * c \in Int
                    BY <4>5, Bounds
                <5> HIDE DEF n, L
                <5> QED
                    BY <2>5, <2>6, <2>13, <4>3, <4>6, <5>1
            <4>8. PICK l \in 1..c : (l - 1) * PageSize < r /\ r <= l * PageSize
                BY <4>7, SomePage
            <4>9. l \in Same /\ l \in Pages
                BY <2>13, <4>5
            <4>10. PICK u \in Lists(R, o[1]), i \in DOMAIN f[l].entries :
                      f[l].entries[i].rank = r /\ f[l].entries[i].id = u[Place(o, L, r)]
                BY <2>8, <4>8, <4>9
            <4>11. PICK y \in M, h \in 1..n : y = u[m] /\ t[h] = y
                <5>1. u \in [1..n -> M]
                    BY <2>5, ListPlaces
                <5>2. \A y \in M : \E h \in 1..n : t[h] = y
                    BY <2>5, ListPlaces
                <5>3. u[m] \in M
                    BY <5>1
                <5> QED
                    BY <5>2, <5>3
            <4>12. h = m
                BY <2>5, <2>13, <4>11, SamePlace
            <4>13. f[l].entries[i].id = x
                BY <4>2, <4>4, <4>10, <4>11, <4>12
            <4> QED
                BY <4>9, <4>13 DEF IdsOn
        <3> QED
            BY <3>1, <3>2
    <2>14. ASSUME ~\E i, j \in M : i # j /\ ~Before(R, o, i, j) /\ ~Before(R, o, j, i)
           PROVE  Led
        BY <2>14 DEF Before
    <2>15. M = {MemberId(e) : e \in R}
        BY DEF Members
    <2> HIDE DEF M, R, L
    <2> QED
        BY <2>3, <2>11, <2>12, <2>13, <2>14, <2>15, Zenon DEF R
<1>2. AnalyticsInv => PagesPartition
    BY <1>1, Zenon DEF PagesPartition
<1> QED
    BY <1>2, AnalyticsInvariant, PTL
===============================================================================
