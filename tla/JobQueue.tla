------------------------------- MODULE JobQueue -------------------------------
(***************************************************************************)
(* The RabbitMQ queues of internal/queue/rabbitmq.go.  A queue is a bag:   *)
(* how many copies of each message it holds.  RabbitMQ's order inside a     *)
(* queue is not kept, because redelivery and the retry queue reorder        *)
(* messages anyway.  A delivered message that is not yet acknowledged is    *)
(* held by its worker (Worker.tla) and counted in no queue.                 *)
(***************************************************************************)
EXTENDS JobDomain

CONSTANT MaxRetries   \* maxJobRetries of cmd/worker

ASSUME RetriesAssumption == MaxRetries \in Nat

\* domain.JobMessage: a message names a job and counts its retries.
JobMessage == [job: Jobs, attempt: 0..MaxRetries]
FirstAttempt(j) == [job |-> j, attempt |-> 0]
NextAttempt(m) == [m EXCEPT !.attempt = @ + 1]

VARIABLES
    jobsQueue,    \* JobsQueue: no dead-letter exchange, so a Nack discards
    retryQueue,   \* JobsRetryQueue: TTL of 30 s, dead-letters to JobsQueue
    dlq           \* JobsDLQ: nobody consumes it

queues == <<jobsQueue, retryQueue, dlq>>

Bag == [JobMessage -> Nat]
Empty == [m \in JobMessage |-> 0]
Put(q, m) == [q EXCEPT ![m] = @ + 1]
Take(q, m) == [q EXCEPT ![m] = @ - 1]

JobQueueInit == jobsQueue = Empty /\ retryQueue = Empty /\ dlq = Empty

PublishJob(m) == jobsQueue' = Put(jobsQueue, m) /\ UNCHANGED <<retryQueue, dlq>>
PublishJobRetry(m) ==
    retryQueue' = Put(retryQueue, NextAttempt(m)) /\ UNCHANGED <<jobsQueue, dlq>>
PublishJobDeferred(m) ==
    retryQueue' = Put(retryQueue, m) /\ UNCHANGED <<jobsQueue, dlq>>
PublishJobDLQ(m) == dlq' = Put(dlq, m) /\ UNCHANGED <<jobsQueue, retryQueue>>

\* The broker hands a message to a consumer.
Consume(m) == /\ jobsQueue[m] > 0
              /\ jobsQueue' = Take(jobsQueue, m)
              /\ UNCHANGED <<retryQueue, dlq>>

\* The TTL of a message in the retry queue runs out.
RetryElapses(m) == /\ retryQueue[m] > 0
                   /\ retryQueue' = Take(retryQueue, m)
                   /\ jobsQueue' = Put(jobsQueue, m)
                   /\ UNCHANGED dlq
==============================================================================
