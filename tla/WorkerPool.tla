----------------------------- MODULE WorkerPool -----------------------------
(***************************************************************************)
(* What secure_server.py and server.py share: the bounded semaphore that   *)
(* counts admitted requests (pending_slots) and the ThreadPoolExecutor     *)
(* that runs handle_client on them.                                        *)
(*                                                                         *)
(* ThreadPoolExecutor is the standard library's, modelled from how main()  *)
(* uses it.  Its submit() puts the request in the queue and only then      *)
(* looks for a thread: if it can start none it raises RuntimeError with    *)
(* the request already in the queue.                                       *)
(***************************************************************************)
EXTENDS Integers, Sequences, FiniteSets

CONSTANTS
    Request,           \* the connections, or datagrams, that may arrive
    MaxWorkers,        \* --max-workers, as given on the command line
    MaxQueue,          \* --max-queue, as given on the command line
    MaxStartFailures   \* bound: how often the system refuses a new thread

ASSUME PoolAssumption ==
    /\ MaxWorkers \in Int
    /\ MaxQueue \in Int
    /\ MaxStartFailures \in Nat

VARIABLES
    free,      \* the value of pending_slots
    queue,     \* the executor's queue of submitted requests
    threads,   \* the worker threads it has started
    failures,  \* the starts that have failed
    stage      \* how far the handling of each request is

AtLeastOne(n) == IF n < 1 THEN 1 ELSE n

Slots == AtLeastOne(MaxWorkers + MaxQueue)
ThreadLimit == AtLeastOne(MaxWorkers)

\* The stages in which a worker thread runs handle_client.
Working == {"recv", "reply", "sent", "failing"}
Busy == {r \in Request : stage[r] \in Working}

PoolInit ==
    /\ free = Slots
    /\ queue = <<>>
    /\ threads = 0
    /\ failures = 0

-----------------------------------------------------------------------------
\* pending_slots.acquire(blocking=False), when it returns True.
Acquire ==
    /\ free > 0
    /\ free' = free - 1

\* pending_slots.release(): a BoundedSemaphore that is already at its initial
\* value raises ValueError and keeps it.
ReleaseRaises == free = Slots

\* Fault: a plain Semaphore.
ReleaseUnbounded == free' = free + 1

Release == free' = IF ReleaseRaises THEN free ELSE free + 1

\* The first half of submit(), then the two ways its second half ends.
Put(r) == queue' = Append(queue, r)

FindThread ==
    /\ threads' \in {threads, threads + 1}
    /\ threads' \in 1..ThreadLimit

StartFails ==
    /\ threads < ThreadLimit
    /\ failures < MaxStartFailures
    /\ failures' = failures + 1

\* An idle worker thread takes the oldest request of the queue.
Take(r, first) ==
    /\ queue # <<>>
    /\ r = Head(queue)
    /\ Cardinality(Busy) < threads
    /\ queue' = Tail(queue)
    /\ stage' = [stage EXCEPT ![r] = first]

\* What leaving the "with ThreadPoolExecutor" block waits for: the threads run
\* until the queue is empty; without a thread there is nothing to wait for.
Drained == threads = 0 \/ (queue = <<>> /\ Busy = {})
=============================================================================
