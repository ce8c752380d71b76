---------------------------- MODULE SecureServer ----------------------------
(***************************************************************************)
(* The TLS time server, main() of server/secure_server.py: one thread that *)
(* accepts connections, admits or drops them, does their TLS handshake and *)
(* submits them; the worker threads that answer them; the interrupts that  *)
(* stop the program.  Each request is a connection.                        *)
(*                                                                         *)
(* A connection's stage also says who owns it:                             *)
(*   absent, backlog           the peer; the listening socket's backlog    *)
(*   handshake, wrapped        the accepting thread, before submit()       *)
(*   queued                    the executor's queue                        *)
(*   recv, reply               handle_client, before recv and before the   *)
(*                             answer is sent                              *)
(*   sent, failing             handle_client, about to enter its finally   *)
(*   dropped, tlsfailed, answered, failed, reset        over               *)
(***************************************************************************)
EXTENDS WorkerPool

CONSTANTS
    Backlog,        \* --backlog, as given on the command line
    Kinds,          \* the kinds of peer that may connect, see AllKinds
    MaxInterrupts   \* bound: how often the operator presses Ctrl-C

(***************************************************************************)
(* good       completes the handshake and sends a valid request            *)
(* malformed  completes it and sends something decode_packet or            *)
(*            validate_request refuses                                     *)
(* mute       completes it and sends nothing                               *)
(* plain      a TCP health check: closes without a handshake               *)
(* silent     opens the connection and then neither speaks nor closes it   *)
(***************************************************************************)
AllKinds == {"good", "malformed", "mute", "plain", "silent"}

ASSUME ServerAssumption ==
    /\ Backlog \in Int
    /\ Kinds \subseteq AllKinds
    /\ MaxInterrupts \in Nat

VARIABLES
    backlog,     \* connections the kernel has established, not yet accepted
    kind,        \* what each peer will do
    gone,        \* peers that have given up and closed their end
    shut,        \* connections the accepting thread closed after submitting
    mpc,         \* where the accepting thread is
    cur,         \* the connection in its hands
    interrupts,  \* the KeyboardInterrupts delivered so far
    crashed      \* an uncaught exception has ended the accept loop

poolVars == <<free, queue, threads, failures>>
peerVars == <<backlog, kind, gone>>
exitVars == <<interrupts, crashed>>
vars == <<poolVars, stage, peerVars, shut, mpc, cur, exitVars>>

Held == {"handshake", "wrapped", "queued"} \cup Working
Settled == {"dropped", "tlsfailed", "answered", "failed", "reset"}
Stages == {"absent", "backlog"} \cup Held \cup Settled

\* The connections a slot has been acquired for and that are not over.
HeldBy(st) == {c \in Request : st[c] \in Held}
InFlight == HeldBy(stage)

Looping == {"accept", "handshake", "submit", "spawn", "reject"}

Init ==
    /\ PoolInit
    /\ stage = [c \in Request |-> "absent"]
    /\ backlog = <<>>
    /\ kind \in [Request -> Kinds]
    /\ gone = {}
    /\ shut = {}
    /\ mpc = "accept"
    /\ cur \in Request
    /\ interrupts = 0
    /\ crashed = FALSE

Move(c, s) == stage' = [stage EXCEPT ![c] = s]

-----------------------------------------------------------------------------
(* The peers and the kernel's side of the listening socket.                *)

Connect(c) ==
    /\ stage[c] = "absent"
    /\ mpc # "closed"
    /\ Len(backlog) < AtLeastOne(Backlog)
    /\ backlog' = Append(backlog, c)
    /\ Move(c, "backlog")
    /\ UNCHANGED <<poolVars, kind, gone, shut, mpc, cur, exitVars>>

\* The clients of this repository close a connection that is not answered
\* within their five-second timeout.
GiveUp(c) ==
    /\ stage[c] \notin Settled \cup {"absent"}
    /\ c \notin gone
    /\ gone' = gone \cup {c}
    /\ UNCHANGED <<poolVars, stage, backlog, kind, shut, mpc, cur, exitVars>>

-----------------------------------------------------------------------------
(* The accepting thread.  A definition marked "Fault" is no part of the    *)
(* specification: it is a defect that the properties below have to detect. *)

Admit ==
    /\ mpc = "accept" /\ backlog # <<>>
    /\ Acquire
    /\ backlog' = Tail(backlog)
    /\ cur' = Head(backlog)
    /\ Move(Head(backlog), "handshake")
    /\ mpc' = "handshake"
    /\ UNCHANGED <<queue, threads, failures, kind, gone, shut, exitVars>>

\* accept() times out and the loop goes round: the server is idle, not stuck.
AcceptTimeout ==
    /\ mpc = "accept" /\ backlog = <<>>
    /\ UNCHANGED vars

\* accept() raises another OSError, such as too many open files; nothing
\* catches it.
AcceptFails ==
    /\ mpc = "accept" /\ backlog # <<>>
    /\ crashed' = TRUE
    /\ mpc' = "drain"
    /\ UNCHANGED <<poolVars, stage, peerVars, shut, cur, interrupts>>

\* Fault: the last slot is never used.
DropEarly ==
    /\ mpc = "accept" /\ backlog # <<>>
    /\ free <= 1
    /\ backlog' = Tail(backlog)
    /\ Move(Head(backlog), "dropped")
    /\ UNCHANGED <<poolVars, kind, gone, shut, mpc, cur, exitVars>>

Drop ==
    /\ mpc = "accept" /\ backlog # <<>>
    /\ free = 0
    /\ backlog' = Tail(backlog)
    /\ Move(Head(backlog), "dropped")
    /\ UNCHANGED <<poolVars, kind, gone, shut, mpc, cur, exitVars>>

\* wrap_socket() returns: the peer has answered every step of the handshake.
HandshakeOk ==
    /\ mpc = "handshake"
    /\ kind[cur] \notin {"plain", "silent"} /\ cur \notin gone
    /\ Move(cur, "wrapped")
    /\ mpc' = "submit"
    /\ UNCHANGED <<poolVars, peerVars, shut, cur, exitVars>>

\* Fault: the except clause forgets the slot.
HandshakeFailKeepsSlot ==
    /\ mpc = "handshake"
    /\ kind[cur] = "plain" \/ cur \in gone
    /\ Move(cur, "tlsfailed")
    /\ mpc' = "accept"
    /\ UNCHANGED <<poolVars, peerVars, shut, cur, exitVars>>

\* wrap_socket() raises: the peer has closed before the handshake was over.
\* A peer that is silent and stays connected keeps wrap_socket() waiting, for
\* an accepted socket has no timeout.
HandshakeFail ==
    /\ mpc = "handshake"
    /\ kind[cur] = "plain" \/ cur \in gone
    /\ Move(cur, "tlsfailed")
    /\ Release
    /\ mpc' = "accept"
    /\ UNCHANGED <<queue, threads, failures, peerVars, shut, cur, exitVars>>

\* Fault: the accepting thread releases the slot it has handed over.
SubmitReleases ==
    /\ mpc = "submit"
    /\ Put(cur)
    /\ Move(cur, "queued")
    /\ Release
    /\ mpc' = "spawn"
    /\ UNCHANGED <<threads, failures, peerVars, shut, cur, exitVars>>

Submit ==
    /\ mpc = "submit"
    /\ Put(cur)
    /\ Move(cur, "queued")
    /\ mpc' = "spawn"
    /\ UNCHANGED <<free, threads, failures, peerVars, shut, cur, exitVars>>

Spawn ==
    /\ mpc = "spawn"
    /\ FindThread
    /\ mpc' = "accept"
    /\ UNCHANGED <<free, queue, failures, stage, peerVars, shut, cur, exitVars>>

\* Fault: a submit() that raised is tried again.
SpawnFailsResubmits ==
    /\ mpc = "spawn"
    /\ StartFails
    /\ mpc' = "submit"
    /\ UNCHANGED <<free, queue, threads, stage, peerVars, shut, cur, exitVars>>

SpawnFails ==
    /\ mpc = "spawn"
    /\ StartFails
    /\ mpc' = "reject"
    /\ UNCHANGED <<free, queue, threads, stage, peerVars, shut, cur, exitVars>>

\* The RuntimeError handler closes the connection and releases its slot; the
\* request is still in the queue.  A ValueError of release() is not caught.
Reject ==
    /\ mpc = "reject"
    /\ shut' = shut \cup {cur}
    /\ Release
    /\ crashed' = (crashed \/ ReleaseRaises)
    /\ mpc' = IF ReleaseRaises THEN "drain" ELSE "accept"
    /\ UNCHANGED <<queue, threads, failures, stage, peerVars, cur, interrupts>>

\* KeyboardInterrupt: out of the loop, into the executor's shutdown(wait=True);
\* a second one gives up that wait.
Interrupt ==
    /\ interrupts < MaxInterrupts
    /\ mpc \in Looping \cup {"drain"}
    /\ interrupts' = interrupts + 1
    /\ mpc' = IF mpc = "drain" THEN "close" ELSE "drain"
    /\ UNCHANGED <<poolVars, stage, peerVars, shut, cur, crashed>>

\* Fault: shutdown(wait=False).
DrainAtOnce ==
    /\ mpc = "drain"
    /\ mpc' = "close"
    /\ UNCHANGED <<poolVars, stage, peerVars, shut, cur, exitVars>>

\* Fault: the shutdown waits until every slot is free.
DrainSlots ==
    /\ mpc = "drain"
    /\ free = Slots
    /\ mpc' = "close"
    /\ UNCHANGED <<poolVars, stage, peerVars, shut, cur, exitVars>>

Drain ==
    /\ mpc = "drain"
    /\ Drained
    /\ mpc' = "close"
    /\ UNCHANGED <<poolVars, stage, peerVars, shut, cur, exitVars>>

\* The listening socket is closed and, with the end of main(), every
\* connection that no worker thread will ever handle.
Cut(c) ==
    \/ stage[c] \in {"backlog", "handshake", "wrapped"}
    \/ stage[c] = "queued" /\ threads = 0

Close ==
    /\ mpc = "close"
    /\ mpc' = "closed"
    /\ stage' = [c \in Request |-> IF Cut(c) THEN "reset" ELSE stage[c]]
    /\ backlog' = <<>>
    /\ queue' = IF threads = 0 THEN <<>> ELSE queue
    /\ UNCHANGED <<free, threads, failures, kind, gone, shut, cur, exitVars>>

MainStep ==
    \/ Admit \/ Drop \/ HandshakeOk \/ HandshakeFail
    \/ Submit \/ Spawn \/ SpawnFails \/ Reject
    \/ Drain \/ Close

-----------------------------------------------------------------------------
(* A worker thread in handle_client.                                       *)

Start(c) ==
    /\ Take(c, "recv")
    /\ UNCHANGED <<free, threads, failures, peerVars, shut, mpc, cur, exitVars>>

\* Fault: an empty read is taken for "nothing yet".
RecvIgnoresEOF(c) ==
    /\ stage[c] = "recv"
    /\ \/ kind[c] = "good" /\ c \notin shut /\ Move(c, "reply")
       \/ kind[c] = "malformed" /\ Move(c, "failing")
    /\ UNCHANGED <<poolVars, peerVars, shut, mpc, cur, exitVars>>

\* recv() returns a request, or nothing, or raises; then the request is
\* decoded and validated.  A mute peer keeps recv() waiting.
Recv(c) ==
    /\ stage[c] = "recv"
    /\ \/ kind[c] = "good" /\ c \notin shut /\ Move(c, "reply")
       \/ kind[c] = "malformed" /\ Move(c, "failing")
       \/ c \in gone \cup shut /\ Move(c, "failing")
    /\ UNCHANGED <<poolVars, peerVars, shut, mpc, cur, exitVars>>

\* sendall(): it fails on a connection that was closed here, and may fail on
\* one the peer has closed.
Reply(c) ==
    /\ stage[c] = "reply"
    /\ \/ c \notin shut /\ Move(c, "sent")
       \/ c \in gone \cup shut /\ Move(c, "failing")
    /\ UNCHANGED <<poolVars, peerVars, shut, mpc, cur, exitVars>>

\* The finally clause.  A ValueError of release() stays in the future.
Finish(c) ==
    /\ stage[c] \in {"sent", "failing"}
    /\ Move(c, IF stage[c] = "sent" THEN "answered" ELSE "failed")
    /\ Release
    /\ UNCHANGED <<queue, threads, failures, peerVars, shut, mpc, cur, exitVars>>

WorkerStep(c) == Recv(c) \/ Reply(c) \/ Finish(c)

-----------------------------------------------------------------------------
\* main() has returned and no worker thread has anything left to do.
Terminated == mpc = "closed" /\ queue = <<>> /\ Busy = {}

Next ==
    \/ MainStep
    \/ AcceptTimeout
    \/ AcceptFails
    \/ Interrupt
    \/ \E c \in Request : Connect(c) \/ GiveUp(c) \/ Start(c) \/ WorkerStep(c)
    \/ Terminated /\ UNCHANGED vars

Spec == Init /\ [][Next]_vars

\* Threads are scheduled.  A peer other than a silent one ends a connection
\* it is not answered on; nobody has to connect or to press Ctrl-C.
Fairness ==
    /\ WF_vars(MainStep)
    /\ \A c \in Request :
        /\ WF_vars(Start(c))
        /\ WF_vars(WorkerStep(c))
        /\ WF_vars(kind[c] # "silent" /\ GiveUp(c))

FairSpec == Spec /\ Fairness

-----------------------------------------------------------------------------
(* Properties.                                                             *)

\* The state has its type.
TypeOK ==
    /\ free \in 0..Slots
    /\ queue \in Seq(Request)
    /\ threads \in 0..ThreadLimit
    /\ failures \in 0..MaxStartFailures
    /\ stage \in [Request -> Stages]
    /\ backlog \in Seq(Request)
    /\ kind \in [Request -> Kinds]
    /\ gone \subseteq Request
    /\ shut \subseteq Request
    /\ mpc \in Looping \cup {"drain", "close", "closed"}
    /\ cur \in Request
    /\ interrupts \in 0..MaxInterrupts
    /\ crashed \in BOOLEAN

\* A waiting line holds the connections of its stage, each of them once.
Line(st, q, s) ==
    /\ \A i \in 1..Len(q) : st[q[i]] = s
    /\ \A i, j \in 1..Len(q) : q[i] = q[j] => i = j

\* A connection is in the backlog, in the executor's queue or in the accepting
\* thread's hands exactly once: no step of main() or of a worker hands the
\* same connection on twice.
OwnedOnce ==
    /\ Line(stage, backlog, "backlog")
    /\ Line(stage, queue, "queued")
    /\ mpc = "handshake" => stage[cur] = "handshake"
    /\ mpc = "submit" => stage[cur] = "wrapped"

\* Every slot that is not free belongs to a connection that is being handled,
\* whichever way the earlier ones ended: by an answer, a malformed request, a
\* failed handshake, a submit that raised.  A server that leaked slots would
\* end up dropping every connection.
SlotsNeverLeak ==
    mpc # "closed" => free + Cardinality(InFlight) >= Slots

\* A start failure the RuntimeError handler has not yet turned into a release.
Unreleased == IF mpc = "reject" THEN 1 ELSE 0

\* How far the cap on in-flight and queued requests may be exceeded: by one
\* for each submit() that raised after it had queued the request, since both
\* the handler and the worker release the slot then.
InFlightBounded ==
    Cardinality(InFlight) <= Slots - free + failures - Unreleased

\* "Limit in-flight + queued requests": the cap itself, as its comment states.
CapRespected == Cardinality(InFlight) <= Slots

\* One exit of the loop, by a Ctrl-C or by an exception, lets every request
\* that was submitted finish before main() closes up and the clock stops.
OrderlyShutdown ==
    /\ mpc \in {"close", "closed"}
    /\ interrupts = 0 \/ (interrupts = 1 /\ ~crashed)
    /\ threads > 0
    => queue = <<>> /\ Busy = {}

\* Every connection is settled in the end: answered, failed, dropped or reset.
\* Neither the accept loop nor the shutdown can be held up for ever.
EveryConnectionSettles ==
    \A c \in Request : stage[c] # "absent" ~> stage[c] \in Settled

\* After a Ctrl-C, or an exception, main() returns.
ShutdownCompletes == mpc = "drain" ~> Terminated

\* A valid client in the backlog gets an answer or a refusal, whatever the
\* other peers do.
ValidClientSettles ==
    \A c \in Request :
        kind[c] = "good" /\ stage[c] = "backlog" ~> stage[c] \in Settled

-----------------------------------------------------------------------------
(* The abstract specification.                                             *)

\* Waiting until admitted, then admitted until over, by whatever outcome.
Fate(s) ==
    CASE s \in {"absent", "backlog"} -> "waiting"
      [] s \in Held -> "admitted"
      [] s = "dropped" -> "refused"
      [] OTHER -> "over"

Abstract == INSTANCE Admission WITH
    fate <- [c \in Request |-> Fate(stage[c])],
    open <- mpc # "closed"

\* As long as every thread starts, the server is an admission control of
\* exactly Slots slots: it never admits one more and never drops a connection
\* while a slot is unused, under any order of its threads and of its exits.
ImplementsAdmission == Abstract!ASpec
=============================================================================
