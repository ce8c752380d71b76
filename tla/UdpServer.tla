------------------------------ MODULE UdpServer ------------------------------
(***************************************************************************)
(* The UDP time server, main() of server/server.py, and a client that      *)
(* measures over UDP: _request_time_sample and the rounds of               *)
(* _run_sync_session in client/client_gui.py.  Each request is a datagram; *)
(* between client and server the network loses, copies, delays and         *)
(* reorders datagrams in both directions.                                  *)
(*                                                                         *)
(* The stage of a datagram:                                                *)
(*   absent, network                 not sent; on its way to the server    *)
(*   arrived                         in main()'s hands, with a slot        *)
(*   queued                          in the executor's queue               *)
(*   recv, reply, sent, failing      in handle_client                      *)
(*   lost, dropped, answered, failed, cut     over                         *)
(***************************************************************************)
EXTENDS WorkerPool

CONSTANTS
    Rounds,         \* the rounds of the client's session
    Ports,          \* the ports its sockets may be given
    MaxInterrupts   \* bound: how often the operator presses Ctrl-C

ASSUME UdpAssumption ==
    /\ Rounds \in Nat
    /\ MaxInterrupts \in Nat

VARIABLES
    of,          \* the round whose request a datagram carries; 0: no request
    port,        \* the port it came from
    stamp,       \* handle_client's t2: the datagram whose arrival it is
    flying,      \* the datagrams whose reply is on its way
    round,       \* the client's round, which is its request's id
    cpc,         \* the client: between rounds, waiting for a reply, or ended
    socket,      \* the port of its socket
    sample,      \* of each round: the datagram answered and the stamp, or <<>>
    mpc,         \* where main() is
    cur,         \* the datagram it received last
    interrupts,  \* the KeyboardInterrupts delivered so far
    crashed      \* an uncaught exception has ended the loop

poolVars == <<free, queue, threads, failures>>
netVars == <<of, port, flying>>
clientVars == <<round, cpc, socket, sample>>
exitVars == <<interrupts, crashed>>
vars == <<poolVars, stage, netVars, stamp, clientVars, mpc, cur, exitVars>>

Held == {"arrived", "queued"} \cup Working
Settled == {"lost", "dropped", "answered", "failed", "cut"}
Stages == {"absent", "network"} \cup Held \cup Settled

InFlight == {d \in Request : stage[d] \in Held}

NoStamp == "none"

Looping == {"receive", "submit", "spawn", "reject"}

Init ==
    /\ PoolInit
    /\ stage = [d \in Request |-> "absent"]
    /\ of = [d \in Request |-> 0]
    /\ port \in [Request -> Ports]
    /\ stamp = [d \in Request |-> NoStamp]
    /\ flying = {}
    /\ round = 0
    /\ cpc = "between"
    /\ socket \in Ports
    /\ sample = [r \in 1..Rounds |-> <<>>]
    /\ mpc = "receive"
    /\ cur \in Request
    /\ interrupts = 0
    /\ crashed = FALSE

Move(d, s) == stage' = [stage EXCEPT ![d] = s]

-----------------------------------------------------------------------------
(* The client.  A round has a socket of its own; a port that is closed may *)
(* be given to a later socket.                                             *)

SendRequest(d) ==
    /\ cpc = "between" /\ round < Rounds
    /\ stage[d] = "absent"
    /\ round' = round + 1
    /\ cpc' = "waiting"
    /\ socket' \in Ports
    /\ port' = [port EXCEPT ![d] = socket']
    /\ of' = [of EXCEPT ![d] = round']
    /\ Move(d, "network")
    /\ UNCHANGED <<poolVars, flying, stamp, sample, mpc, cur, exitVars>>

\* What is left of a reply that has been delivered: a copy, perhaps.
Spent(d) == flying' \in {flying, flying \ {d}}

\* A definition marked "Fault" is no part of the specification: it is a
\* defect that the properties below have to detect.
\* Fault: the reply's id is not compared.
TakeAnyReply(d) ==
    /\ d \in flying /\ cpc = "waiting" /\ port[d] = socket
    /\ Spent(d)
    /\ sample' = [sample EXCEPT ![round] = <<d, stamp[d]>>]
    /\ cpc' = "between"
    /\ UNCHANGED <<poolVars, stage, of, port, stamp, round, socket, mpc, cur, exitVars>>

\* A reply to the round that waits.
TakeReply(d) ==
    /\ d \in flying /\ cpc = "waiting" /\ port[d] = socket
    /\ of[d] = round
    /\ Spent(d)
    /\ sample' = [sample EXCEPT ![round] = <<d, stamp[d]>>]
    /\ cpc' = "between"
    /\ UNCHANGED <<poolVars, stage, of, port, stamp, round, socket, mpc, cur, exitVars>>

\* A late reply to an earlier round ends the session, as a timeout does.
WrongReply(d) ==
    /\ d \in flying /\ cpc = "waiting" /\ port[d] = socket
    /\ of[d] # round
    /\ Spent(d)
    /\ cpc' = "ended"
    /\ UNCHANGED <<poolVars, stage, of, port, stamp, round, socket, sample, mpc, cur, exitVars>>

Timeout ==
    /\ cpc = "waiting"
    /\ cpc' = "ended"
    /\ UNCHANGED <<poolVars, stage, netVars, stamp, round, socket, sample, mpc, cur, exitVars>>

-----------------------------------------------------------------------------
(* The network, and others that send.                                      *)

\* Something that is no request, from anywhere.
Stray(d) ==
    /\ stage[d] = "absent"
    /\ Move(d, "network")
    /\ UNCHANGED <<poolVars, netVars, stamp, clientVars, mpc, cur, exitVars>>

Copy(d, e) ==
    /\ stage[d] = "network" /\ stage[e] = "absent"
    /\ Move(e, "network")
    /\ of' = [of EXCEPT ![e] = of[d]]
    /\ port' = [port EXCEPT ![e] = port[d]]
    /\ UNCHANGED <<poolVars, flying, stamp, clientVars, mpc, cur, exitVars>>

Lose(d) ==
    /\ stage[d] = "network"
    /\ Move(d, "lost")
    /\ UNCHANGED <<poolVars, netVars, stamp, clientVars, mpc, cur, exitVars>>

\* A reply is lost, or finds its port closed.
LoseReply(d) ==
    /\ d \in flying
    /\ flying' = flying \ {d}
    /\ UNCHANGED <<poolVars, stage, of, port, stamp, clientVars, mpc, cur, exitVars>>

-----------------------------------------------------------------------------
(* main(): it stamps a datagram on arrival, before it looks for a slot.    *)

Admit(d) ==
    /\ mpc = "receive" /\ stage[d] = "network"
    /\ Acquire
    /\ Move(d, "arrived")
    /\ cur' = d
    /\ mpc' = "submit"
    /\ UNCHANGED <<queue, threads, failures, netVars, stamp, clientVars, exitVars>>

Drop(d) ==
    /\ mpc = "receive" /\ stage[d] = "network"
    /\ free = 0
    /\ Move(d, "dropped")
    /\ cur' = d
    /\ UNCHANGED <<poolVars, netVars, stamp, clientVars, mpc, exitVars>>

\* recvfrom() waits: the server is idle, not stuck.
Idle ==
    /\ mpc = "receive" /\ \A d \in Request : stage[d] # "network"
    /\ UNCHANGED vars

\* recvfrom() raises: on Windows, after a reply that found its port closed.
ReceiveFails ==
    /\ mpc = "receive"
    /\ crashed' = TRUE
    /\ mpc' = "drain"
    /\ UNCHANGED <<poolVars, stage, netVars, stamp, clientVars, cur, interrupts>>

\* The stamp goes with the datagram, as an argument of handle_client.
Submit ==
    /\ mpc = "submit"
    /\ Put(cur)
    /\ stamp' = [stamp EXCEPT ![cur] = cur]
    /\ Move(cur, "queued")
    /\ mpc' = "spawn"
    /\ UNCHANGED <<free, threads, failures, netVars, clientVars, cur, exitVars>>

Spawn ==
    /\ mpc = "spawn"
    /\ FindThread
    /\ mpc' = "receive"
    /\ UNCHANGED <<free, queue, failures, stage, netVars, stamp, clientVars, cur, exitVars>>

SpawnFails ==
    /\ mpc = "spawn"
    /\ StartFails
    /\ mpc' = "reject"
    /\ UNCHANGED <<free, queue, threads, stage, netVars, stamp, clientVars, cur, exitVars>>

\* The RuntimeError handler, "dropping packet": the packet is in the queue.
Reject ==
    /\ mpc = "reject"
    /\ Release
    /\ crashed' = (crashed \/ ReleaseRaises)
    /\ mpc' = IF ReleaseRaises THEN "drain" ELSE "receive"
    /\ UNCHANGED <<queue, threads, failures, stage, netVars, stamp, clientVars, cur, interrupts>>

Interrupt ==
    /\ interrupts < MaxInterrupts
    /\ mpc \in Looping \cup {"drain"}
    /\ interrupts' = interrupts + 1
    /\ mpc' = IF mpc = "drain" THEN "close" ELSE "drain"
    /\ UNCHANGED <<poolVars, stage, netVars, stamp, clientVars, cur, crashed>>

\* Fault: the shutdown waits for nobody.
DrainAtOnce ==
    /\ mpc = "drain"
    /\ mpc' = "close"
    /\ UNCHANGED <<poolVars, stage, netVars, stamp, clientVars, cur, exitVars>>

\* Fault: the shutdown polls until every slot is free.
DrainSlots ==
    /\ mpc = "drain"
    /\ mpc' = IF free = Slots THEN "close" ELSE "drain"
    /\ UNCHANGED <<poolVars, stage, netVars, stamp, clientVars, cur, exitVars>>

Drain ==
    /\ mpc = "drain"
    /\ Drained
    /\ mpc' = "close"
    /\ UNCHANGED <<poolVars, stage, netVars, stamp, clientVars, cur, exitVars>>

\* The socket is closed.  What no worker will handle any more is over.
Cut(d) ==
    \/ stage[d] \in {"network", "arrived"}
    \/ stage[d] = "queued" /\ threads = 0

Close ==
    /\ mpc = "close"
    /\ mpc' = "closed"
    /\ stage' = [d \in Request |-> IF Cut(d) THEN "cut" ELSE stage[d]]
    /\ queue' = IF threads = 0 THEN <<>> ELSE queue
    /\ UNCHANGED <<free, threads, failures, netVars, stamp, clientVars, cur, exitVars>>

MainStep ==
    \/ \E d \in Request : Admit(d) \/ Drop(d)
    \/ Submit \/ Spawn \/ SpawnFails \/ Reject
    \/ Drain \/ Close

-----------------------------------------------------------------------------
(* handle_client.                                                          *)

Start(d) ==
    /\ Take(d, "recv")
    /\ UNCHANGED <<free, threads, failures, netVars, stamp, clientVars, mpc, cur, exitVars>>

\* Fault: what is no request yet is waited on.
DecodeWaits(d) ==
    /\ stage[d] = "recv"
    /\ of[d] # 0
    /\ Move(d, "reply")
    /\ UNCHANGED <<poolVars, netVars, stamp, clientVars, mpc, cur, exitVars>>

\* decode_packet and validate_request.
Decode(d) ==
    /\ stage[d] = "recv"
    /\ Move(d, IF of[d] = 0 THEN "failing" ELSE "reply")
    /\ UNCHANGED <<poolVars, netVars, stamp, clientVars, mpc, cur, exitVars>>

\* Fault: t2 is main()'s variable, not an argument.
ReplyWithLastStamp(d) ==
    /\ stage[d] = "reply"
    /\ stamp' = [stamp EXCEPT ![d] = cur]
    /\ \/ mpc # "closed" /\ Move(d, "sent") /\ flying' = flying \cup {d}
       \/ Move(d, "failing") /\ UNCHANGED flying
    /\ UNCHANGED <<poolVars, of, port, clientVars, mpc, cur, exitVars>>

\* sendto(): it fails once the socket is closed, and may fail before.
Reply(d) ==
    /\ stage[d] = "reply"
    /\ \/ mpc # "closed" /\ Move(d, "sent") /\ flying' = flying \cup {d}
       \/ Move(d, "failing") /\ UNCHANGED flying
    /\ UNCHANGED <<poolVars, of, port, stamp, clientVars, mpc, cur, exitVars>>

\* Fault: only an answered request gives its slot back.
FinishAnswered(d) ==
    /\ stage[d] \in {"sent", "failing"}
    /\ Move(d, IF stage[d] = "sent" THEN "answered" ELSE "failed")
    /\ IF stage[d] = "sent" THEN Release ELSE UNCHANGED free
    /\ UNCHANGED <<queue, threads, failures, netVars, stamp, clientVars, mpc, cur, exitVars>>

Finish(d) ==
    /\ stage[d] \in {"sent", "failing"}
    /\ Move(d, IF stage[d] = "sent" THEN "answered" ELSE "failed")
    /\ Release
    /\ UNCHANGED <<queue, threads, failures, netVars, stamp, clientVars, mpc, cur, exitVars>>

WorkerStep(d) == Decode(d) \/ Reply(d) \/ Finish(d)

-----------------------------------------------------------------------------
\* main() has returned, no worker has anything left, the client has ended.
Returned == mpc = "closed" /\ queue = <<>> /\ Busy = {}
Terminated == Returned /\ cpc # "waiting"

Next ==
    \/ MainStep
    \/ ReceiveFails
    \/ Interrupt
    \/ Timeout
    \/ \E d \in Request :
        \/ SendRequest(d) \/ TakeReply(d) \/ WrongReply(d)
        \/ Stray(d) \/ Lose(d) \/ LoseReply(d)
        \/ Start(d) \/ WorkerStep(d)
    \/ \E d, e \in Request : Copy(d, e)
    \/ Idle
    \/ Terminated /\ UNCHANGED vars

Spec == Init /\ [][Next]_vars

\* Threads are scheduled, and a waiting client times out.  Nothing is assumed
\* of the network.
Fairness ==
    /\ WF_vars(MainStep)
    /\ WF_vars(Timeout)
    /\ \A d \in Request : WF_vars(Start(d)) /\ WF_vars(WorkerStep(d))

FairSpec == Spec /\ Fairness
-----------------------------------------------------------------------------
(* Properties.                                                             *)

\* The state has its type.
TypeOK ==
    /\ free \in 0..Slots
    /\ queue \in Seq(Request)
    /\ threads \in 0..ThreadLimit
    /\ failures \in 0..MaxStartFailures
    /\ stage \in [Request -> Stages]
    /\ of \in [Request -> 0..Rounds]
    /\ port \in [Request -> Ports]
    /\ stamp \in [Request -> Request \cup {NoStamp}]
    /\ flying \subseteq Request
    /\ round \in 0..Rounds
    /\ cpc \in {"between", "waiting", "ended"}
    /\ socket \in Ports
    /\ sample \in [1..Rounds -> {<<>>} \cup (Request \X (Request \cup {NoStamp}))]
    /\ mpc \in Looping \cup {"drain", "close", "closed"}
    /\ cur \in Request
    /\ interrupts \in 0..MaxInterrupts
    /\ crashed \in BOOLEAN

\* A start failure the RuntimeError handler has not yet turned into a release.
Unreleased == IF mpc = "reject" THEN 1 ELSE 0

\* Whatever becomes of a datagram (answered, invalid, not sendable, rejected
\* while it is in the queue) its slot comes back, and comes back twice only
\* after a submit() that raised.
SlotsAccounted ==
    mpc # "closed" =>
        Cardinality(InFlight) \in Slots - free .. Slots - free + failures - Unreleased

\* The sample of a round comes from a datagram that was sent in that round,
\* with the T2 of that datagram's own arrival, whatever the network lost,
\* copied, delayed or delivered to a port that was used before: T1, T2, T3 and
\* T4 of one exchange, in that order.
SampleIsOwn ==
    \A r \in 1..Rounds : sample[r] # <<>> =>
        LET d == sample[r][1] IN of[d] = r /\ sample[r][2] = d

\* One exit of the loop, by a Ctrl-C or because recvfrom() or release() raised,
\* lets every datagram that was submitted be dealt with while the socket its
\* reply goes out on is still open.
OrderlyShutdown ==
    /\ mpc \in {"close", "closed"}
    /\ interrupts = 0 \/ (interrupts = 1 /\ ~crashed)
    /\ threads > 0
    => queue = <<>> /\ Busy = {}

\* A datagram that got a slot is dealt with in the end.  The exception: the
\* only thread start so far has failed, and the datagram, reported as dropped,
\* waits in the queue until another one arrives.
EveryDatagramSettles ==
    \A d \in Request :
        stage[d] \in Held ~> stage[d] \in Settled \/ (threads = 0 /\ mpc = "receive")

\* After a Ctrl-C, or an exception, main() returns.
ShutdownCompletes == mpc = "drain" ~> Returned
=============================================================================
