--------------------------- MODULE UdpServerProofs ---------------------------
(***************************************************************************)
(* Theorems about UdpServer, for any number of datagrams, rounds, ports,   *)
(* workers, queue slots, start failures and interrupts.                    *)
(***************************************************************************)
EXTENDS UdpServer, FiniteSetTheorems, TLAPS

LEMMA Bounds == Slots \in Nat \ {0} /\ ThreadLimit \in Nat \ {0}
  BY PoolAssumption DEF PoolAssumption, Slots, ThreadLimit, AtLeastOne


-----------------------------------------------------------------------------
(* Types.                                                                  *)

LEMMA TypeInit == Init => TypeOK
  <1> SUFFICES ASSUME Init PROVE TypeOK
    OBVIOUS
  <1>1. free \in 0..Slots /\ threads \in 0..ThreadLimit
    BY Bounds DEF Init, PoolInit
  <1>2. failures \in 0..MaxStartFailures /\ interrupts \in 0..MaxInterrupts /\ round \in 0..Rounds
    BY PoolAssumption, UdpAssumption DEF Init, PoolInit, PoolAssumption, UdpAssumption
  <1>3. of \in [Request -> 0..Rounds] /\ sample \in [1..Rounds -> {<<>>}]
    BY UdpAssumption DEF Init, UdpAssumption
  <1>4. stage \in [Request -> Stages]
    BY DEF Init, Stages
  <1>5. queue \in Seq(Request) /\ stamp \in [Request -> {NoStamp}]
    BY DEF Init, PoolInit
  <1> QED
    BY <1>1, <1>2, <1>3, <1>4, <1>5 DEF Init, TypeOK, Looping

LEMMA TypeStep == TypeOK /\ [Next]_vars => TypeOK'
  <1> SUFFICES ASSUME TypeOK, [Next]_vars PROVE TypeOK'
    OBVIOUS
  <1> USE Bounds, UdpAssumption
      DEF TypeOK, Looping, Stages, Held, Working, Settled, Move,
        poolVars, netVars, clientVars, exitVars, UdpAssumption
  <1>1. ASSUME NEW d \in Request, Admit(d) PROVE TypeOK'
    BY <1>1 DEF Admit, Acquire
  <1>2. ASSUME NEW d \in Request, Drop(d) PROVE TypeOK'
    BY <1>2 DEF Drop
  <1>3. CASE Submit
    BY <1>3 DEF Submit, Put
  <1>4. CASE Spawn
    BY <1>4 DEF Spawn, FindThread
  <1>5. CASE SpawnFails
    BY <1>5, PoolAssumption DEF SpawnFails, StartFails, PoolAssumption
  <1>6. CASE Reject
    BY <1>6 DEF Reject, Release, ReleaseRaises
  <1>7. CASE Drain \/ ReceiveFails
    BY <1>7 DEF Drain, ReceiveFails
  <1>8. CASE Close
    BY <1>8 DEF Close
  <1>9. CASE Interrupt
    BY <1>9 DEF Interrupt
  <1>10. ASSUME NEW d \in Request, SendRequest(d) PROVE TypeOK'
    BY <1>10 DEF SendRequest
  <1>11. ASSUME NEW d \in Request, TakeReply(d) PROVE TypeOK'
    <2>1. flying' \subseteq Request
      BY <1>11 DEF TakeReply, Spent
    <2>2. sample' \in [1..Rounds -> {<<>>} \cup (Request \X (Request \cup {NoStamp}))]
      <3>1. <<d, stamp[d]>> \in Request \X (Request \cup {NoStamp})
        OBVIOUS
      <3> QED
        BY <1>11, <3>1 DEF TakeReply
    <2> QED
      BY <1>11, <2>1, <2>2 DEF TakeReply
  <1>12. ASSUME NEW d \in Request, WrongReply(d) PROVE TypeOK'
    BY <1>12 DEF WrongReply, Spent
  <1>13. CASE Timeout
    BY <1>13 DEF Timeout
  <1>14. ASSUME NEW d \in Request, Stray(d) \/ Lose(d) PROVE TypeOK'
    BY <1>14 DEF Stray, Lose
  <1>15. ASSUME NEW d \in Request, LoseReply(d) PROVE TypeOK'
    BY <1>15 DEF LoseReply
  <1>16. ASSUME NEW d \in Request, NEW e \in Request, Copy(d, e) PROVE TypeOK'
    BY <1>16 DEF Copy
  <1>17. ASSUME NEW d \in Request, Start(d) PROVE TypeOK'
    BY <1>17 DEF Start, Take
  <1>18. ASSUME NEW d \in Request, Decode(d) PROVE TypeOK'
    BY <1>18 DEF Decode
  <1>19. ASSUME NEW d \in Request, Reply(d) PROVE TypeOK'
    BY <1>19 DEF Reply
  <1>20. ASSUME NEW d \in Request, Finish(d) PROVE TypeOK'
    BY <1>20 DEF Finish, Release, ReleaseRaises
  <1>21. CASE UNCHANGED vars
    BY <1>21 DEF vars
  <1> QED
    BY <1>1, <1>2, <1>3, <1>4, <1>5, <1>6, <1>7, <1>8, <1>9, <1>10, <1>11,
       <1>12, <1>13, <1>14, <1>15, <1>16, <1>17, <1>18, <1>19, <1>20, <1>21
    DEF Next, MainStep, WorkerStep, Idle

\* The state keeps its type, for all values of the constants.
THEOREM TypeCorrect == Spec => []TypeOK
  BY TypeInit, TypeStep, PTL DEF Spec

-----------------------------------------------------------------------------
(* The executor's queue: nobody is in it twice, and everybody in it waits. *)

Lined(st, q) ==
    /\ \A i \in 1..Len(q) : st[q[i]] = "queued"
    /\ \A i, j \in 1..Len(q) : q[i] = q[j] => i = j

Owned == Lined(stage, queue) /\ (mpc = "submit" => stage[cur] = "arrived")

\* The oldest datagram leaves a queue of the others.
LEMMA LinedTail ==
  ASSUME NEW st \in [Request -> Stages], NEW q \in Seq(Request),
         q # <<>>, Lined(st, q), NEW s
  PROVE  /\ Head(q) \in Request /\ st[Head(q)] = "queued"
         /\ Lined([st EXCEPT ![Head(q)] = s], Tail(q))
  <1>1. /\ Head(q) \in Request /\ Head(q) = q[1]
        /\ Len(Tail(q)) = Len(q) - 1 /\ Len(q) \in Nat /\ Len(q) >= 1
        /\ \A i \in 1..Len(Tail(q)) : Tail(q)[i] = q[i + 1] /\ q[i + 1] \in Request
    OBVIOUS
  <1>2. \A i \in 1..Len(Tail(q)) : q[i + 1] # q[1] /\ st[q[i + 1]] = "queued"
    BY <1>1 DEF Lined
  <1>3. \A i \in 1..Len(Tail(q)) : [st EXCEPT ![Head(q)] = s][Tail(q)[i]] = "queued"
    BY <1>1, <1>2
  <1>4. \A i, j \in 1..Len(Tail(q)) : Tail(q)[i] = Tail(q)[j] => i = j
    BY <1>1 DEF Lined
  <1> QED
    BY <1>1, <1>3, <1>4 DEF Lined

\* A datagram that is not in the queue does not disturb it.
LEMMA LinedSame ==
  ASSUME NEW st \in [Request -> Stages], NEW q \in Seq(Request), NEW d \in Request,
         NEW s, Lined(st, q), st[d] # "queued"
  PROVE  Lined([st EXCEPT ![d] = s], q)
  BY DEF Lined

LEMMA LinedAppend ==
  ASSUME NEW st \in [Request -> Stages], NEW q \in Seq(Request), NEW d \in Request,
         Lined(st, q), st[d] # "queued"
  PROVE  Lined([st EXCEPT ![d] = "queued"], Append(q, d))
  BY DEF Lined

\* The moves of a datagram that is neither in the queue nor in main()'s hands.
Moves(d) ==
    \/ SendRequest(d) \/ Stray(d) \/ Lose(d) \/ Drop(d)
    \/ Decode(d) \/ Reply(d) \/ Finish(d)
    \/ \E e \in Request : Copy(e, d)

\* What these moves have in common.
LEMMA Moving ==
  ASSUME TypeOK, NEW d \in Request, Moves(d)
  PROVE  /\ stage[d] \in {"absent", "network"} \cup Working
         /\ \E s \in Stages : stage' = [stage EXCEPT ![d] = s]
         /\ UNCHANGED <<queue, mpc>>
         /\ cur' = cur \/ mpc = "receive"
  BY DEF Moves, SendRequest, Stray, Lose, Drop, Decode, Reply, Finish, Copy, Move,
     poolVars, TypeOK, Stages, Held, Working, Settled

LEMMA OwnedStep == TypeOK /\ Owned /\ [Next]_vars => Owned'
  <1> SUFFICES ASSUME TypeOK, Owned, [Next]_vars PROVE Owned'
    OBVIOUS
  <1>0. stage \in [Request -> Stages] /\ queue \in Seq(Request) /\ cur \in Request
    BY DEF TypeOK
  <1>1. ASSUME NEW d \in Request, Moves(d) PROVE Owned'
    <2>1. PICK s \in Stages : stage' = [stage EXCEPT ![d] = s]
      BY <1>1, Moving
    <2>2. stage[d] # "queued" /\ stage[d] # "arrived"
      BY <1>1, Moving DEF Working
    <2> QED
      BY <1>0, <1>1, <2>1, <2>2, Moving, LinedSame DEF Owned
  <1>2. ASSUME NEW d \in Request, Admit(d) PROVE Owned'
    BY <1>0, <1>2, LinedSame DEF Admit, Move, Owned
  <1>3. CASE Submit
    BY <1>0, <1>3, LinedAppend DEF Submit, Put, Move, Owned
  <1>4. ASSUME NEW d \in Request, Start(d) PROVE Owned'
    <2>1. stage[d] = "queued" /\ Lined(stage', queue')
      BY <1>0, <1>4, LinedTail DEF Start, Take, Owned
    <2> QED
      BY <1>0, <1>4, <2>1 DEF Start, Take, Owned
  <1>5. CASE Close
    <2>1. Lined(stage', queue')
      <3>1. CASE threads = 0
        BY <1>5, <3>1 DEF Close, Lined
      <3>2. CASE threads # 0
        <4>1. \A i \in 1..Len(queue) : queue[i] \in Request /\ stage[queue[i]] = "queued"
          BY <1>0 DEF Owned, Lined
        <4>2. \A i \in 1..Len(queue) : stage'[queue[i]] = "queued"
          BY <1>0, <1>5, <3>2, <4>1 DEF Close, Cut
        <4> QED
          BY <1>5, <3>2, <4>2 DEF Close, Owned, Lined
      <3> QED
        BY <3>1, <3>2
    <2> QED
      BY <1>5, <2>1 DEF Close, Owned
  <1>6. CASE UNCHANGED <<stage, queue>> /\ ((mpc' = mpc /\ cur' = cur) \/ mpc' # "submit")
    BY <1>6 DEF Owned
  <1>7. \/ \E d \in Request : Moves(d) \/ Admit(d) \/ Start(d)
        \/ Submit \/ Close
        \/ UNCHANGED <<stage, queue>> /\ ((mpc' = mpc /\ cur' = cur) \/ mpc' # "submit")
    BY DEF Next, MainStep, WorkerStep, Moves, Spawn, SpawnFails, Reject, Drain, ReceiveFails,
       Interrupt, Timeout, TakeReply, WrongReply, LoseReply, Idle, vars, poolVars
  <1> QED
    BY <1>1, <1>2, <1>3, <1>4, <1>5, <1>6, <1>7

-----------------------------------------------------------------------------
(* The stamps.  A datagram carries its own from main() to its reply and    *)
(* into the sample; the round it was sent in does not change afterwards.   *)

Stamped ==
    /\ \A d \in Request : stage[d] \in {"queued"} \cup Working => stamp[d] = d
    /\ \A d \in flying : stage[d] # "absent" /\ stamp[d] = d
    /\ \A r \in 1..Rounds : sample[r] # <<>> =>
        /\ sample[r][1] \in Request /\ stage[sample[r][1]] # "absent"
        /\ of[sample[r][1]] = r /\ sample[r][2] = sample[r][1]

LEMMA StampInit == Init => Owned /\ Stamped
  BY DEF Init, PoolInit, Owned, Lined, Stamped, Working

LEMMA StampStep == TypeOK /\ Owned /\ Stamped /\ [Next]_vars => Stamped'
  <1> SUFFICES ASSUME TypeOK, Owned, Stamped, [Next]_vars PROVE Stamped'
    OBVIOUS
  <1>0. /\ stage \in [Request -> Stages] /\ stamp \in [Request -> Request \cup {NoStamp}]
        /\ of \in [Request -> 0..Rounds] /\ flying \subseteq Request /\ queue \in Seq(Request)
    BY DEF TypeOK
  \* No step makes a datagram absent again; stamps and samples stay.
  <1>a. ASSUME \A d \in Request : /\ stage'[d] = "absent" => stage[d] = "absent"
                                  /\ stage'[d] \in {"queued"} \cup Working =>
                                        stage[d] \in {"queued"} \cup Working
                                  /\ stage[d] # "absent" => of'[d] = of[d],
               flying' \subseteq flying, UNCHANGED <<stamp, sample>>
        PROVE  Stamped'
    BY <1>0, <1>a DEF Stamped
  <1>1. ASSUME NEW d \in Request, SendRequest(d) PROVE Stamped'
    BY <1>0, <1>1, <1>a DEF SendRequest, Move, Working
  <1>2. ASSUME NEW d \in Request, Stray(d) \/ Lose(d) PROVE Stamped'
    BY <1>0, <1>2, <1>a DEF Stray, Lose, Move, Working, netVars, clientVars
  <1>3. ASSUME NEW d \in Request, NEW e \in Request, Copy(d, e) PROVE Stamped'
    BY <1>0, <1>3, <1>a DEF Copy, Move, Working, clientVars
  <1>4. ASSUME NEW d \in Request, Admit(d) \/ Drop(d) PROVE Stamped'
    BY <1>0, <1>4, <1>a DEF Admit, Drop, Move, Working, netVars, clientVars
  <1>5. CASE Submit
    <2>1. stage[cur] = "arrived" /\ cur \in Request
      BY <1>5 DEF Submit, Owned, TypeOK
    <2>2. /\ stage' = [stage EXCEPT ![cur] = "queued"]
          /\ stamp' = [stamp EXCEPT ![cur] = cur]
          /\ UNCHANGED <<of, flying, sample>>
      BY <1>5 DEF Submit, Move, netVars, clientVars
    <2> QED
      BY <1>0, <2>1, <2>2 DEF Stamped
  <1>6. CASE Close
    BY <1>0, <1>6, <1>a DEF Close, Working, netVars, clientVars
  <1>7. ASSUME NEW d \in Request, Start(d) PROVE Stamped'
    <2>1. stage[d] = "queued"
      BY <1>0, <1>7, LinedTail DEF Start, Take, Owned
    <2> QED
      BY <1>0, <1>7, <2>1, <1>a DEF Start, Take, netVars, clientVars
  <1>8. ASSUME NEW d \in Request, Decode(d) \/ Finish(d) PROVE Stamped'
    BY <1>0, <1>8, <1>a DEF Decode, Finish, Move, Working, netVars, clientVars
  <1>9. ASSUME NEW d \in Request, Reply(d) PROVE Stamped'
    <2>1. /\ flying' \subseteq flying \cup {d} /\ stage[d] = "reply"
          /\ \E s \in {"sent", "failing"} : stage' = [stage EXCEPT ![d] = s]
          /\ UNCHANGED <<of, stamp, sample>>
      BY <1>9 DEF Reply, Move, clientVars
    <2> QED
      BY <1>0, <2>1 DEF Stamped, Working
  <1>10. ASSUME NEW d \in Request, TakeReply(d) PROVE Stamped'
    <2>1. /\ flying' \subseteq flying /\ d \in flying /\ of[d] = round
          /\ sample' = [sample EXCEPT ![round] = <<d, stamp[d]>>]
          /\ UNCHANGED <<stage, of, stamp>>
      BY <1>10 DEF TakeReply, Spent
    <2>2. \A r \in 1..Rounds : sample'[r] = IF r = round THEN <<d, stamp[d]>> ELSE sample[r]
      BY <2>1 DEF TypeOK
    <2> QED
      BY <1>0, <2>1, <2>2 DEF Stamped
  <1>11. ASSUME NEW d \in Request, WrongReply(d) \/ LoseReply(d) PROVE Stamped'
    BY <1>0, <1>11, <1>a DEF WrongReply, LoseReply, Spent, clientVars
  <1>12. CASE UNCHANGED <<stage, netVars, stamp, sample>>
    BY <1>12, <1>a DEF netVars
  <1>13. \/ \E d \in Request : \/ SendRequest(d) \/ Stray(d) \/ Lose(d) \/ Admit(d) \/ Drop(d)
                               \/ Start(d) \/ Decode(d) \/ Finish(d) \/ Reply(d)
                               \/ TakeReply(d) \/ WrongReply(d) \/ LoseReply(d)
         \/ \E d, e \in Request : Copy(d, e)
         \/ Submit \/ Close
         \/ UNCHANGED <<stage, netVars, stamp, sample>>
    BY DEF Next, MainStep, WorkerStep, Spawn, SpawnFails, Reject, Drain, ReceiveFails,
       Interrupt, Timeout, Idle, vars, poolVars, netVars, clientVars
  <1> QED
    BY <1>1, <1>2, <1>3, <1>4, <1>5, <1>6, <1>7, <1>8, <1>9, <1>10, <1>11, <1>12, <1>13

LEMMA Stamping == Spec => [](TypeOK /\ Owned /\ Stamped)
  BY TypeInit, TypeStep, StampInit, OwnedStep, StampStep, PTL DEF Spec

\* The four times of a sample belong to one exchange, whatever the network
\* does to datagrams and however long they wait for a worker.
THEOREM OwnSamples == Spec => []SampleIsOwn
  <1>1. TypeOK /\ Stamped => SampleIsOwn
    BY DEF Stamped, SampleIsOwn
  <1> QED
    BY <1>1, Stamping, PTL

-----------------------------------------------------------------------------
(* The slots.                                                              *)

Counted == IsFiniteSet(InFlight) /\ SlotsAccounted

\* What a move does to the set of datagrams that hold a slot.
LEMMA Enters ==
  ASSUME TypeOK, NEW d \in Request, NEW s \in Held, stage[d] \notin Held,
         stage' = [stage EXCEPT ![d] = s], IsFiniteSet(InFlight)
  PROVE  IsFiniteSet(InFlight') /\ Cardinality(InFlight') = Cardinality(InFlight) + 1
  <1>1. InFlight' = InFlight \cup {d} /\ d \notin InFlight
    BY DEF InFlight, TypeOK
  <1> QED
    BY <1>1, FS_AddElement

LEMMA Leaves ==
  ASSUME TypeOK, NEW d \in Request, NEW s, s \notin Held, stage[d] \in Held,
         stage' = [stage EXCEPT ![d] = s], IsFiniteSet(InFlight)
  PROVE  IsFiniteSet(InFlight') /\ Cardinality(InFlight') = Cardinality(InFlight) - 1
  <1>1. InFlight' = InFlight \ {d} /\ d \in InFlight
    BY DEF InFlight, TypeOK
  <1> QED
    BY <1>1, FS_RemoveElement

LEMMA Stays ==
  ASSUME TypeOK, NEW d \in Request, NEW s, stage[d] \in Held <=> s \in Held,
         stage' = [stage EXCEPT ![d] = s]
  PROVE  InFlight' = InFlight
  BY DEF InFlight, TypeOK

LEMMA CountInit == Init => Counted
  <1> SUFFICES ASSUME Init PROVE Counted
    OBVIOUS
  <1>1. InFlight = {}
    BY DEF Init, InFlight, Held, Working
  <1>2. IsFiniteSet(InFlight) /\ Cardinality(InFlight) = 0
    BY <1>1, FS_EmptySet
  <1> QED
    BY <1>2, Bounds DEF Init, PoolInit, Counted, SlotsAccounted, Unreleased

LEMMA CountStep == TypeOK /\ Owned /\ Counted /\ [Next]_vars => Counted'
  <1> SUFFICES ASSUME TypeOK, Owned, Counted, [Next]_vars PROVE Counted'
    OBVIOUS
  <1> DEFINE n == Cardinality(InFlight)
  <1>0. /\ free \in 0..Slots /\ failures \in Nat /\ Slots \in Nat \ {0}
        /\ IsFiniteSet(InFlight) /\ n \in Nat
        /\ mpc # "closed" => Slots - free <= n /\ n <= Slots - free + failures - Unreleased
        /\ Unreleased \in {0, 1}
    BY Bounds, PoolAssumption, FS_CardinalityType
    DEF TypeOK, PoolAssumption, Counted, SlotsAccounted, Unreleased
  <1>a. ASSUME InFlight' = InFlight, free' = free, failures' = failures,
               mpc' # "reject" \/ mpc = "reject", mpc = "closed" => mpc' = "closed"
        PROVE  Counted'
    BY <1>0, <1>a DEF Counted, SlotsAccounted, Unreleased
  <1> USE DEF Move, Held, Working, poolVars
  <1>1. ASSUME NEW d \in Request, Admit(d) PROVE Counted'
    <2>1. IsFiniteSet(InFlight') /\ n' = n + 1
      BY <1>0, <1>1, Enters DEF Admit
    <2> QED
      BY <1>0, <1>1, <2>1 DEF Admit, Acquire, Counted, SlotsAccounted, Unreleased
  <1>2. ASSUME NEW d \in Request, Finish(d) PROVE Counted'
    <2>1. IsFiniteSet(InFlight') /\ n' = n - 1 /\ n' \in Nat
      <3>1. PICK s \in {"answered", "failed"} : stage' = [stage EXCEPT ![d] = s]
        BY <1>2 DEF Finish
      <3>2. stage[d] \in Held /\ s \notin Held
        BY <1>2 DEF Finish
      <3>3. IsFiniteSet(InFlight') /\ n' = n - 1
        BY <1>0, <3>1, <3>2, Leaves
      <3> QED
        BY <3>3, FS_CardinalityType
    <2>2. UNCHANGED <<failures, mpc>> /\ free' = IF free = Slots THEN free ELSE free + 1
      BY <1>2 DEF Finish, Release, ReleaseRaises
    <2>3. Unreleased' = Unreleased /\ Slots' = Slots
      BY <2>2 DEF Unreleased, Slots
    <2> HIDE DEF n
    <2>4. mpc # "closed" => n' \in Slots - free' .. Slots - free' + failures' - Unreleased'
      BY <1>0, <2>1, <2>2, <2>3
    <2> QED
      BY <2>1, <2>2, <2>3, <2>4 DEF Counted, SlotsAccounted, n
  <1>3. CASE Submit
    <2>1. InFlight' = InFlight
      BY <1>3, Stays DEF Submit, Owned, TypeOK
    <2> QED
      BY <1>3, <1>a, <2>1 DEF Submit
  <1>4. CASE SpawnFails
    <2>1. InFlight' = InFlight
      BY <1>4 DEF SpawnFails, InFlight
    <2> QED
      BY <1>0, <1>4, <2>1 DEF SpawnFails, StartFails, Counted, SlotsAccounted, Unreleased
  <1>5. CASE Reject
    <2>1. InFlight' = InFlight
      BY <1>5 DEF Reject, InFlight
    <2> QED
      BY <1>0, <1>5, <2>1 DEF Reject, Release, ReleaseRaises, Counted, SlotsAccounted, Unreleased
  <1>6. CASE Close
    <2>1. InFlight' \subseteq InFlight
      BY <1>6 DEF Close, Cut, InFlight, TypeOK
    <2> QED
      BY <1>0, <1>6, <2>1, FS_Subset DEF Close, Counted, SlotsAccounted
  <1>7. ASSUME NEW d \in Request, Start(d) PROVE Counted'
    <2>1. stage[d] = "queued"
      BY <1>7, LinedTail DEF Start, Take, Owned, TypeOK
    <2>2. InFlight' = InFlight
      BY <1>7, <2>1, Stays DEF Start, Take
    <2> QED
      BY <1>7, <1>a, <2>2 DEF Start
  <1>8. ASSUME NEW d \in Request, \/ SendRequest(d) \/ Stray(d) \/ Lose(d) \/ Drop(d)
                                  \/ Decode(d) \/ Reply(d) \/ \E e \in Request : Copy(e, d)
        PROVE  Counted'
    <2>1. InFlight' = InFlight
      BY <1>8, Stays DEF SendRequest, Stray, Lose, Drop, Decode, Reply, Copy
    <2>2. UNCHANGED <<free, failures, mpc>>
      BY <1>8 DEF SendRequest, Stray, Lose, Drop, Decode, Reply, Copy
    <2> QED
      BY <1>a, <2>1, <2>2
  <1>9. ASSUME UNCHANGED <<stage, free, failures>>,
               mpc' # "reject" \/ mpc = "reject", mpc = "closed" => mpc' = "closed"
        PROVE  Counted'
    BY <1>9, <1>a DEF InFlight
  <1>10. \/ \E d \in Request : Admit(d) \/ Finish(d) \/ Start(d)
         \/ Submit \/ SpawnFails \/ Reject \/ Close
         \/ \E d \in Request : \/ SendRequest(d) \/ Stray(d) \/ Lose(d) \/ Drop(d)
                               \/ Decode(d) \/ Reply(d) \/ \E e \in Request : Copy(e, d)
         \/ /\ UNCHANGED <<stage, free, failures>>
            /\ mpc' # "reject" \/ mpc = "reject"
            /\ mpc = "closed" => mpc' = "closed"
    BY DEF Next, MainStep, WorkerStep, Spawn, Drain, ReceiveFails, Interrupt, Timeout,
       TakeReply, WrongReply, LoseReply, Idle, vars, Looping
  <1> QED
    BY <1>1, <1>2, <1>3, <1>4, <1>5, <1>6, <1>7, <1>8, <1>9, <1>10

LEMMA Counting == Spec => [](TypeOK /\ Owned /\ Counted)
  BY Stamping, TypeInit, TypeStep, CountInit, CountStep, PTL DEF Spec

\* Every datagram gives its slot back, and twice only if submit() has raised.
THEOREM Accounted == Spec => []SlotsAccounted
  BY Counting, PTL DEF Counted

-----------------------------------------------------------------------------
(* The shutdown.  Nobody leaves the loop without an interrupt or an        *)
(* exception, so that a second way out is told from the first.             *)

Exits ==
    /\ mpc \in {"drain", "close", "closed"} => interrupts >= 1 \/ crashed
    /\ crashed => mpc \in {"drain", "close", "closed"}
    /\ OrderlyShutdown

LEMMA ExitInit == Init => Exits
  BY DEF Init, Exits, OrderlyShutdown

LEMMA ExitStep == TypeOK /\ Exits /\ [Next]_vars => Exits'
  <1> SUFFICES ASSUME TypeOK, Exits, [Next]_vars PROVE Exits'
    OBVIOUS
  <1> USE DEF Exits, OrderlyShutdown
  <1>0. stage \in [Request -> Stages] /\ interrupts \in Nat /\ crashed \in BOOLEAN
    BY UdpAssumption DEF TypeOK, UdpAssumption
  \* In the loop nothing is claimed.
  <1>a. ASSUME mpc' \in Looping, ~crashed' PROVE Exits'
    BY <1>a DEF Looping
  \* What is not in main() leaves the workers busy or makes them less so.
  <1>b. ASSUME UNCHANGED <<mpc, interrupts, crashed, threads, queue>>, Busy' \subseteq Busy
        PROVE  Exits'
    BY <1>b
  <1>1. ASSUME NEW d \in Request, Moves(d) PROVE Exits'
    <2>1. PICK s \in Stages : stage' = [stage EXCEPT ![d] = s]
      BY <1>1, Moving
    <2>2. UNCHANGED <<mpc, interrupts, crashed, threads, queue>>
      BY <1>1 DEF Moves, SendRequest, Stray, Lose, Drop, Decode, Reply, Finish, Copy, exitVars, poolVars
    <2>3. d \in Busy \/ s \notin Working
      BY <1>0, <1>1, <2>1 DEF Moves, SendRequest, Stray, Lose, Drop, Decode, Reply, Finish, Copy,
         Move, Busy, Working
    <2>4. Busy' \subseteq Busy
      BY <1>0, <2>1, <2>3 DEF Busy
    <2> QED
      BY <1>b, <2>2, <2>4
  <1>2. ASSUME NEW d \in Request, Admit(d) PROVE Exits'
    BY <1>2, <1>a DEF Admit, Looping, exitVars
  <1>3. CASE Submit \/ Spawn \/ SpawnFails
    BY <1>3, <1>a DEF Submit, Spawn, SpawnFails, Looping, exitVars
  <1>4. CASE Reject \/ ReceiveFails
    BY <1>4 DEF Reject, ReceiveFails
  <1>5. ASSUME NEW d \in Request, Start(d) PROVE Exits'
    BY <1>5 DEF Start, Take, exitVars
  <1>6. CASE Interrupt
    BY <1>0, <1>6 DEF Interrupt, Looping
  <1>7. CASE Drain
    BY <1>7 DEF Drain, Drained, Busy, poolVars, exitVars
  <1>8. CASE Close
    <2>1. Busy' \subseteq Busy
      BY <1>0, <1>8 DEF Close, Busy, Working
    <2> QED
      BY <1>8, <2>1 DEF Close, exitVars
  <1>9. CASE UNCHANGED <<stage, poolVars, mpc, exitVars>>
    BY <1>9, <1>b DEF Busy, poolVars, exitVars
  <1>10. \/ \E d \in Request : Moves(d) \/ Admit(d) \/ Start(d)
         \/ Submit \/ Spawn \/ SpawnFails \/ Reject \/ ReceiveFails
         \/ Interrupt \/ Drain \/ Close
         \/ UNCHANGED <<stage, poolVars, mpc, exitVars>>
    BY DEF Next, MainStep, WorkerStep, Moves, Timeout, TakeReply, WrongReply, LoseReply, Idle, vars
  <1> QED
    BY <1>1, <1>2, <1>3, <1>4, <1>5, <1>6, <1>7, <1>8, <1>9, <1>10

\* A single exit of the receive loop, by an interrupt or an exception, never
\* cuts off a datagram that was submitted.
THEOREM Orderly == Spec => []OrderlyShutdown
  <1>1. Exits => OrderlyShutdown
    BY DEF Exits
  <1>2. TypeOK /\ Exits /\ [Next]_vars => TypeOK' /\ Exits'
    BY TypeStep, ExitStep
  <1> QED
    BY <1>1, <1>2, TypeInit, ExitInit, PTL DEF Spec

-----------------------------------------------------------------------------
(* Refinement of Admission, which the TLS server implements, too.  To it a *)
(* datagram that has not reached the server is one that waits.             *)

Fate(s) ==
    CASE s \in {"absent", "network", "lost"} -> "waiting"
      [] s \in Held -> "admitted"
      [] s = "dropped" -> "refused"
      [] OTHER -> "over"

Abstract == INSTANCE Admission WITH
    fate <- [d \in Request |-> Fate(stage[d])],
    open <- mpc # "closed"

LEMMA FateOf ==
  \A s \in Stages :
    /\ Fate(s) \in {"waiting", "admitted", "refused", "over"}
    /\ Fate(s) = "waiting" <=> s \in {"absent", "network", "lost"}
    /\ Fate(s) = "admitted" <=> s \in Held
    /\ Fate(s) = "refused" <=> s = "dropped"
  BY DEF Fate, Stages, Held, Working, Settled

\* While no start fails the semaphore is exactly the slots that nobody holds.
Exact ==
    /\ TypeOK /\ Owned /\ Counted
    /\ mpc # "reject"
    /\ mpc # "closed" => free + Cardinality(InFlight) = Slots

LEMMA Exactness ==
  ASSUME MaxStartFailures = 0
  PROVE  Spec => []Exact
  <1> DEFINE Inv == TypeOK /\ Owned /\ Counted
             NoReject == mpc # "reject"
  <1>1. Init => NoReject
    BY DEF Init
  <1>2. TypeOK /\ NoReject /\ [Next]_vars => NoReject'
    <2> SUFFICES ASSUME TypeOK, NoReject, [Next]_vars PROVE NoReject'
      OBVIOUS
    <2>1. ~SpawnFails
      BY DEF SpawnFails, StartFails, TypeOK
    <2> QED
      BY <2>1 DEF Next, MainStep, WorkerStep, Admit, Drop, Submit, Spawn, Reject, Drain, Close,
         ReceiveFails, Interrupt, Timeout, SendRequest, TakeReply, WrongReply, Stray, Lose,
         LoseReply, Start, Decode, Reply, Finish, Copy, Idle, vars
  <1>3. Inv /\ NoReject => Exact
    <2> SUFFICES ASSUME Inv, NoReject PROVE Exact
      OBVIOUS
    <2>1. failures = 0 /\ free \in 0..Slots /\ Slots \in Nat
      BY Bounds DEF TypeOK
    <2>2. Cardinality(InFlight) \in Nat
      BY FS_CardinalityType DEF Counted
    <2> QED
      BY <2>1, <2>2 DEF Exact, Counted, SlotsAccounted, Unreleased
  <1>4. Spec => []Inv
    BY Counting
  <1> HIDE DEF Inv, NoReject
  <1>5. Spec => []NoReject
    BY <1>1, <1>2, TypeCorrect, PTL DEF Spec
  <1> QED
    BY <1>3, <1>4, <1>5, PTL

\* The abstract specification counts as this one does.
LEMMA SameCount == \A S : Abstract!Cardinality(S) = Cardinality(S)
  BY Zenon DEF Abstract!Cardinality, Cardinality, Abstract!IsFiniteSet, IsFiniteSet

LEMMA RefineInit == Init => Abstract!AInit
  <1>1. Fate("absent") = "waiting"
    BY FateOf DEF Stages
  <1>2. ASSUME Init PROVE [d \in Request |-> Fate(stage[d])] = [d \in Request |-> "waiting"]
    BY <1>1, <1>2 DEF Init
  <1> QED
    BY <1>2 DEF Init, Abstract!AInit

LEMMA RefineStep ==
  Exact /\ Exact' /\ [Next]_vars => [Abstract!ANext]_(Abstract!avars)
  <1> SUFFICES ASSUME Exact, Exact', [Next]_vars
               PROVE  Abstract!ANext \/ UNCHANGED Abstract!avars
    OBVIOUS
  <1> DEFINE fates == [d \in Request |-> Fate(stage[d])]
  <1>0. /\ stage \in [Request -> Stages]
        /\ queue \in Seq(Request) /\ cur \in Request
        /\ free \in 0..Slots /\ Slots \in Nat /\ Owned
        /\ mpc # "reject" /\ mpc # "closed" => free + Cardinality(InFlight) = Slots
        /\ Cardinality(InFlight) \in Nat
    BY Bounds, FS_CardinalityType DEF Exact, TypeOK, Counted
  <1>1. Abstract!Admitted = InFlight
    BY <1>0, FateOf DEF Abstract!Admitted, InFlight
  \* A move changes the fate of one datagram at most.
  <1>2. ASSUME NEW d \in Request, NEW s \in Stages, Move(d, s)
        PROVE  fates' = [fates EXCEPT ![d] = Fate(s)]
    BY <1>0, <1>2 DEF Move
  <1>3. ASSUME NEW d \in Request, NEW s \in Stages, Move(d, s),
               Fate(s) = Fate(stage[d]), mpc # "closed" <=> mpc' # "closed"
        PROVE  UNCHANGED Abstract!avars
    BY <1>2, <1>3 DEF Abstract!avars
  <1>4. ASSUME UNCHANGED stage, mpc # "closed" <=> mpc' # "closed"
        PROVE  UNCHANGED Abstract!avars
    BY <1>4 DEF Abstract!avars
  <1>5. \A s \in {"absent", "network", "lost"} : s \in Stages /\ Fate(s) = "waiting"
    BY FateOf DEF Stages, Settled
  <1>6. \A s \in Held : s \in Stages /\ Fate(s) = "admitted"
    BY FateOf DEF Stages
  <1>7. /\ Fate("answered") = "over" /\ Fate("failed") = "over" /\ Fate("cut") = "over"
        /\ Fate("dropped") = "refused"
    BY DEF Fate, Held, Working
  <1> USE DEF Stages, Held, Working, Settled
  <1>8. ASSUME NEW d \in Request, Admit(d) PROVE Abstract!AdmitOne(d)
    <2>0. fates[d] = "waiting"
      BY <1>5, <1>8 DEF Admit
    <2>1. fates' = [fates EXCEPT ![d] = "admitted"]
      <3>1. Move(d, "arrived") /\ "arrived" \in Held
        BY <1>8 DEF Admit
      <3>2. "arrived" \in Stages /\ Fate("arrived") = "admitted"
        BY <1>6, <3>1
      <3> QED
        BY <1>2, <3>1, <3>2
    <2>2. Cardinality(Abstract!Admitted) < Slots
      BY <1>0, <1>1, <1>8 DEF Admit, Acquire
    <2>3. mpc # "closed" /\ mpc' # "closed"
      BY <1>8 DEF Admit
    <2> QED
      BY <2>0, <2>1, <2>2, <2>3, SameCount DEF Abstract!AdmitOne
  <1>9. ASSUME NEW d \in Request, Drop(d) PROVE Abstract!RefuseOne(d)
    <2>0. fates[d] = "waiting"
      BY <1>5, <1>9 DEF Drop
    <2>1. fates' = [fates EXCEPT ![d] = "refused"]
      BY <1>2, <1>7, <1>9 DEF Drop
    <2>2. Cardinality(Abstract!Admitted) = Slots
      BY <1>0, <1>1, <1>9 DEF Drop
    <2>3. mpc # "closed" /\ mpc' # "closed"
      BY <1>9 DEF Drop
    <2> QED
      BY <2>0, <2>1, <2>2, <2>3, SameCount DEF Abstract!RefuseOne
  <1>10. ASSUME NEW d \in Request, Finish(d) PROVE Abstract!Settle(d)
    <2>0. fates[d] = "admitted"
      BY <1>6, <1>10 DEF Finish
    <2>1. fates' = [fates EXCEPT ![d] = "over"]
      BY <1>2, <1>7, <1>10 DEF Finish
    <2>2. mpc' = mpc
      BY <1>10 DEF Finish
    <2> QED
      BY <2>0, <2>1, <2>2 DEF Abstract!Settle
  <1>11. CASE Close
    <2> DEFINE cut == {d \in Request : Cut(d)}
    <2>1. cut \in SUBSET {d \in Request : fates[d] \in {"waiting", "admitted"}}
      BY <1>5, <1>6 DEF Cut
    <2>2. fates' = [d \in Request |-> IF d \in cut THEN "over" ELSE fates[d]]
      BY <1>7, <1>11 DEF Close
    <2> QED
      BY <1>11, <2>1, <2>2 DEF Close, Abstract!Return, Abstract!ANext
  <1>12. CASE Submit
    BY <1>0, <1>3, <1>6, <1>12 DEF Submit, Owned
  <1>13. ASSUME NEW d \in Request, Start(d) PROVE UNCHANGED Abstract!avars
    <2>1. stage[d] = "queued"
      BY <1>0, <1>13, LinedTail DEF Start, Take, Owned
    <2> QED
      BY <1>3, <1>6, <1>13, <2>1 DEF Start, Take, Move
  <1>14. ASSUME NEW d \in Request, Decode(d) \/ Reply(d) PROVE UNCHANGED Abstract!avars
    BY <1>3, <1>6, <1>14 DEF Decode, Reply
  <1>15. ASSUME NEW d \in Request, \/ SendRequest(d) \/ Stray(d) \/ Lose(d)
                                   \/ \E e \in Request : Copy(e, d)
         PROVE  UNCHANGED Abstract!avars
    BY <1>3, <1>5, <1>15 DEF SendRequest, Stray, Lose, Copy
  <1>16. \/ \E d \in Request : \/ Admit(d) \/ Drop(d) \/ Finish(d) \/ Start(d) \/ Decode(d)
                               \/ Reply(d) \/ SendRequest(d) \/ Stray(d) \/ Lose(d)
                               \/ \E e \in Request : Copy(e, d)
         \/ Submit \/ Close
         \/ UNCHANGED stage /\ (mpc # "closed" <=> mpc' # "closed")
    BY <1>0 DEF Next, MainStep, WorkerStep, Spawn, SpawnFails, Reject, Drain, ReceiveFails,
       Interrupt, Timeout, TakeReply, WrongReply, LoseReply, Idle, vars, Looping
  <1> QED
    BY <1>4, <1>8, <1>9, <1>10, <1>11, <1>12, <1>13, <1>14, <1>15, <1>16 DEF Abstract!ANext

\* As long as every thread starts, the UDP server keeps the promise of the TLS
\* server: exactly Slots slots, and no drop while one of them is unused.
THEOREM Refinement ==
  ASSUME MaxStartFailures = 0
  PROVE  Spec => Abstract!ASpec
  <1>1. Spec => []Exact
    BY Exactness
  <1> QED
    BY <1>1, RefineInit, RefineStep, PTL DEF Spec, Abstract!ASpec
=============================================================================
