------------------------- MODULE SecureServerProofs -------------------------
(***************************************************************************)
(* Theorems about SecureServer, for any number of connections, workers,    *)
(* queue slots, start failures and interrupts.                             *)
(***************************************************************************)
EXTENDS SecureServer, FiniteSetTheorems, TLAPS

-----------------------------------------------------------------------------
(* Facts about the operators.                                              *)

\* Both bounds of the pool are positive, whatever the command line says.
LEMMA Bounds == Slots \in Nat \ {0} /\ ThreadLimit \in Nat \ {0}
  BY PoolAssumption DEF PoolAssumption, Slots, ThreadLimit, AtLeastOne

\* One more connection holds a slot.
LEMMA HeldEnter ==
  ASSUME NEW st \in [Request -> Stages], NEW c \in Request, NEW s \in Held,
         st[c] \notin Held, IsFiniteSet(HeldBy(st))
  PROVE  /\ IsFiniteSet(HeldBy([st EXCEPT ![c] = s]))
         /\ Cardinality(HeldBy([st EXCEPT ![c] = s])) = Cardinality(HeldBy(st)) + 1
  <1>1. HeldBy([st EXCEPT ![c] = s]) = HeldBy(st) \cup {c}
    BY DEF HeldBy
  <1>2. c \notin HeldBy(st)
    BY DEF HeldBy
  <1> QED
    BY <1>1, <1>2, FS_AddElement

\* One connection less holds a slot.
LEMMA HeldLeave ==
  ASSUME NEW st \in [Request -> Stages], NEW c \in Request, NEW s, s \notin Held,
         st[c] \in Held, IsFiniteSet(HeldBy(st))
  PROVE  /\ IsFiniteSet(HeldBy([st EXCEPT ![c] = s]))
         /\ Cardinality(HeldBy([st EXCEPT ![c] = s])) = Cardinality(HeldBy(st)) - 1
  <1>1. HeldBy([st EXCEPT ![c] = s]) = HeldBy(st) \ {c}
    BY DEF HeldBy
  <1>2. c \in HeldBy(st)
    BY DEF HeldBy
  <1> QED
    BY <1>1, <1>2, FS_RemoveElement

\* A move within the stages that hold a slot, or outside them, changes nothing.
LEMMA HeldSame ==
  ASSUME NEW st \in [Request -> Stages], NEW c \in Request, NEW s,
         st[c] \in Held <=> s \in Held
  PROVE  HeldBy([st EXCEPT ![c] = s]) = HeldBy(st)
  BY DEF HeldBy

\* Who joins a line comes after the others and is in it once.
LEMMA LineAppend ==
  ASSUME NEW st \in [Request -> Stages], NEW q \in Seq(Request),
         NEW c \in Request, NEW s, Line(st, q, s), st[c] # s
  PROVE  Line([st EXCEPT ![c] = s], Append(q, c), s)
  BY DEF Line

\* Who is served leaves a line of the others.
LEMMA LineTail ==
  ASSUME NEW st \in [Request -> Stages], NEW q \in Seq(Request),
         q # <<>>, NEW s, NEW t, Line(st, q, s)
  PROVE  /\ Head(q) \in Request /\ st[Head(q)] = s
         /\ Line([st EXCEPT ![Head(q)] = t], Tail(q), s)
  <1>1. /\ Head(q) \in Request /\ Head(q) = q[1]
        /\ Tail(q) \in Seq(Request) /\ Len(Tail(q)) = Len(q) - 1
        /\ \A i \in 1..Len(Tail(q)) : Tail(q)[i] = q[i + 1] /\ q[i + 1] \in Request
        /\ Len(q) \in Nat /\ Len(q) >= 1
    OBVIOUS
  <1>2. \A i \in 1..Len(Tail(q)) : q[i + 1] # q[1] /\ st[q[i + 1]] = s
    BY <1>1 DEF Line
  <1>3. \A i \in 1..Len(Tail(q)) : [st EXCEPT ![Head(q)] = t][Tail(q)[i]] = s
    BY <1>1, <1>2
  <1>4. \A i, j \in 1..Len(Tail(q)) : Tail(q)[i] = Tail(q)[j] => i = j
    BY <1>1 DEF Line
  <1> QED
    BY <1>1, <1>3, <1>4 DEF Line

\* A line is not disturbed by the move of a connection that is not in it.
LEMMA LineSame ==
  ASSUME NEW st \in [Request -> Stages], NEW q \in Seq(Request),
         NEW c \in Request, NEW s, NEW t, Line(st, q, s), st[c] # s
  PROVE  Line([st EXCEPT ![c] = t], q, s)
  BY DEF Line

-----------------------------------------------------------------------------
(* Types.                                                                  *)

LEMMA TypeInit == Init => TypeOK
  <1> SUFFICES ASSUME Init PROVE TypeOK
    OBVIOUS
  <1>1. free \in 0..Slots /\ threads \in 0..ThreadLimit
    BY Bounds DEF Init, PoolInit
  <1>2. failures \in 0..MaxStartFailures /\ interrupts \in 0..MaxInterrupts
    BY PoolAssumption, ServerAssumption
    DEF Init, PoolInit, PoolAssumption, ServerAssumption
  <1>3. queue \in Seq(Request) /\ backlog \in Seq(Request)
    BY DEF Init, PoolInit
  <1>4. stage \in [Request -> Stages]
    BY DEF Init, Stages
  <1> QED
    BY <1>1, <1>2, <1>3, <1>4 DEF Init, TypeOK, Looping

LEMMA TypeStep == TypeOK /\ [Next]_vars => TypeOK'
  <1> SUFFICES ASSUME TypeOK, [Next]_vars PROVE TypeOK'
    OBVIOUS
  <1> USE Bounds DEF TypeOK, Looping, Stages, Held, Working, Settled, Move,
        poolVars, peerVars, exitVars
  <1>1. CASE Admit
    BY <1>1 DEF Admit, Acquire
  <1>2. CASE Drop
    BY <1>2 DEF Drop
  <1>3. CASE HandshakeOk
    BY <1>3 DEF HandshakeOk
  <1>4. CASE HandshakeFail
    BY <1>4 DEF HandshakeFail, Release, ReleaseRaises
  <1>5. CASE Submit
    BY <1>5 DEF Submit, Put
  <1>6. CASE Spawn
    BY <1>6 DEF Spawn, FindThread
  <1>7. CASE SpawnFails
    BY <1>7, PoolAssumption DEF SpawnFails, StartFails, PoolAssumption
  <1>8. CASE Reject
    BY <1>8 DEF Reject, Release, ReleaseRaises
  <1>9. CASE Drain
    BY <1>9 DEF Drain
  <1>10. CASE Close
    BY <1>10 DEF Close
  <1>11. CASE Interrupt
    BY <1>11, ServerAssumption DEF Interrupt, ServerAssumption
  <1>12. ASSUME NEW c \in Request, Connect(c) PROVE TypeOK'
    BY <1>12 DEF Connect
  <1>13. ASSUME NEW c \in Request, GiveUp(c) PROVE TypeOK'
    BY <1>13 DEF GiveUp
  <1>14. ASSUME NEW c \in Request, Start(c) PROVE TypeOK'
    BY <1>14 DEF Start, Take
  <1>15. ASSUME NEW c \in Request, Recv(c) PROVE TypeOK'
    BY <1>15 DEF Recv
  <1>16. ASSUME NEW c \in Request, Reply(c) PROVE TypeOK'
    BY <1>16 DEF Reply
  <1>17. ASSUME NEW c \in Request, Finish(c) PROVE TypeOK'
    BY <1>17 DEF Finish, Release, ReleaseRaises
  <1>18. CASE UNCHANGED vars
    BY <1>18 DEF vars
  <1>19. CASE AcceptFails
    BY <1>19 DEF AcceptFails
  <1> QED
    BY <1>1, <1>2, <1>3, <1>4, <1>5, <1>6, <1>7, <1>8, <1>9, <1>10, <1>11,
       <1>12, <1>13, <1>14, <1>15, <1>16, <1>17, <1>18, <1>19
    DEF Next, MainStep, WorkerStep, AcceptTimeout

\* The state keeps its type, for all values of the constants.
THEOREM TypeCorrect == Spec => []TypeOK
  BY TypeInit, TypeStep, PTL DEF Spec

-----------------------------------------------------------------------------
(* Ownership: the lines and the accepting thread's connection.             *)

LEMMA OwnedInit == Init => OwnedOnce
  BY DEF Init, PoolInit, OwnedOnce, Line

\* Only Close moves many connections at once: it empties the backlog, and the
\* executor's queue when no thread would ever take from it.
LEMMA OwnedStep == TypeOK /\ OwnedOnce /\ [Next]_vars => OwnedOnce'
  <1> SUFFICES ASSUME TypeOK, OwnedOnce, [Next]_vars PROVE OwnedOnce'
    OBVIOUS
  <1> USE DEF OwnedOnce, poolVars, peerVars, exitVars
  <1>0. /\ stage \in [Request -> Stages]
        /\ backlog \in Seq(Request) /\ queue \in Seq(Request) /\ cur \in Request
    BY DEF TypeOK
  <1>1. CASE Admit
    BY <1>0, <1>1, LineTail, LineSame DEF Admit, Move
  <1>2. CASE Drop
    BY <1>0, <1>2, LineTail, LineSame DEF Drop, Move
  <1>3. CASE HandshakeOk
    BY <1>0, <1>3, LineSame DEF HandshakeOk, Move
  <1>4. CASE HandshakeFail
    BY <1>0, <1>4, LineSame DEF HandshakeFail, Move
  <1>5. CASE Submit
    BY <1>0, <1>5, LineAppend, LineSame DEF Submit, Put, Move
  <1>6. CASE Spawn
    BY <1>6 DEF Spawn
  <1>7. CASE SpawnFails
    BY <1>7 DEF SpawnFails
  <1>8. CASE Reject
    BY <1>8 DEF Reject
  <1>9. CASE Drain
    BY <1>9 DEF Drain
  <1>10. CASE Close
    <2>1. Line(stage', backlog', "backlog")
      BY <1>10 DEF Close, Line
    <2>2. Line(stage', queue', "queued")
      <3>1. CASE threads = 0
        BY <1>10, <3>1 DEF Close, Line
      <3>2. CASE threads # 0
        <4>1. \A i \in 1..Len(queue) : stage'[queue[i]] = "queued"
          BY <1>0, <1>10, <3>2 DEF Close, Cut, Line
        <4> QED
          BY <1>10, <3>2, <4>1 DEF Close, Line
      <3> QED
        BY <3>1, <3>2
    <2> QED
      BY <1>10, <2>1, <2>2 DEF Close
  <1>11. CASE Interrupt
    BY <1>11 DEF Interrupt
  <1>12. ASSUME NEW c \in Request, Connect(c) PROVE OwnedOnce'
    BY <1>0, <1>12, LineAppend, LineSame DEF Connect, Move
  <1>13. ASSUME NEW c \in Request, GiveUp(c) PROVE OwnedOnce'
    BY <1>13 DEF GiveUp
  <1>14. ASSUME NEW c \in Request, Start(c) PROVE OwnedOnce'
    <2>1. /\ queue # <<>> /\ c = Head(queue) /\ queue' = Tail(queue)
          /\ stage' = [stage EXCEPT ![c] = "recv"]
          /\ UNCHANGED <<backlog, mpc, cur>>
      BY <1>14 DEF Start, Take
    <2>2. stage[c] = "queued" /\ Line(stage', queue', "queued")
      BY <1>0, <2>1, LineTail
    <2>3. Line(stage', backlog', "backlog")
      BY <1>0, <2>1, <2>2, LineSame
    <2> QED
      BY <1>0, <2>1, <2>2, <2>3
  <1>15. ASSUME NEW c \in Request, Recv(c) PROVE OwnedOnce'
    <2>1. PICK s : stage' = [stage EXCEPT ![c] = s]
      BY <1>15 DEF Recv, Move
    <2>2. stage[c] \notin {"backlog", "queued", "handshake", "wrapped"}
      BY <1>15 DEF Recv
    <2>3. UNCHANGED <<backlog, queue, mpc, cur>>
      BY <1>15 DEF Recv
    <2> QED
      BY <1>0, <2>1, <2>2, <2>3, LineSame
  <1>16. ASSUME NEW c \in Request, Reply(c) PROVE OwnedOnce'
    <2>1. PICK s : stage' = [stage EXCEPT ![c] = s]
      BY <1>16 DEF Reply, Move
    <2>2. stage[c] \notin {"backlog", "queued", "handshake", "wrapped"}
      BY <1>16 DEF Reply
    <2>3. UNCHANGED <<backlog, queue, mpc, cur>>
      BY <1>16 DEF Reply
    <2> QED
      BY <1>0, <2>1, <2>2, <2>3, LineSame
  <1>17. ASSUME NEW c \in Request, Finish(c) PROVE OwnedOnce'
    <2>1. PICK s : stage' = [stage EXCEPT ![c] = s]
      BY <1>17 DEF Finish, Move
    <2>2. stage[c] \notin {"backlog", "queued", "handshake", "wrapped"}
      BY <1>17 DEF Finish
    <2>3. UNCHANGED <<backlog, queue, mpc, cur>>
      BY <1>17 DEF Finish
    <2> QED
      BY <1>0, <2>1, <2>2, <2>3, LineSame
  <1>18. CASE UNCHANGED vars
    BY <1>18 DEF vars
  <1>19. CASE AcceptFails
    BY <1>19 DEF AcceptFails
  <1> QED
    BY <1>1, <1>2, <1>3, <1>4, <1>5, <1>6, <1>7, <1>8, <1>9, <1>10, <1>11,
       <1>12, <1>13, <1>14, <1>15, <1>16, <1>17, <1>18, <1>19
    DEF Next, MainStep, WorkerStep, AcceptTimeout

\* No connection is ever handed on twice, whatever order the accepting thread,
\* the workers and the interrupts take their steps in.
THEOREM Ownership == Spec => []OwnedOnce
  BY TypeInit, TypeStep, OwnedInit, OwnedStep, PTL DEF Spec

-----------------------------------------------------------------------------
(* The slots.  A step changes the number of connections that hold one, the *)
(* semaphore and the count of double releases together.                    *)

Counted == IsFiniteSet(InFlight) /\ SlotsNeverLeak /\ InFlightBounded

LEMMA CountInit == Init => Counted
  <1> SUFFICES ASSUME Init PROVE Counted
    OBVIOUS
  <1>1. InFlight = {}
    BY DEF Init, InFlight, HeldBy, Held, Working
  <1>2. IsFiniteSet(InFlight) /\ Cardinality(InFlight) = 0
    BY <1>1, FS_EmptySet
  <1> QED
    BY <1>2, Bounds DEF Init, PoolInit, Counted, SlotsNeverLeak, InFlightBounded,
       Unreleased

LEMMA CountStep == TypeOK /\ OwnedOnce /\ Counted /\ [Next]_vars => Counted'
  <1> SUFFICES ASSUME TypeOK, OwnedOnce, Counted, [Next]_vars PROVE Counted'
    OBVIOUS
  <1> DEFINE n == Cardinality(InFlight)
  <1>0. /\ stage \in [Request -> Stages]
        /\ backlog \in Seq(Request) /\ queue \in Seq(Request) /\ cur \in Request
        /\ free \in 0..Slots /\ failures \in Nat /\ Slots \in Nat
        /\ IsFiniteSet(InFlight) /\ n \in Nat
        /\ mpc # "closed" => free + n >= Slots
        /\ n <= Slots - free + failures - Unreleased
    BY Bounds, PoolAssumption, FS_CardinalityType
    DEF TypeOK, PoolAssumption, Counted, SlotsNeverLeak, InFlightBounded
  <1>u. Unreleased \in {0, 1}
    BY DEF Unreleased
  \* What each move does to the number of connections that hold a slot.
  <1>a. ASSUME NEW c \in Request, NEW s \in Held, stage[c] \notin Held, Move(c, s)
        PROVE  IsFiniteSet(InFlight') /\ n' = n + 1
    BY <1>0, <1>a, HeldEnter DEF InFlight, Move
  <1>b. ASSUME NEW c \in Request, NEW s, s \notin Held, stage[c] \in Held, Move(c, s)
        PROVE  IsFiniteSet(InFlight') /\ n' = n - 1 /\ n' \in Nat
    BY <1>0, <1>b, HeldLeave, FS_CardinalityType DEF InFlight, Move
  <1>c. ASSUME NEW c \in Request, NEW s, stage[c] \in Held <=> s \in Held, Move(c, s)
        PROVE  InFlight' = InFlight
    BY <1>0, <1>c, HeldSame DEF InFlight, Move
  <1>d. ASSUME InFlight' = InFlight, free' = free, failures' = failures,
               mpc' # "reject" \/ mpc = "reject", mpc = "closed" => mpc' = "closed"
        PROVE  Counted'
    BY <1>0, <1>d DEF Counted, SlotsNeverLeak, InFlightBounded, Unreleased
  <1>1. CASE Admit
    <2>1. Head(backlog) \in Request /\ stage[Head(backlog)] = "backlog"
      BY <1>0, <1>1, LineTail DEF Admit, OwnedOnce
    <2>2. IsFiniteSet(InFlight') /\ n' = n + 1
      BY <1>1, <1>a, <2>1 DEF Admit, Held, Working
    <2> QED
      BY <1>0, <1>1, <2>2
      DEF Admit, Acquire, Counted, SlotsNeverLeak, InFlightBounded, Unreleased
  <1>2. CASE Drop
    <2>1. Head(backlog) \in Request /\ stage[Head(backlog)] = "backlog"
      BY <1>0, <1>2, LineTail DEF Drop, OwnedOnce
    <2>2. InFlight' = InFlight
      BY <1>2, <1>c, <2>1 DEF Drop, Held, Working
    <2> QED
      BY <1>2, <1>d, <2>2 DEF Drop, poolVars
  <1>3. CASE HandshakeOk
    <2>1. InFlight' = InFlight
      BY <1>0, <1>3, <1>c DEF HandshakeOk, OwnedOnce, Held
    <2> QED
      BY <1>3, <1>d, <2>1 DEF HandshakeOk, poolVars
  <1>4. CASE HandshakeFail
    <2>1. IsFiniteSet(InFlight') /\ n' = n - 1 /\ n' \in Nat
      BY <1>0, <1>4, <1>b DEF HandshakeFail, OwnedOnce, Held, Working
    <2> QED
      BY <1>0, <1>4, <1>u, <2>1
      DEF HandshakeFail, Release, ReleaseRaises, Counted, SlotsNeverLeak,
          InFlightBounded, Unreleased
  <1>5. CASE Submit
    <2>1. InFlight' = InFlight
      BY <1>0, <1>5, <1>c DEF Submit, OwnedOnce, Held
    <2> QED
      BY <1>5, <1>d, <2>1 DEF Submit
  <1>6. CASE Spawn
    BY <1>6, <1>d DEF Spawn, InFlight
  <1>7. CASE SpawnFails
    <2>1. InFlight' = InFlight
      BY <1>7 DEF SpawnFails, InFlight
    <2> QED
      BY <1>0, <1>7, <2>1
      DEF SpawnFails, StartFails, Counted, SlotsNeverLeak, InFlightBounded,
          Unreleased
  <1>8. CASE Reject
    <2>1. InFlight' = InFlight
      BY <1>8 DEF Reject, InFlight
    <2> QED
      BY <1>0, <1>8, <2>1
      DEF Reject, Release, ReleaseRaises, Counted, SlotsNeverLeak,
          InFlightBounded, Unreleased
  <1>9. CASE Drain
    BY <1>9, <1>d DEF Drain, InFlight, poolVars
  <1>10. CASE Close
    <2>1. InFlight' \subseteq InFlight
      BY <1>0, <1>10 DEF Close, Cut, InFlight, HeldBy, Held, Working
    <2>2. IsFiniteSet(InFlight') /\ n' <= n /\ n' \in Nat
      BY <1>0, <2>1, FS_Subset, FS_CardinalityType
    <2> QED
      BY <1>0, <1>10, <2>2
      DEF Close, Counted, SlotsNeverLeak, InFlightBounded, Unreleased
  <1>11. CASE Interrupt
    BY <1>11, <1>d DEF Interrupt, InFlight, poolVars, Looping
  <1>12. ASSUME NEW c \in Request, Connect(c) PROVE Counted'
    <2>1. InFlight' = InFlight
      BY <1>12, <1>c DEF Connect, Held, Working
    <2> QED
      BY <1>12, <1>d, <2>1 DEF Connect, poolVars
  <1>13. ASSUME NEW c \in Request, GiveUp(c) PROVE Counted'
    BY <1>13, <1>d DEF GiveUp, InFlight, poolVars
  <1>14. ASSUME NEW c \in Request, Start(c) PROVE Counted'
    <2>1. stage[c] = "queued"
      BY <1>0, <1>14, LineTail DEF Start, Take, OwnedOnce
    <2>2. InFlight' = InFlight
      BY <1>14, <1>c, <2>1 DEF Start, Take, Move, Held, Working
    <2> QED
      BY <1>14, <1>d, <2>2 DEF Start
  <1>15. ASSUME NEW c \in Request, Recv(c) PROVE Counted'
    <2>1. InFlight' = InFlight
      BY <1>15, <1>c DEF Recv, Held, Working
    <2> QED
      BY <1>15, <1>d, <2>1 DEF Recv, poolVars
  <1>16. ASSUME NEW c \in Request, Reply(c) PROVE Counted'
    <2>1. InFlight' = InFlight
      BY <1>16, <1>c DEF Reply, Held, Working
    <2> QED
      BY <1>16, <1>d, <2>1 DEF Reply, poolVars
  <1>17. ASSUME NEW c \in Request, Finish(c) PROVE Counted'
    <2>1. IsFiniteSet(InFlight') /\ n' = n - 1 /\ n' \in Nat
      BY <1>17, <1>b DEF Finish, Held, Working
    <2> QED
      BY <1>0, <1>17, <1>u, <2>1
      DEF Finish, Release, ReleaseRaises, Counted, SlotsNeverLeak,
          InFlightBounded, Unreleased
  <1>18. CASE UNCHANGED vars
    BY <1>18, <1>d DEF vars, InFlight, poolVars
  <1>19. CASE AcceptFails
    BY <1>19, <1>d DEF AcceptFails, InFlight, poolVars
  <1> QED
    BY <1>1, <1>2, <1>3, <1>4, <1>5, <1>6, <1>7, <1>8, <1>9, <1>10, <1>11,
       <1>12, <1>13, <1>14, <1>15, <1>16, <1>17, <1>18, <1>19
    DEF Next, MainStep, WorkerStep, AcceptTimeout

LEMMA Counting == Spec => [](TypeOK /\ OwnedOnce /\ Counted)
  BY TypeInit, TypeStep, OwnedInit, OwnedStep, CountInit, CountStep, PTL DEF Spec

\* No way in which a connection can end loses its slot.
THEOREM NoSlotLeaks == Spec => []SlotsNeverLeak
  BY Counting, PTL DEF Counted

\* The cap is exceeded by at most one connection for each thread that could
\* not be started.
THEOREM BoundedInFlight == Spec => []InFlightBounded
  BY Counting, PTL DEF Counted

\* Where the system never refuses a thread, the cap holds as it is stated.
THEOREM CapHolds ==
  ASSUME MaxStartFailures = 0
  PROVE  Spec => []CapRespected
  <1>1. TypeOK /\ InFlightBounded /\ Counted => CapRespected
    <2> SUFFICES ASSUME TypeOK, InFlightBounded, Counted PROVE CapRespected
      OBVIOUS
    <2>1. failures = 0 /\ free \in 0..Slots /\ Slots \in Nat
      BY Bounds DEF TypeOK
    <2>2. Cardinality(InFlight) \in Nat
      BY FS_CardinalityType DEF Counted
    <2> QED
      BY <2>1, <2>2 DEF InFlightBounded, CapRespected, Unreleased
  <1> QED
    BY <1>1, Counting, PTL DEF Counted

-----------------------------------------------------------------------------
(* The shutdown.                                                           *)

\* How the accepting thread gets out of its loop, and what it has waited for.
Exits ==
    /\ mpc \in {"drain", "close", "closed"} => interrupts >= 1 \/ crashed
    /\ crashed => mpc \in {"drain", "close", "closed"}
    /\ OrderlyShutdown

LEMMA ExitInit == Init => Exits
  BY DEF Init, Exits, OrderlyShutdown

LEMMA ExitStep == TypeOK /\ Exits /\ [Next]_vars => Exits'
  <1> SUFFICES ASSUME TypeOK, Exits, [Next]_vars PROVE Exits'
    OBVIOUS
  <1> USE DEF Exits, OrderlyShutdown, poolVars, peerVars, exitVars
  <1>0. stage \in [Request -> Stages] /\ interrupts \in Nat /\ crashed \in BOOLEAN
    BY ServerAssumption DEF TypeOK, ServerAssumption
  \* Moves outside handle_client leave the working threads as they are.
  <1>a. ASSUME NEW c \in Request, NEW s, s \notin Working, Move(c, s)
        PROVE  Busy' \subseteq Busy
    BY <1>0, <1>a DEF Busy, Move
  <1>1. CASE Admit
    BY <1>1 DEF Admit
  <1>2. CASE Drop
    BY <1>2 DEF Drop
  <1>3. CASE HandshakeOk
    BY <1>3 DEF HandshakeOk
  <1>4. CASE HandshakeFail
    BY <1>4 DEF HandshakeFail
  <1>5. CASE Submit
    BY <1>5 DEF Submit
  <1>6. CASE Spawn
    BY <1>6 DEF Spawn
  <1>7. CASE SpawnFails
    BY <1>7 DEF SpawnFails
  <1>8. CASE Reject
    BY <1>8 DEF Reject
  <1>9. CASE Drain
    BY <1>9 DEF Drain, Drained, Busy
  <1>10. CASE Close
    <2>1. Busy' \subseteq Busy
      BY <1>0, <1>10 DEF Close, Busy, Working
    <2> QED
      BY <1>10, <2>1 DEF Close
  <1>11. CASE Interrupt
    BY <1>0, <1>11 DEF Interrupt, Looping
  <1>12. ASSUME NEW c \in Request, Connect(c) PROVE Exits'
    <2>1. Busy' \subseteq Busy
      BY <1>12, <1>a DEF Connect, Working
    <2> QED
      BY <1>12, <2>1 DEF Connect
  <1>13. ASSUME NEW c \in Request, GiveUp(c) PROVE Exits'
    BY <1>13 DEF GiveUp, Busy
  <1>14. ASSUME NEW c \in Request, Start(c) PROVE Exits'
    BY <1>14 DEF Start, Take
  <1>15. ASSUME NEW c \in Request, WorkerStep(c) PROVE Exits'
    <2>1. c \in Busy
      BY <1>15 DEF WorkerStep, Recv, Reply, Finish, Busy, Working
    <2>2. UNCHANGED <<mpc, interrupts, crashed, threads, queue>>
      BY <1>15 DEF WorkerStep, Recv, Reply, Finish
    <2> QED
      BY <2>1, <2>2
  <1>16. CASE UNCHANGED vars
    BY <1>16 DEF vars, Busy
  <1>17. CASE AcceptFails
    BY <1>17 DEF AcceptFails
  <1> QED
    BY <1>1, <1>2, <1>3, <1>4, <1>5, <1>6, <1>7, <1>8, <1>9, <1>10, <1>11,
       <1>12, <1>13, <1>14, <1>15, <1>16, <1>17 DEF Next, MainStep, AcceptTimeout

\* A single exit of the loop never cuts off a submitted request.
THEOREM Orderly == Spec => []OrderlyShutdown
  <1>1. Exits => OrderlyShutdown
    BY DEF Exits
  <1> QED
    BY <1>1, TypeInit, TypeStep, ExitInit, ExitStep, PTL DEF Spec

-----------------------------------------------------------------------------
(* Refinement.  While no start fails, the semaphore is exactly the number  *)
(* of slots that no connection holds.                                      *)

LEMMA FateOf ==
  \A s \in Stages :
    /\ Fate(s) \in {"waiting", "admitted", "refused", "over"}
    /\ Fate(s) = "waiting" <=> s \in {"absent", "backlog"}
    /\ Fate(s) = "admitted" <=> s \in Held
    /\ Fate(s) = "refused" <=> s = "dropped"
  BY DEF Fate, Stages, Held, Working, Settled

\* The inductive invariant, and what it says where no start has failed.
Exact ==
    /\ TypeOK /\ OwnedOnce /\ Counted
    /\ mpc # "reject"
    /\ mpc # "closed" => free + Cardinality(InFlight) = Slots

LEMMA Exactness ==
  ASSUME MaxStartFailures = 0
  PROVE  Spec => []Exact
  <1> DEFINE Inv == TypeOK /\ OwnedOnce /\ Counted
             NoReject == mpc # "reject"
  <1>1. Init => NoReject
    BY DEF Init
  <1>2. TypeOK /\ NoReject /\ [Next]_vars => NoReject'
    <2> SUFFICES ASSUME TypeOK, NoReject, [Next]_vars PROVE NoReject'
      OBVIOUS
    <2>1. failures = 0
      BY DEF TypeOK
    <2>2. ~SpawnFails
      BY <2>1 DEF SpawnFails, StartFails
    <2> QED
      BY <2>2 DEF Next, MainStep, WorkerStep, AcceptTimeout, AcceptFails, vars, Admit, Drop,
         HandshakeOk, HandshakeFail, Submit, Spawn, Reject, Drain, Close,
         Interrupt, Connect, GiveUp, Start, Recv, Reply, Finish
  <1>3. Inv /\ NoReject => Exact
    <2> SUFFICES ASSUME Inv, NoReject PROVE Exact
      OBVIOUS
    <2>1. failures = 0 /\ free \in 0..Slots /\ Slots \in Nat
      BY Bounds DEF TypeOK
    <2>2. Cardinality(InFlight) \in Nat
      BY FS_CardinalityType DEF Counted
    <2> QED
      BY <2>1, <2>2 DEF Exact, Counted, SlotsNeverLeak, InFlightBounded, Unreleased
  <1>4. Spec => []Inv
    BY Counting
  <1> HIDE DEF Inv, NoReject
  <1>5. Spec => []NoReject
    BY <1>1, <1>2, TypeCorrect, PTL DEF Spec
  <1> QED
    BY <1>3, <1>4, <1>5, PTL

\* The abstract specification counts as this one does.
LEMMA SameCount == \A S : Abstract!Cardinality(S) = Cardinality(S)
  BY Zenon DEF Abstract!Cardinality, Cardinality, Abstract!IsFiniteSet, IsFiniteSet

LEMMA RefineInit == Init => Abstract!AInit
  <1>1. Fate("absent") = "waiting"
    BY FateOf DEF Stages
  <1>2. ASSUME Init PROVE [c \in Request |-> Fate(stage[c])] = [c \in Request |-> "waiting"]
    BY <1>1, <1>2 DEF Init
  <1> QED
    BY <1>2 DEF Init, Abstract!AInit

LEMMA RefineStep ==
  Exact /\ Exact' /\ [Next]_vars => [Abstract!ANext]_(Abstract!avars)
  <1> SUFFICES ASSUME Exact, Exact', [Next]_vars
               PROVE  Abstract!ANext \/ UNCHANGED Abstract!avars
    OBVIOUS
  <1> DEFINE fates == [c \in Request |-> Fate(stage[c])]
  <1> USE DEF poolVars, peerVars, exitVars
  <1>0. /\ stage \in [Request -> Stages]
        /\ backlog \in Seq(Request) /\ queue \in Seq(Request) /\ cur \in Request
        /\ free \in 0..Slots /\ Slots \in Nat /\ OwnedOnce
        /\ mpc # "reject" /\ mpc # "closed" => free + Cardinality(InFlight) = Slots
        /\ IsFiniteSet(InFlight) /\ Cardinality(InFlight) \in Nat
    BY Bounds, FS_CardinalityType DEF Exact, TypeOK, Counted
  <1>1. Abstract!Admitted = InFlight
    BY <1>0, FateOf DEF Abstract!Admitted, InFlight, HeldBy
  \* A move changes the fate of one connection at most.
  <1>2. ASSUME NEW c \in Request, NEW s \in Stages, Move(c, s)
        PROVE  fates' = [fates EXCEPT ![c] = Fate(s)]
    BY <1>0, <1>2 DEF Move
  <1>3. ASSUME NEW c \in Request, NEW s \in Stages, Move(c, s),
               Fate(s) = Fate(stage[c]), mpc # "closed" <=> mpc' # "closed"
        PROVE  UNCHANGED Abstract!avars
    BY <1>2, <1>3 DEF Abstract!avars
  <1>4. ASSUME NEW c \in Request, NEW s \in Stages, Move(c, s),
               stage[c] \in Held, Fate(s) = "over",
               mpc # "closed" <=> mpc' # "closed"
        PROVE  Abstract!ANext
    <2>1. Abstract!Settle(c)
      BY <1>0, <1>2, <1>4, FateOf DEF Abstract!Settle
    <2> QED
      BY <2>1 DEF Abstract!ANext
  <1>5. ASSUME UNCHANGED stage, mpc # "closed" <=> mpc' # "closed"
        PROVE  UNCHANGED Abstract!avars
    BY <1>5 DEF Abstract!avars
  <1>6. Fate("handshake") = "admitted" /\ Fate("dropped") = "refused"
    BY DEF Fate, Held
  <1>7. Fate("tlsfailed") = "over" /\ Fate("answered") = "over"
        /\ Fate("failed") = "over" /\ Fate("reset") = "over"
    BY DEF Fate, Held, Working
  <1>8. ASSUME NEW s \in Held, NEW t \in Held PROVE Fate(s) = Fate(t)
    <2>1. s \in Stages /\ t \in Stages
      BY DEF Stages
    <2> QED
      BY <2>1, FateOf
  <1> USE DEF Stages, Held, Working, Settled
  <1>11. CASE Admit
    <2> DEFINE c == Head(backlog)
    <2>1. c \in Request /\ stage[c] = "backlog"
      BY <1>0, <1>11, LineTail DEF Admit, OwnedOnce
    <2>2. fates[c] = "waiting"
      BY <2>1, FateOf
    <2>3. fates' = [fates EXCEPT ![c] = "admitted"]
      BY <1>2, <1>6, <1>11, <2>1 DEF Admit
    <2>4. Cardinality(Abstract!Admitted) < Slots
      BY <1>0, <1>1, <1>11 DEF Admit, Acquire
    <2>5. mpc # "closed" /\ mpc' # "closed"
      BY <1>11 DEF Admit
    <2>6. Abstract!AdmitOne(c)
      BY <2>2, <2>3, <2>4, <2>5, SameCount DEF Abstract!AdmitOne
    <2> QED
      BY <2>1, <2>6 DEF Abstract!ANext
  <1>12. CASE Drop
    <2> DEFINE c == Head(backlog)
    <2>1. c \in Request /\ stage[c] = "backlog"
      BY <1>0, <1>12, LineTail DEF Drop, OwnedOnce
    <2>2. fates[c] = "waiting"
      BY <2>1, FateOf
    <2>3. fates' = [fates EXCEPT ![c] = "refused"]
      BY <1>2, <1>6, <1>12, <2>1 DEF Drop
    <2>4. Cardinality(Abstract!Admitted) = Slots
      BY <1>0, <1>1, <1>12 DEF Drop
    <2>5. mpc # "closed" /\ mpc' # "closed"
      BY <1>12 DEF Drop
    <2>6. Abstract!RefuseOne(c)
      BY <2>2, <2>3, <2>4, <2>5, SameCount DEF Abstract!RefuseOne
    <2> QED
      BY <2>1, <2>6 DEF Abstract!ANext
  <1>13. CASE HandshakeOk
    BY <1>0, <1>3, <1>8, <1>13 DEF HandshakeOk, OwnedOnce
  <1>14. CASE HandshakeFail
    BY <1>0, <1>4, <1>7, <1>14 DEF HandshakeFail, OwnedOnce
  <1>15. CASE Submit
    BY <1>0, <1>3, <1>8, <1>15 DEF Submit, OwnedOnce
  <1>16. CASE Spawn \/ SpawnFails \/ Drain \/ Interrupt \/ AcceptFails
    BY <1>0, <1>5, <1>16 DEF Spawn, SpawnFails, Drain, Interrupt, AcceptFails, Looping
  <1>17. CASE Reject
    BY <1>0, <1>17 DEF Reject, Exact
  <1>18. CASE Close
    <2> DEFINE cut == {r \in Request : Cut(r)}
    <2>1. cut \in SUBSET {r \in Request : fates[r] \in {"waiting", "admitted"}}
      BY <1>0, FateOf DEF Cut
    <2>2. fates' = [r \in Request |-> IF r \in cut THEN "over" ELSE fates[r]]
      BY <1>7, <1>18 DEF Close
    <2>3. Abstract!Return
      BY <1>18, <2>1, <2>2 DEF Close, Abstract!Return
    <2> QED
      BY <2>3 DEF Abstract!ANext
  <1>19. ASSUME NEW c \in Request, Connect(c) PROVE UNCHANGED Abstract!avars
    <2>1. Fate("backlog") = Fate("absent")
      BY DEF Fate
    <2> QED
      BY <1>3, <1>19, <2>1 DEF Connect
  <1>20. ASSUME NEW c \in Request, GiveUp(c) PROVE UNCHANGED Abstract!avars
    BY <1>5, <1>20 DEF GiveUp
  <1>21. ASSUME NEW c \in Request, Start(c) PROVE UNCHANGED Abstract!avars
    <2>1. stage[c] = "queued"
      BY <1>0, <1>21, LineTail DEF Start, Take, OwnedOnce
    <2> QED
      BY <1>3, <1>8, <1>21, <2>1 DEF Start, Take, Move
  <1>22. ASSUME NEW c \in Request, Recv(c) PROVE UNCHANGED Abstract!avars
    BY <1>3, <1>8, <1>22 DEF Recv
  <1>23. ASSUME NEW c \in Request, Reply(c) PROVE UNCHANGED Abstract!avars
    BY <1>3, <1>8, <1>23 DEF Reply
  <1>24. ASSUME NEW c \in Request, Finish(c) PROVE Abstract!ANext
    BY <1>4, <1>7, <1>24 DEF Finish
  <1>25. CASE UNCHANGED vars
    BY <1>5, <1>25 DEF vars
  <1> QED
    BY <1>11, <1>12, <1>13, <1>14, <1>15, <1>16, <1>17, <1>18, <1>19, <1>20,
       <1>21, <1>22, <1>23, <1>24, <1>25
    DEF Next, MainStep, WorkerStep, AcceptTimeout

\* As long as every thread starts, the server is an admission control of
\* exactly Slots slots, for every number of connections and workers.
THEOREM Refinement ==
  ASSUME MaxStartFailures = 0
  PROVE  Spec => ImplementsAdmission
  <1>1. Spec => []Exact
    BY Exactness
  <1> QED
    BY <1>1, RefineInit, RefineStep, PTL
    DEF Spec, ImplementsAdmission, Abstract!ASpec
=============================================================================
