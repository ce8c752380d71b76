-------------------------- MODULE MonitorJobsProofs --------------------------
(***************************************************************************)
(* Theorems about MonitorJobs and the client it starts, for any number of  *)
(* clients, rounds, stress tests and captures: the results that are saved, *)
(* the metrics that are shown, the reports of failures that are counted    *)
(* and the buttons of a capture.                                           *)
(***************************************************************************)
EXTENDS MonitorJobs, ClientSessionProofs

\* The callback of a stress test: there is one at most, and until it has run
\* its program and its file stay as they are.
StressOrder ==
    /\ \A i, j \in 1..Len(pending) : pending[i][1] = "stress" /\ pending[j][1] = "stress" => i = j
    /\ \A i \in 1..Len(pending) : pending[i][1] = "stress" =>
        spc = "dead" /\ ~sstart /\ pc = "exited" /\ pending[i][2] = code
    /\ sstart => spc = "dead"
    /\ spc \in {"popen", "read"} => sstatus = "Running"
    /\ sstatus = "completed" => pc = "exited"
    /\ MetricsAreOfThisTest

\* The last callback of a capture has no other of it behind it.
ProofOrder ==
    /\ ProofButtons
    /\ ppc = "ask" => pround < ProofRounds
    /\ \A i \in 1..Len(pending) : pending[i][1] = "finished" =>
        /\ ppc = "dead" /\ ~pstart
        /\ \A j \in i + 1..Len(pending) : pending[j][1] \in {"stress", "live"}

Inv == TypeOK /\ Threads /\ Started /\ Collected /\ Reported /\ StressOrder /\ ProofOrder /\ ReportsCountedOnce

-----------------------------------------------------------------------------
(* The queue of callbacks.                                                 *)

Calls ==
    ({"stress"} \X {0, 1}) \cup ({"sample", "failed", "finished", "live"} \X (0..ProofRounds))

LEMMA Posting ==
  ASSUME NEW S, pending \in Seq(S), NEW call, Post(call)
  PROVE  /\ call \in S => pending' \in Seq(S)
         /\ Len(pending) \in Nat /\ Len(pending') = Len(pending) + 1
         /\ \A i \in 1..Len(pending) : pending'[i] = pending[i]
         /\ pending'[Len(pending) + 1] = call
  BY DEF Post

LEMMA Running ==
  ASSUME NEW S, pending \in Seq(S), NEW call, Callback(call)
  PROVE  /\ pending' \in Seq(S)
         /\ Len(pending) \in Nat \ {0} /\ Len(pending') = Len(pending) - 1
         /\ \A i \in 1..Len(pending') : pending'[i] = pending[i + 1]
         /\ pending[1] = call
  BY DEF Callback

\* The positions of the failures in a queue, and how their number changes.
Failure == {"failed", "live"}
FailedIn(q) == {i \in 1..Len(q) : q[i][1] \in Failure}

LEMMA FailedFinite ==
  ASSUME NEW S, NEW q \in Seq(S)
  PROVE  IsFiniteSet(FailedIn(q)) /\ Cardinality(FailedIn(q)) \in Nat
  <1>1. IsFiniteSet(1..Len(q))
    BY FS_Interval
  <1>2. FailedIn(q) \subseteq 1..Len(q)
    BY DEF FailedIn
  <1> QED
    BY <1>1, <1>2, FS_Subset, FS_CardinalityType

LEMMA FailedAppended ==
  ASSUME NEW S, NEW q \in Seq(S), NEW call
  PROVE  Cardinality(FailedIn(Append(q, call)))
           = Cardinality(FailedIn(q)) + IF call[1] \in Failure THEN 1 ELSE 0
  <1>1. /\ Len(q) \in Nat /\ Len(Append(q, call)) = Len(q) + 1
        /\ \A i \in 1..Len(q) : Append(q, call)[i] = q[i]
        /\ Append(q, call)[Len(q) + 1] = call
    OBVIOUS
  <1>2. CASE call[1] \in Failure
    <2>1. FailedIn(Append(q, call)) = FailedIn(q) \cup {Len(q) + 1} /\ Len(q) + 1 \notin FailedIn(q)
      BY <1>1, <1>2 DEF FailedIn
    <2> QED
      BY <1>2, <2>1, FailedFinite, FS_AddElement
  <1>3. CASE call[1] \notin Failure
    <2>1. FailedIn(Append(q, call)) = FailedIn(q)
      BY <1>1, <1>3 DEF FailedIn
    <2> QED
      BY <1>3, <2>1, FailedFinite
  <1> QED
    BY <1>2, <1>3

LEMMA FailedRun ==
  ASSUME NEW S, NEW q \in Seq(S), q # <<>>
  PROVE  Cardinality(FailedIn(q))
           = Cardinality(FailedIn(Tail(q))) + IF Head(q)[1] \in Failure THEN 1 ELSE 0
  <1> DEFINE t == Tail(q)
             f == [i \in FailedIn(t) |-> i + 1]
  <1>1. /\ Len(q) \in Nat \ {0} /\ Len(t) = Len(q) - 1 /\ t \in Seq(S)
        /\ \A i \in 1..Len(t) : t[i] = q[i + 1]
        /\ Head(q) = q[1]
    OBVIOUS
  <1> HIDE DEF t
  <1>2. f \in Bijection(FailedIn(t), FailedIn(q) \ {1})
    <2>1. f \in [FailedIn(t) -> FailedIn(q) \ {1}]
      BY <1>1 DEF FailedIn
    <2>2. \A i, j \in FailedIn(t) : f[i] = f[j] => i = j
      BY DEF FailedIn
    <2>3. ASSUME NEW k \in FailedIn(q) \ {1} PROVE \E i \in FailedIn(t) : f[i] = k
      <3>1. k - 1 \in FailedIn(t) /\ (k - 1) + 1 = k
        BY <1>1, <2>3 DEF FailedIn
      <3> QED
        BY <3>1
    <2> QED
      BY <2>1, <2>2, <2>3, Fun_IsBij
  <1>3. Cardinality(FailedIn(q) \ {1}) = Cardinality(FailedIn(t))
    <2>1. ExistsBijection(FailedIn(t), FailedIn(q) \ {1})
      BY <1>2 DEF ExistsBijection
    <2>2. IsFiniteSet(FailedIn(t))
      BY <1>1, FailedFinite
    <2> QED
      BY <2>1, <2>2, FS_Bijection
  <1>4. 1 \in FailedIn(q) <=> Head(q)[1] \in Failure
    BY <1>1 DEF FailedIn
  <1>5. Cardinality(FailedIn(q) \ {1})
          = IF 1 \in FailedIn(q) THEN Cardinality(FailedIn(q)) - 1 ELSE Cardinality(FailedIn(q))
    BY FailedFinite, FS_RemoveElement
  <1> QED
    BY <1>3, <1>4, <1>5, FailedFinite DEF t

-----------------------------------------------------------------------------
(* The client's part.                                                      *)

LEMMA ClientSteps == [Next]_vars => [ClientNext]_cvars
  <1> SUFFICES ASSUME [Next]_vars PROVE [ClientNext]_cvars
    OBVIOUS
  <1>1. CASE ClientRuns
    <2>1. CASE \E c \in Client : RoundOk(c) \/ SessionReturns(c) \/ RoundFails(c, FALSE) \/ RoundFails(c, TRUE)
      BY <2>1 DEF ClientNext, SessionStep
    <2>2. CASE MainStep
      BY <2>2 DEF ClientNext
    <2> QED
      BY <1>1, <2>1, <2>2 DEF ClientRuns, MainStep
  <1>2. CASE Popen
    BY <1>2 DEF Popen, ClientNext
  <1>3. CASE ReadLine
    BY <1>3 DEF ReadLine, ClientNext, StdoutRead
  <1>4. CASE StartStress \/ PopenFails \/ StressEnds
    BY <1>4 DEF StartStress, PopenFails, StressEnds
  <1>5. CASE StartProof \/ StopProof \/ ProofThread
    BY <1>5 DEF StartProof, StopProof, ProofThread, LoadCertificate, ProofRoundBegins, ProofRound, ProofLoopEnds
  <1>6. CASE MainLoop
    BY <1>6 DEF MainLoop, DrainLogQueue, ProofFinished, FinishStress, AppendProofSample, ProofRoundFailed,
       LiveTimeFailed
  <1>7. CASE Idle \/ ServerLogs \/ LiveTimeFails \/ UNCHANGED vars
    BY <1>7 DEF Idle, ServerLogs, LiveTimeFails, vars
  <1> QED
    BY <1>1, <1>2, <1>3, <1>4, <1>5, <1>6, <1>7 DEF Next, StressThread

\* Every report of a TLS failure keeps being counted once.
LEMMA CountedStep == TypeOK /\ Threads /\ Reported /\ ReportsCountedOnce /\ [Next]_vars => ReportsCountedOnce'
  <1> SUFFICES ASSUME TypeOK, Threads, Reported, ReportsCountedOnce, [Next]_vars PROVE ReportsCountedOnce'
    OBVIOUS
  <1> DEFINE F == Cardinality(FailedIn(pending))
             E == Cardinality(errors)
  <1>q. pending \in Seq(Calls)
    BY DEF TypeOK, Calls
  <1>e. IsFiniteSet(errors) /\ errors \subseteq Client /\ E \in Nat
    <2>1. IsFiniteSet(Client)
      BY ClientAssumption, FS_Interval DEF Client, ClientAssumption
    <2>2. errors \subseteq Client
      BY DEF TypeOK, ClientTypeOK
    <2> QED
      BY <2>1, <2>2, FS_Subset, FS_CardinalityType
  <1>t. /\ kpi \in Nat /\ stdout \in Nat /\ reports \in Nat /\ F \in Nat
        /\ log \in [stress : Nat, server : Nat, client : Nat]
    BY <1>q, FailedFinite DEF TypeOK, ClientTypeOK
  <1>c. kpi + stdout + log.stress + log.server + E + F = reports
    BY DEF ReportsCountedOnce, FailedCallbacks, FailedIn, Failure
  <1>p. ASSUME kpi' + stdout' + log'.stress + log'.server + E' + F' = reports' PROVE ReportsCountedOnce'
    BY <1>p DEF ReportsCountedOnce, FailedCallbacks, FailedIn, Failure
  <1>a. ASSUME NEW call, Post(call) PROVE F' = F + IF call[1] \in Failure THEN 1 ELSE 0
    BY <1>a, <1>q, FailedAppended DEF Post
  <1>b. ASSUME NEW call, Callback(call) PROVE F = F' + (IF call[1] \in Failure THEN 1 ELSE 0) /\ F' \in Nat
    <2>1. pending' \in Seq(Calls)
      BY <1>b, <1>q, Running
    <2> QED
      BY <1>b, <1>q, <2>1, FailedRun, FailedFinite DEF Callback
  <1>f. UNCHANGED pending => F' = F
    OBVIOUS
  <1>z. errors' = {} => E' = 0
    BY FS_EmptySet
  <1>y. errors' = errors => E' = E
    OBVIOUS
  <1> HIDE DEF F, E
  <1> USE DEF logVars, stressVars, proofVars, cvars, progVars, sessionVars, reported, Failure
  <1>1. CASE ClientRuns
    <2>0. UNCHANGED <<kpi, log>> /\ F' = F
      BY <1>1, <1>f DEF ClientRuns
    <2>1. CASE (Launch \/ MainRaises \/ SingleReturns \/ SaveOpens) /\ UNCHANGED reports
      BY <1>c, <1>p, <1>y, <2>0, <2>1 DEF Launch, MainRaises, SingleReturns, SaveOpens
    <2>2. CASE (Join \/ SingleFails) /\ UNCHANGED reports
      <3>1. stdout' = stdout + E /\ errors' = {}
        BY <2>2 DEF Join, SingleFails, Exit, E
      <3> QED
        BY <1>c, <1>e, <1>p, <1>t, <1>z, <2>0, <2>2, <3>1
    <2>3. CASE (SaveWrites \/ SaveFails) /\ UNCHANGED reports
      <3>1. errors = {} /\ errors' = {} /\ UNCHANGED stdout
        BY <2>3 DEF SaveWrites, SaveFails, Exit, Reported
      <3> QED
        BY <1>c, <1>p, <1>y, <2>0, <2>3, <3>1
    <2>4. CASE Die /\ reports' = reports - Cardinality(errors)
      <3>1. errors' = {} /\ UNCHANGED stdout /\ reports' = reports - E
        BY <2>4 DEF Die, Exit, E
      <3> QED
        BY <1>c, <1>e, <1>p, <1>t, <1>z, <2>0, <3>1
    <2>5. ASSUME NEW c \in Client, RoundOk(c) \/ SessionReturns(c) \/ RoundFails(c, FALSE),
                 UNCHANGED reports
          PROVE  ReportsCountedOnce'
      <3>1. UNCHANGED <<errors, stdout>>
        BY <2>5 DEF RoundOk, SessionReturns, RoundFails
      <3> QED
        BY <1>c, <1>p, <1>y, <2>0, <2>5, <3>1
    <2>6. ASSUME NEW c \in Client, RoundFails(c, TRUE), reports' = reports + 1
          PROVE  ReportsCountedOnce'
      <3>1. errors' = errors \cup {c} /\ c \notin errors /\ UNCHANGED stdout
        BY <2>6 DEF RoundFails, Reported
      <3>2. E' = E + 1
        BY <1>e, <3>1, FS_AddElement DEF E
      <3> QED
        BY <1>c, <1>e, <1>p, <1>t, <2>0, <2>6, <3>1, <3>2
    <2> QED
      BY <1>1, <2>1, <2>2, <2>3, <2>4, <2>5, <2>6 DEF ClientRuns
  <1>2. CASE Popen
    <2>1. errors = {} /\ errors' = {} /\ UNCHANGED <<stdout, kpi, log, reports, pending>>
      BY <1>2 DEF Popen, Begin, Reported
    <2> QED
      BY <1>c, <1>f, <1>p, <1>y, <2>1
  <1>3. CASE ReadLine
    <2>1. /\ stdout' = stdout - 1 /\ log'.stress = log.stress + 1 /\ log'.server = log.server
          /\ UNCHANGED <<kpi, errors, reports, pending>>
      BY <1>3, <1>t DEF ReadLine
    <2> QED
      BY <1>c, <1>e, <1>f, <1>p, <1>t, <1>y, <2>1
  <1>4. CASE StartStress \/ PopenFails \/ StartProof \/ StopProof \/ LoadCertificate
             \/ ProofRoundBegins \/ Idle \/ UNCHANGED vars
    <2>1. UNCHANGED <<stdout, kpi, log, errors, reports, pending>>
      BY <1>4 DEF StartStress, PopenFails, StartProof, StopProof, LoadCertificate,
         ProofRoundBegins, Idle, vars
    <2> QED
      BY <1>c, <1>f, <1>p, <1>y, <2>1
  <1>5. ASSUME NEW call, Post(call), call[1] \notin Failure, UNCHANGED <<stdout, kpi, log, errors, reports>>
        PROVE  ReportsCountedOnce'
    <2>1. F' = F
      BY <1>5, <1>a, <1>t
    <2> QED
      BY <1>5, <1>c, <1>p, <1>y, <2>1
  <1>6. ASSUME NEW call, Callback(call), call[1] \notin Failure, UNCHANGED <<stdout, kpi, log, errors, reports>>
        PROVE  ReportsCountedOnce'
    <2>1. F' = F
      BY <1>6, <1>b, <1>t
    <2> QED
      BY <1>6, <1>c, <1>p, <1>y, <2>1
  <1>7. CASE StressEnds \/ ProofLoopEnds
    BY <1>5, <1>7 DEF StressEnds, ProofLoopEnds
  <1>8. ASSUME NEW ok \in BOOLEAN, ProofRound(ok) PROVE ReportsCountedOnce'
    <2>1. CASE ok
      BY <1>5, <1>8, <2>1 DEF ProofRound
    <2>2. CASE ~ok
      <3>1. Post(<<"failed", pround'>>) /\ reports' = reports + 1 /\ UNCHANGED <<stdout, kpi, log, errors>>
        BY <1>8, <2>2 DEF ProofRound
      <3>2. F' = F + 1
        BY <1>a, <3>1
      <3> QED
        BY <1>c, <1>e, <1>p, <1>t, <1>y, <3>1, <3>2
    <2> QED
      BY <2>1, <2>2
  <1>9. CASE ProofFinished \/ \E exit \in {0, 1} : FinishStress(exit)
    BY <1>6, <1>9 DEF ProofFinished, FinishStress
  <1>10. ASSUME NEW r \in 1..ProofRounds, AppendProofSample(r) PROVE ReportsCountedOnce'
    BY <1>6, <1>10 DEF AppendProofSample
  <1>11. ASSUME NEW r \in 1..ProofRounds, ProofRoundFailed(r) PROVE ReportsCountedOnce'
    <2>1. /\ kpi' = kpi + 1 /\ log'.stress = log.stress /\ log'.server = log.server
          /\ UNCHANGED <<stdout, errors, reports>> /\ Callback(<<"failed", r>>)
      BY <1>11, <1>t DEF ProofRoundFailed, RecordTlsClientFailure
    <2>2. F = F' + 1 /\ F' \in Nat
      BY <1>b, <2>1
    <2> QED
      BY <1>c, <1>e, <1>p, <1>t, <1>y, <2>1, <2>2
  <1>12. CASE DrainLogQueue
    <2>1. kpi' = kpi + log.server + log.stress /\ log'.stress = 0 /\ log'.server = 0
          /\ UNCHANGED <<stdout, errors, reports, pending>>
      BY <1>12, <1>t DEF DrainLogQueue, Counted
    <2> QED
      BY <1>c, <1>e, <1>f, <1>p, <1>t, <1>y, <2>1
  <1>13. CASE ServerLogs
    <2>1. /\ log'.server = log.server + 1 /\ log'.stress = log.stress /\ reports' = reports + 1
          /\ UNCHANGED <<stdout, kpi, errors, pending>>
      BY <1>13, <1>t DEF ServerLogs
    <2> QED
      BY <1>c, <1>e, <1>f, <1>p, <1>t, <1>y, <2>1
  <1>14. CASE LiveTimeFails
    <2>1. Post(<<"live", 0>>) /\ reports' = reports + 1 /\ UNCHANGED <<stdout, kpi, log, errors>>
      BY <1>14 DEF LiveTimeFails
    <2>2. F' = F + 1
      BY <1>a, <2>1
    <2> QED
      BY <1>c, <1>e, <1>p, <1>t, <1>y, <2>1, <2>2
  <1>15. CASE LiveTimeFailed
    <2>1. /\ kpi' = kpi + 1 /\ log'.stress = log.stress /\ log'.server = log.server
          /\ UNCHANGED <<stdout, errors, reports>> /\ Callback(<<"live", 0>>)
      BY <1>15, <1>t DEF LiveTimeFailed, RecordTlsClientFailure
    <2>2. F = F' + 1 /\ F' \in Nat
      BY <1>b, <2>1
    <2> QED
      BY <1>c, <1>e, <1>p, <1>t, <1>y, <2>1, <2>2
  <1> QED
    BY <1>1, <1>2, <1>3, <1>4, <1>7, <1>8, <1>9, <1>10, <1>11, <1>12, <1>13, <1>14, <1>15
    DEF Next, StressThread, ProofThread, MainLoop

-----------------------------------------------------------------------------
(* Types.                                                                  *)

LEMMA TypeInit == Init => TypeOK
  <1> SUFFICES ASSUME Init PROVE TypeOK
    OBVIOUS
  <1>1. ClientTypeOK
    BY ClientBegins DEF Init
  <1>2. pround \in 0..ProofRounds /\ captures \in 0..MaxCaptures /\ others \in 0..MaxOthers
    BY JobsAssumption DEF Init, JobsAssumption
  <1>3. log \in [stress : Nat, server : Nat, client : Nat]
    BY DEF Init
  <1>4. pending \in Seq(Calls)
    BY DEF Init
  <1> QED
    BY <1>1, <1>2, <1>3, <1>4 DEF Init, TypeOK, Calls, NoSamples

LEMMA TypeStep == TypeOK /\ Threads /\ ProofOrder /\ ReportsCountedOnce' /\ [Next]_vars => TypeOK'
  <1> SUFFICES ASSUME TypeOK, Threads, ProofOrder, ReportsCountedOnce', [Next]_vars PROVE TypeOK'
    OBVIOUS
  <1>c. ClientTypeOK'
    BY ClientSteps, ClientTypeStep DEF TypeOK
  <1>q. pending \in Seq(Calls) /\ ProofRounds \in Nat \ {0} /\ MaxCaptures \in Nat /\ MaxOthers \in Nat
    BY JobsAssumption DEF TypeOK, Calls, JobsAssumption
  <1>t. ASSUME pending' \in Seq(Calls), log' \in [stress : Nat, server : Nat, client : Nat], kpi' \in Nat,
               spc' \in {"dead", "popen", "read", "lost"}, sstart' \in BOOLEAN,
               sstatus' \in {"Idle", "Running", "completed", "failed"}, shown' \in Nat \cup {NoSamples},
               ppc' \in {"dead", "load", "round", "ask", "lost"}, pround' \in 0..ProofRounds,
               pstop' \in BOOLEAN, pstart' \in BOOLEAN, pstopbtn' \in BOOLEAN,
               pstatus' \in {"Idle", "Running", "Stopping", "stopped", "completed"},
               captures' \in 0..MaxCaptures, others' \in 0..MaxOthers
        PROVE  TypeOK'
    <2>1. stdout' \in Nat /\ errors' \subseteq Client
      BY <1>c DEF ClientTypeOK
    <2>2. Cardinality(errors') \in Nat
      <3>1. IsFiniteSet(Client)
        BY ClientAssumption, FS_Interval DEF Client, ClientAssumption
      <3> QED
        BY <2>1, <3>1, FS_Subset, FS_CardinalityType
    <2>3. Cardinality(FailedIn(pending')) \in Nat
      BY <1>t, FailedFinite
    <2>4. kpi' + stdout' + log'.stress + log'.server + Cardinality(errors') + Cardinality(FailedIn(pending')) = reports'
      BY DEF ReportsCountedOnce, FailedCallbacks, FailedIn, Failure
    <2>5. reports' \in Nat
      <3>1. kpi' \in Nat /\ log'.stress \in Nat /\ log'.server \in Nat
        BY <1>t
      <3> QED
        BY <2>1, <2>2, <2>3, <2>4, <3>1
    <2> QED
      BY <1>t, <1>c, <2>5 DEF TypeOK, Calls
  <1>v. /\ log \in [stress : Nat, server : Nat, client : Nat] /\ kpi \in Nat
        /\ spc \in {"dead", "popen", "read", "lost"} /\ sstart \in BOOLEAN
        /\ sstatus \in {"Idle", "Running", "completed", "failed"} /\ shown \in Nat \cup {NoSamples}
        /\ ppc \in {"dead", "load", "round", "ask", "lost"} /\ pround \in 0..ProofRounds
        /\ pstop \in BOOLEAN /\ pstart \in BOOLEAN /\ pstopbtn \in BOOLEAN
        /\ pstatus \in {"Idle", "Running", "Stopping", "stopped", "completed"}
        /\ captures \in 0..MaxCaptures /\ others \in 0..MaxOthers
    BY DEF TypeOK
  <1>w. ClientTypeOK
    BY DEF TypeOK
  <1> USE <1>q, <1>v DEF logVars, stressVars, proofVars, reported
  <1>1. CASE StartStress \/ Popen \/ PopenFails \/ ClientRuns
    <2>1. CASE StartStress
      BY <1>t, <2>1 DEF StartStress
    <2>2. CASE Popen
      BY <1>t, <2>2 DEF Popen
    <2>3. CASE PopenFails
      BY <1>t, <2>3 DEF PopenFails
    <2>4. CASE ClientRuns
      BY <1>t, <2>4 DEF ClientRuns
    <2> QED
      BY <1>1, <2>1, <2>2, <2>3, <2>4
  <1>2. CASE ReadLine
    BY <1>t, <1>2 DEF ReadLine
  <1>3. CASE StressEnds
    <2>1. <<"stress", code>> \in Calls
      BY <1>w DEF Calls, ClientTypeOK
    <2>2. pending' \in Seq(Calls)
      BY <1>3, <2>1, Posting DEF StressEnds
    <2> QED
      BY <1>t, <1>3, <2>2 DEF StressEnds
  <1>4. CASE StartProof
    <2>1. captures' \in 0..MaxCaptures /\ pround' \in 0..ProofRounds
      BY <1>4 DEF StartProof
    <2>2. /\ pending' = pending /\ log' = log /\ kpi' = kpi /\ others' = others
          /\ spc' = spc /\ sstart' = sstart /\ sstatus' = sstatus /\ shown' = shown
      BY <1>4 DEF StartProof
    <2>3. ppc' = "load" /\ pstop' = FALSE /\ pstart' = FALSE /\ pstopbtn' = TRUE /\ pstatus' = "Running"
      BY <1>4 DEF StartProof
    <2> QED
      BY <1>t, <2>1, <2>2, <2>3
  <1>5. CASE StopProof
    <2>1. /\ pending' = pending /\ log' = log /\ kpi' = kpi /\ others' = others
          /\ spc' = spc /\ sstart' = sstart /\ sstatus' = sstatus /\ shown' = shown
      BY <1>5 DEF StopProof
    <2>2. /\ ppc' = ppc /\ pround' = pround /\ captures' = captures
          /\ pstop' = TRUE /\ pstart' = pstart /\ pstopbtn' = pstopbtn /\ pstatus' = "Stopping"
      BY <1>5 DEF StopProof
    <2> QED
      BY <1>t, <2>1, <2>2
  <1>5b. CASE LoadCertificate \/ ProofRoundBegins
    <2>1. /\ pending' = pending /\ log' = log /\ kpi' = kpi /\ others' = others
          /\ spc' = spc /\ sstart' = sstart /\ sstatus' = sstatus /\ shown' = shown
      BY <1>5b DEF LoadCertificate, ProofRoundBegins
    <2>2. /\ ppc' \in {"round", "lost", "ask"} /\ pround' = pround /\ captures' = captures
          /\ pstop' = pstop /\ pstart' = pstart /\ pstopbtn' = pstopbtn /\ pstatus' = pstatus
      BY <1>5b DEF LoadCertificate, ProofRoundBegins
    <2> QED
      BY <1>t, <2>1, <2>2
  <1>6. ASSUME NEW ok \in BOOLEAN, ProofRound(ok) PROVE TypeOK'
    <2>1. pround' \in 0..ProofRounds /\ Post(<<IF ok THEN "sample" ELSE "failed", pround'>>)
      BY <1>6 DEF ProofRound, ProofOrder
    <2>2. <<IF ok THEN "sample" ELSE "failed", pround'>> \in Calls
      BY <2>1 DEF Calls
    <2>3. pending' \in Seq(Calls)
      BY <2>1, <2>2, Posting
    <2> QED
      BY <1>t, <1>6, <2>1, <2>3 DEF ProofRound
  <1>7. CASE ProofLoopEnds
    <2>1. <<"finished", 0>> \in Calls
      BY DEF Calls
    <2>2. pending' \in Seq(Calls)
      BY <1>7, <2>1, Posting DEF ProofLoopEnds
    <2> QED
      BY <1>t, <1>7, <2>2 DEF ProofLoopEnds
  <1>8. ASSUME NEW exit \in {0, 1}, FinishStress(exit) PROVE TypeOK'
    <2>1. pending' \in Seq(Calls)
      BY <1>8, Running DEF FinishStress
    <2>2. shown' \in Nat \cup {NoSamples}
      BY <1>w, <1>8 DEF FinishStress, ClientTypeOK
    <2> QED
      BY <1>t, <1>8, <2>1, <2>2 DEF FinishStress
  <1>9. CASE ProofFinished
    <2>1. pending' \in Seq(Calls)
      BY <1>9, Running DEF ProofFinished
    <2> QED
      BY <1>t, <1>9, <2>1 DEF ProofFinished
  <1>10. ASSUME NEW r \in 1..ProofRounds, AppendProofSample(r) \/ ProofRoundFailed(r) PROVE TypeOK'
    <2>1. pending' \in Seq(Calls)
      BY <1>10, Running DEF AppendProofSample, ProofRoundFailed
    <2>2. CASE AppendProofSample(r)
      BY <1>t, <2>1, <2>2 DEF AppendProofSample
    <2>3. CASE ProofRoundFailed(r)
      <3>1. log' \in [stress : Nat, server : Nat, client : Nat] /\ kpi' \in Nat
        <4>1. kpi' = kpi + 1 /\ log' = [log EXCEPT !.client = @ + 1]
          BY <2>3 DEF ProofRoundFailed, RecordTlsClientFailure
        <4>2. log \in [stress : Nat, server : Nat, client : Nat] /\ log.client + 1 \in Nat /\ kpi + 1 \in Nat
          BY <1>v
        <4> QED
          BY <4>1, <4>2
      <3> QED
        BY <1>t, <2>1, <2>3, <3>1 DEF ProofRoundFailed
    <2> QED
      BY <1>10, <2>2, <2>3
  <1>11. CASE DrainLogQueue
    <2>1. log' \in [stress : Nat, server : Nat, client : Nat] /\ kpi' \in Nat
      BY <1>11 DEF DrainLogQueue, Counted
    <2> QED
      BY <1>t, <1>11, <2>1 DEF DrainLogQueue
  <1>12. CASE Idle \/ UNCHANGED vars
    BY <1>t, <1>12 DEF Idle, vars
  <1>13. CASE ServerLogs
    <2>1. log' \in [stress : Nat, server : Nat, client : Nat] /\ others' \in 0..MaxOthers
      BY <1>13 DEF ServerLogs
    <2> QED
      BY <1>t, <1>13, <2>1 DEF ServerLogs
  <1>14. CASE LiveTimeFails
    <2>1. <<"live", 0>> \in Calls
      BY DEF Calls
    <2>2. pending' \in Seq(Calls) /\ others' \in 0..MaxOthers
      BY <1>14, <2>1, Posting DEF LiveTimeFails
    <2> QED
      BY <1>t, <1>14, <2>2 DEF LiveTimeFails
  <1>15. CASE LiveTimeFailed
    <2>1. pending' \in Seq(Calls)
      BY <1>15, Running DEF LiveTimeFailed
    <2>2. log' \in [stress : Nat, server : Nat, client : Nat] /\ kpi' \in Nat
      BY <1>15 DEF LiveTimeFailed, RecordTlsClientFailure
    <2> QED
      BY <1>t, <1>15, <2>1, <2>2 DEF LiveTimeFailed
  <1> QED
    BY <1>1, <1>2, <1>3, <1>4, <1>5, <1>5b, <1>6, <1>7, <1>8, <1>9, <1>10, <1>11, <1>12, <1>13,
       <1>14, <1>15
    DEF Next, StressThread, ProofThread, MainLoop

-----------------------------------------------------------------------------
(* The stress test and the capture.                                        *)

\* A program that has ended changes nothing until it is started again.
LEMMA ExitedStays ==
  ASSUME ClientTypeOK, Threads, MainStep \/ SessionStep \/ StdoutRead \/ UNCHANGED cvars, pc = "exited"
  PROVE  pc' = "exited" /\ code' = code /\ Done' = Done
  <1>1. ~MainStep
    BY DEF MainStep, Launch, MainRaises, Die, Join, SingleFails, SingleReturns, SaveOpens,
       SaveWrites, SaveFails
  <1>2. ~SessionStep
    BY DEF SessionStep, RoundOk, SessionReturns, RoundFails, Threads
  <1> QED
    BY <1>1, <1>2 DEF StdoutRead, cvars, progVars, sessionVars, Done

LEMMA StressStep == TypeOK /\ Threads /\ Collected /\ StressOrder /\ [Next]_vars => StressOrder'
  <1> SUFFICES ASSUME TypeOK, Threads, Collected, StressOrder, [Next]_vars PROVE StressOrder'
    OBVIOUS
  <1>q. pending \in Seq(Calls)
    BY DEF TypeOK, Calls
  <1>o. /\ \A i, j \in 1..Len(pending) : pending[i][1] = "stress" /\ pending[j][1] = "stress" => i = j
        /\ \A i \in 1..Len(pending) : pending[i][1] = "stress" =>
             spc = "dead" /\ ~sstart /\ pc = "exited" /\ pending[i][2] = code
        /\ sstart => spc = "dead"
        /\ spc \in {"popen", "read"} => sstatus = "Running"
        /\ sstatus = "completed" => pc = "exited" /\ shown = Cardinality(Done) * Rounds
    BY DEF StressOrder, MetricsAreOfThisTest
  <1>1. ASSUME UNCHANGED <<pending, stressVars>>,
               pc = "exited" => pc' = "exited" /\ code' = code /\ Done' = Done
        PROVE  StressOrder'
    BY <1>1, <1>o DEF StressOrder, MetricsAreOfThisTest, stressVars
  <1>2. ASSUME NEW call, Post(call), call[1] # "stress", UNCHANGED <<cvars, stressVars>>
        PROVE  StressOrder'
    <2>1. /\ Len(pending) \in Nat /\ Len(pending') = Len(pending) + 1
          /\ \A i \in 1..Len(pending) : pending'[i] = pending[i]
          /\ pending'[Len(pending) + 1] = call
      BY <1>2, <1>q, Posting
    <2>2. \A i \in 1..Len(pending') : pending'[i][1] = "stress" => i \in 1..Len(pending) /\ pending'[i] = pending[i]
      BY <1>2, <2>1
    <2>3. pc' = pc /\ code' = code /\ Done' = Done
      BY <1>2 DEF cvars, progVars, sessionVars, Done
    <2> QED
      BY <1>2, <1>o, <2>2, <2>3 DEF StressOrder, MetricsAreOfThisTest, stressVars
  <1>3. ASSUME NEW call, Callback(call), UNCHANGED <<cvars, stressVars>>
        PROVE  StressOrder'
    <2>1. /\ Len(pending) \in Nat \ {0} /\ Len(pending') = Len(pending) - 1
          /\ \A i \in 1..Len(pending') : pending'[i] = pending[i + 1]
      BY <1>3, <1>q, Running
    <2>2. \A i \in 1..Len(pending') : i + 1 \in 1..Len(pending) /\ pending'[i] = pending[i + 1]
      BY <2>1
    <2>3. pc' = pc /\ code' = code /\ Done' = Done
      BY <1>3 DEF cvars, progVars, sessionVars, Done
    <2>4. ASSUME NEW i \in 1..Len(pending'), NEW j \in 1..Len(pending'),
                 pending'[i][1] = "stress", pending'[j][1] = "stress"
          PROVE  i = j
      <3>1. i + 1 = j + 1
        BY <1>o, <2>2, <2>4
      <3> QED
        BY <3>1
    <2>5. \A i \in 1..Len(pending') : pending'[i][1] = "stress" =>
             spc = "dead" /\ ~sstart /\ pc = "exited" /\ pending'[i][2] = code
      BY <1>o, <2>2
    <2> QED
      BY <1>3, <1>o, <2>3, <2>4, <2>5 DEF StressOrder, MetricsAreOfThisTest, stressVars
  <1>4. CASE StartStress \/ PopenFails
    <2>1. /\ \A i \in 1..Len(pending) : pending[i][1] # "stress"
          /\ UNCHANGED pending /\ spc' \in {"popen", "lost"} /\ ~sstart' /\ sstatus' = "Running"
      BY <1>4, <1>o DEF StartStress, PopenFails
    <2> QED
      BY <2>1 DEF StressOrder, MetricsAreOfThisTest
  <1>5. CASE Popen
    <2>1. /\ \A i \in 1..Len(pending) : pending[i][1] # "stress"
          /\ UNCHANGED pending /\ spc' = "read" /\ ~sstart' /\ sstatus' = "Running"
      BY <1>5, <1>o DEF Popen
    <2> QED
      BY <2>1 DEF StressOrder, MetricsAreOfThisTest
  <1>6. CASE ClientRuns
    <2>1. CASE \E c \in Client : RoundOk(c) \/ SessionReturns(c) \/ RoundFails(c, FALSE) \/ RoundFails(c, TRUE)
      BY <1>1, <1>6, <2>1, ExitedStays DEF ClientRuns, SessionStep, TypeOK
    <2>2. CASE MainStep
      BY <1>1, <1>6, <2>2, ExitedStays DEF ClientRuns, TypeOK
    <2> QED
      BY <1>6, <2>1, <2>2 DEF ClientRuns, MainStep
  <1>7. CASE ReadLine
    BY <1>1, <1>7 DEF ReadLine, progVars, sessionVars, Done
  <1>8. CASE StressEnds
    <2>1. /\ Len(pending) \in Nat /\ Len(pending') = Len(pending) + 1
          /\ \A i \in 1..Len(pending) : pending'[i] = pending[i]
          /\ pending'[Len(pending) + 1] = <<"stress", code>>
      BY <1>8, <1>q, Posting DEF StressEnds
    <2>2. /\ \A i \in 1..Len(pending) : pending[i][1] # "stress"
          /\ spc' = "dead" /\ ~sstart' /\ pc' = "exited" /\ code' = code /\ sstatus' = "Running"
      BY <1>8, <1>o DEF StressEnds, cvars, progVars
    <2>3. \A i \in 1..Len(pending') : pending'[i][1] = "stress" => i = Len(pending) + 1 /\ pending'[i][2] = code
      BY <2>1, <2>2
    <2> QED
      BY <2>2, <2>3 DEF StressOrder, MetricsAreOfThisTest
  <1>9. ASSUME NEW exit \in {0, 1}, FinishStress(exit) PROVE StressOrder'
    <2>1. /\ Len(pending) \in Nat \ {0} /\ Len(pending') = Len(pending) - 1
          /\ \A i \in 1..Len(pending') : pending'[i] = pending[i + 1]
          /\ pending[1] = <<"stress", exit>>
      BY <1>9, <1>q, Running DEF FinishStress
    <2>2. \A i \in 1..Len(pending') : i + 1 \in 1..Len(pending) /\ i + 1 # 1 /\ pending'[i] = pending[i + 1]
      BY <2>1
    <2>3. 1 \in 1..Len(pending) /\ pending[1][1] = "stress" /\ pending[1][2] = exit
      BY <2>1
    <2>4. \A i \in 1..Len(pending') : pending'[i][1] # "stress"
      BY <1>o, <2>2, <2>3
    <2>5. spc = "dead" /\ pc = "exited" /\ exit = code
      BY <1>o, <2>3
    <2>6. spc' = "dead" /\ pc' = "exited" /\ Done' = Done
      BY <1>9, <2>5 DEF FinishStress, cvars, progVars, sessionVars, Done
    <2>7. sstatus' = "completed" => shown' = Cardinality(Done) * Rounds
      BY <1>9, <1>o, <2>5 DEF FinishStress, Collected, Holds
    <2> QED
      BY <2>4, <2>6, <2>7 DEF StressOrder, MetricsAreOfThisTest
  <1>10. CASE StartProof \/ StopProof \/ LoadCertificate \/ ProofRoundBegins \/ DrainLogQueue
              \/ ServerLogs \/ Idle \/ UNCHANGED vars
    <2>1. UNCHANGED <<pending, stressVars, cvars>>
      BY <1>10 DEF ServerLogs, StartProof, StopProof, LoadCertificate, ProofRoundBegins, DrainLogQueue, Idle, vars
    <2> QED
      BY <1>1, <2>1 DEF cvars, progVars, sessionVars, Done
  <1>11. CASE LiveTimeFails \/ ProofLoopEnds \/ \E ok \in BOOLEAN : ProofRound(ok)
    BY <1>2, <1>11 DEF LiveTimeFails, ProofLoopEnds, ProofRound
  <1>12. CASE ProofFinished \/ LiveTimeFailed \/ \E r \in 1..ProofRounds : AppendProofSample(r) \/ ProofRoundFailed(r)
    BY <1>3, <1>12 DEF ProofFinished, LiveTimeFailed, AppendProofSample, ProofRoundFailed
  <1> QED
    BY <1>4, <1>5, <1>6, <1>7, <1>8, <1>9, <1>10, <1>11, <1>12
    DEF Next, StressThread, ProofThread, MainLoop

LEMMA ProofStep == TypeOK /\ ProofOrder /\ [Next]_vars => ProofOrder'
  <1> SUFFICES ASSUME TypeOK, ProofOrder, [Next]_vars PROVE ProofOrder'
    OBVIOUS
  <1>q. pending \in Seq(Calls)
    BY DEF TypeOK, Calls
  <1>o. /\ pstart => ppc = "dead" /\ \A i \in 1..Len(pending) : pending[i][1] \in {"stress", "live"}
        /\ pstopbtn <=> ~pstart
        /\ ppc = "ask" => pround < ProofRounds
        /\ \A i \in 1..Len(pending) : pending[i][1] = "finished" =>
             /\ ppc = "dead" /\ ~pstart
             /\ \A j \in i + 1..Len(pending) : pending[j][1] \in {"stress", "live"}
    BY DEF ProofOrder, ProofButtons
  <1>1. ASSUME UNCHANGED <<pending, proofVars>> PROVE ProofOrder'
    BY <1>1, <1>o DEF ProofOrder, ProofButtons, proofVars
  <1>2. CASE StartStress \/ Popen \/ PopenFails \/ ClientRuns \/ ReadLine \/ DrainLogQueue
             \/ ServerLogs \/ Idle \/ UNCHANGED vars
    BY <1>1, <1>2 DEF StartStress, Popen, PopenFails, ClientRuns, ReadLine, DrainLogQueue, ServerLogs, Idle, vars
  <1>3. CASE StartProof
    <2>1. /\ \A i \in 1..Len(pending) : pending[i][1] # "finished"
          /\ UNCHANGED pending /\ ~pstart' /\ pstopbtn' /\ ppc' = "load"
      BY <1>3, <1>o DEF StartProof
    <2> QED
      BY <2>1 DEF ProofOrder, ProofButtons
  <1>4. CASE StopProof
    BY <1>4, <1>o DEF StopProof, ProofOrder, ProofButtons
  <1>5. CASE LoadCertificate \/ ProofRoundBegins
    <2>1. /\ \A i \in 1..Len(pending) : pending[i][1] # "finished"
          /\ UNCHANGED <<pending, pstart, pstopbtn, pround>> /\ ~pstart
          /\ ppc' = "ask" => pround < ProofRounds
      BY <1>5, <1>o DEF LoadCertificate, ProofRoundBegins
    <2> QED
      BY <1>o, <2>1 DEF ProofOrder, ProofButtons
  <1>6. ASSUME NEW call, Post(call), UNCHANGED <<pstart, pstopbtn>>,
               \/ call[1] \in {"stress", "live"} /\ UNCHANGED <<ppc, pround>>
               \/ /\ ppc \in {"round", "ask"}
                  /\ \/ ppc' = "round" /\ call[1] # "finished"
                     \/ ppc' = "dead"
        PROVE  ProofOrder'
    <2>1. /\ Len(pending) \in Nat /\ Len(pending') = Len(pending) + 1
          /\ \A i \in 1..Len(pending) : pending'[i] = pending[i]
          /\ pending'[Len(pending) + 1] = call
      BY <1>6, <1>q, Posting
    <2>2. CASE call[1] \in {"stress", "live"} /\ UNCHANGED <<ppc, pround>>
      <3>1. ASSUME NEW i \in 1..Len(pending'), pending'[i][1] \notin {"stress", "live"}
            PROVE  i \in 1..Len(pending) /\ pending'[i] = pending[i]
        BY <2>1, <2>2, <3>1
      <3>2. ASSUME NEW i \in 1..Len(pending'), pending'[i][1] = "finished"
            PROVE  \A j \in i + 1..Len(pending') : pending'[j][1] \in {"stress", "live"}
        <4>1. i \in 1..Len(pending) /\ pending[i][1] = "finished"
          BY <3>1, <3>2
        <4>2. ASSUME NEW j \in i + 1..Len(pending'), pending'[j][1] \notin {"stress", "live"} PROVE FALSE
          <5>1. j \in 1..Len(pending')
            BY <4>1
          <5>2. j \in 1..Len(pending) /\ pending'[j] = pending[j]
            BY <3>1, <4>2, <5>1
          <5>3. j \in i + 1..Len(pending)
            BY <5>2
          <5> QED
            BY <1>o, <4>1, <4>2, <5>2, <5>3
        <4> QED
          BY <4>2
      <3>3. \A i \in 1..Len(pending') : pending'[i][1] = "finished" => ppc = "dead" /\ ~pstart
        BY <1>o, <3>1
      <3>4. pstart => \A i \in 1..Len(pending') : pending'[i][1] \in {"stress", "live"}
        BY <1>o, <3>1
      <3> QED
        BY <1>6, <1>o, <2>2, <3>2, <3>3, <3>4 DEF ProofOrder, ProofButtons
    <2>3. CASE ppc \in {"round", "ask"} /\ ((ppc' = "round" /\ call[1] # "finished") \/ ppc' = "dead")
      <3>1. ~pstart /\ \A i \in 1..Len(pending) : pending[i][1] # "finished"
        BY <1>o, <2>3
      <3>2. \A i \in 1..Len(pending') : pending'[i][1] = "finished" =>
              i = Len(pending) + 1 /\ call[1] = "finished"
        BY <2>1, <3>1
      <3>3. \A j \in Len(pending) + 1 + 1..Len(pending') : pending'[j][1] \in {"stress", "live"}
        BY <2>1
      <3> QED
        BY <1>6, <1>o, <2>3, <3>1, <3>2, <3>3 DEF ProofOrder, ProofButtons
    <2> QED
      BY <1>6, <2>2, <2>3
  <1>7. CASE StressEnds \/ LiveTimeFails
    BY <1>6, <1>7 DEF StressEnds, LiveTimeFails, proofVars
  <1>8. CASE ProofLoopEnds
    BY <1>6, <1>8 DEF ProofLoopEnds
  <1>9. ASSUME NEW ok \in BOOLEAN, ProofRound(ok) PROVE ProofOrder'
    <2>1. /\ Post(<<IF ok THEN "sample" ELSE "failed", pround'>>) /\ UNCHANGED <<pstart, pstopbtn>>
          /\ ppc = "ask" /\ ppc' = "round"
      BY <1>9 DEF ProofRound
    <2>2. <<IF ok THEN "sample" ELSE "failed", pround'>>[1] # "finished"
      OBVIOUS
    <2> QED
      BY <1>6, <2>1, <2>2
  <1>10. ASSUME NEW call, Callback(call), UNCHANGED <<ppc, pround>>,
                \/ UNCHANGED <<pstart, pstopbtn>>
                \/ call[1] = "finished" /\ pstart' /\ ~pstopbtn'
         PROVE  ProofOrder'
    <2>1. /\ Len(pending) \in Nat \ {0} /\ Len(pending') = Len(pending) - 1
          /\ \A i \in 1..Len(pending') : pending'[i] = pending[i + 1]
          /\ pending[1] = call
      BY <1>10, <1>q, Running
    <2>2. \A i \in 1..Len(pending') : i + 1 \in 1..Len(pending) /\ pending'[i] = pending[i + 1]
      BY <2>1
    <2>3. CASE UNCHANGED <<pstart, pstopbtn>>
      <3>1. ASSUME NEW i \in 1..Len(pending'), pending'[i][1] = "finished"
            PROVE  /\ ppc = "dead" /\ ~pstart
                   /\ \A j \in i + 1..Len(pending') : pending'[j][1] \in {"stress", "live"}
        <4>1. i + 1 \in 1..Len(pending) /\ pending[i + 1][1] = "finished"
          BY <2>2, <3>1
        <4>2. ASSUME NEW j \in i + 1..Len(pending') PROVE pending'[j][1] \in {"stress", "live"}
          <5>1. j \in 1..Len(pending') /\ j + 1 \in (i + 1) + 1..Len(pending)
            BY <2>1
          <5> QED
            BY <1>o, <2>2, <4>1, <5>1
        <4> QED
          BY <1>o, <4>1, <4>2
      <3>2. pstart => \A i \in 1..Len(pending') : pending'[i][1] \in {"stress", "live"}
        BY <1>o, <2>2
      <3> QED
        BY <1>10, <1>o, <2>3, <3>1, <3>2 DEF ProofOrder, ProofButtons
    <2>4. CASE call[1] = "finished" /\ pstart' /\ ~pstopbtn'
      <3>1. 1 \in 1..Len(pending) /\ pending[1][1] = "finished"
        BY <2>1, <2>4
      <3>2. ppc = "dead" /\ \A j \in 1 + 1..Len(pending) : pending[j][1] \in {"stress", "live"}
        BY <1>o, <3>1
      <3>3. ASSUME NEW i \in 1..Len(pending') PROVE pending'[i][1] \in {"stress", "live"}
        <4>1. i + 1 \in 1 + 1..Len(pending)
          BY <2>1
        <4> QED
          BY <2>2, <3>2, <4>1
      <3> QED
        BY <1>10, <2>4, <3>2, <3>3 DEF ProofOrder, ProofButtons
    <2> QED
      BY <1>10, <2>3, <2>4
  <1>11. CASE ProofFinished \/ LiveTimeFailed \/ \E exit \in {0, 1} : FinishStress(exit)
    BY <1>10, <1>11 DEF ProofFinished, LiveTimeFailed, FinishStress, proofVars
  <1>12. ASSUME NEW r \in 1..ProofRounds, AppendProofSample(r) \/ ProofRoundFailed(r) PROVE ProofOrder'
    BY <1>10, <1>12 DEF AppendProofSample, ProofRoundFailed, proofVars
  <1> QED
    BY <1>2, <1>3, <1>4, <1>5, <1>7, <1>8, <1>9, <1>11, <1>12
    DEF Next, StressThread, ProofThread, MainLoop

-----------------------------------------------------------------------------
(* The invariant, and what follows from it.                                *)

LEMMA InvInit == Init => Inv
  <1> SUFFICES ASSUME Init PROVE Inv
    OBVIOUS
  <1>1. Threads /\ Started /\ Collected /\ Reported
    BY ClientBegins, StartedBegins DEF Init
  <1>2. pending = <<>> /\ spc = "dead" /\ ppc = "dead" /\ sstatus = "Idle" /\ pstart /\ ~pstopbtn
    BY DEF Init
  <1>3. StressOrder /\ ProofOrder
    BY <1>2 DEF StressOrder, MetricsAreOfThisTest, ProofOrder, ProofButtons
  <1>4. ReportsCountedOnce
    <2>1. FailedCallbacks = 0
      <3>1. {i \in 1..Len(pending) : pending[i][1] \in {"failed", "live"}} = {}
        BY <1>2
      <3> QED
        BY <3>1, FS_EmptySet DEF FailedCallbacks
    <2>2. Cardinality(errors) = 0
      BY FS_EmptySet DEF Init, ClientInit
    <2> QED
      BY <2>1, <2>2 DEF Init, ClientInit, ReportsCountedOnce
  <1> QED
    BY TypeInit, <1>1, <1>3, <1>4 DEF Inv

\* The types, the threads of the client, where its rows and its errors are, the
\* order of the callbacks and the count of failures are an inductive invariant.
THEOREM Invariant == Spec => []Inv
  <1>1. Inv /\ [Next]_vars => Inv'
    <2> SUFFICES ASSUME Inv, [Next]_vars PROVE Inv'
      OBVIOUS
    <2>1. ClientTypeOK /\ [ClientNext]_cvars
      BY ClientSteps DEF Inv, TypeOK
    <2>2. Threads' /\ Started' /\ Collected' /\ Reported'
      BY <2>1, ThreadsStep, StartedStep, CollectedStep, ReportedStep DEF Inv
    <2>3. ReportsCountedOnce'
      BY CountedStep DEF Inv
    <2>4. TypeOK'
      BY <2>3, TypeStep DEF Inv
    <2> QED
      BY <2>2, <2>3, <2>4, StressStep, ProofStep DEF Inv
  <1> QED
    BY InvInit, <1>1, PTL DEF Spec

\* Every variable of the jobs and of the client stays within its type.
THEOREM TypeCorrect == Spec => []TypeOK
  <1>1. Inv => TypeOK
    BY DEF Inv
  <1> QED
    BY Invariant, <1>1, PTL

\* A client that ends with code 0 has saved the rows of the sessions of this
\* run that succeeded: all of them, each once, sorted, and no other.
THEOREM ResultsAreSaved == Spec => []SavedResults
  <1>1. Inv => SavedResults
    BY Results DEF Inv, TypeOK
  <1> QED
    BY Invariant, <1>1, PTL

\* The metrics of a completed stress test are over the samples of that test.
THEOREM MetricsAreRight == Spec => []MetricsAreOfThisTest
  <1>1. Inv => MetricsAreOfThisTest
    BY DEF Inv, StressOrder
  <1> QED
    BY Invariant, <1>1, PTL

\* Every report of a TLS failure, by a client, a capture, the live clock or the
\* managed server, is counted, and none twice, wherever it is on its way.
THEOREM ReportsAreCounted == Spec => []ReportsCountedOnce
  <1>1. Inv => ReportsCountedOnce
    BY DEF Inv
  <1> QED
    BY Invariant, <1>1, PTL

\* A capture can be started only when nothing of the last one is left to run.
THEOREM ButtonsAreRight == Spec => []ProofButtons
  <1>1. Inv => ProofButtons
    BY DEF Inv, ProofOrder
  <1> QED
    BY Invariant, <1>1, PTL

\* The threads, lists, lock and sort of client.py implement the abstract
\* promise about its file, also while two jobs of the monitor run around it.
THEOREM FileRefinement == Spec => ImplementsResults
  <1>1. Init => Abstract!RInit
    BY FileInit DEF Init
  <1>2. Inv /\ [Next]_vars => [Abstract!RNext]_(Abstract!rvars)
    BY ClientSteps, FileStep DEF Inv, TypeOK
  <1> QED
    BY Invariant, <1>1, <1>2, PTL DEF Spec, ImplementsResults, Abstract!RSpec

=============================================================================
