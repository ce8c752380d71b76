----------------------------- MODULE MonitorJobs -----------------------------
(***************************************************************************)
(* The background jobs of server/server_gui.py: the stress test, which     *)
(* runs client.py as a process, and the proof capture.  Each job has a     *)
(* thread that hands its results to the main thread through after(0, ...), *)
(* whose callbacks run in the order they were posted.  The TLS failures    *)
(* both jobs report go into one counter, in part through the log queue,    *)
(* together with those the managed server prints and those of the live     *)
(* clock.                                                                  *)
(***************************************************************************)
EXTENDS ClientSession

CONSTANTS
    MaxRuns,       \* bound: how many stress tests are started
    ProofRounds,   \* the rounds of a proof capture
    MaxCaptures,   \* bound: how many captures are started
    MaxOthers,     \* bound: how often the server or the live clock reports
    MaxEvents      \* bound: how much of all this there is together

ASSUME JobsAssumption ==
    /\ MaxRuns \in Nat
    /\ ProofRounds \in Nat \ {0}
    /\ MaxCaptures \in Nat
    /\ MaxOthers \in Nat
    /\ MaxEvents \in Nat

VARIABLES
    pending,   \* the callbacks posted and not yet run
    log,       \* in the log queue: how many failure lines of each kind
    kpi,       \* kpi_tls_fail_var
    spc,       \* the stress thread
    sstart,    \* the stress test's Start button is enabled
    sstatus,   \* stress_status_var
    shown,     \* the number of samples in the metrics shown
    ppc,       \* the proof thread
    pround,    \* the rounds it has taken
    pstop,     \* proof_stop_event
    pstart,    \* the capture's Start button is enabled
    pstopbtn,  \* and its Stop button
    pstatus,   \* proof_status_var
    captures,  \* the captures started so far
    others,    \* history: how often the server or the live clock has reported
    reports    \* history: the reports of TLS failures, whoever made them

logVars == <<log, kpi>>
stressVars == <<spc, sstart, sstatus, shown>>
proofVars == <<ppc, pround, pstop, pstart, pstopbtn, pstatus, captures>>
reported == <<others, reports>>
vars == <<cvars, pending, logVars, stressVars, proofVars, reported>>

NoSamples == -1

Init ==
    /\ ClientInit
    /\ pending = <<>>
    /\ log = [stress |-> 0, server |-> 0, client |-> 0]
    /\ kpi = 0
    /\ spc = "dead" /\ sstart = TRUE /\ sstatus = "Idle" /\ shown = NoSamples
    /\ ppc = "dead" /\ pround = 0 /\ pstop = FALSE
    /\ pstart = TRUE /\ pstopbtn = FALSE /\ pstatus = "Idle" /\ captures = 0
    /\ others = 0 /\ reports = 0

Post(call) == pending' = Append(pending, call)

Callback(call) ==
    /\ pending # <<>> /\ Head(pending) = call
    /\ pending' = Tail(pending)

\* The stress tests, captures and other reports so far.
Events == run + (IF spc = "popen" THEN 1 ELSE 0) + captures + others

-----------------------------------------------------------------------------
(* The stress test.  client.py is the only program that writes its file.   *)

StartStress ==
    /\ sstart /\ spc = "dead"
    /\ run < MaxRuns /\ Events < MaxEvents
    /\ sstatus' = "Running"
    /\ sstart' = FALSE
    /\ spc' = "popen"
    /\ UNCHANGED <<cvars, pending, logVars, shown, proofVars, reported>>

Popen ==
    /\ spc = "popen"
    /\ \E n \in Client : Begin(n)
    /\ spc' = "read"
    /\ UNCHANGED <<pending, logVars, sstart, sstatus, shown, proofVars, reported>>

\* The process cannot be started: the thread ends, the button stays disabled.
PopenFails ==
    /\ spc = "popen"
    /\ spc' = "lost"
    /\ UNCHANGED <<cvars, pending, logVars, sstart, sstatus, shown, proofVars, reported>>

\* What client.py does meanwhile.
ClientRuns ==
    /\ \/ (Launch \/ MainRaises \/ Join \/ SingleFails \/ SingleReturns) /\ UNCHANGED reports
       \/ (SaveOpens \/ SaveWrites \/ SaveFails) /\ UNCHANGED reports
       \/ Die /\ reports' = reports - Cardinality(errors)
       \/ \E c \in Client :
            \/ (RoundOk(c) \/ SessionReturns(c) \/ RoundFails(c, FALSE)) /\ UNCHANGED reports
            \/ RoundFails(c, TRUE) /\ reports' = reports + 1
    /\ UNCHANGED <<pending, logVars, stressVars, proofVars, others>>

ReadLine ==
    /\ spc = "read" /\ stdout > 0
    /\ stdout' = stdout - 1
    /\ log' = [log EXCEPT !.stress = @ + 1]
    /\ UNCHANGED <<progVars, sessionVars, file, pending, kpi, stressVars, proofVars, reported>>

StressEnds ==
    /\ spc = "read" /\ stdout = 0 /\ pc = "exited"
    /\ Post(<<"stress", code>>)
    /\ spc' = "dead"
    /\ UNCHANGED <<cvars, logVars, sstart, sstatus, shown, proofVars, reported>>

\* Fault: a test that failed returns before the button is enabled.
FinishStressReturns(exit) ==
    /\ Callback(<<"stress", exit>>)
    /\ sstart' = (exit = 0)
    /\ sstatus' = IF exit = 0 THEN "completed" ELSE "failed"
    /\ shown' = IF exit = 0 THEN Len(file) ELSE shown
    /\ UNCHANGED <<cvars, logVars, spc, proofVars, reported>>

\* The metrics are computed from the rows in the file, if it can be opened.
FinishStress(exit) ==
    /\ Callback(<<"stress", exit>>)
    /\ sstart' = TRUE
    /\ \/ exit = 0 /\ sstatus' = "completed" /\ shown' = Len(file)
       \/ exit = 0 /\ UNCHANGED <<sstatus, shown>>
       \/ exit # 0 /\ sstatus' = "failed" /\ UNCHANGED shown
    /\ UNCHANGED <<cvars, logVars, spc, proofVars, reported>>

-----------------------------------------------------------------------------
(* The proof capture.                                                      *)

StartProof ==
    /\ pstart /\ ppc = "dead"
    /\ captures < MaxCaptures /\ Events < MaxEvents
    /\ captures' = captures + 1
    /\ pstop' = FALSE
    /\ pstart' = FALSE /\ pstopbtn' = TRUE /\ pstatus' = "Running"
    /\ ppc' = "load" /\ pround' = 0
    /\ UNCHANGED <<cvars, pending, logVars, stressVars, reported>>

\* Fault: Stop enables Start at once.
StopProofEnables ==
    /\ pstopbtn
    /\ pstop' = TRUE /\ pstatus' = "Stopping"
    /\ pstart' = TRUE
    /\ UNCHANGED <<cvars, pending, logVars, stressVars, ppc, pround, pstopbtn, captures, reported>>

StopProof ==
    /\ pstopbtn
    /\ pstop' = TRUE /\ pstatus' = "Stopping"
    /\ UNCHANGED <<cvars, pending, logVars, stressVars, ppc, pround, pstart, pstopbtn, captures, reported>>

\* The certificate is loaded outside the try statement: a file that is none
\* ends the thread, with the buttons as they are.
LoadCertificate ==
    /\ ppc = "load"
    /\ ppc' \in {"round", "lost"}
    /\ UNCHANGED <<cvars, pending, logVars, stressVars, pround, pstop, pstart, pstopbtn, pstatus, captures, reported>>

ProofRoundBegins ==
    /\ ppc = "round" /\ pround < ProofRounds /\ ~pstop
    /\ ppc' = "ask"
    /\ UNCHANGED <<cvars, pending, logVars, stressVars, pround, pstop, pstart, pstopbtn, pstatus, captures, reported>>

\* Fault: a round that fails ends the thread.
ProofRoundDies(ok) ==
    /\ ppc = "ask"
    /\ pround' = pround + 1
    /\ reports' = IF ok THEN reports ELSE reports + 1
    /\ Post(<<IF ok THEN "sample" ELSE "failed", pround'>>)
    /\ ppc' = IF ok THEN "round" ELSE "dead"
    /\ UNCHANGED <<cvars, logVars, stressVars, pstop, pstart, pstopbtn, pstatus, captures, others>>

\* A round ends; the sleep after it ends with the interval or with Stop.
ProofRound(ok) ==
    /\ ppc = "ask"
    /\ pround' = pround + 1
    /\ reports' = IF ok THEN reports ELSE reports + 1
    /\ Post(<<IF ok THEN "sample" ELSE "failed", pround'>>)
    /\ ppc' = "round"
    /\ UNCHANGED <<cvars, logVars, stressVars, pstop, pstart, pstopbtn, pstatus, captures, others>>

ProofLoopEnds ==
    /\ ppc = "round" /\ (pround = ProofRounds \/ pstop)
    /\ Post(<<"finished", 0>>)
    /\ ppc' = "dead" /\ pround' = 0
    /\ UNCHANGED <<cvars, logVars, stressVars, pstop, pstart, pstopbtn, pstatus, captures, reported>>

AppendProofSample(r) ==
    /\ Callback(<<"sample", r>>)
    /\ UNCHANGED <<cvars, logVars, stressVars, proofVars, reported>>

\* Counted here, and logged.
RecordTlsClientFailure ==
    /\ kpi' = kpi + 1
    /\ log' = [log EXCEPT !.client = @ + 1]

ProofRoundFailed(r) ==
    /\ Callback(<<"failed", r>>)
    /\ RecordTlsClientFailure
    /\ UNCHANGED <<cvars, stressVars, proofVars, reported>>

ProofFinished ==
    /\ Callback(<<"finished", 0>>)
    /\ pstatus' = IF pstop THEN "stopped" ELSE "completed"
    /\ pstart' = TRUE /\ pstopbtn' = FALSE
    /\ UNCHANGED <<cvars, logVars, stressVars, ppc, pround, pstop, captures, reported>>

-----------------------------------------------------------------------------
(* The other reports, and the counter.                                     *)

\* The managed server prints that a handshake has failed: its own view of what
\* a client may report, too.
ServerLogs ==
    /\ others < MaxOthers /\ Events < MaxEvents
    /\ others' = others + 1 /\ reports' = reports + 1
    /\ log' = [log EXCEPT !.server = @ + 1]
    /\ UNCHANGED <<cvars, pending, kpi, stressVars, proofVars>>

\* A request of the live clock fails.
LiveTimeFails ==
    /\ others < MaxOthers /\ Events < MaxEvents
    /\ others' = others + 1 /\ reports' = reports + 1
    /\ Post(<<"live", 0>>)
    /\ UNCHANGED <<cvars, logVars, stressVars, proofVars>>

LiveTimeFailed ==
    /\ Callback(<<"live", 0>>)
    /\ RecordTlsClientFailure
    /\ UNCHANGED <<cvars, stressVars, proofVars, reported>>

\* Fault: every line about a failure is counted.
CountedAll(lines) == lines.server + lines.stress + lines.client

\* _ingest_log_line(): the lines of the server and of a stress client are
\* counted; the others were when they were logged.
Counted(lines) == lines.server + lines.stress

\* _drain_log_queue()
DrainLogQueue ==
    /\ log.stress + log.server + log.client > 0
    /\ kpi' = kpi + Counted(log)
    /\ log' = [stress |-> 0, server |-> 0, client |-> 0]
    /\ UNCHANGED <<cvars, pending, stressVars, proofVars, reported>>

MainLoop ==
    \/ DrainLogQueue \/ ProofFinished \/ LiveTimeFailed
    \/ \E exit \in {0, 1} : FinishStress(exit)
    \/ \E r \in 1..ProofRounds : AppendProofSample(r) \/ ProofRoundFailed(r)

StressThread == Popen \/ PopenFails \/ ReadLine \/ StressEnds
ProofThread == LoadCertificate \/ ProofRoundBegins \/ ProofLoopEnds \/ \E ok \in BOOLEAN : ProofRound(ok)

\* The window is open and nothing is under way.
Idle ==
    /\ spc # "read" /\ ppc \notin {"round", "ask"} /\ pending = <<>>
    /\ UNCHANGED vars

Next ==
    \/ StartStress \/ StressThread \/ ClientRuns
    \/ StartProof \/ StopProof \/ ProofThread
    \/ ServerLogs \/ LiveTimeFails
    \/ MainLoop
    \/ Idle

Spec == Init /\ [][Next]_vars

\* The threads and the process are scheduled, a round has a timeout and Tk
\* runs its callbacks.
Fairness ==
    /\ WF_vars(MainLoop)
    /\ WF_vars(StressThread)
    /\ WF_vars(ProofThread)
    /\ WF_vars(ClientRuns)

FairSpec == Spec /\ Fairness

-----------------------------------------------------------------------------
(* Properties.                                                             *)

\* The state has its type.
TypeOK ==
    /\ ClientTypeOK
    /\ pending \in Seq(({"stress"} \X {0, 1})
                       \cup ({"sample", "failed", "finished", "live"} \X (0..ProofRounds)))
    /\ log \in [stress : Nat, server : Nat, client : Nat]
    /\ kpi \in Nat
    /\ spc \in {"dead", "popen", "read", "lost"}
    /\ sstart \in BOOLEAN
    /\ sstatus \in {"Idle", "Running", "completed", "failed"}
    /\ shown \in Nat \cup {NoSamples}
    /\ ppc \in {"dead", "load", "round", "ask", "lost"}
    /\ pround \in 0..ProofRounds
    /\ pstop \in BOOLEAN
    /\ pstart \in BOOLEAN
    /\ pstopbtn \in BOOLEAN
    /\ pstatus \in {"Idle", "Running", "Stopping", "stopped", "completed"}
    /\ captures \in 0..MaxCaptures
    /\ others \in 0..MaxOthers
    /\ reports \in Nat

\* "Stress test completed" comes with metrics over the samples of this very
\* test: those of the sessions that succeeded, and none an earlier one left in
\* the file.
MetricsAreOfThisTest ==
    sstatus = "completed" => shown = Cardinality(Done) * Rounds

FailedCallbacks ==
    Cardinality({i \in 1..Len(pending) : pending[i][1] \in {"failed", "live"}})

\* Every report of a TLS failure is counted once in kpi_tls_fail_var, whoever
\* makes it: it is in a client's list, its output, the log queue, a callback or
\* the counter, though some are counted by the callback and others by the line
\* they print.  A handshake that fails may be reported by both of its ends and
\* is counted twice then.  (A client whose main() raised takes its list with
\* it.)
ReportsCountedOnce ==
    kpi + stdout + log.stress + log.server + Cardinality(errors) + FailedCallbacks = reports

\* Start is enabled only when the last capture is over and none of its
\* callbacks will run any more, so that no late callback of one capture can
\* meet the next one; and one of the two buttons is always enabled.
ProofButtons ==
    /\ pstart =>
        /\ ppc = "dead"
        /\ \A i \in 1..Len(pending) : pending[i][1] \in {"stress", "live"}
    /\ pstopbtn <=> ~pstart

\* A stress test ends with its Start button enabled, whatever its clients did,
\* unless its process could not be started.
StressCompletes == []<>(sstart \/ spc = "lost")

\* So does a capture, unless its certificate was none.
ProofCompletes == []<>(pstart \/ ppc = "lost")
=============================================================================
