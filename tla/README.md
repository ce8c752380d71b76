# Clock synchronisation over TLS and UDP: specifications, checks and proofs

The repository is a client/server clock synchroniser. A server answers requests
with timestamps of a *master clock*, which its sync thread corrects against NTP
or HTTPS time sources; a client measures its own offset from the T1–T4 stamps of
one exchange. Servers bound what they accept with a semaphore and a thread
pool. Two tkinter GUIs start, watch and stop clients and servers.

This directory models that code in TLA+, checks the models with TLC on small
instances and proves the main results with TLAPS for every value of the
constants. `PROJECT.json` maps every definition to the lines it stands for.

## 1. Inventory

| Component | Source | State it keeps | Operations | Status |
|---|---|---|---|---|
| TLS time server | `server/secure_server.py` | accept loop, `pending_slots`, executor queue and threads, connections | accept, admit/drop, handshake, submit, `handle_client`, shutdown | modelled |
| Server clock | `server/time_manager.py` | `_offset`, `_last_sync_status`, `_stop_event`, lock | `now`, `status`, `start`, `stop`, `_sync_loop` | modelled |
| Reference time sources | `server/ntp_sync.py` | candidate list, warning throttle | `fetch_reference_time`, NTP and HTTPS requests | partly |
| UDP time server | `server/server.py` | as the TLS server, one socket | receive, admit/drop, submit, `handle_client`, shutdown | modelled |
| Packets | `utils/packet_format.py` | none | encode, decode, validate, build | partly |
| Offset computation | `client/sync_algorithm.py`, `client/time_adjuster.py` | none | `compute_offset_and_delay`, corrected clock | modelled |
| Command-line client | `client/client.py` | sessions, shared result lists, CSV | `run_session`, sessions in threads, `save_results` | modelled |
| Client GUI | `client/client_gui.py` | session thread, callbacks, table, CSV, live-time offset, buttons | start, stop, rounds, clear, live-time sync and reset, correction | partly |
| Server GUI | `server/server_gui.py` | managed processes, status labels, stress and proof jobs, log queue, counters | start, stop, close, watch, probe ports, run a stress test, capture | partly |
| Statistics | `utils/statistics_tools.py` | none | means, drift regression | not modelled |
| Analysis scripts | `analysis/*.py` | none | read a CSV once, print or plot | not modelled |
| Certificate generator | `generate_cert.py` | none | builds one certificate, writes two files | not modelled |
| NTP test script | `server/test.py` | none | prints one answer | not modelled |

How they interact, what is hard about each, and what makes it correct:

- **TLS time server.** The accepting thread and the workers share the semaphore
  and the executor's queue. A connection passes from the kernel's backlog to the
  accepting thread, to the queue, to a worker; each of four exits (failed
  handshake, rejected submit, answer, exception) releases its slot. Ctrl-C may
  come between any two steps. Peers may close, or say nothing, at any point.
  *Correct when* nobody hands a connection on twice, no slot is lost, the cap
  holds, every connection is settled, and a shutdown finishes what was submitted.
- **Server clock.** The sync thread changes offset and status, under a lock,
  while workers call `now()`, which reads the offset under the lock and the
  system clock after it. A worker takes three readings and then the label.
  *Correct when* the clock stays within the error of one measurement of true
  time, whatever succeeds, fails or falls back, and its label tells where a stamp's
  correction comes from.
- **Reference time sources.** Each request may take up to its timeout before the
  next source is asked; HTTPS has a resolution of a second. *Correct when* the
  list is walked to its end and only an answer changes the offset.
- **Offset computation.** *Correct when* the error of the measured offset is
  bounded, however asymmetric the way, and whatever the server's clock does
  between its two stamps.
- **UDP time server.** T2 is taken when the datagram arrives, before it waits
  for a worker; requests and replies get lost and duplicated. *Correct when* it
  keeps the same admission promise, and a client matches replies by id.
- **Command-line client.** Sessions run in threads and append to shared lists; a
  round that fails ends its session. *Correct when* the saved rows are those of
  the sessions that succeeded, each client and round once.
- **Client GUI.** Threads hand callbacks to the main thread with `after(0, ...)`;
  those of an old session can run in a new one, and results of live-time threads
  come in any order. *Correct when* buttons and status describe the session that
  runs, the file holds its rows, and the text of the live clock names the offset
  in force (after a failure it does not: `live_failed`).
- **Server GUI.** Processes exit by themselves, get terminated, then killed;
  labels are written by several threads, each from a reading of its own. Its
  jobs post callbacks and log lines that arrive on two ways. *Correct when* it
  leaves no server behind, Stop returns, each process's output is read, the
  labels agree with what runs in the end (but for one set from a reading that
  was already overtaken), every report of a TLS failure is counted once and
  every job gives its button back (but for one whose process or certificate
  was none).

The hazards, each at its line and with the properties that watch it, are in
`PROJECT.json` under `hazards`.

## 2. Modules

```
WorkerPool  <- SecureServer  <- MCSecureServer
     |              |  \______ SecureServerProofs
     |              | implements
     |          Admission
     |              | implements (UdpServerProofs)
     \________ UdpServer     <- MCUdpServer
                       \______ UdpServerProofs
MasterClock <- TimeExchange  <- MCTimeExchange -> ReferenceTime
                    \_________ TimeExchangeProofs
ClientSession <- MonitorJobs <- MCMonitorJobs
     |    |         \_________ MonitorJobsProofs
     |    \___________________ ClientSessionProofs
     | implements
 ResultsFile
LiveTime    <- ClientGui     <- MCClientGui
                    \_________ ClientGuiProofs
ServerGui                    <- MCServerGui
     \________________________ ServerGuiProofs
```

An arrow `A <- B` says B extends A; a line below an arrow leads to the module
with the proofs about A, which extends A too. `MonitorJobsProofs` also extends
`ClientSessionProofs`.

### WorkerPool and SecureServer: the TLS server

`WorkerPool` is what both servers share: `pending_slots` (`free`) and the
executor (`queue`, `threads`). The executor belongs to the standard library and
is modelled from how `main()` uses it. What matters of it here: `submit()`
queues the request and *then* looks for a thread, so that its `RuntimeError`
leaves the request queued.

`SecureServer` is `main()` of `secure_server.py`. `mpc` is the place of the
accepting thread, `stage[c]` how far connection `c` is, and with it who owns it.

| Action | Code |
|---|---|
| `Connect`, `GiveUp` | a peer connects; a peer closes its end |
| `Admit`, `Drop` | `accept()` and `acquire(blocking=False)`, true and false |
| `AcceptTimeout`, `AcceptFails` | `socket.timeout`; any other `OSError` |
| `HandshakeOk`, `HandshakeFail` | `wrap_socket()` returns; raises, with the `except` clause |
| `Submit`, then `Spawn` or `SpawnFails` | the two halves of `pool.submit()` |
| `Reject` | the `except RuntimeError` clause |
| `Interrupt` | `KeyboardInterrupt` in the loop, or in the executor's shutdown |
| `Drain`, `Close` | leaving the two `with` blocks; the `finally` clause |
| `Start`, `Recv`, `Reply`, `Finish` | `handle_client`: taken, `recv` to `validate_request`, `sendall`, `finally` |

Between two of these actions any other thread may run. `Submit` and `Spawn` are
apart because a worker can finish the request in between.

Abstractions. What a request says is its peer's *kind*: good, malformed, mute
(handshake, then nothing), plain (a TCP health check) or silent (connects and
says nothing). `FindThread` allows the executor to start a thread or to rely on
one it has, without tracking which is idle: more behaviours than it really has.
An interrupt strikes between actions, not within one.

### Admission: what the server promises

At most `Slots` requests are admitted at any time; one is refused only when
*exactly* all slots are in use; admitted requests end. There are no threads,
queue or semaphore in it. `Fate` in `SecureServer` maps a stage to a fate:
waiting until admitted, admitted from `acquire` to the end of `finally`, then
over. The UDP server implements
the same module; `UdpServerProofs` has its own `Fate`, in which a datagram that
is under way or lost is one that waits.

### MasterClock and TimeExchange: time

Time is counted in ticks. `now` is true time, which nobody reads; the system
clocks of server and client return `now` plus a constant skew. `MasterClock`
is the sync thread: `Loop`, then for each source `NextSource` until one is
`Answered` or there is `NoReference`, then `Wake`. Asking and answering are
separate: what the source says is as old as the way back took, and the code
does not compensate for it.

`TimeExchange` adds one exchange at a time: `Send` and `Receive` are the client's
stamps, `Hold` and `ServerStamp` the two reads of each `clock.now()`, `Label`
the read of `clock.status()`, `Again` the next round. The sync thread may move
between any two of them (`ClockRuns`). `TwiceOffset` and `Delay` are
`compute_offset_and_delay`, doubled so that they stay integers. `when`, `carry`,
`from`, `origin` and `shifted` are history: they record true times, the source
behind each stamp and whether it changed while a reply was made, and no guard
reads them.

Abstractions. Skews are constant: a clock that drifts during an exchange is not
modelled. One tick is the unit of all delays, `Granule` ticks the resolution of
an HTTPS date, and NTP answers have no granularity. Sources are honest. NTP and
HTTPS requests have the same longest duration, `MaxTry`.

### ReferenceTime: which sources, which warnings

The pure part of `ntp_sync.py`. `CandidateServers` and `SourceKinds` give the
list that a fetch walks through; the exchange runs take their source lists from
it. `ShouldEmit` and `AfterWarning` are the throttle. Two assumptions of
`MCTimeExchange` compare them with what they are for, over all configured lists
of up to three of four servers and all sequences of up to four failures of two
kinds at times 0 to 4: `CandidatesCorrect` (each server once, in order, the
primary first) and `ThrottleTells` (a failure is left out if and only if the
same was logged less than the interval ago with no other since). The throttle
is not composed with the sync thread: it decides about log lines only.

### UdpServer: UDP, and a client on a bad network

`main()` of `server.py` on the same `WorkerPool`, with a session of the client
GUI's UDP rounds. Each datagram is one element of `Request`; its `stage` says
where it is, `of` the round it belongs to (0 for what is no request), `stamp`
the datagram whose arrival its T2 is.

| Action | Code |
|---|---|
| `SendRequest`, `TakeReply`, `WrongReply`, `Timeout` | `_request_time_sample` over UDP; each round has a socket of its own |
| `Stray`, `Copy`, `Lose`, `LoseReply` | other senders; a network that copies and loses |
| `Admit`, `Drop`, `ReceiveFails` | `recvfrom()`, T2, `acquire(blocking=False)`; `recvfrom()` raises |
| `Submit`, `Spawn`, `SpawnFails`, `Reject` | `pool.submit()` and its `except RuntimeError` |
| `Start`, `Decode`, `Reply`, `Finish` | `handle_client` up to `finally` |
| `Interrupt`, `Drain`, `Close` | leaving the loop, the `with` block, `finally` |

Delay and reordering need no action: a datagram stays on its way until it is
taken, and any that is on its way may be next. The numbers of requests start at
1 in every session, so that two sessions on one port could take each other's
replies: the model has one session, and the hazard at `client_gui.py:636` says so.

### ClientSession and MonitorJobs: sessions, stress test, proof capture

`ClientSession` is `client.py`: `main()`, its threads, the lists they share and
the results file. A row is the execution it comes from with the two columns
that identify it.

| Action | Code |
|---|---|
| `Begin`, `Launch`, `Join`, `MainRaises`, `Die` | `main()` and `run_multi_client_sessions`; a thread that cannot be started or Ctrl-C |
| `RoundOk`, `RoundFails`, `SessionReturns` | `run_session` of one client, in `worker()` or in `main()` |
| `SingleReturns`, `SingleFails` | one client: the session in `main()`, with its `except` clauses |
| `SaveOpens`, `SaveWrites`, `SaveFails` | `save_results` |

`all_samples.sort` is `SortRows`: `Place` is the place a row is sorted to, the
number of rows that come before it in a stable order. It is defined by counting
and not by recursion, so that the provers can reason about it.

`ResultsFile` is what the program promises about its file to whoever reads it:
sessions end in any order (`SessionEnds`); the file is opened only when all have
ended and, of a single session, only if it succeeded (`FileOpened`); it is then
filled with the rows of the sessions that succeeded, in order, and the program
ends with code 0 (`RowsSaved`), or with the first of these rows and code 1
(`SavingFails`); a run that fails earlier leaves the file alone (`RunFails`). It has
no threads, no shared lists and no sort. In the mapping a session is *open* until
it is done or failed, and the file is being saved from `SaveOpens` on.

`MonitorJobs` runs it as the process of a stress test (`StartStress`, `Popen`,
`PopenFails`, `ReadLine`, `StressEnds`, `FinishStress`), next to a proof capture
(`StartProof`, `StopProof`, `LoadCertificate`, `ProofRoundBegins`, `ProofRound`,
`ProofLoopEnds`, with the callbacks `AppendProofSample`, `ProofRoundFailed`,
`ProofFinished`) and the failure counter that both feed (`DrainLogQueue`). Two
more things feed it: a line of the managed server, which reaches the log queue
through `_stream_process_output` (`ServerLogs`), and a live-time request of this
window that fails (`LiveTimeFails`, `LiveTimeFailed`). `reports` is history, the
reports of TLS failures made so far. A report is not a failure: a handshake
that fails may be reported by its client and by the server, and both reports
are counted. `FinishStress` may find that the results file cannot be opened:
the button is enabled by then, and the rest of the window stays as it was. A
callback posted with `after(0, ...)` is at the end of `pending`; the main thread
takes the first. Printed lines other than error reports are left out.

### LiveTime and ClientGui: the client's window

`LiveTime` is the live clock: a press starts a thread (`SyncLiveTime`,
`LiveWorker`), its result is a callback (`OnLiveTimeSynced`,
`OnLiveTimeFailed`). An offset is represented by where it comes from.
`ClientGui` adds the session:

| Action | Code |
|---|---|
| `StartSync`, `StartRefused`, `StopSync`, `ClearTable` | the user, in the main thread |
| `ReadPath`, `NextRound`, `RoundOk`, `RoundFails`, `PostRow`, `PostProgress`, `PostFinish`, `PostCorrection` | `_run_sync_session`, in its thread |
| `AppendRow`, `ShowProgress`, `HandleError`, `FinishStatus`, `ApplyPostSyncCorrection` | its callbacks |

`StartRefused` stands for the port check and the probe that `start_sync` does
first. Inputs that do not parse and so change nothing but a message box are
left out. The output path is a text field that may be edited at any time: each
of its two reads, in `StartSync` and in `ReadPath`, gives any path (the second
one in the first `MaxEdited` sessions). `lost`,
`disarmed` and `stopat` are history.

### ServerGui: the processes

| Action | Code |
|---|---|
| `Start` | `start_udp_server`, `start_tls_server` with `_run_subprocess` |
| `PressStop`, `PressClose` | a Stop button; `_on_close` |
| `StopUnmanaged`, `StopEnded`, `StopBegins`, `WaitTimesOut`, `StopSucceeds`, `KillWaitTimesOut` | `_stop_process`, with the two waits and the exception of the second |
| `WatcherBegins`, `WatcherSeesEnd`, `WatcherReads`, `WatcherSets` | `_stream_process_output`, and `_refresh_status_labels` in its thread |
| `ChildEnds`, `ListenerChanges` | a server exits; one starts or ends elsewhere |

The port probe and `taskkill` look for the digits `:5005` in a line of
`netstat`, and so find a program on port 50051, too: the listener "longer" is
such a program. It makes Start refuse and Stop end it, and may be there while
the managed server runs. There is at most one listener for each port.

A label set by another thread takes effect when the main thread is in its event
loop: Tk marshals the call. `overtaken` is history: the labels set last from a
reading that had become untrue.

Definitions marked *Fault* (`ReleaseUnbounded`, `DropEarly`, ...) are not part
of any specification. Each is a plausible defect of the definition after it,
and the property listed with it in `PROJECT.json` under `mutants` detects it.

## 3. Runs

| Run | Module | What it shows |
|---|---|---|
| `server_safety` | MCSecureServer | `TypeOK`, `OwnedOnce`, `SlotsNeverLeak`, `InFlightBounded`, `OrderlyShutdown` under failing thread starts, failing `accept()`, two Ctrl-C and four kinds of peer |
| `server_liveness` | MCSecureServer | `ImplementsAdmission`, `EveryConnectionSettles`, `ShutdownCompletes` |
| `server_stall` | MCSecureServer | finding: `ValidClientSettles` fails behind one silent peer |
| `server_double_release` | MCSecureServer | finding: `CapRespected` fails after a submit that raised |
| `exchange` | MCTimeExchange | `TypeOK`, `ClockAccuracy`, `MeasurementSound`, `EndToEnd`, `LabelDescribesStamps` |
| `clock_fallback` | MCTimeExchange | finding: `FallsBackToSystemTime` fails after an earlier success |
| `udp` | MCUdpServer | `TypeOK`, `SlotsAccounted`, `SampleIsOwn`, `OrderlyShutdown`, `EveryDatagramSettles`, `ShutdownCompletes` over a network that loses, copies and reorders |
| `jobs` | MCMonitorJobs | `TypeOK`, `SavedResults`, `MetricsAreOfThisTest`, `ReportsCountedOnce`, `ProofButtons`, `ImplementsResults`, `StressCompletes`, `ProofCompletes` with sessions, threads and files that fail |
| `client_gui` | MCClientGui | `TypeOK`, `ShowsEnded`, `StopUsable`, `StopTakesEffect`, `CsvIsOfThisSession`, `CorrectionSeesSession`, `LiveLabelTells` with callbacks of one session in the next and two live-time threads at a time |
| `live_failed` | MCClientGui | finding: `FailedMeansLocal` fails when a live-time sync fails after one that did not |
| `servers` | MCServerGui | `TypeOK`, `NoOrphans`, `OutputIsRead`, `LabelsSettle`, `StopReturns` with servers that exit, survive their kill and are restarted |
| `servers_stop` | MCServerGui | finding: `StopFreesPort` fails after the server's own exit |

**Bounds of the server runs.** Three connections and two slots are the least
with which one connection is dropped while two are in flight, and with which
two wait in one line. `server_safety` has two workers (`MaxWorkers = 2`,
`MaxQueue = 0`), so that two handle requests at once; `server_liveness` has one
thread and two slots, so that a request waits behind a mute one; it gets them
from `MaxWorkers = 0` and `MaxQueue = 2`, where the thread limit is clamped to one
and the number of slots is not.
`MaxStartFailures = 1` is one double release; the theorems cover any number.
`MaxInterrupts = 2` is the shutdown and the way out of it. In `server_liveness`
there are no start failures (the refinement excludes them) and the kinds are
*good* and *mute*, the two that occupy workers; the others differ from these in
safety only, and *silent* breaks liveness: that is `server_stall`.
`server_double_release` takes four connections to put a third in flight.
Symmetry among connections is used in the safety run only, where it is sound.

**Bounds of the clock runs.** `MaxTime = 4` ticks with `MaxTry = 1` and
`Interval = 1` let a fetch, its wait, a second fetch and a failure fall within
one exchange, and two exchanges follow each other. `Granule = 2` makes HTTPS
coarser than a tick. Skews 2 and −3 differ in sign and size. The source lists
are those `ReferenceTime` builds: manual mode, NTP with HTTPS after it, and HTTPS
alone where `ntplib` is missing. Deadlock is checked in every run; the ends of
the models are `Terminated` and `Over`, and a server or window with nothing to
do is `Idle`.

**Bounds of `udp`.** Three datagrams are two requests and a copy, or a request
among strays; with two slots (one worker, one queue place) one is dropped, or
waits while a later one is stamped. Two rounds let a reply of the first reach
the second, which one port for both makes the common case. One thread start
that fails, one Ctrl-C, and `recvfrom()` that may raise.

**Bounds of `jobs`.** One or two clients with two rounds: a session that fails
in its second round loses its first. Two stress tests, so that the second may
meet the file of the first, one capture of one round, which may fail, and one
report of the server or the live clock. `MaxEvents = 3` of these four happen in
one behaviour: both tests with either of the others, or a test with both.

**Bounds of `client_gui`.** Two sessions of two rounds, two paths (symmetric:
safety only), at most `MaxPending = 2` callbacks in the queue: enough for a
callback of the first session to be left when the second starts, with one of
the live clock before or after it. `Press` has two elements (symmetric), so that
two live-time threads are at work together and return in either order; each may
be pressed again when its thread is done. `live_failed` has one session of one
round, and needs none. `MaxEdited = 1`: the path may be edited at any time, but
between `start_sync` and the thread's own reading of it only in the first session;
the second then prepares either file, with the first one's rows in it.

**Bounds of `servers`.** Two starts, so that a server is restarted, or both run.
`Windows` is `TRUE`: the port probe and `taskkill` work there only, and without
them the two Stop paths that end a listener do nothing.

**Fairness.** Every `FairSpec` uses weak fairness: no property needs more.

`SecureServer`. Weak fairness of `MainStep`, of
each `Start(c)` and each `WorkerStep(c)`: the operating system schedules
runnable threads. Weak fairness of `GiveUp(c)` for peers that are not silent:
this repository's clients set a timeout of five seconds on their sockets and
close them. Nothing is assumed of `Connect`, `Interrupt`, `AcceptTimeout` and
`AcceptFails`. The server itself has no timeout on an accepted connection, and
`server_stall` shows what becomes of it without the peers' co-operation.

`UdpServer`: the main thread and the workers are scheduled, and a client that
waits times out (`settimeout`). Nothing is assumed of the network, of arrivals
or of interrupts. `MonitorJobs`: the main loop, both jobs' threads and the
process are scheduled; a round ends because its socket has a timeout.
`ServerGui`: the main thread and the watchers are scheduled, and `wait(timeout=2)`
ends. No server process is assumed ever to end. `client_gui` checks safety only.

## 4. Findings

1. `server_stall`: the accepting thread does the TLS handshake, on a socket
   without a timeout. One connection that says nothing stops the server for all.
2. `server_double_release`: a `submit()` that raises because no thread can be
   started has queued the request. The handler and the worker both release the
   slot, and the cap of its comment is exceeded, or the release raises
   `ValueError` and ends the accept loop. `InFlightBounded` is what holds
   instead: one connection over the cap for each failed start.
3. `clock_fallback`: without a reference the status says "system-time (ntp
   unavailable)" while the last offset stays in force. `ClockAccuracy` shows the
   clock to be as good as before: the label is what is wrong.
4. `live_failed`: a live-time sync that fails sets "Sync failed; using local
   clock" and nothing else, so that the clock goes on with the offset of an
   earlier sync or correction. `LiveLabelTells` is what holds of the other texts.
   The live clock of the server's window does the same.
5. `servers_stop`: a managed server that has exited by itself stays registered,
   and Stop then returns before it looks for listeners started elsewhere, which
   its comment says it stops. Start refuses the port as being in use.

Four more disagreements with the documents have no run of their own:

- The server's clock may be re-synchronised between T2 and T3. The change goes
  into the delay, which then is not the "network round-trip latency" of
  `README_COMPREHENSIVE.md:525`, nor "fully accounted" as in
  `secure_server.py:7`, and may come out negative. `MeasurementSound` says what
  the delay is, and `EndToEnd` how good the measured offset still is.
- `README_COMPREHENSIVE.md:524` gives the sign of the offset the wrong way
  round: it is the server's clock less the client's, as the rest of that document
  and `MeasurementSound` have it.
- "TLS Failures: Failed SSL/TLS handshakes" (`README_COMPREHENSIVE.md:487`) are
  reports: a handshake that its client and the managed server both report is
  counted twice.
- The port probe takes a longer port number that begins with the one it looks for
  for the same, and Stop ends the program on it.

## 5. Proofs

`SecureServerProofs`, from `PoolAssumption` and `ServerAssumption` only (any
integers for the command-line bounds, any set of connections, finite or not):

| Theorem | Statement | Further assumption |
|---|---|---|
| `TypeCorrect` | `Spec => []TypeOK` | |
| `Ownership` | `Spec => []OwnedOnce` | |
| `NoSlotLeaks` | `Spec => []SlotsNeverLeak` | |
| `BoundedInFlight` | `Spec => []InFlightBounded` | |
| `CapHolds` | `Spec => []CapRespected` | `MaxStartFailures = 0` |
| `Orderly` | `Spec => []OrderlyShutdown` | |
| `Refinement` | `Spec => ImplementsAdmission` | `MaxStartFailures = 0` |

*Argument.* `OwnedOnce` is inductive with the type invariant: a queue of
distinct connections of one stage stays so under `Append` of one that just
entered the stage (`LineAppend`) and under `Tail` (`LineTail`). The slots need
`Counted`: the connections in flight are finitely many, and `free` and their
number stay within both bounds. A step moves at most one connection into or out
of a holding stage (`HeldEnter`, `HeldLeave`, `HeldSame` say what that does to
the cardinality); that it really leaves, or enters, is what `OwnedOnce` is
needed for. Neither bound alone is inductive, since `Release` on a full
semaphore keeps its value: the upper bound says when that happens. The shutdown
needs `Exits`: nobody is in `drain` or beyond without an interrupt or an
exception, so that a second way out is told from the first. Without failed
starts `Exact` turns the two bounds into an equation, and the refinement is one
case per action: free slots of the semaphore are free slots of the abstraction.

`TimeExchangeProofs`, from `ClockAssumption` and `ExchangeAssumption` (any skews,
lists of sources, durations and resolutions):

| Theorem | Statement |
|---|---|
| `TypeCorrect` | `Spec => []TypeOK` |
| `Accuracy` | `Spec => []ClockAccuracy` |
| `Soundness` | `Spec => []MeasurementSound` |
| `Accurate` | `Spec => []EndToEnd` |
| `LabelDescribes` | `Spec => []LabelDescribesStamps` |

*Argument.* `ClockInv` adds to the accuracy that a request in progress is no
older than `MaxTry`, without which `Answered` could set any offset. `ExchangeInv`
says of each stamp taken that it is the reading of its clock at its time, that
the times are in order, and that the error it carries is that of its origin;
the two bounds then are arithmetic (`Sound`, `Within`). `LabelInv` adds that a
corrected stamp implies a corrected clock, that a status which names a source
names the one of the offset in force, and that while a reply is made and nothing
has shifted, its stamps so far (`StampedFrom`) and the offset that is held come
from the source in force.

`UdpServerProofs`, from `PoolAssumption` and `UdpAssumption`:

| Theorem | Statement | Further assumption |
|---|---|---|
| `TypeCorrect` | `Spec => []TypeOK` | |
| `OwnSamples` | `Spec => []SampleIsOwn` | |
| `Accounted` | `Spec => []SlotsAccounted` | |
| `Orderly` | `Spec => []OrderlyShutdown` | |
| `Refinement` | `Spec => Abstract!ASpec` | `MaxStartFailures = 0` |

*Argument.* `Owned` says that the executor's queue holds queued datagrams, each
once, and that the one in `main()`'s hands is nowhere else. `Stamped` follows a
stamp from `Submit` through the workers and the network into the sample; it has
to say that a datagram once sent is never absent again, or a later request could
take its name and change the round of a sample. The slots are counted and the
ways out of the loop told apart (`Exits`) as in the TLS server. `Refinement` is checked by the prover only: the run `udp` has a start
that fails, and the abstract specification excludes that.

`ServerGuiProofs`, from `ServersAssumption` (any number of starts, Windows or not):

| Theorem | Statement |
|---|---|
| `TypeCorrect` | `Spec => []TypeOK` |
| `NothingLeftBehind` | `Spec => []NoOrphans` |
| `OutputRead` | `Spec => []OutputIsRead` |
| `Labels` | `Spec => []LabelsSettle` |

*Argument.* `Fresh` says that processes not started are absent, so that a start
takes a new one; `Registered` that the registered process of a key has that key.
`NoOrphans` also needs `Closing`: while the window is closing, whatever runs has
yet to be stopped. `OutputIsRead` survives a restart because the
watcher that begins finds whatever is registered *now*, and one that has begun
reads its process to the end. The labels need `LabelsCome`: a label that is wrong
was set from an overtaken reading, or a thread has yet to set it (`Coming`),
counting the watcher of a process that has ended but not been noticed.

`ClientGuiProofs`, from `LiveAssumption` and `GuiAssumption` (any number of
sessions, rounds, paths and presses, and any bound of the queue of callbacks):

| Theorem | Statement |
|---|---|
| `Invariant` | `Spec => []Inv` |
| `TypeCorrect` | `Spec => []TypeOK` |
| `EndIsShown` | `Spec => []ShowsEnded` |
| `StopEnabled` | `Spec => []StopUsable` |
| `StopIsPrompt` | `Spec => []StopTakesEffect` |
| `CsvIsRight` | `Spec => []CsvIsOfThisSession` |
| `CorrectionIsComplete` | `Spec => []CorrectionSeesSession` |
| `LabelTells` | `Spec => []LiveLabelTells` |

*Argument.* A property of the window is a property of its state *and* of the
callbacks that are still to run, in their order; none of the properties is
inductive without the queue. `Ending` says of a session that is over: its last
word is in the queue with no progress report behind it, or has been said and
there is none in the queue. `OwnCalls` says that an error or the end pending
while a session runs is of an earlier session, or of a failed write of its own:
those are the two exceptions of `StopUsable`. `InOrder` is the heart of the
correction. What a row follows is the row before it in the queue, or, if there
is none, the last of the table (`Before`); each pending row continues that one or
begins a later session, and a pending correction comes after the last row of its
session. Clearing the table only removes what a row has to follow, so that the
claim survives it. `Table` then says what stands above the last row. `Stopped`
says that the event stays set while a stopped session is in its last round, and
`LiveText` which offset, of which press, is in force under which text.
`LabelTells` says nothing of the text of a failure: there `FailedMeansLocal` is
violated.

`ClientSessionProofs` (from `ClientAssumption`) and `MonitorJobsProofs` (from
`JobsAssumption` as well), for any number of clients, rounds, stress tests and
captures. The first holds the lemmas about the client alone, the second the
theorems about the client as the process of a stress test:

| Theorem | Statement |
|---|---|
| `Invariant` | `Spec => []Inv` |
| `TypeCorrect` | `Spec => []TypeOK` |
| `ResultsAreSaved` | `Spec => []SavedResults` |
| `FileRefinement` | `Spec => ImplementsResults` |
| `MetricsAreRight` | `Spec => []MetricsAreOfThisTest` |
| `ReportsAreCounted` | `Spec => []ReportsCountedOnce` |
| `ButtonsAreRight` | `Spec => []ProofButtons` |

*Argument.* `Collected` follows the rows: `Holds(s, n, D)` says that the sequence
`s` is made of exactly the rows of run `n` of the clients in `D`, each once. The
shared list holds those of the sessions that are done, in whichever order they
returned; appending a session keeps that (`HoldsMore`), sorting keeps it and adds
the order (`HoldsSorted`), and at exit 0 the file is that list. That sorting
neither loses nor doubles a row is `Places`: with a total order on the keys, the
places of the rows are a permutation of `1..Len(s)`. It is injective because of
two rows exactly one comes first, and onto because it is injective on a finite
set. The length of the file, which the metrics show, is then a product
(`Threads` says that nobody runs when the list is saved). The refinement
(`FileStep`) has a case per action; `Started` adds that all the sessions asked for
have been started when main() goes on with their results, and `FirstRows` says
what a write that fails leaves.

`StressOrder` says that there is at most one callback of a stress test, and that
until it has run neither the program nor its file can change, since the Start
button is disabled. `ProofOrder` says that nothing of a capture comes after its
last callback but those of the other job and of the live clock.
`ReportsCountedOnce` is inductive with the types: `FailedAppended` and
`FailedRun` say how posting and running a callback change the number of failures
in the queue, and the sets of errors are finite because the clients are. That
the history variable `reports` stays a natural number when a client dies with
its errors uncounted follows from `ReportsCountedOnce` itself, which is why the proof of
the types uses it.

Only model-checked: the liveness properties and the five violations. Liveness
under fairness is beyond the prover. The two assumptions about `ReferenceTime`
are evaluated over bounded inputs: its fold over a list would need an induction.
Every safety invariant of a passing run is the statement of a theorem.

## 6. Not modelled

- Both GUIs: layout, plots, drawing, message boxes; the client's display of a CSV
  file, the analysis scripts it launches, and closing its window, which sets the
  stop event and destroys it; the server's other counters, and the rest of its
  live clock, whose code repeats that of the client GUI.
- Statistics: means and a regression over floats. `estimate_drift_rate` has one
  caller, a script; the others have none.
- The analysis scripts, the certificate generator, `server/test.py`: each runs
  once from top to bottom and keeps no state.
- The encoding of packets (JSON of a flat record: a packet is valid or not, and a
  reply is its id, its stamps and its label); logging; the printed summary.
- TLS itself is a handshake that succeeds or fails. The kernel's backlog holds
  `Backlog` connections and more are not established, a client's retry being a
  connection that comes later.
- `start()` of the master clock after a `stop()`, which no program of the
  repository does.

## 7. Plan

1. The warning throttle as part of the sync thread in `MasterClock`, with the
   statement of `ThrottleTells` as an invariant over any sequence of failures,
   which needs no induction over a list.
2. An abstract specification of a session of the client GUI (its rows in the table
   and in the file, its end shown) that `ClientGui` implements.
