------------------------------ MODULE ServerGui ------------------------------
(***************************************************************************)
(* The processes of server/server_gui.py: the two servers it starts and    *)
(* stops, the thread that reads the output of each, listeners started      *)
(* elsewhere on the same ports, and the status labels, which the main      *)
(* thread and the reading threads refresh.  A thread other than the main   *)
(* one sets a label when the main thread is back in its event loop.        *)
(***************************************************************************)
EXTENDS Integers, FiniteSets

CONSTANTS
    MaxProcs,   \* bound: how many servers are started
    Windows     \* netstat and taskkill answer as _find_listening_pids expects

ASSUME ServersAssumption ==
    /\ MaxProcs \in Nat
    /\ Windows \in BOOLEAN

Key == {"udp", "tls"}
Proc == 1..MaxProcs
None == 0
Listener == {"none", "own", "foreign", "longer"}

VARIABLES
    started,    \* the processes started: 1..started
    key,        \* of each, its key in self.processes
    child,      \* whether it is absent, running or ended
    processes,  \* self.processes: for each key a process or None
    listener,   \* found on each port: none, own or foreign (not for us to
                \* end), or one on a longer port number that begins with it
    watcher,    \* of each process, where the thread started for it is
    watched,    \* the process that thread reads
    seen,       \* its reading of what runs
    label,      \* whether the label of each server says Running
    main,       \* the main thread: in its event loop, or in a Stop
    todo,       \* the servers it has yet to stop
    target,     \* the one it is stopping
    closing,    \* it does so to close the window
    closed,     \* the window is closed
    overtaken   \* history: the labels last set from a reading already untrue

childVars == <<started, key, child>>
watchVars == <<watcher, watched, seen>>
labelVars == <<label, overtaken>>
mainVars == <<main, todo, target, closing, closed>>
vars == <<childVars, processes, listener, watchVars, labelVars, mainVars>>

\* _is_running
Running(k) == processes[k] # None /\ child[processes[k]] = "running"

Init ==
    /\ started = 0
    /\ key = [p \in Proc |-> "udp"]
    /\ child = [p \in Proc |-> "absent"]
    /\ processes = [k \in Key |-> None]
    /\ listener = [k \in Key |-> "none"]
    /\ watcher = [p \in Proc |-> "none"]
    /\ watched = [p \in Proc |-> None]
    /\ seen = [p \in Proc |-> [k \in Key |-> FALSE]]
    /\ label = [k \in Key |-> FALSE]
    /\ main = "idle" /\ todo = {} /\ target = "udp" /\ closing = FALSE /\ closed = FALSE
    /\ overtaken = {}

-----------------------------------------------------------------------------
(* The processes.                                                          *)

\* A server ends: by itself, or by a signal once one has been sent.
ChildEnds(p) ==
    /\ child[p] = "running"
    /\ child' = [child EXCEPT ![p] = "ended"]
    /\ UNCHANGED <<started, key, processes, listener, watchVars, labelVars, mainVars>>

\* Somebody else starts a server on a port that is free, or ends it; a longer
\* port number is another port.
ListenerChanges(k, l) ==
    /\ (listener[k] = "none") # (l = "none")
    /\ l \in {"none", "longer"} \/ ~Running(k)
    /\ listener' = [listener EXCEPT ![k] = l]
    /\ UNCHANGED <<childVars, processes, watchVars, labelVars, mainVars>>

-----------------------------------------------------------------------------
(* The main thread.                                                        *)

\* _refresh_status_labels() in the main thread, after what it has changed.
Refresh ==
    /\ label' = [k \in Key |->
            processes'[k] # None /\ child'[processes'[k]] = "running"]
    /\ overtaken' = {}

\* _find_listening_pids(), which looks for the digits of the port in a line.
PortBusy(k) == Windows /\ (listener[k] # "none" \/ Running(k))

\* Fault: the thread is started first and may find its process unregistered.
RunWatchedFirst(k) ==
    /\ ~Running(k)
    /\ started' = started + 1
    /\ key' = [key EXCEPT ![started'] = k]
    /\ child' = [child EXCEPT ![started'] = "running"]
    /\ processes' = [processes EXCEPT ![k] = started']
    /\ \E w \in {"begin", "done"} : watcher' = [watcher EXCEPT ![started'] = w]
    /\ Refresh

\* The new process replaces one that has ended.
RunSubprocess(k) ==
    /\ ~Running(k)
    /\ started' = started + 1
    /\ key' = [key EXCEPT ![started'] = k]
    /\ child' = [child EXCEPT ![started'] = "running"]
    /\ processes' = [processes EXCEPT ![k] = started']
    /\ watcher' = [watcher EXCEPT ![started'] = "begin"]
    /\ Refresh

\* start_udp_server(), start_tls_server()
Start(k) ==
    /\ main = "idle" /\ ~closed /\ started < MaxProcs
    /\ ~PortBusy(k)
    /\ RunSubprocess(k)
    /\ UNCHANGED <<listener, watched, seen, mainVars>>

PressStop(k) ==
    /\ main = "idle" /\ ~closed
    /\ main' = "next" /\ todo' = {k}
    /\ UNCHANGED <<childVars, processes, listener, watchVars, labelVars, target, closing, closed>>

\* _on_close(), which stops whatever is registered.
PressClose ==
    /\ main = "idle" /\ ~closed
    /\ main' = "next" /\ closing' = TRUE
    /\ todo' = {k \in Key : processes[k] # None}
    /\ UNCHANGED <<childVars, processes, listener, watchVars, labelVars, target, closed>>

\* The next server to stop, the event loop, or the end.
AllStopped ==
    /\ main = "next" /\ todo = {}
    /\ main' = "idle" /\ closed' = closing
    /\ UNCHANGED <<childVars, processes, listener, watchVars, labelVars, todo, target, closing>>

\* _stop_external_listeners()
EndListener(k) ==
    listener' = IF Windows /\ listener[k] \in {"own", "longer"}
                THEN [listener EXCEPT ![k] = "none"] ELSE listener

StopUnmanaged(k) ==
    /\ main = "next" /\ k \in todo /\ processes[k] = None
    /\ EndListener(k)
    /\ todo' = todo \ {k}
    /\ UNCHANGED <<childVars, processes, watchVars, main, target, closing, closed>>
    /\ Refresh

\* The process is registered but has ended: nothing is done.
StopEnded(k) ==
    /\ main = "next" /\ k \in todo /\ processes[k] # None /\ ~Running(k)
    /\ todo' = todo \ {k}
    /\ UNCHANGED <<childVars, processes, listener, watchVars, labelVars, main, target, closing, closed>>

\* The signal is sent; the process may heed it or not.
StopBegins(k) ==
    /\ main = "next" /\ k \in todo /\ Running(k)
    /\ main' = "wait" /\ target' = k
    /\ UNCHANGED <<childVars, processes, listener, watchVars, labelVars, todo, closing, closed>>

\* The process has ended within its two seconds, or the two after kill().
StopSucceeds ==
    /\ main \in {"wait", "killwait"} /\ ~Running(target)
    /\ processes' = [processes EXCEPT ![target] = None]
    /\ EndListener(target)
    /\ main' = "next" /\ todo' = todo \ {target}
    /\ UNCHANGED <<childVars, watchVars, target, closing, closed>>
    /\ Refresh

\* Fault: the first wait has no timeout.
WaitForever ==
    /\ main = "wait" /\ ~Running(target)
    /\ main' = "killwait"
    /\ UNCHANGED <<childVars, processes, listener, watchVars, labelVars, todo, target, closing, closed>>

\* After two seconds it is killed.
WaitTimesOut ==
    /\ main = "wait" /\ Running(target)
    /\ main' = "killwait"
    /\ UNCHANGED <<childVars, processes, listener, watchVars, labelVars, todo, target, closing, closed>>

\* Fault: the second timeout is ignored, too.
KillWaitGoesOn ==
    /\ main = "killwait" /\ Running(target)
    /\ processes' = [processes EXCEPT ![target] = None]
    /\ main' = "next" /\ todo' = todo \ {target}
    /\ UNCHANGED <<childVars, listener, watchVars, labelVars, target, closing, closed>>

\* If that takes longer than two seconds the TimeoutExpired ends the whole
\* handler: the process stays registered, the window open.
KillWaitTimesOut ==
    /\ main = "killwait" /\ Running(target)
    /\ main' = "idle" /\ todo' = {} /\ closing' = FALSE
    /\ UNCHANGED <<childVars, processes, listener, watchVars, labelVars, target, closed>>

-----------------------------------------------------------------------------
(* _stream_process_output(), in the thread started for a process.          *)

\* Fault: it does not check that there is one.
WatcherBeginsUnchecked(p) ==
    /\ watcher[p] = "begin"
    /\ watched' = [watched EXCEPT ![p] = processes[key[p]]]
    /\ watcher' = [watcher EXCEPT ![p] = "stream"]
    /\ UNCHANGED <<childVars, processes, listener, seen, labelVars, mainVars>>

\* It takes the process that is registered by now; if there is none it ends.
WatcherBegins(p) ==
    /\ watcher[p] = "begin"
    /\ watched' = [watched EXCEPT ![p] = processes[key[p]]]
    /\ watcher' = [watcher EXCEPT ![p] = IF watched'[p] = None THEN "done" ELSE "stream"]
    /\ UNCHANGED <<childVars, processes, listener, seen, labelVars, mainVars>>

\* Fault: persistent=False, the entry of the key is removed.
WatcherPops(p) ==
    /\ watcher[p] = "stream" /\ child[watched[p]] = "ended"
    /\ processes' = [processes EXCEPT ![key[p]] = None]
    /\ watcher' = [watcher EXCEPT ![p] = "refresh"]
    /\ UNCHANGED <<childVars, listener, watched, seen, labelVars, mainVars>>

\* Fault: no refresh at the end.
WatcherJustEnds(p) ==
    /\ watcher[p] = "stream" /\ child[watched[p]] = "ended"
    /\ watcher' = [watcher EXCEPT ![p] = "done"]
    /\ UNCHANGED <<childVars, processes, listener, watched, seen, labelVars, mainVars>>

\* The output ends with the process.  Servers are persistent: they stay in
\* self.processes.
WatcherSeesEnd(p) ==
    /\ watcher[p] = "stream" /\ child[watched[p]] = "ended"
    /\ watcher' = [watcher EXCEPT ![p] = "refresh"]
    /\ UNCHANGED <<childVars, processes, listener, watched, seen, labelVars, mainVars>>

\* _refresh_status_labels() in this thread: it reads both states, then sets
\* one label after the other.
WatcherReads(p) ==
    /\ watcher[p] = "refresh"
    /\ seen' = [seen EXCEPT ![p] = [k \in Key |-> Running(k)]]
    /\ watcher' = [watcher EXCEPT ![p] = "udp"]
    /\ UNCHANGED <<childVars, processes, listener, watched, labelVars, mainVars>>

WatcherSets(p, k) ==
    /\ watcher[p] = k /\ main = "idle" /\ ~closed
    /\ label' = [label EXCEPT ![k] = seen[p][k]]
    /\ overtaken' = IF seen[p][k] = Running(k) THEN overtaken \ {k} ELSE overtaken \cup {k}
    /\ watcher' = [watcher EXCEPT ![p] = IF k = "udp" THEN "tls" ELSE "done"]
    /\ UNCHANGED <<childVars, processes, listener, watched, seen, mainVars>>

-----------------------------------------------------------------------------
StopStep ==
    \/ AllStopped \/ StopSucceeds \/ WaitTimesOut \/ KillWaitTimesOut
    \/ \E k \in Key : StopUnmanaged(k) \/ StopEnded(k) \/ StopBegins(k)

WatcherStep(p) ==
    \/ WatcherBegins(p) \/ WatcherSeesEnd(p) \/ WatcherReads(p)
    \/ \E k \in Key : WatcherSets(p, k)

Next ==
    \/ StopStep \/ PressClose
    \/ \E k \in Key :
        \/ Start(k) \/ PressStop(k)
        \/ \E l \in Listener : ListenerChanges(k, l)
    \/ \E p \in Proc : ChildEnds(p) \/ WatcherStep(p)

Spec == Init /\ [][Next]_vars

\* The threads are scheduled; a wait ends after two seconds at the latest.
\* No process has to end.
Fairness ==
    /\ WF_vars(StopStep)
    /\ \A p \in Proc : WF_vars(WatcherStep(p))

FairSpec == Spec /\ Fairness

-----------------------------------------------------------------------------
(* Properties.                                                             *)

\* The state has its type.
TypeOK ==
    /\ started \in 0..MaxProcs
    /\ key \in [Proc -> Key]
    /\ child \in [Proc -> {"absent", "running", "ended"}]
    /\ processes \in [Key -> {None} \cup Proc]
    /\ listener \in [Key -> Listener]
    /\ watcher \in [Proc -> {"none", "begin", "stream", "refresh", "done"} \cup Key]
    /\ watched \in [Proc -> {None} \cup Proc]
    /\ \A p \in Proc : watcher[p] = "stream" => watched[p] # None
    /\ seen \in [Proc -> [Key -> BOOLEAN]]
    /\ label \in [Key -> BOOLEAN]
    /\ main \in {"idle", "next", "wait", "killwait"}
    /\ todo \subseteq Key
    /\ target \in Key
    /\ closing \in BOOLEAN
    /\ closed \in BOOLEAN
    /\ overtaken \subseteq Key

\* A server that runs can be stopped: it is the registered one of its key and
\* the window is open.  No restart, no end of an older process, no Stop that
\* times out and no closing of the window leaves one behind.
NoOrphans ==
    \A p \in Proc : child[p] = "running" => processes[key[p]] = p /\ ~closed

\* The output of a server that runs is read, or about to be, whichever process
\* each thread picked up; otherwise the server would stop at a full pipe.
OutputIsRead ==
    \A p \in Proc : child[p] = "running" =>
        \E w \in Proc :
            \/ watcher[w] = "stream" /\ watched[w] = p
            \/ watcher[w] = "begin" /\ processes[key[w]] = p

\* A thread that has still to refresh the labels, or will when it looks.
Unsettled(p) ==
    \/ watcher[p] \in {"begin", "refresh"} \cup Key
    \/ watcher[p] = "stream" /\ child[watched[p]] = "ended"

\* Once the threads have finished, each label says what runs, except one that
\* was set last from a reading the other thread's refresh had overtaken.
LabelsSettle ==
    main = "idle" /\ ~closed /\ (\A p \in Proc : ~Unsettled(p))
        => \A k \in Key \ overtaken : label[k] = Running(k)

\* Stop, and closing the window, come to an end even if the process neither
\* heeds the signal nor dies when killed: the window does not hang.
StopReturns == main # "idle" ~> main = "idle"

\* "Still try to stop external listeners": a Stop that has no process of its
\* own to end frees the port of a server started elsewhere.
StopFreesPort ==
    [][\A k \in Key :
        Windows /\ main = "next" /\ ~closing /\ k \in todo /\ k \notin todo'
            => listener'[k] # "own"]_vars
=============================================================================
