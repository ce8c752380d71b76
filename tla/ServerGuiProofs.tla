--------------------------- MODULE ServerGuiProofs ---------------------------
(***************************************************************************)
(* Theorems about ServerGui, for any number of servers started and on any  *)
(* host: nothing that runs is left behind or unread, and the labels agree  *)
(* with what runs in the end.                                              *)
(***************************************************************************)
EXTENDS ServerGui, TLAPS

\* The processes not started yet have left no trace.
Fresh ==
    /\ \A p \in Proc : p > started => child[p] = "absent" /\ watcher[p] = "none"
    /\ \A k \in Key : processes[k] <= started

\* What is registered under a key was started for it.
Registered == \A k \in Key : processes[k] # None => key[processes[k]] = k

\* While the window is being closed, what runs has yet to be stopped.
Closing ==
    /\ closed => main = "idle"
    /\ closing /\ main = "idle" => closed
    /\ closing /\ main # "idle" => \A p \in Proc : child[p] = "running" => key[p] \in todo

Inv == TypeOK /\ Fresh /\ Registered /\ Closing /\ NoOrphans /\ OutputIsRead

-----------------------------------------------------------------------------
(* Types.                                                                  *)

LEMMA TypeInit == Init => TypeOK
  <1> SUFFICES ASSUME Init PROVE TypeOK
    OBVIOUS
  <1>1. started \in 0..MaxProcs
    BY ServersAssumption DEF ServersAssumption, Init
  <1>2. processes \in [Key -> {None} \cup Proc] /\ watched \in [Proc -> {None} \cup Proc]
    BY DEF Init
  <1>3. seen \in [Proc -> [Key -> BOOLEAN]] /\ label \in [Key -> BOOLEAN]
    BY DEF Init
  <1>4. target \in Key /\ todo \subseteq Key /\ overtaken \subseteq Key
    BY DEF Init, Key
  <1>5. key \in [Proc -> Key]
    BY DEF Init, Key
  <1> QED
    BY <1>1, <1>2, <1>3, <1>4, <1>5 DEF Init, TypeOK, Listener

LEMMA TypeStep == TypeOK /\ Fresh /\ [Next]_vars => TypeOK'
  <1> SUFFICES ASSUME TypeOK, Fresh, [Next]_vars PROVE TypeOK'
    OBVIOUS
  <1> USE ServersAssumption DEF ServersAssumption, TypeOK, Fresh, Key, Proc, None, Listener, Running, Refresh,
        EndListener, childVars, watchVars, labelVars, mainVars
  <1>1. ASSUME NEW k \in Key, Start(k) PROVE TypeOK'
    BY <1>1 DEF Start, RunSubprocess
  <1>2. ASSUME NEW k \in Key, PressStop(k) PROVE TypeOK'
    BY <1>2 DEF PressStop
  <1>3. CASE PressClose
    BY <1>3 DEF PressClose
  <1>4. CASE AllStopped
    BY <1>4 DEF AllStopped
  <1>5. ASSUME NEW k \in Key, StopUnmanaged(k) PROVE TypeOK'
    BY <1>5 DEF StopUnmanaged
  <1>6. ASSUME NEW k \in Key, StopEnded(k) PROVE TypeOK'
    BY <1>6 DEF StopEnded
  <1>7. ASSUME NEW k \in Key, StopBegins(k) PROVE TypeOK'
    BY <1>7 DEF StopBegins
  <1>8. CASE StopSucceeds
    BY <1>8 DEF StopSucceeds
  <1>9. CASE WaitTimesOut
    BY <1>9 DEF WaitTimesOut
  <1>10. CASE KillWaitTimesOut
    BY <1>10 DEF KillWaitTimesOut
  <1>11. ASSUME NEW k \in Key, NEW l \in Listener, ListenerChanges(k, l)
         PROVE TypeOK'
    BY <1>11 DEF ListenerChanges
  <1>12. ASSUME NEW p \in Proc, ChildEnds(p) PROVE TypeOK'
    BY <1>12 DEF ChildEnds
  <1>13. ASSUME NEW p \in Proc, WatcherBegins(p) PROVE TypeOK'
    BY <1>13 DEF WatcherBegins
  <1>14. ASSUME NEW p \in Proc, WatcherSeesEnd(p) PROVE TypeOK'
    BY <1>14 DEF WatcherSeesEnd
  <1>15. ASSUME NEW p \in Proc, WatcherReads(p) PROVE TypeOK'
    <2>1. seen' \in [Proc -> [Key -> BOOLEAN]]
      BY <1>15 DEF WatcherReads
    <2> QED
      BY <1>15, <2>1 DEF WatcherReads
  <1>16. ASSUME NEW p \in Proc, NEW k \in Key, WatcherSets(p, k) PROVE TypeOK'
    BY <1>16 DEF WatcherSets
  <1>17. CASE UNCHANGED vars
    BY <1>17 DEF vars
  <1> HIDE DEF TypeOK, Fresh, Key, Proc
  <1> QED
    BY <1>1, <1>2, <1>3, <1>4, <1>5, <1>6, <1>7, <1>8, <1>9, <1>10, <1>11, <1>12,
       <1>13, <1>14, <1>15, <1>16, <1>17
    DEF Next, StopStep, WatcherStep
-----------------------------------------------------------------------------
(* Processes.                                                              *)

\* A step that starts, ends or forgets no process.
Quiet == UNCHANGED <<childVars, processes>>

\* A step in which no thread moves.
Still == UNCHANGED <<started, watcher, watched>>

\* Every step but three is quiet.
LEMMA Steps ==
  ASSUME [Next]_vars
  PROVE  \/ \E k \in Key : Start(k)
         \/ StopSucceeds
         \/ \E p \in Proc : ChildEnds(p)
         \/ Quiet
  BY DEF Quiet, Next, StopStep, WatcherStep, PressStop, PressClose, AllStopped, StopUnmanaged,
     StopEnded, StopBegins, WaitTimesOut, KillWaitTimesOut, ListenerChanges, WatcherBegins,
     WatcherSeesEnd, WatcherReads, WatcherSets, childVars, vars

\* A thread that reads an output is that of a process that was started.
LEMMA WatcherSteps ==
  ASSUME [Next]_vars
  PROVE  \/ \E k \in Key : Start(k)
         \/ \E p \in Proc : WatcherStep(p)
         \/ Still
  BY DEF Still, Next, StopStep, PressStop, PressClose, AllStopped, StopUnmanaged, StopSucceeds,
     StopEnded, StopBegins, WaitTimesOut, KillWaitTimesOut, ListenerChanges, ChildEnds,
     childVars, watchVars, vars

LEMMA FreshStep == TypeOK /\ Fresh /\ [Next]_vars => Fresh'
  <1> SUFFICES ASSUME TypeOK, Fresh, [Next]_vars PROVE Fresh'
    OBVIOUS
  <1> USE ServersAssumption DEF ServersAssumption, TypeOK, Fresh, Proc, None
  <1>1. ASSUME NEW k \in Key, Start(k) PROVE Fresh'
    <2>1. started' = started + 1 /\ started \in Nat
      BY <1>1 DEF Start, RunSubprocess
    <2>2. ASSUME NEW p \in Proc, p > started'
          PROVE  child'[p] = "absent" /\ watcher'[p] = "none"
      BY <1>1, <2>1, <2>2 DEF Start, RunSubprocess
    <2>3. ASSUME NEW j \in Key PROVE processes'[j] <= started'
      <3>1. processes'[j] = IF j = k THEN started' ELSE processes[j]
        BY <1>1, <2>3 DEF Start, RunSubprocess
      <3>2. processes[j] \in Int /\ processes[j] <= started
        BY <2>3
      <3> QED
        BY <2>1, <3>1, <3>2
    <2> QED
      BY <2>2, <2>3
  <1>2. CASE StopSucceeds
    BY <1>2 DEF StopSucceeds, childVars, watchVars
  <1>3. ASSUME NEW p \in Proc, ChildEnds(p) PROVE Fresh'
    BY <1>3 DEF ChildEnds, watchVars
  <1>4. ASSUME NEW p \in Proc, WatcherStep(p) PROVE Fresh'
    BY <1>4 DEF WatcherStep, WatcherBegins, WatcherSeesEnd, WatcherReads, WatcherSets,
                childVars, Key
  <1>5. CASE Quiet /\ Still
    BY <1>5 DEF Quiet, Still, childVars
  <1> HIDE DEF Fresh, TypeOK, Proc, None
  <1> QED
    BY <1>1, <1>2, <1>3, <1>4, <1>5, Steps, WatcherSteps

LEMMA RegisteredStep == TypeOK /\ Fresh /\ Registered /\ [Next]_vars => Registered'
  <1> SUFFICES ASSUME TypeOK, Fresh, Registered, [Next]_vars PROVE Registered'
    OBVIOUS
  <1> USE ServersAssumption DEF ServersAssumption, TypeOK, Fresh, Registered, Proc, None
  <1>1. ASSUME NEW k \in Key, Start(k) PROVE Registered'
    BY <1>1 DEF Start, RunSubprocess
  <1>2. CASE StopSucceeds
    BY <1>2 DEF StopSucceeds, childVars
  <1>3. ASSUME NEW p \in Proc, ChildEnds(p) PROVE Registered'
    BY <1>3 DEF ChildEnds
  <1>4. CASE Quiet
    BY <1>4 DEF Quiet, childVars
  <1> QED
    BY <1>1, <1>2, <1>3, <1>4, Steps

\* No server that runs is replaced in, or removed from, the registry.
LEMMA OrphanStep == Inv /\ [Next]_vars => (NoOrphans /\ Closing)'
  <1> SUFFICES ASSUME Inv, [Next]_vars PROVE (NoOrphans /\ Closing)'
    OBVIOUS
  <1> USE ServersAssumption DEF ServersAssumption, Inv, TypeOK, Fresh, NoOrphans, Closing, Proc, None,
        Running, childVars, mainVars, Quiet
  <1>1. ASSUME NEW k \in Key, Start(k) PROVE (NoOrphans /\ Closing)'
    BY <1>1 DEF Start, RunSubprocess
  <1>2. ASSUME NEW k \in Key, PressStop(k) PROVE (NoOrphans /\ Closing)'
    BY <1>2 DEF PressStop
  <1>3. CASE PressClose
    BY <1>3 DEF PressClose
  <1>4. CASE AllStopped
    BY <1>4 DEF AllStopped
  <1>5. ASSUME NEW k \in Key, StopUnmanaged(k) PROVE (NoOrphans /\ Closing)'
    BY <1>5 DEF StopUnmanaged
  <1>6. ASSUME NEW k \in Key, StopEnded(k) PROVE (NoOrphans /\ Closing)'
    BY <1>6 DEF StopEnded
  <1>7. ASSUME NEW k \in Key, StopBegins(k) PROVE (NoOrphans /\ Closing)'
    BY <1>7 DEF StopBegins
  <1>8. CASE StopSucceeds
    BY <1>8 DEF StopSucceeds
  <1>9. CASE WaitTimesOut
    BY <1>9 DEF WaitTimesOut
  <1>10. CASE KillWaitTimesOut
    BY <1>10 DEF KillWaitTimesOut
  <1>11. ASSUME NEW k \in Key, NEW l \in Listener, ListenerChanges(k, l)
         PROVE (NoOrphans /\ Closing)'
    BY <1>11 DEF ListenerChanges
  <1>12. ASSUME NEW p \in Proc, ChildEnds(p) PROVE (NoOrphans /\ Closing)'
    BY <1>12 DEF ChildEnds
  <1>13. ASSUME NEW p \in Proc, WatcherStep(p) PROVE (NoOrphans /\ Closing)'
    BY <1>13 DEF WatcherStep, WatcherBegins, WatcherSeesEnd, WatcherReads, WatcherSets
  <1>14. CASE UNCHANGED vars
    BY <1>14 DEF vars
  <1> HIDE DEF Inv, NoOrphans, Closing
  <1> QED
    BY <1>1, <1>2, <1>3, <1>4, <1>5, <1>6, <1>7, <1>8, <1>9, <1>10, <1>11, <1>12,
       <1>13, <1>14
    DEF Next, StopStep

\* The thread that reads an output goes on until it ends.
LEMMA OutputStep == Inv /\ [Next]_vars => OutputIsRead'
  <1> SUFFICES ASSUME Inv, [Next]_vars, NEW p \in Proc, child'[p] = "running"
               PROVE  \E w \in Proc :
                        \/ watcher'[w] = "stream" /\ watched'[w] = p
                        \/ watcher'[w] = "begin" /\ processes'[key'[w]] = p
    BY DEF OutputIsRead
  <1> USE ServersAssumption DEF ServersAssumption, Inv, TypeOK, Fresh, Registered, NoOrphans, OutputIsRead,
        Proc, None, Running, Key
  <1>1. ASSUME NEW k \in Key, Start(k), p = started + 1 PROVE p \in Proc /\ watcher'[p] = "begin" /\ processes'[key'[p]] = p
    BY <1>1 DEF Start, RunSubprocess
  <1>2. ASSUME NEW k \in Key, Start(k), p # started + 1
        PROVE  \E w \in Proc :
                        \/ watcher'[w] = "stream" /\ watched'[w] = p
                        \/ watcher'[w] = "begin" /\ processes'[key'[w]] = p
    <2>1. child[p] = "running" /\ key[p] # k /\ processes[key[p]] = p
      BY <1>2 DEF Start, RunSubprocess
    <2>2. PICK w \in Proc : \/ watcher[w] = "stream" /\ watched[w] = p
                            \/ watcher[w] = "begin" /\ processes[key[w]] = p
      BY <2>1
    <2>3. w # started + 1
      BY <2>2, <1>2 DEF Start
    <2>4. watcher'[w] = watcher[w] /\ watched'[w] = watched[w] /\ key'[w] = key[w]
      BY <2>3, <1>2 DEF Start, RunSubprocess
    <2>5. key[w] # k => processes'[key[w]] = processes[key[w]]
      BY <1>2 DEF Start, RunSubprocess
    <2>6. processes[key[w]] = p => key[w] = key[p]
      BY <2>1
    <2> QED
      BY <2>1, <2>2, <2>4, <2>5, <2>6
  <1>3. ASSUME child[p] = "running", ~ (\E k \in Key : Start(k))
        PROVE  \E w \in Proc :
                        \/ watcher'[w] = "stream" /\ watched'[w] = p
                        \/ watcher'[w] = "begin" /\ processes'[key'[w]] = p
    <2>1. PICK w \in Proc : \/ watcher[w] = "stream" /\ watched[w] = p
                            \/ watcher[w] = "begin" /\ processes[key[w]] = p
      BY <1>3
    <2>2. key' = key /\ (watcher[w] = "begin" => processes'[key[w]] = processes[key[w]])
      <3>1. CASE StopSucceeds
        BY <3>1, <2>1, <1>3 DEF StopSucceeds, childVars
      <3>2. ASSUME NEW q \in Proc, ChildEnds(q) PROVE <2>2
        BY <3>2 DEF ChildEnds
      <3>3. CASE Quiet
        BY <3>3 DEF Quiet, childVars
      <3> QED
        BY <3>1, <3>2, <3>3, <1>3, Steps
    <2>3. \/ watcher'[w] = watcher[w] /\ watched'[w] = watched[w]
          \/ watcher[w] = "begin" /\ watcher'[w] = "stream" /\ watched'[w] = p
      <3>1. ASSUME NEW q \in Proc, WatcherStep(q) PROVE <2>3
        BY <3>1, <2>1, <1>3 DEF WatcherStep, WatcherBegins, WatcherSeesEnd, WatcherReads, WatcherSets
      <3>2. CASE Still
        BY <3>2 DEF Still
      <3> QED
        BY <3>1, <3>2, <1>3, WatcherSteps
    <2> QED
      BY <2>1, <2>2, <2>3
  <1>4. ~ (\E k \in Key : Start(k)) => child[p] = "running"
    BY Steps DEF StopSucceeds, ChildEnds, Quiet, childVars
  <1> HIDE DEF Inv, OutputIsRead, TypeOK
  <1> QED
    BY <1>1, <1>2, <1>3, <1>4


-----------------------------------------------------------------------------
(* Labels.                                                                 *)

\* A thread that has yet to set the label of k, from a reading still to come
\* or already made.
Coming(p, k) ==
    \/ watcher[p] \in {"refresh", "udp"}
    \/ watcher[p] = "tls" /\ k = "tls"
    \/ watcher[p] = "stream" /\ child[watched[p]] = "ended"
    \/ /\ watcher[p] = "begin"
       /\ processes[key[p]] # None /\ child[processes[key[p]]] = "ended"

\* A label that is wrong was set from an overtaken reading, or will be set.
LabelsCome ==
    \A k \in Key :
        label[k] # Running(k) => k \in overtaken \/ \E p \in Proc : Coming(p, k)

\* After a refresh in the main thread every label is right.
LEMMA Refreshed ==
  ASSUME TypeOK, Refresh PROVE LabelsCome'
  BY DEF Refresh, LabelsCome, Running

LEMMA LabelStep == Inv /\ LabelsCome /\ [Next]_vars => LabelsCome'
  <1> SUFFICES ASSUME Inv, LabelsCome, [Next]_vars PROVE LabelsCome'
    OBVIOUS
  <1> USE DEF Proc, None, Running
  <1>0. TypeOK
    BY DEF Inv
  <1>1. ASSUME NEW k \in Key, Start(k) PROVE LabelsCome'
    BY <1>0, <1>1, Refreshed DEF Start, RunSubprocess
  <1>2. ASSUME NEW k \in Key, StopUnmanaged(k) PROVE LabelsCome'
    BY <1>0, <1>2, Refreshed DEF StopUnmanaged
  <1>3. CASE StopSucceeds
    BY <1>0, <1>3, Refreshed DEF StopSucceeds
  <1>4. ASSUME NEW p \in Proc, ChildEnds(p) PROVE LabelsCome'
    <2> USE <1>0, <1>4 DEF ChildEnds, watchVars, labelVars
    <2>1. \A q \in Proc, k \in Key : Coming(q, k) => Coming(q, k)'
      BY DEF Coming, TypeOK
    <2>2. ASSUME NEW k \in Key, processes[k] = p PROVE \E q \in Proc : Coming(q, k)'
      <3>1. PICK w \in Proc : \/ watcher[w] = "stream" /\ watched[w] = p
                              \/ watcher[w] = "begin" /\ processes[key[w]] = p
        BY DEF Inv, OutputIsRead
      <3> QED
        BY <3>1 DEF Coming, TypeOK
    <2>3. ASSUME NEW k \in Key, processes[k] # p PROVE Running(k)' = Running(k)
      BY <2>3 DEF TypeOK
    <2> QED
      BY <2>1, <2>2, <2>3 DEF LabelsCome
  <1>5. ASSUME NEW p \in Proc, WatcherBegins(p) \/ WatcherSeesEnd(p) \/ WatcherReads(p)
        PROVE LabelsCome'
    <2>1. ASSUME NEW q \in Proc, NEW k \in Key, Coming(q, k), WatcherBegins(p)
          PROVE Coming(q, k)'
      <3>1. key[p] \in Key /\ processes[key[p]] \in {None} \cup Proc
        BY <1>0 DEF TypeOK
      <3>2. CASE q = p
        BY <1>0, <2>1, <3>1, <3>2 DEF Coming, TypeOK, WatcherBegins, childVars
      <3>3. CASE q # p
        BY <1>0, <2>1, <3>3 DEF Coming, TypeOK, WatcherBegins, childVars
      <3> QED
        BY <3>2, <3>3
    <2>2. ASSUME NEW q \in Proc, NEW k \in Key, Coming(q, k), WatcherSeesEnd(p)
          PROVE Coming(q, k)'
      BY <1>0, <2>2 DEF Coming, TypeOK, WatcherSeesEnd, childVars
    <2>3. ASSUME NEW q \in Proc, NEW k \in Key, Coming(q, k), WatcherReads(p)
          PROVE Coming(q, k)'
      BY <1>0, <2>3 DEF Coming, TypeOK, WatcherReads, childVars
    <2>4. UNCHANGED <<child, processes, labelVars>>
      BY <1>5 DEF WatcherBegins, WatcherSeesEnd, WatcherReads, childVars
    <2> QED
      BY <1>5, <2>1, <2>2, <2>3, <2>4 DEF LabelsCome, labelVars
  <1>6. ASSUME NEW p \in Proc, NEW j \in Key, WatcherSets(p, j) PROVE LabelsCome'
    <2> USE <1>0, <1>6 DEF WatcherSets, childVars
    <2>1. \A k \in Key \ {j} : \A q \in Proc : Coming(q, k) => Coming(q, k)'
      BY DEF Coming, TypeOK, Key
    <2>2. \A k \in Key \ {j} : /\ Running(k)' = Running(k) /\ label'[k] = label[k]
                               /\ k \in overtaken => k \in overtaken'
      BY DEF TypeOK
    <2>3. label'[j] = Running(j)' \/ j \in overtaken'
      BY DEF TypeOK
    <2> QED
      BY <2>1, <2>2, <2>3 DEF LabelsCome
  <1>7. CASE Quiet /\ UNCHANGED <<watchVars, labelVars>>
    BY <1>7 DEF Quiet, childVars, watchVars, labelVars, LabelsCome, Coming
  <1>8. \/ \E k \in Key : Start(k) \/ StopUnmanaged(k)
        \/ StopSucceeds
        \/ \E p \in Proc : ChildEnds(p)
        \/ \E p \in Proc : WatcherBegins(p) \/ WatcherSeesEnd(p) \/ WatcherReads(p)
        \/ \E p \in Proc, k \in Key : WatcherSets(p, k)
        \/ Quiet /\ UNCHANGED <<watchVars, labelVars>>
    BY DEF Quiet, Next, StopStep, WatcherStep, PressStop, PressClose, AllStopped, StopEnded,
       StopBegins, WaitTimesOut, KillWaitTimesOut, ListenerChanges, vars
  <1> QED
    BY <1>1, <1>2, <1>3, <1>4, <1>5, <1>6, <1>7, <1>8

-----------------------------------------------------------------------------
(* Theorems.                                                               *)

LEMMA InvInit == Init => Inv /\ LabelsCome
  <1> SUFFICES ASSUME Init PROVE Inv /\ LabelsCome
    OBVIOUS
  <1>1. TypeOK
    BY TypeInit
  <1>2. Fresh /\ Registered /\ Closing /\ NoOrphans /\ OutputIsRead
    BY DEF Init, Fresh, Registered, Closing, NoOrphans, OutputIsRead, None
  <1>3. LabelsCome
    BY DEF Init, LabelsCome, Running
  <1> QED
    BY <1>1, <1>2, <1>3 DEF Inv

LEMMA Invariant == Spec => [](Inv /\ LabelsCome)
  <1>1. Inv /\ LabelsCome /\ [Next]_vars => (Inv /\ LabelsCome)'
    BY TypeStep, FreshStep, RegisteredStep, OrphanStep, OutputStep, LabelStep DEF Inv
  <1> QED
    BY <1>1, InvInit, PTL DEF Spec

\* The state has its type.
THEOREM TypeCorrect == Spec => []TypeOK
  <1>1. Inv => TypeOK
    BY DEF Inv
  <1> QED
    BY <1>1, Invariant, PTL

\* _run_subprocess, _stop_process and _on_close leave no server behind: one
\* that runs is registered, and the window that can stop it is open.
THEOREM NothingLeftBehind == Spec => []NoOrphans
  <1>1. Inv => NoOrphans
    BY DEF Inv
  <1> QED
    BY <1>1, Invariant, PTL

\* The output of a server that runs is read by some thread, though each looks
\* its process up by key.
THEOREM OutputRead == Spec => []OutputIsRead
  <1>1. Inv => OutputIsRead
    BY DEF Inv
  <1> QED
    BY <1>1, Invariant, PTL

\* The labels agree with what runs when every thread has refreshed them, but
\* for those last set from a reading that was overtaken.
THEOREM Labels == Spec => []LabelsSettle
  <1>1. LabelsCome => LabelsSettle
    <2> SUFFICES ASSUME LabelsCome, \A p \in Proc : ~Unsettled(p), NEW k \in Key \ overtaken
                 PROVE  label[k] = Running(k)
      BY DEF LabelsSettle
    <2>1. \A p \in Proc : ~Coming(p, k)
      BY DEF Coming, Unsettled, Key
    <2> QED
      BY <2>1 DEF LabelsCome
  <1> QED
    BY <1>1, Invariant, PTL
=============================================================================
