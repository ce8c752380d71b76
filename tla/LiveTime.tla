------------------------------ MODULE LiveTime -------------------------------
(***************************************************************************)
(* The live clock of both GUIs: each press of its button starts a thread   *)
(* that measures one offset and posts the result, or the failure, to the   *)
(* main thread with after(0, ...), where it replaces the offset in force.  *)
(* The callbacks run in the order they were posted.                        *)
(*                                                                         *)
(* An offset is represented by where it comes from: the press that         *)
(* measured it, or whatever a composing module puts there.  The text       *)
(* beside the clock quotes the offset of a press, so it names the press.   *)
(***************************************************************************)
EXTENDS Integers, Sequences, FiniteSets

CONSTANTS
    Press,       \* a press of the button and its thread, for as many as overlap
    MaxPending   \* bound: how many callbacks may wait for the main thread

ASSUME LiveAssumption == MaxPending \in Nat

VARIABLES
    pending,   \* the callbacks posted and not yet run
    asking,    \* the presses whose thread is still at work
    synced,    \* live_synced
    offset,    \* live_offset_seconds, or Zero
    label      \* live_time_status_var

liveVars == <<asking, synced, offset, label>>

Zero == <<"zero">>

Labels ==
    {<<"local">>, <<"syncing">>, <<"failed">>, <<"mismatch">>, <<"auto">>}
    \cup ({"synced"} \X Press)

LiveInit ==
    /\ asking = {}
    /\ synced = FALSE
    /\ offset = Zero
    /\ label = <<"local">>

Post(call) ==
    /\ Len(pending) < MaxPending
    /\ pending' = Append(pending, call)

Callback(call) ==
    /\ pending # <<>> /\ Head(pending) = call
    /\ pending' = Tail(pending)

-----------------------------------------------------------------------------
\* sync_live_time(), with a valid host and port.
SyncLiveTime(p) ==
    /\ p \notin asking
    /\ asking' = asking \cup {p}
    /\ label' = <<"syncing">>
    /\ UNCHANGED <<pending, synced, offset>>

\* A definition marked "Fault" is no part of the specification: it is a
\* defect that the properties have to detect.
\* Fault: a failure is not reported.
LiveWorkerSilent(p, ok) ==
    /\ p \in asking
    /\ asking' = asking \ {p}
    /\ IF ok THEN Post(<<"synced", p>>) ELSE UNCHANGED pending
    /\ UNCHANGED <<synced, offset, label>>

\* _sync_live_time_worker(): one exchange, which may fail in any way.
LiveWorker(p, ok) ==
    /\ p \in asking
    /\ asking' = asking \ {p}
    /\ Post(<<IF ok THEN "synced" ELSE "unsynced", p>>)
    /\ UNCHANGED <<synced, offset, label>>

\* Fault: a result does not replace an offset that is in force.
OnLiveTimeSyncedKeeps(p) ==
    /\ Callback(<<"synced", p>>)
    /\ offset' = IF synced THEN offset ELSE <<"press", p>>
    /\ synced' = TRUE
    /\ label' = <<"synced", p>>
    /\ UNCHANGED asking

\* The result that arrives last stays, whichever press it belongs to.
OnLiveTimeSynced(p) ==
    /\ Callback(<<"synced", p>>)
    /\ offset' = <<"press", p>>
    /\ synced' = TRUE
    /\ label' = <<"synced", p>>
    /\ UNCHANGED asking

\* A failure changes the text only, which is "Sync failed; using local clock":
\* the offset in force stays.
OnLiveTimeFailed(p) ==
    /\ Callback(<<"unsynced", p>>)
    /\ label' = <<"failed">>
    /\ UNCHANGED <<asking, synced, offset>>

ResetLiveTime ==
    /\ synced' = FALSE
    /\ offset' = Zero
    /\ label' = <<"local">>
    /\ UNCHANGED <<pending, asking>>

\* _tick_live_time(): the offset the displayed clock applies.
Applied == IF synced THEN offset ELSE Zero
=============================================================================
