------------------------------ MODULE ClientGui ------------------------------
(***************************************************************************)
(* client/client_gui.py: a synchronization session in a thread, the main   *)
(* thread that starts and stops it and runs its callbacks, the table and   *)
(* the CSV file it fills, and the live clock its result corrects.          *)
(*                                                                         *)
(* A row is <<session, round>>.                                            *)
(***************************************************************************)
EXTENDS LiveTime

CONSTANTS
    MaxSessions,   \* bound: how many sessions are started
    Rounds,        \* the rounds of each
    MaxEdited,     \* bound: the last session that an edit of the path may
                   \* overtake between its start and its thread
    Path           \* the output paths the user may enter

ASSUME GuiAssumption ==
    /\ MaxSessions \in Nat
    /\ Rounds \in Nat \ {0}
    /\ MaxEdited \in Nat

VARIABLES
    session,    \* the number of the last session started
    wpc,        \* where its thread is
    done,       \* the rounds it has completed
    stop,       \* stop_event
    status,     \* status_var
    stopbtn,    \* the Stop button is enabled
    rows,       \* the rows of the table
    out,        \* the path the thread writes to
    prepared,   \* the path start_sync() has emptied for it
    files,      \* the rows in each CSV file
    lost,       \* history: a row of this session could not be written
    disarmed,   \* history: an earlier session's callback has disabled Stop
    stopat      \* history: the rounds done when Stop was pressed, or NotYet

threadVars == <<wpc, done, out, lost>>
sessionVars == <<session, prepared>>
viewVars == <<status, stopbtn, disarmed, stopat>>
vars == <<pending, liveVars, threadVars, sessionVars, stop, viewVars, rows, files>>

NotYet == -1

Alive == wpc # "dead"

Init ==
    /\ pending = <<>>
    /\ LiveInit
    /\ session = 0 /\ wpc = "dead" /\ done = 0 /\ stop = FALSE
    /\ status = "Idle" /\ stopbtn = FALSE
    /\ rows = <<>>
    /\ out \in Path /\ prepared = out
    /\ files = [p \in Path |-> <<>>]
    /\ lost = FALSE /\ disarmed = FALSE /\ stopat = NotYet

-----------------------------------------------------------------------------
(* The main thread: what the user does.  The output path is a text field,  *)
(* which may be edited at any time, so each read of it may give any path.  *)

\* Fault: the file is opened for appending.
StartSyncAppends ==
    /\ ~Alive /\ session < MaxSessions
    /\ session' = session + 1
    /\ prepared' \in Path
    /\ UNCHANGED files
    /\ stop' = FALSE
    /\ status' = "Running" /\ stopbtn' = TRUE /\ disarmed' = FALSE /\ stopat' = NotYet
    /\ wpc' = "begin" /\ done' = 0 /\ lost' = FALSE
    /\ UNCHANGED <<pending, liveVars, rows, out>>

\* start_sync(), when the input is valid and the server answers a probe.
StartSync ==
    /\ ~Alive /\ session < MaxSessions
    /\ session' = session + 1
    /\ prepared' \in Path
    /\ files' = [files EXCEPT ![prepared'] = <<>>]
    /\ stop' = FALSE
    /\ status' = "Running" /\ stopbtn' = TRUE /\ disarmed' = FALSE /\ stopat' = NotYet
    /\ wpc' = "begin" /\ done' = 0 /\ lost' = FALSE
    /\ UNCHANGED <<pending, liveVars, rows, out>>

\* The protocol does not fit the port, or no server answers.
StartRefused ==
    /\ ~Alive
    /\ status' = "Refused"
    /\ UNCHANGED <<pending, liveVars, threadVars, sessionVars, stop, stopbtn, disarmed, stopat, rows, files>>

\* The same check of the live clock.
LiveRefused ==
    /\ label' = <<"mismatch">>
    /\ UNCHANGED <<pending, asking, synced, offset>>

\* Fault: Stop sets the status only.
StopSyncShows ==
    /\ stopbtn
    /\ status' = "Stopping"
    /\ stopat' = IF Alive /\ stopat = NotYet THEN done ELSE stopat
    /\ UNCHANGED <<pending, liveVars, threadVars, sessionVars, stop, stopbtn, disarmed, rows, files>>

StopSync ==
    /\ stopbtn
    /\ stop' = TRUE
    /\ status' = "Stopping"
    /\ stopat' = IF Alive /\ stopat = NotYet THEN done ELSE stopat
    /\ UNCHANGED <<pending, liveVars, threadVars, sessionVars, stopbtn, disarmed, rows, files>>

\* Fault: the Stop button is reset together with the table.
ClearTableDisablesStop ==
    /\ rows' = <<>>
    /\ status' = IF Alive THEN status ELSE "Idle"
    /\ stopbtn' = FALSE
    /\ UNCHANGED <<pending, liveVars, threadVars, sessionVars, stop, disarmed, stopat, files>>

ClearTable ==
    /\ rows' = <<>>
    /\ status' = IF Alive THEN status ELSE "Idle"
    /\ UNCHANGED <<pending, liveVars, threadVars, sessionVars, stop, stopbtn, disarmed, stopat, files>>

-----------------------------------------------------------------------------
(* The session's thread.                                                   *)

threadOnly == <<liveVars, sessionVars, stop, viewVars, rows>>

\* It reads output_var again, which may have been edited in between.
ReadPath ==
    /\ wpc = "begin"
    /\ out' \in Path
    /\ session > MaxEdited => out' = prepared
    /\ wpc' = "check"
    /\ UNCHANGED <<pending, done, lost, files, threadOnly>>

\* Fault: range(1, rounds + 2).
NextRoundOneMore ==
    /\ wpc = "check" /\ ~stop /\ done <= Rounds
    /\ wpc' = "ask"
    /\ UNCHANGED <<pending, done, out, lost, files, threadOnly>>

NextRound ==
    /\ wpc = "check" /\ ~stop /\ done < Rounds
    /\ wpc' = "ask"
    /\ UNCHANGED <<pending, done, out, lost, files, threadOnly>>

\* A write that fails is reported like an error that ends the session.
AppendCsvRow(written) ==
    IF written
    THEN files' = [files EXCEPT ![out] = Append(@, <<session, done'>>)] /\ UNCHANGED <<pending, lost>>
    ELSE Post(<<"error", session>>) /\ lost' = TRUE /\ UNCHANGED files

\* Fault: a row that could not be written is not shown either.
RoundOkSkipsRow(written) ==
    /\ wpc = "ask"
    /\ done' = done + 1
    /\ wpc' = IF written THEN "row" ELSE "check"
    /\ AppendCsvRow(written)
    /\ UNCHANGED <<out, threadOnly>>

\* An exchange succeeds and its row is written, or its failure is posted.
RoundOk(written) ==
    /\ wpc = "ask"
    /\ done' = done + 1
    /\ wpc' = "row"
    /\ AppendCsvRow(written)
    /\ UNCHANGED <<out, threadOnly>>

RoundFails ==
    /\ wpc = "ask"
    /\ Post(<<"error", session>>)
    /\ wpc' = "dead"
    /\ UNCHANGED <<done, out, lost, files, threadOnly>>

PostRow ==
    /\ wpc = "row"
    /\ Post(<<"row", session, done>>)
    /\ wpc' = "progress"
    /\ UNCHANGED <<done, out, lost, files, threadOnly>>

\* After it the thread sleeps, for the interval or until Stop.
PostProgress ==
    /\ wpc = "progress"
    /\ Post(<<"progress", session>>)
    /\ wpc' = "check"
    /\ UNCHANGED <<done, out, lost, files, threadOnly>>

\* Fault: a stopped session just ends.
PostFinishCompleted ==
    /\ wpc = "check" /\ (stop \/ done = Rounds)
    /\ IF stop THEN UNCHANGED pending ELSE Post(<<"finish", session, stop>>)
    /\ wpc' = IF stop THEN "dead" ELSE "correct"
    /\ UNCHANGED <<done, out, lost, files, threadOnly>>

\* The loop is left, stopped or completed.
PostFinish ==
    /\ wpc = "check" /\ (stop \/ done = Rounds)
    /\ Post(<<"finish", session, stop>>)
    /\ wpc' = IF stop THEN "dead" ELSE "correct"
    /\ UNCHANGED <<done, out, lost, files, threadOnly>>

\* The plot of the file, posted after it, changes nothing here.
PostCorrection ==
    /\ wpc = "correct"
    /\ Post(<<"correct", session>>)
    /\ wpc' = "dead"
    /\ UNCHANGED <<done, out, lost, files, threadOnly>>

ThreadStep ==
    \/ ReadPath \/ NextRound \/ RoundFails
    \/ \E written \in BOOLEAN : RoundOk(written)
    \/ PostRow \/ PostProgress \/ PostFinish \/ PostCorrection
-----------------------------------------------------------------------------
(* The main thread: the callbacks.                                         *)

callbackOnly == <<threadVars, sessionVars, stop, files>>

AppendRow(s, r) ==
    /\ Callback(<<"row", s, r>>)
    /\ rows' = Append(rows, <<s, r>>)
    /\ UNCHANGED <<liveVars, callbackOnly, viewVars>>

ShowProgress(s) ==
    /\ Callback(<<"progress", s>>)
    /\ status' = "Running"
    /\ UNCHANGED <<liveVars, callbackOnly, stopbtn, disarmed, stopat, rows>>

\* Both handlers disable Stop, whichever session runs by now.
HandleError(s) ==
    /\ Callback(<<"error", s>>)
    /\ stopbtn' = FALSE /\ status' = "Error"
    /\ disarmed' = (disarmed \/ s # session)
    /\ UNCHANGED <<liveVars, callbackOnly, stopat, rows>>

FinishStatus(s, stopped) ==
    /\ Callback(<<"finish", s, stopped>>)
    /\ stopbtn' = FALSE /\ status' = IF stopped THEN "Stopped" ELSE "Completed"
    /\ disarmed' = (disarmed \/ s # session)
    /\ UNCHANGED <<liveVars, callbackOnly, stopat, rows>>

\* The live clock's offset becomes the mean over all rows of the table.
ApplyPostSyncCorrection(s) ==
    /\ Callback(<<"correct", s>>)
    /\ IF rows = <<>>
       THEN UNCHANGED liveVars
       ELSE /\ offset' = <<"rows">> /\ synced' = TRUE /\ label' = <<"auto">>
            /\ UNCHANGED asking
    /\ UNCHANGED <<callbackOnly, viewVars, rows>>

SessionCallback ==
    \E s \in 1..MaxSessions :
        \/ \E r \in 1..Rounds : AppendRow(s, r)
        \/ ShowProgress(s) \/ HandleError(s) \/ ApplyPostSyncCorrection(s)
        \/ \E stopped \in BOOLEAN : FinishStatus(s, stopped)

LiveStep ==
    /\ \/ LiveRefused \/ ResetLiveTime
       \/ \E p \in Press :
            \/ SyncLiveTime(p) \/ OnLiveTimeSynced(p) \/ OnLiveTimeFailed(p)
            \/ \E ok \in BOOLEAN : LiveWorker(p, ok)
    /\ UNCHANGED <<callbackOnly, viewVars, rows>>

UserStep ==
    \/ StartSync \/ StartRefused \/ StopSync \/ ClearTable

Next == UserStep \/ ThreadStep \/ SessionCallback \/ LiveStep

Spec == Init /\ [][Next]_vars

-----------------------------------------------------------------------------
(* Properties.                                                             *)

Row == (1..MaxSessions) \X (1..Rounds)

\* The state has its type.
TypeOK ==
    /\ pending \in Seq(
        ({"row"} \X (1..MaxSessions) \X (1..Rounds))
        \cup ({"progress", "error", "correct"} \X (1..MaxSessions))
        \cup ({"finish"} \X (1..MaxSessions) \X BOOLEAN)
        \cup ({"synced", "unsynced"} \X Press))
    /\ asking \subseteq Press
    /\ synced \in BOOLEAN
    /\ offset \in {Zero} \cup ({"press"} \X Press) \cup {<<"rows">>}
    /\ label \in Labels
    /\ session \in 0..MaxSessions
    /\ wpc \in {"dead", "begin", "check", "ask", "row", "progress", "correct"}
    /\ done \in 0..Rounds
    /\ stop \in BOOLEAN
    /\ status \in {"Idle", "Running", "Refused", "Stopping", "Stopped", "Completed", "Error"}
    /\ stopbtn \in BOOLEAN
    /\ rows \in Seq(Row)
    /\ out \in Path /\ prepared \in Path
    /\ files \in [Path -> Seq(Row)]
    /\ lost \in BOOLEAN /\ disarmed \in BOOLEAN
    /\ stopat \in -1..Rounds

\* When no session runs and every callback has run, the window shows that:
\* whichever way the last session ended and however late its callbacks came,
\* the status is no longer Running or Stopping and Stop is disabled.
ShowsEnded ==
    ~Alive /\ pending = <<>> => status \notin {"Running", "Stopping"} /\ ~stopbtn

\* A running session can be stopped, unless a callback that an earlier session
\* left behind, or a failed write of its own, has disabled the button.
StopUsable ==
    Alive /\ wpc # "correct" /\ ~stopbtn => disarmed \/ lost

\* After Stop a session takes at most the round it is in.
StopTakesEffect == stopat # NotYet => done <= stopat + 1

\* The file that start_sync() emptied holds the rows of the session's rounds
\* so far, each once and nothing else, unless a write failed or the path was
\* edited before the thread read it.
CsvIsOfThisSession ==
    session > 0 /\ wpc # "begin" /\ out = prepared /\ ~lost
        => files[prepared] = [r \in 1..done |-> <<session, r>>]

\* When a completed session's correction is computed the table ends with its
\* last row, and each of its rows has the one before it above it, back to the
\* first, or to the top of the table if the user has cleared it meanwhile: no
\* row is still to come, none is missing, whatever was written or not.
CorrectionSeesSession ==
    \A s \in 1..session :
        pending # <<>> /\ Head(pending) = <<"correct", s>> /\ rows # <<>> =>
            /\ rows[Len(rows)] = <<s, Rounds>>
            /\ \A i \in 1..Len(rows) : rows[i][1] = s =>
                /\ rows[i][2] = Rounds - (Len(rows) - i)
                /\ i > 1 /\ rows[i][2] > 1 => rows[i - 1][1] = s

\* What the texts beside the live clock that name its offset say is so,
\* whatever the order in which results, resets and corrections come: the clock
\* is the local one after a reset, it runs with the offset of the very press
\* whose result is quoted, though several may be at work, or with the mean of
\* the table; and "Syncing" is said only while a result is still to come.  The
\* text of a failure names an offset, too, and is wrong: FailedMeansLocal.
LiveLabelTells ==
    /\ label = <<"local">> => Applied = Zero
    /\ label[1] = "synced" => Applied = <<"press", label[2]>>
    /\ label = <<"auto">> => Applied = <<"rows">>
    /\ label = <<"syncing">> =>
        asking # {} \/ \E i \in 1..Len(pending) : pending[i][1] \in {"synced", "unsynced"}

\* "Sync failed; using local clock": then it is the local clock that is shown.
FailedMeansLocal == label = <<"failed">> => Applied = Zero
=============================================================================
