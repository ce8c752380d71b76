--------------------------- MODULE ClientGuiProofs ---------------------------
(***************************************************************************)
(* Theorems about ClientGui, for any number of sessions, rounds, paths and *)
(* presses, and any length of the queue of callbacks.                      *)
(***************************************************************************)
EXTENDS ClientGui, SequenceTheorems, TLAPS

-----------------------------------------------------------------------------
(* The invariants.                                                         *)

\* Sessions are numbered; what is pending belongs to one that was started.
Numbered ==
    /\ Alive => session >= 1
    /\ \A i \in 1..Len(pending) :
        pending[i][1] \notin {"synced", "unsynced"} => pending[i][2] <= session
    /\ \A i \in 1..Len(rows) : rows[i][1] <= session

\* The last word of a session that is over, or all but over, is still to be
\* said, or has been, and nothing after it says Running.
Ending ==
    wpc \in {"dead", "correct"} =>
        \/ \E i \in 1..Len(pending) :
            /\ pending[i][1] \in {"finish", "error"}
            /\ \A j \in i + 1..Len(pending) : pending[j][1] # "progress"
        \/ /\ \A j \in 1..Len(pending) : pending[j][1] # "progress"
           /\ status \notin {"Running", "Stopping"} /\ ~stopbtn

\* What a session that still runs has posted about itself.
OwnCalls ==
    Alive /\ wpc # "correct" =>
        /\ ~stopbtn => disarmed \/ lost
        /\ \A i \in 1..Len(pending) :
            /\ pending[i] = <<"error", session>> => lost
            /\ pending[i][1] = "finish" => pending[i][2] # session

\* After Stop no further round begins.
Stopped ==
    stopat # NotYet =>
        /\ stop
        /\ done \in stopat..stopat + 1
        /\ wpc = "ask" => done = stopat

\* The file, from the moment it is emptied.
FileKept ==
    /\ wpc = "begin" => done = 0 /\ files[prepared] = <<>> /\ ~lost
    /\ CsvIsOfThisSession
    /\ session = 0 => ~Alive

\* The row that comes just before position j of the queue: the last one that
\* is pending there, or the last one of the table.
NoRow(i, j) == \A m \in i + 1..j - 1 : pending[m][1] # "row"

Before(j, a) ==
    \/ \E i \in 1..j - 1 : pending[i] = <<"row", a[1], a[2]>> /\ NoRow(i, j)
    \/ NoRow(0, j) /\ rows # <<>> /\ rows[Len(rows)] = a

Follows(a, b) ==
    \/ b[1] = a[1] /\ b[2] = a[2] + 1
    \/ b[1] > a[1] /\ b[2] = 1

\* How many rows of its session the thread has posted.
Posted == IF wpc = "row" THEN done - 1 ELSE done

\* The rows come in the order they were taken, pending or in the table, and
\* the correction of a session after all of its rows.
InOrder ==
    /\ \A j \in 1..Len(pending), a \in Row :
        Before(j, a) =>
            /\ pending[j][1] = "row" => Follows(a, <<pending[j][2], pending[j][3]>>)
            /\ pending[j][1] = "correct" => a = <<pending[j][2], Rounds>>
    /\ \A a \in Row : Before(Len(pending) + 1, a) =>
        IF Posted = 0 THEN a[1] < session ELSE a = <<session, Posted>>
    /\ wpc = "row" => done >= 1
    /\ wpc = "begin" => done = 0
    /\ wpc = "correct" => done = Rounds
    /\ wpc = "ask" => done < Rounds

\* The rows of one session stand together, from some row of it to the last.
Table ==
    \A i, j \in 1..Len(rows) : i < j =>
        /\ rows[i][1] <= rows[j][1]
        /\ rows[i][1] = rows[j][1] => rows[j][2] - rows[i][2] = j - i
        /\ i + 1 = j /\ rows[i][1] # rows[j][1] => rows[j][2] = 1

\* A result of the live clock is still to come.
Awaited == asking # {} \/ \E i \in 1..Len(pending) : pending[i][1] \in {"synced", "unsynced"}

\* What the text beside the live clock says.
LiveText ==
    /\ label[1] = "local" => ~synced
    /\ label[1] = "synced" => synced /\ offset = <<"press", label[2]>>
    /\ label[1] = "auto" => synced /\ offset = <<"rows">>
    /\ label[1] = "syncing" => Awaited

Inv == TypeOK /\ Numbered /\ Ending /\ OwnCalls /\ Stopped /\ FileKept /\ InOrder /\ Table /\ LiveText

-----------------------------------------------------------------------------
(* The queue of callbacks.                                                 *)

Calls ==
    ({"row"} \X (1..MaxSessions) \X (1..Rounds))
    \cup ({"progress", "error", "correct"} \X (1..MaxSessions))
    \cup ({"finish"} \X (1..MaxSessions) \X BOOLEAN)
    \cup ({"synced", "unsynced"} \X Press)

\* What posting a callback does to the queue.
LEMMA Posting ==
  ASSUME NEW S, pending \in Seq(S), NEW call, Post(call)
  PROVE  /\ call \in S => pending' \in Seq(S)
         /\ Len(pending) \in Nat /\ Len(pending') = Len(pending) + 1
         /\ \A i \in 1..Len(pending) : pending'[i] = pending[i]
         /\ pending'[Len(pending) + 1] = call
  BY DEF Post

\* What running one does.
LEMMA Running ==
  ASSUME NEW S, pending \in Seq(S), NEW call, Callback(call)
  PROVE  /\ pending' \in Seq(S)
         /\ Len(pending) \in Nat \ {0} /\ Len(pending') = Len(pending) - 1
         /\ \A i \in 1..Len(pending') : pending'[i] = pending[i + 1]
         /\ pending[1] = call /\ call \in S
  BY DEF Callback

-----------------------------------------------------------------------------
(* Types.                                                                  *)

LEMMA TypeInit == Init => TypeOK
  <1> SUFFICES ASSUME Init PROVE TypeOK
    OBVIOUS
  <1>1. pending \in Seq(Calls) /\ rows \in Seq(Row)
    BY DEF Init
  <1>2. files \in [Path -> Seq(Row)]
    BY DEF Init
  <1>3. stopat \in -1..Rounds /\ done \in 0..Rounds /\ session \in 0..MaxSessions
    BY GuiAssumption DEF Init, GuiAssumption, NotYet
  <1>4. asking \subseteq Press /\ synced \in BOOLEAN /\ offset \in {Zero} /\ label \in Labels
    BY DEF Init, LiveInit, Labels
  <1> QED
    BY <1>1, <1>2, <1>3, <1>4 DEF Init, TypeOK, Calls

LEMMA TypeStep == TypeOK /\ Numbered /\ InOrder /\ [Next]_vars => TypeOK'
  <1> SUFFICES ASSUME TypeOK, Numbered, InOrder, [Next]_vars PROVE TypeOK'
    OBVIOUS
  <1>q. pending \in Seq(Calls)
    BY DEF TypeOK, Calls
  <1>t. ASSUME pending' \in Seq(Calls),
               asking' \subseteq Press, synced' \in BOOLEAN, label' \in Labels,
               offset' \in {Zero} \cup ({"press"} \X Press) \cup {<<"rows">>},
               session' \in 0..MaxSessions, done' \in 0..Rounds,
               wpc' \in {"dead", "begin", "check", "ask", "row", "progress", "correct"},
               stop' \in BOOLEAN, stopbtn' \in BOOLEAN,
               status' \in {"Idle", "Running", "Refused", "Stopping", "Stopped", "Completed", "Error"},
               rows' \in Seq(Row), out' \in Path, prepared' \in Path,
               files' \in [Path -> Seq(Row)],
               lost' \in BOOLEAN, disarmed' \in BOOLEAN, stopat' \in -1..Rounds
        PROVE  TypeOK'
    BY <1>t DEF TypeOK, Calls
  <1>r. Rounds \in Nat \ {0} /\ MaxSessions \in Nat
    BY GuiAssumption DEF GuiAssumption
  <1>1. CASE UserStep
    <2> USE <1>q, <1>r DEF TypeOK, liveVars, threadVars, sessionVars, viewVars
    <2>1. CASE StartSync
      <3>1. files' \in [Path -> Seq(Row)]
        BY <2>1 DEF StartSync
      <3>2. session' \in 0..MaxSessions /\ done' \in 0..Rounds /\ stopat' \in -1..Rounds
        BY <2>1 DEF StartSync, NotYet
      <3> QED
        BY <1>t, <2>1, <3>1, <3>2 DEF StartSync
    <2>2. CASE StartRefused
      BY <1>t, <2>2 DEF StartRefused
    <2>3. CASE StopSync
      BY <1>t, <2>3 DEF StopSync
    <2>4. CASE ClearTable
      BY <1>t, <2>4 DEF ClearTable
    <2> QED
      BY <1>1, <2>1, <2>2, <2>3, <2>4 DEF UserStep
  <1>2. CASE ThreadStep
    <2> USE <1>q, <1>r DEF TypeOK, liveVars, sessionVars, viewVars, threadOnly
    <2>s. Alive => session \in 1..MaxSessions
      BY DEF Numbered
    <2>1. CASE ReadPath \/ NextRound
      BY <1>t, <2>1 DEF ReadPath, NextRound
    <2>2. ASSUME NEW written \in BOOLEAN, RoundOk(written) PROVE TypeOK'
      <3>1. done' = done + 1 /\ done' \in 1..Rounds /\ wpc = "ask" /\ session \in 1..MaxSessions
        BY <2>2, <2>s DEF RoundOk, InOrder, Alive
      <3>2. CASE written
        <4>1. files' = [files EXCEPT ![out] = Append(@, <<session, done'>>)]
          BY <2>2, <3>2 DEF RoundOk, AppendCsvRow
        <4>2. <<session, done'>> \in Row
          BY <3>1 DEF Row
        <4>3. files' \in [Path -> Seq(Row)]
          BY <4>1, <4>2
        <4> QED
          BY <1>t, <2>2, <3>1, <3>2, <4>3 DEF RoundOk, AppendCsvRow
      <3>3. CASE ~written
        <4>1. Post(<<"error", session>>)
          BY <2>2, <3>3 DEF RoundOk, AppendCsvRow
        <4>2. <<"error", session>> \in Calls
          BY <3>1 DEF Calls
        <4>3. pending' \in Seq(Calls)
          BY <4>1, <4>2, Posting
        <4> QED
          BY <1>t, <2>2, <3>1, <3>3, <4>3 DEF RoundOk, AppendCsvRow
      <3> QED
        BY <3>2, <3>3
    <2>3. ASSUME NEW call \in Calls, Post(call), UNCHANGED <<done, out, lost, files, threadOnly>>,
                 wpc' \in {"dead", "begin", "check", "ask", "row", "progress", "correct"}
          PROVE  TypeOK'
      <3>1. pending' \in Seq(Calls)
        BY <2>3, Posting
      <3> QED
        BY <1>t, <2>3, <3>1
    <2>4. CASE RoundFails
      <3>1. <<"error", session>> \in Calls
        BY <2>4, <2>s DEF RoundFails, Calls, Alive
      <3> QED
        BY <2>3, <2>4, <3>1 DEF RoundFails
    <2>5. CASE PostRow
      <3>1. <<"row", session, done>> \in Calls
        BY <2>5, <2>s DEF PostRow, Calls, Alive, InOrder
      <3> QED
        BY <2>3, <2>5, <3>1 DEF PostRow
    <2>6. CASE PostProgress
      <3>1. <<"progress", session>> \in Calls
        BY <2>6, <2>s DEF PostProgress, Calls, Alive
      <3> QED
        BY <2>3, <2>6, <3>1 DEF PostProgress
    <2>7. CASE PostFinish
      <3>1. <<"finish", session, stop>> \in Calls
        BY <2>7, <2>s DEF PostFinish, Calls, Alive
      <3> QED
        BY <2>3, <2>7, <3>1 DEF PostFinish
    <2>8. CASE PostCorrection
      <3>1. <<"correct", session>> \in Calls
        BY <2>8, <2>s DEF PostCorrection, Calls, Alive
      <3> QED
        BY <2>3, <2>8, <3>1 DEF PostCorrection
    <2> QED
      BY <1>2, <2>1, <2>2, <2>4, <2>5, <2>6, <2>7, <2>8 DEF ThreadStep
  <1>3. ASSUME NEW s \in 1..MaxSessions, NEW r \in 1..Rounds, AppendRow(s, r) PROVE TypeOK'
    <2>1. pending' \in Seq(Calls)
      BY <1>q, <1>3, Running DEF AppendRow
    <2>2. rows' \in Seq(Row)
      BY <1>3 DEF AppendRow, TypeOK, Row
    <2> QED
      BY <1>t, <1>3, <2>1, <2>2
      DEF AppendRow, TypeOK, callbackOnly, liveVars, threadVars, sessionVars, viewVars
  <1>4. ASSUME NEW s \in 1..MaxSessions, NEW stopped \in BOOLEAN,
               \/ ShowProgress(s) \/ HandleError(s) \/ ApplyPostSyncCorrection(s)
               \/ FinishStatus(s, stopped)
        PROVE  TypeOK'
    <2>1. pending' \in Seq(Calls)
      BY <1>q, <1>4, Running
      DEF ShowProgress, HandleError, ApplyPostSyncCorrection, FinishStatus
    <2>2. disarmed' \in BOOLEAN
      BY <1>4 DEF ShowProgress, HandleError, ApplyPostSyncCorrection, FinishStatus, TypeOK, viewVars
    <2> USE DEF TypeOK, callbackOnly, liveVars, threadVars, sessionVars, viewVars
    <2>3. CASE ShowProgress(s)
      BY <1>t, <2>1, <2>2, <2>3 DEF ShowProgress
    <2>4. CASE HandleError(s)
      BY <1>t, <2>1, <2>2, <2>4 DEF HandleError
    <2>5. CASE FinishStatus(s, stopped)
      BY <1>t, <2>1, <2>2, <2>5 DEF FinishStatus
    <2>6. CASE ApplyPostSyncCorrection(s)
      <3>1. synced' \in BOOLEAN /\ label' \in Labels /\ asking' \subseteq Press
            /\ offset' \in {Zero} \cup ({"press"} \X Press) \cup {<<"rows">>}
        BY <2>6 DEF ApplyPostSyncCorrection, Labels
      <3> QED
        BY <1>t, <2>1, <2>2, <2>6, <3>1 DEF ApplyPostSyncCorrection
    <2> QED
      BY <1>4, <2>3, <2>4, <2>5, <2>6
  <1>5. CASE LiveStep
    <2>1. UNCHANGED <<callbackOnly, viewVars, rows>>
      BY <1>5 DEF LiveStep
    <2> USE <1>q DEF TypeOK, callbackOnly, threadVars, sessionVars, viewVars, liveVars
    <2>2. CASE LiveRefused
      BY <1>t, <2>1, <2>2 DEF LiveRefused, Labels
    <2>6. CASE ResetLiveTime
      BY <1>t, <2>1, <2>6 DEF ResetLiveTime, Labels
    <2>3. ASSUME NEW p \in Press, SyncLiveTime(p) PROVE TypeOK'
      BY <1>t, <2>1, <2>3 DEF SyncLiveTime, Labels
    <2>4. ASSUME NEW p \in Press, NEW ok \in BOOLEAN, LiveWorker(p, ok) PROVE TypeOK'
      <3>1. <<IF ok THEN "synced" ELSE "unsynced", p>> \in Calls
        BY DEF Calls
      <3>2. pending' \in Seq(Calls)
        BY <2>4, <3>1, Posting DEF LiveWorker
      <3> QED
        BY <1>t, <2>1, <2>4, <3>2 DEF LiveWorker
    <2>5. ASSUME NEW p \in Press, OnLiveTimeSynced(p) \/ OnLiveTimeFailed(p) PROVE TypeOK'
      <3>1. pending' \in Seq(Calls)
        BY <2>5, Running DEF OnLiveTimeSynced, OnLiveTimeFailed
      <3>2. CASE OnLiveTimeSynced(p)
        BY <1>t, <2>1, <3>1, <3>2 DEF OnLiveTimeSynced, Labels
      <3>3. CASE OnLiveTimeFailed(p)
        BY <1>t, <2>1, <3>1, <3>3 DEF OnLiveTimeFailed, Labels
      <3> QED
        BY <2>5, <3>2, <3>3
    <2> QED
      BY <1>5, <2>2, <2>3, <2>4, <2>5, <2>6 DEF LiveStep
  <1>6. CASE UNCHANGED vars
    BY <1>6 DEF TypeOK, vars, liveVars, threadVars, sessionVars, viewVars
  <1> QED
    BY <1>1, <1>2, <1>3, <1>4, <1>5, <1>6 DEF Next, SessionCallback

-----------------------------------------------------------------------------
(* The steps.                                                              *)

\* A step of the live clock that posts or runs a callback.
LiveCall ==
    \E kind \in {"synced", "unsynced"}, p \in Press :
        /\ Post(<<kind, p>>) \/ Callback(<<kind, p>>)
        /\ UNCHANGED <<callbackOnly, viewVars, rows>>

\* A step that neither the session nor what is shown of it depends on.
Aside == UNCHANGED <<pending, threadVars, sessionVars, stop, viewVars, rows, files>>

LEMMA Steps ==
  ASSUME [Next]_vars
  PROVE  \/ StartSync \/ StartRefused \/ StopSync \/ ClearTable
         \/ ThreadStep
         \/ SessionCallback
         \/ LiveCall
         \/ Aside
  <1>2. CASE LiveStep
    <2>1. UNCHANGED <<callbackOnly, viewVars, rows>>
      BY <1>2 DEF LiveStep
    <2>2. CASE LiveRefused \/ ResetLiveTime \/ \E p \in Press : SyncLiveTime(p)
      BY <2>1, <2>2 DEF LiveRefused, ResetLiveTime, SyncLiveTime, Aside, callbackOnly
    <2>3. ASSUME NEW p \in Press, OnLiveTimeSynced(p) \/ OnLiveTimeFailed(p) PROVE LiveCall
      BY <2>1, <2>3 DEF OnLiveTimeSynced, OnLiveTimeFailed, LiveCall
    <2>4. ASSUME NEW p \in Press, NEW ok \in BOOLEAN, LiveWorker(p, ok) PROVE LiveCall
      <3>1. CASE ok
        BY <2>1, <2>4, <3>1 DEF LiveWorker, LiveCall
      <3>2. CASE ~ok
        BY <2>1, <2>4, <3>2 DEF LiveWorker, LiveCall
      <3> QED
        BY <3>1, <3>2
    <2> QED
      BY <1>2, <2>2, <2>3, <2>4 DEF LiveStep
  <1>3. CASE UNCHANGED vars
    BY <1>3 DEF vars, Aside
  <1> QED
    BY <1>2, <1>3 DEF Next, UserStep

\* What a step of the thread posts.
LEMMA ThreadPosts ==
  ASSUME ThreadStep
  PROVE  /\ UNCHANGED <<session, rows>> /\ Alive
         /\ \/ UNCHANGED pending
            \/ Post(<<"row", session, done>>)
            \/ \E kind \in {"progress", "error", "correct"} : Post(<<kind, session>>)
            \/ Post(<<"finish", session, stop>>)
  <1> USE DEF threadOnly, sessionVars, Alive
  <1>1. ASSUME NEW written \in BOOLEAN, RoundOk(written)
        PROVE  /\ UNCHANGED <<session, rows>> /\ Alive
               /\ UNCHANGED pending \/ Post(<<"error", session>>)
    BY <1>1 DEF RoundOk, AppendCsvRow
  <1> QED
    BY <1>1 DEF ThreadStep, ReadPath, NextRound, RoundFails, PostRow, PostProgress, PostFinish, PostCorrection

\* What a callback of a session is, and changes.
LEMMA CallbackRuns ==
  ASSUME SessionCallback
  PROVE  /\ UNCHANGED <<callbackOnly, stopat>>
         /\ \E s \in 1..MaxSessions :
              \/ \E r \in 1..Rounds : Callback(<<"row", s, r>>) /\ rows' = Append(rows, <<s, r>>)
              \/ /\ UNCHANGED rows
                 /\ \/ \E kind \in {"progress", "error", "correct"} : Callback(<<kind, s>>)
                    \/ \E stopped \in BOOLEAN : Callback(<<"finish", s, stopped>>)
  BY DEF SessionCallback, AppendRow, ShowProgress, HandleError, ApplyPostSyncCorrection,
     FinishStatus, viewVars

LEMMA NumberedStep == TypeOK /\ Numbered /\ [Next]_vars => Numbered'
  <1> SUFFICES ASSUME TypeOK, Numbered, [Next]_vars PROVE Numbered'
    OBVIOUS
  <1>q. pending \in Seq(Calls) /\ rows \in Seq(Row)
    BY DEF TypeOK, Calls
  <1>s. session \in Nat
    BY GuiAssumption DEF GuiAssumption, TypeOK
  <1>1. CASE StartSync
    <2>1. session' = session + 1 /\ UNCHANGED <<pending, rows>>
      BY <1>1 DEF StartSync
    <2>2. \A i \in 1..Len(pending) : pending[i][1] \notin {"synced", "unsynced"} => pending[i][2] \in Nat
      BY <1>q, GuiAssumption DEF Calls, GuiAssumption
    <2>3. \A i \in 1..Len(rows) : rows[i][1] \in Nat
      BY <1>q, GuiAssumption DEF Row, GuiAssumption
    <2> QED
      BY <1>s, <2>1, <2>2, <2>3 DEF Numbered
  <1>2. CASE StartRefused \/ StopSync \/ Aside
    BY <1>2 DEF StartRefused, StopSync, Aside, Numbered, Alive, sessionVars, threadVars
  <1>3. CASE ClearTable
    BY <1>3 DEF ClearTable, Numbered, Alive, sessionVars, threadVars
  <1>4. ASSUME NEW call, Post(call), UNCHANGED <<session, rows>>, Alive' => Alive,
               call[1] \notin {"synced", "unsynced"} => call[2] = session
        PROVE  Numbered'
    <2> USE <1>q, <1>4, Posting
    <2>1. ASSUME NEW i \in 1..Len(pending'), pending'[i][1] \notin {"synced", "unsynced"}
          PROVE  pending'[i][2] <= session'
      <3>1. i \in 1..Len(pending) \/ i = Len(pending) + 1
        BY <2>1
      <3>2. CASE i \in 1..Len(pending)
        BY <2>1, <3>2 DEF Numbered
      <3>3. CASE i = Len(pending) + 1
        BY <1>s, <2>1, <3>3
      <3> QED
        BY <3>1, <3>2, <3>3
    <2> QED
      BY <2>1 DEF Numbered
  <1>5. ASSUME NEW call, Callback(call), UNCHANGED <<session, wpc>>,
               \/ UNCHANGED rows
               \/ call[1] = "row" /\ rows' = Append(rows, <<call[2], call[3]>>)
        PROVE  Numbered'
    <2>1. /\ Len(pending) \in Nat \ {0} /\ Len(pending') = Len(pending) - 1
          /\ \A i \in 1..Len(pending') : pending'[i] = pending[i + 1]
          /\ pending[1] = call
      BY <1>q, <1>5, Running
    <2>2. \A i \in 1..Len(pending') : pending'[i][1] \notin {"synced", "unsynced"} => pending'[i][2] <= session
      BY <2>1 DEF Numbered
    <2>3. \A i \in 1..Len(rows') : rows'[i][1] <= session
      <3>1. CASE UNCHANGED rows
        BY <3>1 DEF Numbered
      <3>2. CASE call[1] = "row" /\ rows' = Append(rows, <<call[2], call[3]>>)
        <4>1. call[2] <= session
          BY <2>1, <3>2 DEF Numbered
        <4> QED
          BY <1>q, <3>2, <4>1 DEF Numbered
      <3> QED
        BY <1>5, <3>1, <3>2
    <2> QED
      BY <1>5, <2>2, <2>3 DEF Numbered, Alive
  <1>6. CASE ThreadStep
    <2>1. Alive /\ UNCHANGED <<session, rows>>
      BY <1>6, ThreadPosts
    <2>2. CASE UNCHANGED pending
      BY <2>1, <2>2 DEF Numbered
    <2>3. CASE Post(<<"row", session, done>>)
      BY <1>4, <2>1, <2>3
    <2>4. ASSUME NEW kind \in {"progress", "error", "correct"}, Post(<<kind, session>>) PROVE Numbered'
      BY <1>4, <2>1, <2>4
    <2>5. CASE Post(<<"finish", session, stop>>)
      BY <1>4, <2>1, <2>5
    <2> QED
      BY <1>6, ThreadPosts, <2>2, <2>3, <2>4, <2>5
  <1>7. CASE SessionCallback
    <2>1. UNCHANGED <<session, wpc>>
      BY <1>7, CallbackRuns DEF callbackOnly, sessionVars, threadVars
    <2>2. ASSUME NEW s \in 1..MaxSessions, NEW r \in 1..Rounds, Callback(<<"row", s, r>>),
                 rows' = Append(rows, <<s, r>>)
          PROVE  Numbered'
      BY <1>5, <2>1, <2>2
    <2>3. ASSUME NEW s \in 1..MaxSessions, NEW kind \in {"progress", "error", "correct"},
                 Callback(<<kind, s>>), UNCHANGED rows
          PROVE  Numbered'
      BY <1>5, <2>1, <2>3
    <2>4. ASSUME NEW s \in 1..MaxSessions, NEW stopped \in BOOLEAN,
                 Callback(<<"finish", s, stopped>>), UNCHANGED rows
          PROVE  Numbered'
      BY <1>5, <2>1, <2>4
    <2> QED
      BY <1>7, CallbackRuns, <2>2, <2>3, <2>4
  <1>8. CASE LiveCall
    <2>1. PICK kind \in {"synced", "unsynced"}, p \in Press :
            (Post(<<kind, p>>) \/ Callback(<<kind, p>>)) /\ UNCHANGED <<callbackOnly, viewVars, rows>>
      BY <1>8 DEF LiveCall
    <2>2. UNCHANGED <<session, wpc, rows>>
      BY <2>1 DEF callbackOnly, sessionVars, threadVars
    <2> QED
      BY <1>4, <1>5, <2>1, <2>2 DEF Alive
  <1> QED
    BY Steps, <1>1, <1>2, <1>3, <1>6, <1>7, <1>8

LEMMA EndingStep == TypeOK /\ Ending /\ [Next]_vars => Ending'
  <1> SUFFICES ASSUME TypeOK, Ending, [Next]_vars PROVE Ending'
    OBVIOUS
  <1>q. pending \in Seq(Calls)
    BY DEF TypeOK, Calls
  <1>1. CASE StartSync
    BY <1>1 DEF StartSync, Ending
  <1>2. CASE StartRefused \/ StopSync \/ ClearTable \/ Aside
    BY <1>2 DEF StartRefused, StopSync, ClearTable, Aside, Ending, Alive, threadVars, viewVars
  <1>4. ASSUME NEW call, Post(call), call[1] # "progress", UNCHANGED <<status, stopbtn>>,
               \/ call[1] \in {"finish", "error"}
               \/ wpc' \in {"dead", "correct"} => wpc \in {"dead", "correct"}
        PROVE  Ending'
    <2> USE <1>q, <1>4, Posting
    <2>1. CASE call[1] \in {"finish", "error"}
      BY <2>1 DEF Ending
    <2>2. ASSUME NEW i \in 1..Len(pending), pending[i][1] \in {"finish", "error"},
                 \A j \in i + 1..Len(pending) : pending[j][1] # "progress"
          PROVE  Ending'
      <3>1. i \in 1..Len(pending') /\ pending'[i][1] \in {"finish", "error"}
        BY <2>2
      <3>2. \A j \in i + 1..Len(pending') : pending'[j][1] # "progress"
        BY <2>2
      <3> QED
        BY <3>1, <3>2 DEF Ending
    <2>3. CASE /\ \A j \in 1..Len(pending) : pending[j][1] # "progress"
               /\ status \notin {"Running", "Stopping"} /\ ~stopbtn
      <3>1. \A j \in 1..Len(pending') : pending'[j][1] # "progress"
        BY <2>3
      <3> QED
        BY <2>3, <3>1 DEF Ending
    <2>4. CASE wpc \notin {"dead", "correct"} /\ call[1] \notin {"finish", "error"}
      BY <2>4 DEF Ending
    <2> QED
      BY <2>1, <2>2, <2>3, <2>4 DEF Ending
  <1>5. ASSUME NEW call, Callback(call), UNCHANGED wpc,
               call[1] \in {"finish", "error"} => status' \notin {"Running", "Stopping"} /\ ~stopbtn',
               call[1] \notin {"finish", "error", "progress"} => UNCHANGED <<status, stopbtn>>
        PROVE  Ending'
    <2>1. /\ Len(pending) \in Nat \ {0} /\ Len(pending') = Len(pending) - 1
          /\ \A i \in 1..Len(pending') : pending'[i] = pending[i + 1]
          /\ pending[1] = call
      BY <1>q, <1>5, Running
    <2>2. ASSUME NEW i \in 1..Len(pending), pending[i][1] \in {"finish", "error"},
                 \A j \in i + 1..Len(pending) : pending[j][1] # "progress"
          PROVE  Ending'
      <3>1. CASE i = 1
        <4>1. \A j \in 1..Len(pending') : pending'[j][1] # "progress"
          BY <2>1, <2>2, <3>1
        <4> QED
          BY <1>5, <2>1, <2>2, <3>1, <4>1 DEF Ending
      <3>2. CASE i # 1
        <4>1. i - 1 \in 1..Len(pending') /\ pending'[i - 1][1] \in {"finish", "error"}
          BY <2>1, <2>2, <3>2
        <4>2. \A j \in (i - 1) + 1..Len(pending') : pending'[j][1] # "progress"
          BY <2>1, <2>2
        <4> QED
          BY <4>1, <4>2 DEF Ending
      <3> QED
        BY <3>1, <3>2
    <2>3. CASE /\ \A j \in 1..Len(pending) : pending[j][1] # "progress"
               /\ status \notin {"Running", "Stopping"} /\ ~stopbtn
      <3>1. \A j \in 1..Len(pending') : pending'[j][1] # "progress"
        BY <2>1, <2>3
      <3>2. call[1] # "progress"
        BY <2>1, <2>3
      <3> QED
        BY <1>5, <2>3, <3>1, <3>2 DEF Ending
    <2> QED
      BY <1>5, <2>2, <2>3 DEF Ending
  <1>6. CASE ThreadStep
    <2> USE DEF threadOnly, viewVars
    <2>1. CASE ReadPath \/ NextRound \/ PostRow \/ PostProgress
      BY <2>1 DEF ReadPath, NextRound, PostRow, PostProgress, Ending
    <2>2. CASE \E written \in BOOLEAN : RoundOk(written)
      BY <2>2 DEF RoundOk, Ending
    <2>3. CASE RoundFails
      BY <1>4, <2>3 DEF RoundFails
    <2>4. CASE PostFinish
      BY <1>4, <2>4 DEF PostFinish
    <2>5. CASE PostCorrection
      BY <1>4, <2>5 DEF PostCorrection
    <2> QED
      BY <1>6, <2>1, <2>2, <2>3, <2>4, <2>5 DEF ThreadStep
  <1>7. CASE SessionCallback
    <2> USE DEF callbackOnly, threadVars, viewVars
    <2>1. ASSUME NEW s \in 1..MaxSessions, NEW r \in 1..Rounds, AppendRow(s, r) PROVE Ending'
      BY <1>5, <2>1 DEF AppendRow
    <2>2. ASSUME NEW s \in 1..MaxSessions, ShowProgress(s) PROVE Ending'
      BY <1>5, <2>2 DEF ShowProgress
    <2>3. ASSUME NEW s \in 1..MaxSessions, HandleError(s) PROVE Ending'
      BY <1>5, <2>3 DEF HandleError
    <2>4. ASSUME NEW s \in 1..MaxSessions, ApplyPostSyncCorrection(s) PROVE Ending'
      BY <1>5, <2>4 DEF ApplyPostSyncCorrection
    <2>5. ASSUME NEW s \in 1..MaxSessions, NEW stopped \in BOOLEAN, FinishStatus(s, stopped) PROVE Ending'
      BY <1>5, <2>5 DEF FinishStatus
    <2> QED
      BY <1>7, <2>1, <2>2, <2>3, <2>4, <2>5 DEF SessionCallback
  <1>8. CASE LiveCall
    BY <1>4, <1>5, <1>8 DEF LiveCall, callbackOnly, threadVars, viewVars
  <1> QED
    BY Steps, <1>1, <1>2, <1>6, <1>7, <1>8

LEMMA OwnCallsStep == TypeOK /\ Numbered /\ OwnCalls /\ [Next]_vars => OwnCalls'
  <1> SUFFICES ASSUME TypeOK, Numbered, OwnCalls, [Next]_vars PROVE OwnCalls'
    OBVIOUS
  <1>q. pending \in Seq(Calls) /\ session \in Nat
    BY GuiAssumption DEF GuiAssumption, TypeOK, Calls
  <1>1. CASE StartSync
    <2>1. session' = session + 1 /\ stopbtn' /\ UNCHANGED pending
      BY <1>1 DEF StartSync
    <2>2. \A i \in 1..Len(pending) : pending[i][1] \in {"error", "finish"} => pending[i][2] # session'
      BY <1>q, <2>1 DEF Numbered
    <2> QED
      BY <2>1, <2>2 DEF OwnCalls
  <1>2. CASE StartRefused \/ StopSync \/ ClearTable \/ Aside
    BY <1>2 DEF StartRefused, StopSync, ClearTable, Aside, OwnCalls, Alive, threadVars, viewVars, sessionVars
  <1>4. ASSUME NEW call, Post(call), UNCHANGED <<session, stopbtn, disarmed>>, lost => lost',
               Alive' /\ wpc' # "correct" =>
                 /\ Alive /\ wpc # "correct"
                 /\ call = <<"error", session>> => lost'
                 /\ call[1] # "finish"
        PROVE  OwnCalls'
    <2> USE <1>q, <1>4, Posting
    <2>1. ASSUME Alive', wpc' # "correct", NEW i \in 1..Len(pending')
          PROVE  /\ pending'[i] = <<"error", session'>> => lost'
                 /\ pending'[i][1] = "finish" => pending'[i][2] # session'
      <3>1. CASE i \in 1..Len(pending)
        BY <2>1, <3>1 DEF OwnCalls
      <3>2. CASE i = Len(pending) + 1
        BY <2>1, <3>2
      <3> QED
        BY <3>1, <3>2
    <2> QED
      BY <2>1 DEF OwnCalls
  <1>5. ASSUME NEW call, Callback(call), UNCHANGED <<wpc, session, lost>>, disarmed => disarmed',
               \/ stopbtn' \/ ~stopbtn \/ disarmed'
               \/ call = <<"error", session>>
               \/ call[1] = "finish" /\ call[2] = session
        PROVE  OwnCalls'
    <2>1. /\ Len(pending) \in Nat \ {0} /\ Len(pending') = Len(pending) - 1
          /\ \A i \in 1..Len(pending') : pending'[i] = pending[i + 1]
          /\ pending[1] = call
      BY <1>q, <1>5, Running
    <2>2. ASSUME Alive, wpc # "correct", NEW i \in 1..Len(pending')
          PROVE  /\ pending'[i] = <<"error", session>> => lost
                 /\ pending'[i][1] = "finish" => pending'[i][2] # session
      BY <2>1, <2>2 DEF OwnCalls
    <2>3. Alive /\ wpc # "correct" => ~(call[1] = "finish" /\ call[2] = session) /\ (call = <<"error", session>> => lost)
      BY <2>1 DEF OwnCalls
    <2> QED
      BY <1>5, <2>2, <2>3 DEF OwnCalls, Alive
  <1>6. CASE ThreadStep
    <2> USE DEF threadOnly, viewVars, sessionVars
    <2>1. CASE ReadPath \/ NextRound
      BY <2>1 DEF ReadPath, NextRound, OwnCalls, Alive
    <2>2. ASSUME NEW written \in BOOLEAN, RoundOk(written) PROVE OwnCalls'
      <3>1. CASE written
        BY <2>2, <3>1 DEF RoundOk, AppendCsvRow, OwnCalls, Alive
      <3>2. CASE ~written
        BY <1>4, <2>2, <3>2 DEF RoundOk, AppendCsvRow, Alive
      <3> QED
        BY <3>1, <3>2
    <2>3. CASE RoundFails
      BY <2>3 DEF RoundFails, OwnCalls, Alive
    <2>4. CASE PostFinish
      BY <2>4 DEF PostFinish, OwnCalls, Alive
    <2>5. CASE PostCorrection
      BY <2>5 DEF PostCorrection, OwnCalls, Alive
    <2>6. CASE PostRow
      BY <1>4, <2>6 DEF PostRow, Alive
    <2>7. CASE PostProgress
      BY <1>4, <2>7 DEF PostProgress, Alive
    <2> QED
      BY <1>6, <2>1, <2>2, <2>3, <2>4, <2>5, <2>6, <2>7 DEF ThreadStep
  <1>7. CASE SessionCallback
    <2> USE DEF callbackOnly, threadVars, sessionVars, viewVars
    <2>1. ASSUME NEW s \in 1..MaxSessions, NEW r \in 1..Rounds, AppendRow(s, r) PROVE OwnCalls'
      BY <1>5, <2>1 DEF AppendRow
    <2>2. ASSUME NEW s \in 1..MaxSessions, ShowProgress(s) PROVE OwnCalls'
      BY <1>5, <2>2 DEF ShowProgress
    <2>3. ASSUME NEW s \in 1..MaxSessions, HandleError(s) PROVE OwnCalls'
      BY <1>5, <2>3 DEF HandleError
    <2>4. ASSUME NEW s \in 1..MaxSessions, ApplyPostSyncCorrection(s) PROVE OwnCalls'
      BY <1>5, <2>4 DEF ApplyPostSyncCorrection
    <2>5. ASSUME NEW s \in 1..MaxSessions, NEW stopped \in BOOLEAN, FinishStatus(s, stopped) PROVE OwnCalls'
      BY <1>5, <2>5 DEF FinishStatus
    <2> QED
      BY <1>7, <2>1, <2>2, <2>3, <2>4, <2>5 DEF SessionCallback
  <1>8. CASE LiveCall
    BY <1>4, <1>5, <1>8 DEF LiveCall, callbackOnly, threadVars, sessionVars, viewVars, Alive
  <1> QED
    BY Steps, <1>1, <1>2, <1>6, <1>7, <1>8

LEMMA StoppedStep == TypeOK /\ Stopped /\ [Next]_vars => Stopped'
  <1> SUFFICES ASSUME TypeOK, Stopped, [Next]_vars PROVE Stopped'
    OBVIOUS
  <1>t. done \in Nat /\ stopat \in Int /\ (stopat = NotYet \/ stopat \in Nat)
    BY GuiAssumption DEF GuiAssumption, TypeOK, NotYet
  <1>1. CASE StartSync
    BY <1>1 DEF StartSync, Stopped
  <1>2. CASE StartRefused \/ ClearTable \/ Aside
    BY <1>2 DEF StartRefused, ClearTable, Aside, Stopped, NotYet, threadVars, viewVars
  <1>3. CASE StopSync
    BY <1>3, <1>t DEF StopSync, Stopped, NotYet, Alive, threadVars
  <1>4. CASE ThreadStep
    <2> USE DEF Stopped, NotYet, threadOnly, viewVars
    <2>1. CASE NextRound
      BY <2>1 DEF NextRound
    <2>2. ASSUME NEW written \in BOOLEAN, RoundOk(written) PROVE Stopped'
      BY <1>t, <2>2 DEF RoundOk
    <2>3. CASE ReadPath \/ RoundFails \/ PostRow \/ PostProgress \/ PostFinish \/ PostCorrection
      BY <2>3 DEF ReadPath, RoundFails, PostRow, PostProgress, PostFinish, PostCorrection
    <2> QED
      BY <1>4, <2>1, <2>2, <2>3 DEF ThreadStep
  <1>5. CASE SessionCallback
    BY <1>5, CallbackRuns DEF Stopped, NotYet, callbackOnly, threadVars
  <1>6. CASE LiveCall
    BY <1>6 DEF LiveCall, Stopped, NotYet, callbackOnly, threadVars, viewVars
  <1> QED
    BY Steps, <1>1, <1>2, <1>3, <1>4, <1>5, <1>6

LEMMA FileStep == TypeOK /\ Numbered /\ FileKept /\ [Next]_vars => FileKept'
  <1> SUFFICES ASSUME TypeOK, Numbered, FileKept, [Next]_vars PROVE FileKept'
    OBVIOUS
  <1>t. done \in Nat /\ session \in Nat /\ files \in [Path -> Seq(Row)] /\ prepared \in Path
    BY GuiAssumption DEF GuiAssumption, TypeOK
  <1>1. CASE StartSync
    BY <1>1, <1>t DEF StartSync, FileKept, CsvIsOfThisSession, TypeOK
  <1>2. ASSUME UNCHANGED <<threadVars, sessionVars, files>> PROVE FileKept'
    BY <1>2 DEF FileKept, CsvIsOfThisSession, Alive, threadVars, sessionVars
  <1>3. CASE StartRefused \/ StopSync \/ ClearTable \/ Aside
    BY <1>2, <1>3 DEF StartRefused, StopSync, ClearTable, Aside
  <1>4. CASE ThreadStep
    <2> USE DEF threadOnly, sessionVars
    <2>s. session > 0
      BY <1>4, <1>t, ThreadPosts DEF FileKept
    <2>1. CASE ReadPath
      <3>1. [r \in 1..done |-> <<session, r>>] = <<>> /\ files[prepared] = <<>> /\ ~lost
        BY <2>1 DEF ReadPath, FileKept
      <3> QED
        BY <2>1, <2>s, <3>1 DEF ReadPath, FileKept, CsvIsOfThisSession
    <2>2. ASSUME NEW written \in BOOLEAN, RoundOk(written) PROVE FileKept'
      <3>1. done' = done + 1 /\ wpc' = "row" /\ wpc = "ask" /\ UNCHANGED <<session, prepared, out>>
        BY <2>2 DEF RoundOk
      <3>2. CASE written /\ out = prepared /\ ~lost
        <4>1. files[prepared] = [r \in 1..done |-> <<session, r>>]
          BY <2>s, <3>1, <3>2 DEF FileKept, CsvIsOfThisSession
        <4>2. files'[prepared] = Append(files[prepared], <<session, done + 1>>)
          BY <1>t, <2>2, <3>1, <3>2 DEF RoundOk, AppendCsvRow
        <4>3. Append([r \in 1..done |-> <<session, r>>], <<session, done + 1>>)
                = [r \in 1..done + 1 |-> <<session, r>>]
          BY <1>t
        <4>4. files'[prepared'] = [r \in 1..done' |-> <<session', r>>]
          BY <3>1, <4>1, <4>2, <4>3
        <4> QED
          BY <2>s, <3>1, <4>4 DEF FileKept, CsvIsOfThisSession
      <3>3. CASE ~written
        BY <2>2, <2>s, <3>1, <3>3 DEF RoundOk, AppendCsvRow, FileKept, CsvIsOfThisSession
      <3>4. CASE written /\ (out # prepared \/ lost)
        BY <2>2, <2>s, <3>1, <3>4 DEF RoundOk, AppendCsvRow, FileKept, CsvIsOfThisSession
      <3> QED
        BY <3>2, <3>3, <3>4
    <2>3. CASE NextRound \/ RoundFails \/ PostRow \/ PostProgress \/ PostFinish \/ PostCorrection
      <3>1. /\ UNCHANGED <<session, prepared, files, done, out, lost>>
            /\ wpc # "begin" /\ wpc' # "begin"
        BY <2>3 DEF NextRound, RoundFails, PostRow, PostProgress, PostFinish, PostCorrection
      <3> QED
        BY <2>s, <3>1 DEF FileKept, CsvIsOfThisSession
    <2> QED
      BY <1>4, <2>1, <2>2, <2>3 DEF ThreadStep
  <1>5. CASE SessionCallback
    BY <1>2, <1>5, CallbackRuns DEF callbackOnly
  <1>6. CASE LiveCall
    BY <1>2, <1>6 DEF LiveCall, callbackOnly
  <1> QED
    BY Steps, <1>1, <1>3, <1>4, <1>5, <1>6

\* The chain of rows when a callback is posted: only a row's own position
\* comes after that row.
LEMMA ChainPosted ==
  ASSUME TypeOK, NEW call, Post(call), UNCHANGED rows, NEW a \in Row,
         NEW j \in 1..Len(pending) + 2, Before(j, a)'
  PROVE  /\ j <= Len(pending) + 1 => Before(j, a)
         /\ j = Len(pending) + 2 =>
              \/ call[1] # "row" /\ Before(Len(pending) + 1, a)
              \/ call = <<"row", a[1], a[2]>>
  <1>q. pending \in Seq(Calls)
    BY DEF TypeOK, Calls
  <1>1. /\ Len(pending) \in Nat /\ Len(pending') = Len(pending) + 1
        /\ \A i \in 1..Len(pending) : pending'[i] = pending[i]
        /\ pending'[Len(pending) + 1] = call
    BY <1>q, Posting
  <1>2. ASSUME NEW i \in 0..Len(pending'), NEW k \in 1..Len(pending) + 1, NoRow(i, j)', k <= j
        PROVE  NoRow(i, k)
    <2>1. ASSUME NEW m \in i + 1..k - 1 PROVE pending[m][1] # "row"
      <3>1. m \in 1..Len(pending) /\ m \in i + 1..j - 1
        BY <1>1, <1>2
      <3> QED
        BY <1>1, <1>2, <3>1 DEF NoRow
    <2> QED
      BY <2>1 DEF NoRow
  <1>3. CASE j <= Len(pending) + 1
    <2>1. ASSUME NEW i \in 1..j - 1, pending'[i] = <<"row", a[1], a[2]>>, NoRow(i, j)'
          PROVE  Before(j, a)
      <3>1. i \in 1..Len(pending) /\ i \in 0..Len(pending') /\ j \in 1..Len(pending) + 1 /\ j <= j
        BY <1>1, <1>3, <2>1
      <3>2. pending[i] = <<"row", a[1], a[2]>> /\ NoRow(i, j)
        BY <1>1, <1>2, <2>1, <3>1
      <3> QED
        BY <2>1, <3>2 DEF Before
    <2>2. ASSUME NoRow(0, j)', rows' # <<>>, rows'[Len(rows')] = a
          PROVE  Before(j, a)
      <3>1. 0 \in 0..Len(pending') /\ j \in 1..Len(pending) + 1 /\ j <= j
        BY <1>1, <1>3
      <3>2. NoRow(0, j)
        BY <1>2, <2>2, <3>1
      <3> QED
        BY <2>2, <3>2 DEF Before
    <2>3. Before(j, a)
      BY <2>1, <2>2 DEF Before
    <2> QED
      BY <1>1, <1>3, <2>3
  <1>4. CASE j = Len(pending) + 2
    <2>n. /\ Len(pending) + 1 \in 1..Len(pending) + 1 /\ Len(pending) + 1 <= j
          /\ ~(j <= Len(pending) + 1)
      BY <1>1, <1>4
    <2>1. ASSUME NEW i \in 1..j - 1, pending'[i] = <<"row", a[1], a[2]>>, NoRow(i, j)'
          PROVE  \/ call[1] # "row" /\ Before(Len(pending) + 1, a)
                 \/ call = <<"row", a[1], a[2]>>
      <3>1. CASE i = Len(pending) + 1
        BY <1>1, <2>1, <3>1
      <3>2. CASE i # Len(pending) + 1
        <4>1. i \in 1..Len(pending) /\ i \in 0..Len(pending') /\ i \in 1..(Len(pending) + 1) - 1
              /\ Len(pending) + 1 \in i + 1..j - 1
          BY <1>1, <1>4, <2>1, <3>2
        <4>2. pending[i] = <<"row", a[1], a[2]>> /\ NoRow(i, Len(pending) + 1)
          BY <1>1, <1>2, <2>1, <2>n, <4>1
        <4>3. call[1] # "row"
          BY <1>1, <2>1, <4>1 DEF NoRow
        <4> QED
          BY <4>1, <4>2, <4>3 DEF Before
      <3> QED
        BY <3>1, <3>2
    <2>2. ASSUME NoRow(0, j)', rows' # <<>>, rows'[Len(rows')] = a
          PROVE  call[1] # "row" /\ Before(Len(pending) + 1, a)
      <3>1. 0 \in 0..Len(pending') /\ Len(pending) + 1 \in 0 + 1..j - 1
        BY <1>1, <1>4
      <3>2. NoRow(0, Len(pending) + 1)
        BY <1>2, <2>2, <2>n, <3>1
      <3>3. call[1] # "row"
        BY <1>1, <2>2, <3>1 DEF NoRow
      <3> QED
        BY <2>2, <3>2, <3>3 DEF Before
    <2> QED
      BY <1>4, <2>n, <2>1, <2>2 DEF Before
  <1> QED
    BY <1>1, <1>3, <1>4

\* When one is run, what is still pending keeps its place in the chain.
LEMMA ChainRun ==
  ASSUME TypeOK, NEW call, Callback(call),
         \/ call[1] # "row" /\ UNCHANGED rows
         \/ \E b \in Row : call = <<"row", b[1], b[2]>> /\ rows' = Append(rows, b),
         NEW a \in Row, NEW j \in 1..Len(pending') + 1, Before(j, a)'
  PROVE  Before(j + 1, a)
  <1>q. pending \in Seq(Calls) /\ rows \in Seq(Row)
    BY DEF TypeOK, Calls
  <1>1. /\ Len(pending) \in Nat \ {0} /\ Len(pending') = Len(pending) - 1
        /\ \A i \in 1..Len(pending') : pending'[i] = pending[i + 1]
        /\ pending[1] = call
    BY <1>q, Running
  <1>2. ASSUME NEW i \in 1..j - 1, pending'[i] = <<"row", a[1], a[2]>>, NoRow(i, j)'
        PROVE  Before(j + 1, a)
    <2>1. i + 1 \in 1..(j + 1) - 1 /\ pending[i + 1] = <<"row", a[1], a[2]>>
      BY <1>1, <1>2
    <2>2. NoRow(i + 1, j + 1)
      <3>1. ASSUME NEW m \in (i + 1) + 1..(j + 1) - 1 PROVE pending[m][1] # "row"
        <4>1. m - 1 \in i + 1..j - 1 /\ m - 1 \in 1..Len(pending')
          BY <1>1
        <4> QED
          BY <1>1, <1>2, <4>1 DEF NoRow
      <3> QED
        BY <3>1 DEF NoRow
    <2> QED
      BY <2>1, <2>2 DEF Before
  <1>3. ASSUME NoRow(0, j)', rows' # <<>>, rows'[Len(rows')] = a
        PROVE  Before(j + 1, a)
    <2>1. NoRow(1, j + 1)
      <3>1. ASSUME NEW m \in 1 + 1..(j + 1) - 1 PROVE pending[m][1] # "row"
        <4>1. m - 1 \in 1..j - 1 /\ m - 1 \in 1..Len(pending') /\ (m - 1) + 1 = m
          BY <1>1
        <4>2. \A n \in 1..j - 1 : pending'[n][1] # "row"
          BY <1>3 DEF NoRow
        <4> QED
          BY <1>1, <4>1, <4>2
      <3> QED
        BY <3>1 DEF NoRow
    <2>2. CASE call[1] # "row" /\ UNCHANGED rows
      <3>1. NoRow(0, j + 1)
        BY <1>1, <2>1, <2>2 DEF NoRow
      <3> QED
        BY <1>3, <2>2, <3>1 DEF Before
    <2>3. ASSUME NEW b \in Row, call = <<"row", b[1], b[2]>>, rows' = Append(rows, b)
          PROVE  Before(j + 1, a)
      <3>1. a = b
        BY <1>q, <1>3, <2>3
      <3>2. 1 \in 1..(j + 1) - 1
        BY <1>1
      <3> QED
        BY <1>1, <2>1, <2>3, <3>1, <3>2 DEF Before
    <2> QED
      BY <2>2, <2>3
  <1> QED
    BY <1>2, <1>3 DEF Before

\* The order of the rows: the queue, the row before its end, and the thread.
LEMMA InOrderStep == TypeOK /\ TypeOK' /\ Numbered /\ InOrder /\ [Next]_vars => InOrder'
  <1> SUFFICES ASSUME TypeOK, TypeOK', Numbered, InOrder, [Next]_vars PROVE InOrder'
    OBVIOUS
  <1> DEFINE Fits(j, a) ==
               /\ pending[j][1] = "row" => Follows(a, <<pending[j][2], pending[j][3]>>)
               /\ pending[j][1] = "correct" => a = <<pending[j][2], Rounds>>
             Last(a) == IF Posted = 0 THEN a[1] < session ELSE a = <<session, Posted>>
             Rest == /\ wpc = "row" => done >= 1
                     /\ wpc = "begin" => done = 0
                     /\ wpc = "correct" => done = Rounds
                     /\ wpc = "ask" => done < Rounds
  <1>q. pending \in Seq(Calls) /\ pending' \in Seq(Calls) /\ Len(pending) \in Nat
    BY DEF TypeOK, Calls
  <1>n. /\ session \in Nat /\ done \in Nat /\ Rounds \in Nat \ {0} /\ MaxSessions \in Nat
        /\ \A a \in Row : a[1] \in Nat /\ a[2] \in Nat /\ a = <<a[1], a[2]>>
    <2>1. Rounds \in Nat \ {0} /\ MaxSessions \in Nat
      BY GuiAssumption DEF GuiAssumption
    <2>2. session \in Nat /\ done \in Nat
      BY <2>1 DEF TypeOK
    <2>3. ASSUME NEW a \in Row PROVE a[1] \in Nat /\ a[2] \in Nat /\ a = <<a[1], a[2]>>
      <3>1. a[1] \in 1..MaxSessions /\ a[2] \in 1..Rounds /\ a = <<a[1], a[2]>>
        BY DEF Row
      <3> QED
        BY <2>1, <3>1
    <2> QED
      BY <2>1, <2>2, <2>3
  <1>o. /\ \A j \in 1..Len(pending), a \in Row : Before(j, a) => Fits(j, a)
        /\ \A a \in Row : Before(Len(pending) + 1, a) => Last(a)
        /\ Rest
    <2>1. \A j \in 1..Len(pending), a \in Row : Before(j, a) => Fits(j, a)
      BY DEF InOrder
    <2>2. \A a \in Row : Before(Len(pending) + 1, a) => Last(a)
      BY DEF InOrder
    <2>3. Rest
      BY DEF InOrder
    <2> QED
      BY <2>1, <2>2, <2>3
  <1>p. ASSUME \A j \in 1..Len(pending'), a \in Row : Before(j, a)' => Fits(j, a)',
               \A a \in Row : Before(Len(pending) + 1, a)' => Last(a)',
               Rest'
        PROVE  InOrder'
    BY <1>p DEF InOrder
  <1> HIDE DEF Rest, Last
  <1>1. ASSUME UNCHANGED pending, UNCHANGED rows \/ rows' = <<>>, \A a \in Row : Last(a) => Last(a)', Rest'
        PROVE  InOrder'
    <2>1. ASSUME NEW j \in 1..Len(pending) + 1, NEW a \in Row, Before(j, a)' PROVE Before(j, a)
      BY <1>1, <2>1 DEF Before, NoRow
    <2>2. \A j \in 1..Len(pending'), a \in Row : Before(j, a)' => Fits(j, a)'
      BY <1>1, <1>o, <1>q, <2>1
    <2>3. \A a \in Row : Before(Len(pending) + 1, a)' => Last(a)'
      BY <1>1, <1>o, <1>q, <2>1
    <2> QED
      BY <1>1, <1>p, <2>2, <2>3
  <1>2. ASSUME NEW call, Post(call), UNCHANGED rows, Rest',
               call[1] # "row" => (\A a \in Row : Last(a) => Last(a)'),
               call[1] = "row" =>
                 /\ \A a \in Row : Last(a) => Follows(a, <<call[2], call[3]>>)
                 /\ Last(<<call[2], call[3]>>)',
               call[1] = "correct" => (\A a \in Row : Last(a) => a = <<call[2], Rounds>>)
        PROVE  InOrder'
    <2>1. /\ Len(pending') = Len(pending) + 1
          /\ \A i \in 1..Len(pending) : pending'[i] = pending[i]
          /\ pending'[Len(pending) + 1] = call
      BY <1>2, <1>q, Posting
    <2>2. ASSUME NEW j \in 1..Len(pending'), NEW a \in Row, Before(j, a)' PROVE Fits(j, a)'
      <3>1. j \in 1..Len(pending) + 2 /\ j <= Len(pending) + 1
        BY <1>q, <2>1
      <3>2. Before(j, a)
        BY <1>2, <2>2, <3>1, ChainPosted
      <3>3. CASE j \in 1..Len(pending)
        BY <1>o, <2>1, <3>2, <3>3
      <3>4. CASE j = Len(pending) + 1
        <4>1. Last(a) /\ pending'[j] = call
          BY <1>o, <2>1, <3>2, <3>4
        <4> QED
          BY <1>2, <4>1
      <3> QED
        BY <1>q, <3>1, <3>3, <3>4
    <2>3. ASSUME NEW a \in Row, Before(Len(pending) + 1, a)' PROVE Last(a)'
      <3>1. /\ Len(pending) + 2 \in 1..Len(pending) + 2
            /\ Len(pending') + 1 = Len(pending) + 2
        BY <1>q, <2>1
      <3>2. \/ call[1] # "row" /\ Before(Len(pending) + 1, a)
            \/ call = <<"row", a[1], a[2]>>
        BY <1>2, <2>3, <3>1, ChainPosted
      <3>3. CASE call[1] # "row" /\ Before(Len(pending) + 1, a)
        BY <1>2, <1>o, <3>3
      <3>4. CASE call = <<"row", a[1], a[2]>>
        <4>1. call[1] = "row" /\ <<call[2], call[3]>> = a
          BY <1>n, <3>4
        <4> QED
          BY <1>2, <4>1
      <3> QED
        BY <3>2, <3>3, <3>4
    <2> QED
      BY <1>2, <1>p, <2>2, <2>3
  <1>3. ASSUME NEW call, Callback(call), \A a \in Row : Last(a) => Last(a)', Rest',
               \/ call[1] # "row" /\ UNCHANGED rows
               \/ \E b \in Row : call = <<"row", b[1], b[2]>> /\ rows' = Append(rows, b)
        PROVE  InOrder'
    <2>1. /\ Len(pending) \in Nat \ {0} /\ Len(pending') = Len(pending) - 1
          /\ \A i \in 1..Len(pending') : pending'[i] = pending[i + 1]
      BY <1>3, <1>q, Running
    <2>2. ASSUME NEW j \in 1..Len(pending') + 1, NEW a \in Row, Before(j, a)' PROVE Before(j + 1, a)
      BY <1>3, <2>2, ChainRun
    <2>3. ASSUME NEW j \in 1..Len(pending'), NEW a \in Row, Before(j, a)' PROVE Fits(j, a)'
      <3>1. j \in 1..Len(pending') + 1 /\ j + 1 \in 1..Len(pending)
        BY <2>1
      <3>2. Before(j + 1, a)
        BY <2>2, <2>3, <3>1
      <3> QED
        BY <1>o, <2>1, <3>1, <3>2
    <2>4. ASSUME NEW a \in Row, Before(Len(pending) + 1, a)' PROVE Last(a)'
      <3>1. /\ Len(pending') + 1 \in 1..Len(pending') + 1
            /\ (Len(pending') + 1) + 1 = Len(pending) + 1
        BY <2>1
      <3>2. Before(Len(pending) + 1, a)
        BY <2>2, <2>4, <3>1
      <3> QED
        BY <1>3, <1>o, <3>2
    <2> QED
      BY <1>3, <1>p, <2>3, <2>4
  <1>s. ASSUME UNCHANGED <<session, done, wpc>> PROVE Rest' /\ \A a \in Row : Last(a) => Last(a)'
    BY <1>s, <1>o DEF Rest, Last, Posted
  <1>4. CASE StartSync
    <2>1. session' = session + 1 /\ done' = 0 /\ wpc' = "begin" /\ UNCHANGED <<pending, rows>>
      BY <1>4 DEF StartSync
    <2>2. Rest' /\ \A a \in Row : Last(a) => Last(a)'
      BY <1>n, <2>1 DEF Rest, Last, Posted
    <2> QED
      BY <1>1, <2>1, <2>2
  <1>5. CASE StartRefused \/ StopSync \/ ClearTable \/ Aside
    BY <1>1, <1>s, <1>5 DEF StartRefused, StopSync, ClearTable, Aside, threadVars, sessionVars
  <1>6. CASE ThreadStep
    <2> USE DEF threadOnly, sessionVars
    <2>1. CASE ReadPath \/ NextRound
      <3>1. Rest' /\ \A a \in Row : Last(a) => Last(a)'
        BY <1>n, <2>1 DEF ReadPath, NextRound, Rest, Last, Posted
      <3> QED
        BY <1>1, <2>1, <3>1 DEF ReadPath, NextRound
    <2>2. ASSUME NEW written \in BOOLEAN, RoundOk(written) PROVE InOrder'
      <3>1. done' = done + 1 /\ wpc = "ask" /\ wpc' = "row" /\ UNCHANGED <<session, rows>>
        BY <2>2 DEF RoundOk
      <3>2. Rest' /\ \A a \in Row : Last(a) => Last(a)'
        BY <1>n, <3>1 DEF Rest, Last, Posted
      <3>3. UNCHANGED pending \/ Post(<<"error", session>>)
        BY <2>2 DEF RoundOk, AppendCsvRow
      <3> QED
        BY <1>1, <1>2, <3>1, <3>2, <3>3
    <2>3. CASE RoundFails \/ PostProgress
      <3>1. Rest' /\ \A a \in Row : Last(a) => Last(a)'
        BY <1>n, <2>3 DEF RoundFails, PostProgress, Rest, Last, Posted
      <3> QED
        BY <1>2, <2>3, <3>1 DEF RoundFails, PostProgress
    <2>4. CASE PostRow
      <3>1. /\ Post(<<"row", session, done>>) /\ UNCHANGED <<rows, session, done>>
            /\ wpc = "row" /\ wpc' = "progress" /\ done >= 1
        BY <1>o, <2>4 DEF PostRow, Rest
      <3>2. Rest' /\ Last(<<session, done>>)'
        BY <1>n, <3>1 DEF Rest, Last, Posted
      <3>3. ASSUME NEW a \in Row, Last(a) PROVE Follows(a, <<session, done>>)
        BY <1>n, <3>1, <3>3 DEF Last, Posted, Follows
      <3> QED
        BY <1>2, <3>1, <3>2, <3>3
    <2>5. CASE PostFinish
      <3>1. Rest' /\ \A a \in Row : Last(a) => Last(a)'
        BY <1>n, <2>5 DEF PostFinish, Rest, Last, Posted
      <3> QED
        BY <1>2, <2>5, <3>1 DEF PostFinish
    <2>6. CASE PostCorrection
      <3>1. Rest' /\ \A a \in Row : Last(a) => Last(a)'
        BY <1>n, <2>6 DEF PostCorrection, Rest, Last, Posted
      <3>2. ASSUME NEW a \in Row, Last(a) PROVE a = <<session, Rounds>>
        BY <1>n, <1>o, <2>6, <3>2 DEF PostCorrection, Rest, Last, Posted
      <3> QED
        BY <1>2, <2>6, <3>1, <3>2 DEF PostCorrection
    <2> QED
      BY <1>6, <2>1, <2>2, <2>3, <2>4, <2>5, <2>6 DEF ThreadStep
  <1>7. CASE SessionCallback
    <2>1. Rest' /\ \A a \in Row : Last(a) => Last(a)'
      BY <1>7, <1>s, CallbackRuns DEF callbackOnly, threadVars, sessionVars
    <2>2. ASSUME NEW s \in 1..MaxSessions, NEW r \in 1..Rounds, Callback(<<"row", s, r>>),
                 rows' = Append(rows, <<s, r>>)
          PROVE  InOrder'
      <3>1. <<s, r>> \in Row /\ <<s, r>>[1] = s /\ <<s, r>>[2] = r
        BY DEF Row
      <3> QED
        BY <1>3, <2>1, <2>2, <3>1
    <2>3. ASSUME NEW s \in 1..MaxSessions, NEW kind \in {"progress", "error", "correct"},
                 Callback(<<kind, s>>), UNCHANGED rows
          PROVE  InOrder'
      BY <1>3, <2>1, <2>3
    <2>4. ASSUME NEW s \in 1..MaxSessions, NEW stopped \in BOOLEAN,
                 Callback(<<"finish", s, stopped>>), UNCHANGED rows
          PROVE  InOrder'
      BY <1>3, <2>1, <2>4
    <2> QED
      BY <1>7, CallbackRuns, <2>2, <2>3, <2>4
  <1>8. CASE LiveCall
    <2>1. PICK kind \in {"synced", "unsynced"}, p \in Press :
            (Post(<<kind, p>>) \/ Callback(<<kind, p>>)) /\ UNCHANGED <<callbackOnly, viewVars, rows>>
      BY <1>8 DEF LiveCall
    <2>2. UNCHANGED rows /\ Rest' /\ \A a \in Row : Last(a) => Last(a)'
      BY <1>s, <2>1 DEF callbackOnly, sessionVars, threadVars
    <2> QED
      BY <1>2, <1>3, <2>1, <2>2
  <1> QED
    BY Steps, <1>4, <1>5, <1>6, <1>7, <1>8

LEMMA TableStep == TypeOK /\ InOrder /\ Table /\ [Next]_vars => Table'
  <1> SUFFICES ASSUME TypeOK, InOrder, Table, [Next]_vars PROVE Table'
    OBVIOUS
  <1>q. pending \in Seq(Calls) /\ rows \in Seq(Row)
    BY DEF TypeOK, Calls
  <1>n. Rounds \in Nat \ {0} /\ MaxSessions \in Nat
    BY GuiAssumption DEF GuiAssumption
  <1>t. \A a \in Row : a[1] \in Nat /\ a[2] \in Nat
    BY <1>n DEF Row
  <1>1. CASE UNCHANGED rows
    BY <1>1 DEF Table
  <1>2. CASE rows' = <<>>
    BY <1>2 DEF Table
  <1>3. ASSUME NEW s \in 1..MaxSessions, NEW r \in 1..Rounds, Callback(<<"row", s, r>>),
               rows' = Append(rows, <<s, r>>)
        PROVE  Table'
    <2> DEFINE n == Len(rows)
    <2>1. /\ n \in Nat /\ Len(rows') = n + 1
          /\ rows'[n + 1] = <<s, r>> /\ \A i \in 1..n : rows'[i] = rows[i] /\ rows[i] \in Row
      BY <1>q, <1>3
    <2> HIDE DEF n
    <2>2. CASE n = 0
      BY <2>1, <2>2 DEF Table
    <2>3. CASE n # 0
      <3>1. n \in 1..n /\ rows # <<>> /\ rows[n] \in Row
        BY <1>q, <2>1, <2>3 DEF n
      <3>2. Len(pending) \in Nat \ {0} /\ pending[1] = <<"row", s, r>>
        BY <1>3, <1>q, Running
      <3>3. Before(1, rows[n])
        BY <3>1 DEF Before, NoRow, n
      <3>4. Follows(rows[n], <<s, r>>)
        <4>1. 1 \in 1..Len(pending)
          BY <3>2
        <4> QED
          BY <3>1, <3>2, <3>3, <4>1 DEF InOrder
      <3>5. ASSUME NEW i \in 1..n, NEW j \in 1..n, i < j
            PROVE  /\ rows[i][1] <= rows[j][1]
                   /\ rows[i][1] = rows[j][1] => rows[j][2] - rows[i][2] = j - i
                   /\ i + 1 = j /\ rows[i][1] # rows[j][1] => rows[j][2] = 1
        BY <3>5 DEF Table, n
      <3>6. ASSUME NEW i \in 1..n
            PROVE  /\ rows[i][1] <= s
                   /\ rows[i][1] = s => r - rows[i][2] = (n + 1) - i
                   /\ i + 1 = n + 1 /\ rows[i][1] # s => r = 1
        <4> DEFINE a == rows[n]
                   b == rows[i]
        <4>1. a[1] \in Nat /\ a[2] \in Nat /\ b[1] \in Nat /\ b[2] \in Nat
          BY <1>t, <2>1, <3>1
        <4>2. \/ s = a[1] /\ r = a[2] + 1
              \/ s > a[1] /\ r = 1
          BY <3>4 DEF Follows
        <4>3. CASE i = n
          BY <2>1, <4>1, <4>2, <4>3
        <4>4. CASE i # n
          <5>1. b[1] <= a[1] /\ (b[1] = a[1] => a[2] - b[2] = n - i)
            BY <2>1, <3>1, <3>5, <4>4
          <5> HIDE DEF a, b
          <5>2. b[1] <= s /\ (b[1] = s => r - b[2] = (n + 1) - i) /\ i + 1 # n + 1
            <6>1. n \in Int /\ i \in Int /\ r \in Int /\ s \in Int
              BY <2>1
            <6>2. b[1] <= s /\ i + 1 # n + 1
              BY <4>1, <4>2, <4>4, <5>1, <6>1
            <6>3. ASSUME b[1] = s PROVE r - b[2] = (n + 1) - i
              BY <4>1, <4>2, <5>1, <6>1, <6>3
            <6> QED
              BY <6>2, <6>3
          <5> QED
            BY <5>2 DEF b
        <4> QED
          BY <4>3, <4>4
      <3>7. ASSUME NEW i \in 1..Len(rows'), NEW j \in 1..Len(rows'), i < j
            PROVE  /\ rows'[i][1] <= rows'[j][1]
                   /\ rows'[i][1] = rows'[j][1] => rows'[j][2] - rows'[i][2] = j - i
                   /\ i + 1 = j /\ rows'[i][1] # rows'[j][1] => rows'[j][2] = 1
        <4>1. CASE j = n + 1
          <5>1. i \in 1..n
            BY <2>1, <3>7, <4>1
          <5>2. rows'[i] = rows[i] /\ rows'[j][1] = s /\ rows'[j][2] = r
            BY <2>1, <4>1, <5>1
          <5> QED
            BY <3>6, <4>1, <5>1, <5>2
        <4>2. CASE j # n + 1
          <5>1. i \in 1..n /\ j \in 1..n
            BY <2>1, <3>7, <4>2
          <5> QED
            BY <2>1, <3>5, <3>7, <5>1
        <4> QED
          BY <4>1, <4>2
      <3> QED
        BY <3>7 DEF Table
    <2> QED
      BY <2>2, <2>3
  <1>4. CASE StartSync \/ StartRefused \/ StopSync \/ ClearTable \/ Aside \/ LiveCall
    BY <1>1, <1>2, <1>4 DEF StartSync, StartRefused, StopSync, ClearTable, Aside, LiveCall
  <1> QED
    BY Steps, ThreadPosts, CallbackRuns, <1>1, <1>3, <1>4

LEMMA LiveStepText == TypeOK /\ LiveText /\ [Next]_vars => LiveText'
  <1> SUFFICES ASSUME TypeOK, LiveText, [Next]_vars PROVE LiveText'
    OBVIOUS
  <1>q. pending \in Seq(Calls)
    BY DEF TypeOK, Calls
  <1>2. ASSUME UNCHANGED <<label, synced, offset>>, Awaited => Awaited' PROVE LiveText'
    BY <1>2 DEF LiveText
  <1>3. ASSUME UNCHANGED <<asking, pending>> PROVE Awaited => Awaited'
    BY <1>3 DEF Awaited
  <1>4. ASSUME NEW call, Post(call),
               \/ UNCHANGED asking
               \/ call[1] \in {"synced", "unsynced"}
        PROVE  Awaited => Awaited'
    <2>1. /\ Len(pending) \in Nat /\ Len(pending') = Len(pending) + 1
          /\ \A i \in 1..Len(pending) : pending'[i] = pending[i]
          /\ pending'[Len(pending) + 1] = call
      BY <1>4, <1>q, Posting
    <2> QED
      BY <1>4, <2>1 DEF Awaited
  <1>5. ASSUME NEW call, Callback(call), UNCHANGED asking, call[1] \notin {"synced", "unsynced"}
        PROVE  Awaited => Awaited'
    <2>1. /\ Len(pending) \in Nat \ {0} /\ Len(pending') = Len(pending) - 1
          /\ \A i \in 1..Len(pending') : pending'[i] = pending[i + 1]
          /\ pending[1] = call
      BY <1>5, <1>q, Running
    <2>2. ASSUME NEW i \in 1..Len(pending), pending[i][1] \in {"synced", "unsynced"} PROVE Awaited'
      <3>1. i - 1 \in 1..Len(pending') /\ pending'[i - 1] = pending[i]
        BY <1>5, <2>1, <2>2
      <3> QED
        BY <2>2, <3>1 DEF Awaited
    <2> QED
      BY <1>5, <2>2 DEF Awaited
  <1>6. CASE UserStep \/ UNCHANGED vars
    <2>1. UNCHANGED <<pending, liveVars>>
      BY <1>6 DEF UserStep, StartSync, StartRefused, StopSync, ClearTable, vars
    <2> QED
      BY <1>2, <1>3, <2>1 DEF liveVars
  <1>7. CASE ThreadStep
    <2>1. UNCHANGED liveVars
      BY <1>7 DEF ThreadStep, ReadPath, NextRound, RoundOk, RoundFails, PostRow, PostProgress,
         PostFinish, PostCorrection, threadOnly
    <2>2. UNCHANGED pending \/ \E call : Post(call)
      BY <1>7, ThreadPosts
    <2> QED
      BY <1>2, <1>3, <1>4, <2>1, <2>2 DEF liveVars
  <1>8. CASE SessionCallback
    <2>1. \E call : Callback(call) /\ call[1] \notin {"synced", "unsynced"}
      <3>1. ASSUME NEW s \in 1..MaxSessions, NEW r \in 1..Rounds, Callback(<<"row", s, r>>)
            PROVE  \E call : Callback(call) /\ call[1] \notin {"synced", "unsynced"}
        <4>1. <<"row", s, r>>[1] \notin {"synced", "unsynced"}
          OBVIOUS
        <4> QED
          BY <3>1, <4>1
      <3>2. ASSUME NEW s \in 1..MaxSessions, NEW kind \in {"progress", "error", "correct"},
                   Callback(<<kind, s>>)
            PROVE  \E call : Callback(call) /\ call[1] \notin {"synced", "unsynced"}
        <4>1. <<kind, s>>[1] \notin {"synced", "unsynced"}
          OBVIOUS
        <4> QED
          BY <3>2, <4>1
      <3>3. ASSUME NEW s \in 1..MaxSessions, NEW stopped \in BOOLEAN, Callback(<<"finish", s, stopped>>)
            PROVE  \E call : Callback(call) /\ call[1] \notin {"synced", "unsynced"}
        <4>1. <<"finish", s, stopped>>[1] \notin {"synced", "unsynced"}
          OBVIOUS
        <4> QED
          BY <3>3, <4>1
      <3> QED
        BY <1>8, CallbackRuns, <3>1, <3>2, <3>3
    <2>2. UNCHANGED asking
      BY <1>8 DEF SessionCallback, AppendRow, ShowProgress, HandleError, FinishStatus,
         ApplyPostSyncCorrection, liveVars
    <2>3. Awaited => Awaited'
      BY <1>5, <2>1, <2>2
    <2>4. ASSUME NEW s \in 1..MaxSessions, ApplyPostSyncCorrection(s) PROVE LiveText'
      BY <1>2, <2>3, <2>4 DEF ApplyPostSyncCorrection, LiveText, liveVars
    <2>5. CASE UNCHANGED liveVars
      BY <1>2, <2>3, <2>5 DEF liveVars
    <2> QED
      BY <1>8, <2>4, <2>5 DEF SessionCallback, AppendRow, ShowProgress, HandleError, FinishStatus
  <1>9. CASE LiveStep
    <2>1. CASE LiveRefused
      BY <2>1 DEF LiveRefused, LiveText
    <2>2. CASE ResetLiveTime
      BY <2>2 DEF ResetLiveTime, LiveText
    <2>3. ASSUME NEW p \in Press, SyncLiveTime(p) PROVE LiveText'
      BY <2>3 DEF SyncLiveTime, LiveText, Awaited
    <2>4. ASSUME NEW p \in Press, OnLiveTimeSynced(p) PROVE LiveText'
      BY <2>4 DEF OnLiveTimeSynced, LiveText
    <2>5. ASSUME NEW p \in Press, OnLiveTimeFailed(p) PROVE LiveText'
      BY <2>5 DEF OnLiveTimeFailed, LiveText
    <2>6. ASSUME NEW p \in Press, NEW ok \in BOOLEAN, LiveWorker(p, ok) PROVE LiveText'
      <3>1. \E kind \in {"synced", "unsynced"} : Post(<<kind, p>>)
        BY <2>6 DEF LiveWorker
      <3> QED
        BY <1>2, <1>4, <2>6, <3>1 DEF LiveWorker
    <2> QED
      BY <1>9, <2>1, <2>2, <2>3, <2>4, <2>5, <2>6 DEF LiveStep
  <1> QED
    BY <1>6, <1>7, <1>8, <1>9 DEF Next

-----------------------------------------------------------------------------
(* The invariant, and what follows from it.                                *)

LEMMA InvInit == Init => Inv
  <1> SUFFICES ASSUME Init PROVE Inv
    OBVIOUS
  <1>1. /\ pending = <<>> /\ rows = <<>> /\ wpc = "dead" /\ done = 0 /\ session = 0 /\ stopat = NotYet
        /\ status = "Idle" /\ ~stopbtn
    BY DEF Init
  <1>2. Numbered /\ Ending /\ OwnCalls /\ Stopped /\ Table
    BY <1>1 DEF Numbered, Ending, OwnCalls, Stopped, Table, Alive
  <1>3. FileKept
    BY <1>1 DEF FileKept, CsvIsOfThisSession, Alive
  <1>4. InOrder
    <2>1. \A a : ~Before(1, a)
      BY <1>1 DEF Before, NoRow
    <2> QED
      BY <1>1, <2>1 DEF InOrder
  <1>5. LiveText
    BY DEF Init, LiveInit, LiveText
  <1> QED
    BY TypeInit, <1>2, <1>3, <1>4, <1>5 DEF Inv

\* The types, the last words, the calls, the files, the order of the rows and
\* the text beside the live clock are an inductive invariant.
THEOREM Invariant == Spec => []Inv
  <1>1. Inv /\ [Next]_vars => Inv'
    BY TypeStep, NumberedStep, EndingStep, OwnCallsStep, StoppedStep, FileStep, InOrderStep,
       TableStep, LiveStepText DEF Inv
  <1> QED
    BY InvInit, <1>1, PTL DEF Spec

\* Every variable of the client's window stays within its type.
THEOREM TypeCorrect == Spec => []TypeOK
  <1>1. Inv => TypeOK
    BY DEF Inv
  <1> QED
    BY Invariant, <1>1, PTL

\* Once a session is over and its callbacks have run, the window shows that it
\* is over, whatever errors and whichever sessions came before.
THEOREM EndIsShown == Spec => []ShowsEnded
  <1>1. Inv => ShowsEnded
    BY DEF Inv, Ending, ShowsEnded, Alive
  <1> QED
    BY Invariant, <1>1, PTL

\* A running session can be stopped, but for the two cases StopUsable names.
THEOREM StopEnabled == Spec => []StopUsable
  <1>1. Inv => StopUsable
    BY DEF Inv, OwnCalls, StopUsable
  <1> QED
    BY Invariant, <1>1, PTL

\* After Stop at most the round under way is completed.
THEOREM StopIsPrompt == Spec => []StopTakesEffect
  <1>1. Inv => StopTakesEffect
    BY GuiAssumption DEF Inv, Stopped, StopTakesEffect, TypeOK, GuiAssumption
  <1> QED
    BY Invariant, <1>1, PTL

\* The file a session has emptied holds its rows, each once and in order.
THEOREM CsvIsRight == Spec => []CsvIsOfThisSession
  <1>1. Inv => CsvIsOfThisSession
    BY DEF Inv, FileKept
  <1> QED
    BY Invariant, <1>1, PTL

\* The correction of a session is computed when all its rows are in the table,
\* none missing and none behind it, for any number of sessions and rounds.
THEOREM CorrectionIsComplete == Spec => []CorrectionSeesSession
  <1>1. Inv => CorrectionSeesSession
    <2> SUFFICES ASSUME Inv, NEW s \in 1..session, pending # <<>>, Head(pending) = <<"correct", s>>,
                        rows # <<>>
                 PROVE  /\ rows[Len(rows)] = <<s, Rounds>>
                        /\ \A i \in 1..Len(rows) : rows[i][1] = s =>
                            /\ rows[i][2] = Rounds - (Len(rows) - i)
                            /\ i > 1 /\ rows[i][2] > 1 => rows[i - 1][1] = s
      BY DEF CorrectionSeesSession
    <2>q. pending \in Seq(Calls) /\ rows \in Seq(Row) /\ Rounds \in Nat \ {0}
      BY GuiAssumption DEF Inv, TypeOK, Calls, GuiAssumption
    <2>1. 1 \in 1..Len(pending) /\ pending[1] = <<"correct", s>>
      BY <2>q
    <2>2. Len(rows) \in 1..Len(rows) /\ \A i \in 1..Len(rows) : rows[i] \in Row
      BY <2>q
    <2>3. Before(1, rows[Len(rows)])
      BY DEF Before, NoRow
    <2>4. rows[Len(rows)] = <<s, Rounds>>
      <3>1. pending[1][1] = "correct" /\ pending[1][2] = s
        BY <2>1
      <3>2. rows[Len(rows)] \in Row
        BY <2>2
      <3> QED
        BY <2>1, <2>3, <3>1, <3>2 DEF Inv, InOrder
    <2>5. ASSUME NEW i \in 1..Len(rows), rows[i][1] = s
          PROVE  rows[i][2] = Rounds - (Len(rows) - i)
      <3>1. CASE i = Len(rows)
        BY <2>q, <2>4, <3>1
      <3>2. CASE i < Len(rows)
        <4>1. Rounds - rows[i][2] = Len(rows) - i
          BY <2>2, <2>4, <2>5, <3>2 DEF Inv, Table
        <4>2. rows[i][2] \in Nat
          BY <2>2, <2>q DEF Row
        <4> QED
          BY <2>2, <2>q, <4>1, <4>2
      <3> QED
        BY <2>2, <3>1, <3>2
    <2>6. ASSUME NEW i \in 1..Len(rows), rows[i][1] = s, i > 1, rows[i][2] > 1
          PROVE  rows[i - 1][1] = s
      <3>1. i - 1 \in 1..Len(rows) /\ i - 1 < i /\ (i - 1) + 1 = i
        BY <2>2, <2>6
      <3> QED
        BY <2>6, <3>1 DEF Inv, Table
    <2> QED
      BY <2>4, <2>5, <2>6
  <1> QED
    BY Invariant, <1>1, PTL

\* After a reset, a result or a correction the text beside the live clock names
\* the offset in force, that of the very press it quotes, and it promises a
\* result only while one is to come.  After a failure it is wrong, which
\* FailedMeansLocal shows.
THEOREM LabelTells == Spec => []LiveLabelTells
  <1>1. Inv => LiveLabelTells
    BY DEF Inv, LiveText, LiveLabelTells, Applied, Awaited
  <1> QED
    BY Invariant, <1>1, PTL

=============================================================================
