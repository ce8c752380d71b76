----------------------------- MODULE MasterClock -----------------------------
(***************************************************************************)
(* The server's clock: server/time_manager.py, whose sync thread measures  *)
(* the offset of the system clock with server/ntp_sync.py.                 *)
(*                                                                         *)
(* Time is counted in ticks.  "now" is true time, which no machine reads:  *)
(* time.time() on the server returns now + ServerSkew.  The clock's error  *)
(* is therefore offset + ServerSkew; it would be 0 if a measurement took   *)
(* no time and its source had no granularity.                              *)
(***************************************************************************)
EXTENDS Integers, Sequences

CONSTANTS
    MaxTime,      \* bound: the last tick
    ServerSkew,   \* the error of the server's system clock
    SourceLists,  \* what fetch_reference_time may be set up to ask, in order:
                  \* "ntp"s, then "https"s; nothing in manual mode ("off", ...)
    MaxTry,       \* the longest a successful request takes (timeout=2)
    Interval,     \* sync_interval
    Granule       \* the resolution of an HTTPS Date header, one second

ASSUME ClockAssumption ==
    /\ MaxTime \in Nat
    /\ ServerSkew \in Int
    /\ SourceLists \subseteq Seq({"ntp", "https"})
    /\ MaxTry \in Nat
    /\ Interval \in Nat
    /\ Granule \in Nat \ {0}

VARIABLES
    sources,   \* the list of this run
    now,       \* true time
    offset,    \* _offset
    status,    \* _last_sync_status
    spc,       \* the sync thread: before a fetch, in one, waiting, or ended
    source,    \* the source it is asking
    asked,     \* when it asked
    due,       \* when its wait ends
    stopped,   \* _stop_event
    origin     \* history: the kind of source the offset in force came from

Labels == {"system-time", "manual", "unavailable", "ntp", "https"}

syncVars == <<offset, status, spc, source, asked, due, origin>>
clockVars == <<sources, now, syncVars, stopped>>

ClockInit ==
    /\ sources \in SourceLists
    /\ now = 0
    /\ offset = 0
    /\ status = "system-time"
    /\ spc = "loop"
    /\ source = 1
    /\ asked = 0
    /\ due = 0
    /\ stopped = FALSE
    /\ origin = "none"

-----------------------------------------------------------------------------
\* A request does not outlast its timeout.
Tick ==
    /\ now < MaxTime
    /\ spc = "asking" => now - asked < MaxTry
    /\ now' = now + 1
    /\ UNCHANGED <<sources, syncVars, stopped>>

\* stop(): sets the event; the thread notices at its next test.
Stop ==
    /\ ~stopped
    /\ stopped' = TRUE
    /\ UNCHANGED <<sources, now, syncVars>>

\* The loop's test, then the first source.  Without sources the fetch has
\* nothing to ask.
Loop ==
    /\ spc = "loop"
    /\ spc' = IF stopped THEN "ended" ELSE IF sources = <<>> THEN "none" ELSE "asking"
    /\ source' = 1
    /\ asked' = now
    /\ UNCHANGED <<sources, now, offset, status, due, stopped, origin>>

\* The end of a fetch and of its locals, and the start of the wait.
FetchEnds ==
    /\ spc' = "waiting"
    /\ due' = now + Interval
    /\ source' = 1
    /\ asked' = 0

\* What the source answered at true time t.
Reading(kind, t) == IF kind = "https" THEN t - (t % Granule) ELSE t

\* A definition marked "Fault" is no part of the specification: it is a defect
\* that the properties have to detect.
\* Fault: whoever answers, the status names the first source.
AnsweredAsFirst ==
    /\ spc = "asking"
    /\ \E t \in asked..now :
        offset' = Reading(sources[source], t) - (now + ServerSkew)
    /\ status' = sources[1]
    /\ origin' = sources[source]
    /\ FetchEnds
    /\ UNCHANGED <<sources, now, stopped>>

\* The source answers; the answer left it at some time since the request.  No
\* part of the way it took is subtracted.
Answered ==
    /\ spc = "asking"
    /\ \E t \in asked..now :
        offset' = Reading(sources[source], t) - (now + ServerSkew)
    /\ status' = sources[source]
    /\ origin' = sources[source]
    /\ FetchEnds
    /\ UNCHANGED <<sources, now, stopped>>

\* Fault: the list of sources has no end.
NextSourceUnbounded ==
    /\ spc = "asking"
    /\ source' = source + 1
    /\ asked' = now
    /\ UNCHANGED <<sources, now, offset, status, spc, due, stopped, origin>>

\* The source fails or times out, and is not the last one.
NextSource ==
    /\ spc = "asking"
    /\ source < Len(sources)
    /\ source' = source + 1
    /\ asked' = now
    /\ UNCHANGED <<sources, now, offset, status, spc, due, stopped, origin>>

\* Fault: without a reference time the clock goes back to the system's.
NoReferenceResets ==
    /\ \/ spc = "none" /\ status' = "manual"
       \/ spc = "asking" /\ source = Len(sources) /\ status' = "unavailable"
    /\ offset' = 0
    /\ FetchEnds
    /\ UNCHANGED <<sources, now, stopped, origin>>

\* Fault: and so does the label.
NoReferenceRelabels ==
    /\ spc = "none" \/ (spc = "asking" /\ source = Len(sources))
    /\ status' = "system-time"
    /\ FetchEnds
    /\ UNCHANGED <<sources, now, offset, stopped, origin>>

\* There is no reference time: the offset stays.
NoReference ==
    /\ \/ spc = "none" /\ status' = "manual"
       \/ spc = "asking" /\ source = Len(sources) /\ status' = "unavailable"
    /\ FetchEnds
    /\ UNCHANGED <<sources, now, offset, stopped, origin>>

\* _stop_event.wait(sync_interval)
Wake ==
    /\ spc = "waiting"
    /\ stopped \/ now >= due
    /\ spc' = "loop"
    /\ due' = 0
    /\ UNCHANGED <<sources, now, offset, status, source, asked, stopped, origin>>

ClockNext == Tick \/ Stop \/ Loop \/ Answered \/ NextSource \/ NoReference \/ Wake

-----------------------------------------------------------------------------
\* The state has its type.
ClockTypeOK ==
    /\ sources \in SourceLists
    /\ now \in 0..MaxTime
    /\ offset \in Int
    /\ status \in Labels
    /\ spc \in {"loop", "none", "asking", "waiting", "ended"}
    /\ source \in Nat
    /\ spc = "asking" => source \in 1..Len(sources)
    /\ asked \in 0..now
    /\ due \in Nat
    /\ stopped \in BOOLEAN
    /\ origin \in {"none", "ntp", "https"}

\* How far an offset from a source of a kind may be off.
Worst(kind) == MaxTry + (IF kind = "https" THEN Granule - 1 ELSE 0)

\* Once it has been set, the clock is never ahead of true time and never
\* further behind it than one request may take, plus the resolution of the
\* source: also while later measurements fail, and whatever the order of the
\* sources that answered before.
ClockAccuracy ==
    \/ origin = "none" /\ offset = 0
    \/ origin # "none" /\ offset + ServerSkew \in (-Worst(origin))..0

\* Falling back to system time, as the documents and the label itself say:
\* "system-time (ntp unavailable)" is a clock without an offset.
FallsBackToSystemTime == status = "unavailable" => offset = 0
=============================================================================
