---------------------------- MODULE TimeExchange ----------------------------
(***************************************************************************)
(* One T1-T4 exchange at a time between a client and a server thread,      *)
(* while the server's sync thread goes on: run_session in                  *)
(* client/client.py, handle_client in server/secure_server.py and          *)
(* compute_offset_and_delay in client/sync_algorithm.py.  time.time() on   *)
(* the client returns now + ClientSkew.                                    *)
(***************************************************************************)
EXTENDS MasterClock

CONSTANT ClientSkew   \* the error of the client's system clock

ASSUME ExchangeAssumption == ClientSkew \in Int

VARIABLES
    step,    \* the stamp the exchange takes next
    held,    \* MasterClock.now() between its two reads: the offset it has read,
             \* and as history that offset's origin; otherwise <<>>
    T,       \* the stamps taken: T1..T4 and reference_time
    label,   \* time_source of the reply
    when,    \* history: the true time of each stamp
    carry,   \* history: the error of the server's clock in each of its stamps
    from,    \* history: the origin of the offset in each of its stamps
    shifted  \* history: the source of the clock has changed during the reply

Stamps == {"T1", "T2", "T3", "reference_time", "T4"}
ServerStamps == {"T2", "T3", "reference_time"}

exchangeVars == <<step, held, T, label, when, carry, from>>
vars == <<clockVars, exchangeVars, shifted>>

Blank == [s \in Stamps |-> 0]
BlankCarry == [s \in ServerStamps |-> 0]
BlankFrom == [s \in ServerStamps |-> "none"]

Init ==
    /\ ClockInit
    /\ step = "T1"
    /\ held = <<>>
    /\ T = Blank
    /\ label = "system-time"
    /\ when = Blank
    /\ carry = BlankCarry
    /\ from = BlankFrom
    /\ shifted = FALSE

-----------------------------------------------------------------------------
Take(s, value, next) ==
    /\ step = s
    /\ T' = [T EXCEPT ![s] = value]
    /\ when' = [when EXCEPT ![s] = now]
    /\ step' = next

\* Before sendall() and after recv() of the client.
Send ==
    /\ Take("T1", now + ClientSkew, "T2")
    /\ UNCHANGED <<clockVars, held, label, carry, from, shifted>>

Receive ==
    /\ Take("T4", now + ClientSkew, "done")
    /\ UNCHANGED <<clockVars, held, label, carry, from, shifted>>

\* clock.now() reads the offset under the lock and the system clock after it.
Hold ==
    /\ step \in ServerStamps /\ held = <<>>
    /\ held' = <<offset, origin>>
    /\ UNCHANGED <<clockVars, step, T, label, when, carry, from, shifted>>

\* A definition marked "Fault" is no part of the specification: it is a defect
\* that the properties have to detect.
\* Fault: the offset is subtracted.
StampSubtracts(s, next) ==
    /\ held # <<>>
    /\ Take(s, now + ServerSkew - held[1], next)
    /\ carry' = [carry EXCEPT ![s] = held[1] + ServerSkew]
    /\ from' = [from EXCEPT ![s] = held[2]]
    /\ held' = <<>>
    /\ UNCHANGED <<clockVars, label, shifted>>

Stamp(s, next) ==
    /\ held # <<>>
    /\ Take(s, now + ServerSkew + held[1], next)
    /\ carry' = [carry EXCEPT ![s] = held[1] + ServerSkew]
    /\ from' = [from EXCEPT ![s] = held[2]]
    /\ held' = <<>>
    /\ UNCHANGED <<clockVars, label, shifted>>

\* T2 after recv(), T3 after the sleep, reference_time with the reply; its
\* time_source is clock.status(), read last.
ServerStamp ==
    \/ Stamp("T2", "T3")
    \/ Stamp("T3", "reference_time")
    \/ Stamp("reference_time", "label")

Label ==
    /\ step = "label"
    /\ label' = status
    /\ step' = "T4"
    /\ UNCHANGED <<clockVars, held, T, when, carry, from, shifted>>

\* The next round, with locals of its own.
Again ==
    /\ step = "done"
    /\ step' = "T1"
    /\ T' = Blank
    /\ label' = "system-time"
    /\ when' = Blank
    /\ carry' = BlankCarry
    /\ from' = BlankFrom
    /\ shifted' = FALSE
    /\ UNCHANGED <<clockVars, held>>

\* From the first look at the clock for a reply to the last one.
Replying == step \in {"T3", "reference_time", "label"} \/ held # <<>>

\* The sync thread and time go on at any moment of the exchange.
ClockRuns ==
    /\ ClockNext
    /\ shifted' = (shifted \/ (Replying /\ <<status', origin'>> # <<status, origin>>))
    /\ UNCHANGED exchangeVars

\* Nothing is left to do at the last tick.
Over == now = MaxTime /\ UNCHANGED vars

Next ==
    \/ ClockRuns
    \/ Send \/ Hold \/ ServerStamp \/ Label \/ Receive \/ Again
    \/ Over

Spec == Init /\ [][Next]_vars

-----------------------------------------------------------------------------
(* The measurement.                                                        *)

\* Fault: T3 and T4 exchanged.
TwiceOffsetSwapped == (T["T2"] - T["T1"]) + (T["T4"] - T["T3"])

\* compute_offset_and_delay; the offset is doubled to stay an integer.
TwiceOffset == (T["T2"] - T["T1"]) + (T["T3"] - T["T4"])
Delay == (T["T4"] - T["T1"]) - (T["T3"] - T["T2"])

\* Twice the error of a client clock that has added the offset to its own.
TwiceClientError == 2 * ClientSkew + TwiceOffset

\* The time the request and the reply really took, with the wait of the
\* request for a worker, which comes before T2.
RoundTrip == (when["T2"] - when["T1"]) + (when["T4"] - when["T3"])

-----------------------------------------------------------------------------
(* Properties.                                                             *)

\* The state has its type.
TypeOK ==
    /\ ClockTypeOK
    /\ step \in Stamps \cup {"label", "done"}
    /\ held = <<>> \/ held \in Int \X {"none", "ntp", "https"}
    /\ T \in [Stamps -> Int]
    /\ label \in Labels
    /\ when \in [Stamps -> 0..MaxTime]
    /\ carry \in [ServerStamps -> Int]
    /\ from \in [ServerStamps -> {"none", "ntp", "https"}]
    /\ shifted \in BOOLEAN

\* What compute_offset_and_delay tells, whatever the server's clock does
\* meanwhile: the delay is the round trip less what the clock has been moved
\* between the stamps T2 and T3, so it may be negative; and the client's
\* corrected clock differs from the mean of the two server clocks by no more
\* than half the round trip, however asymmetric the way was.
MeasurementSound ==
    step = "done" =>
    /\ Delay = RoundTrip - (carry["T3"] - carry["T2"])
    /\ TwiceClientError - (carry["T2"] + carry["T3"]) \in (-RoundTrip)..RoundTrip

\* The stamps T2 and T3 of a clock that has been set, by whatever source, and
\* that may be set again between them or between the two reads of now(): the
\* corrected client clock is within half the delay, and the errors of the
\* measurements of the server's clock, of true time.
B == MaxTry + Granule - 1
EndToEnd ==
    step = "done" /\ from["T2"] # "none" /\ from["T3"] # "none"
    => TwiceClientError \in (-(Delay + 3 * B))..(Delay + B)

\* clock.status() is read after the stamps it describes.  A reply that says
\* "system-time" or "manual-system-time" has no corrected stamp; one that names
\* a source has stamps corrected from that source and from no other, unless
\* the source has changed while the reply was made.  The third label that says
\* system time, "system-time (ntp unavailable)", promises nothing here: it is
\* given with corrected stamps, too, as FallsBackToSystemTime shows.
LabelDescribesStamps ==
    step \in {"T4", "done"} => \A s \in ServerStamps :
        /\ label \in {"system-time", "manual"} => from[s] = "none"
        /\ label \in {"ntp", "https"} /\ ~shifted => from[s] = label
=============================================================================
