------------------------- MODULE TimeExchangeProofs -------------------------
(***************************************************************************)
(* Theorems about MasterClock and TimeExchange, for any skews of the two   *)
(* clocks, any list of sources and any durations.                          *)
(***************************************************************************)
EXTENDS TimeExchange, TLAPS

-----------------------------------------------------------------------------
(* The server's clock.                                                     *)

\* A source's resolution puts its reading behind, by less than one granule.
LEMMA ReadingBehind ==
  ASSUME NEW t \in Nat, NEW kind \in {"ntp", "https"}
  PROVE  /\ Reading(kind, t) \in Int
         /\ Reading(kind, t) <= t
         /\ Reading(kind, t) >= t - (IF kind = "https" THEN Granule - 1 ELSE 0)
  <1>1. t % Granule \in 0..(Granule - 1)
    BY ClockAssumption DEF ClockAssumption
  <1> QED
    BY <1>1, ClockAssumption DEF Reading, ClockAssumption

\* What the accuracy of the clock rests on: a request in progress has not
\* lasted longer than its timeout.
ClockInv ==
    /\ ClockTypeOK
    /\ ClockAccuracy
    /\ spc = "asking" => now - asked <= MaxTry
    /\ sources = <<>> => origin = "none" /\ spc # "asking"
    /\ spc = "none" => sources = <<>>
    /\ status \in {"system-time", "manual"} => origin = "none"
    /\ status \in {"ntp", "https"} => origin = status

LEMMA ClockInvInit == ClockInit => ClockInv
  <1> SUFFICES ASSUME ClockInit PROVE ClockInv
    OBVIOUS
  <1>1. ClockTypeOK
    <2>1. now \in 0..MaxTime /\ asked \in 0..now /\ sources \in SourceLists
      BY ClockAssumption DEF ClockAssumption, ClockInit
    <2>2. offset \in Int /\ source \in Nat /\ due \in Nat
      BY DEF ClockInit
    <2>3. stopped \in BOOLEAN
      BY DEF ClockInit
    <2>4. status \in Labels /\ origin \in {"none", "ntp", "https"}
      BY DEF ClockInit, Labels
    <2>5. spc \in {"loop", "none", "asking", "waiting", "ended"} /\ spc # "asking"
      BY DEF ClockInit
    <2> QED
      BY <2>1, <2>2, <2>3, <2>4, <2>5 DEF ClockTypeOK
  <1> QED
    BY <1>1 DEF ClockInit, ClockInv, ClockAccuracy

LEMMA ClockInvStep == ClockInv /\ (ClockNext \/ UNCHANGED clockVars) => ClockInv'
  <1> SUFFICES ASSUME ClockInv, ClockNext \/ UNCHANGED clockVars PROVE ClockInv'
    OBVIOUS
  <1> USE ClockAssumption DEF ClockAssumption, ClockInv, ClockTypeOK, Labels,
        syncVars, FetchEnds
  <1>0. /\ sources \in Seq({"ntp", "https"}) /\ Len(sources) \in Nat
        /\ MaxTime \in Nat /\ now \in Nat
    OBVIOUS
  <1>1. CASE Tick
    BY <1>1 DEF Tick, ClockAccuracy
  <1>2. CASE Stop
    BY <1>2 DEF Stop, ClockAccuracy
  <1>3. CASE Loop
    BY <1>0, <1>3 DEF Loop, ClockAccuracy
  <1>4. CASE Answered
    <2>0. sources[source] \in {"ntp", "https"}
      BY <1>0, <1>4 DEF Answered
    <2>1. PICK t \in asked..now :
            offset' = Reading(sources[source], t) - (now + ServerSkew)
      BY <1>4 DEF Answered
    <2>a. t \in Nat /\ t <= now /\ now - t <= MaxTry
      BY <1>0, <1>4, <2>1 DEF Answered
    <2>b. /\ Reading(sources[source], t) \in Int
          /\ Reading(sources[source], t) <= t
          /\ Reading(sources[source], t) >=
               t - (IF sources[source] = "https" THEN Granule - 1 ELSE 0)
      BY <2>0, <2>a, ReadingBehind
    <2>c. /\ Worst(sources[source]) \in Int
          /\ Worst(sources[source]) =
               MaxTry + (IF sources[source] = "https" THEN Granule - 1 ELSE 0)
      BY DEF Worst
    <2>2. offset' \in Int /\ offset' + ServerSkew \in (-Worst(sources[source]))..0
      <3> HIDE DEF ClockInv, ClockTypeOK
      <3> QED
        BY <1>0, <2>1, <2>a, <2>b, <2>c
    <2>3. ClockAccuracy'
      BY <1>4, <2>0, <2>2 DEF Answered, ClockAccuracy, Worst
    <2>4. ClockTypeOK'
      BY <1>0, <1>4, <2>0, <2>2 DEF Answered
    <2> QED
      BY <1>4, <2>0, <2>3, <2>4 DEF Answered
  <1>5. CASE NextSource
    BY <1>0, <1>5 DEF NextSource, ClockAccuracy
  <1>6. CASE NoReference
    BY <1>0, <1>6 DEF NoReference, ClockAccuracy
  <1>7. CASE Wake
    BY <1>7 DEF Wake, ClockAccuracy
  <1>8. CASE UNCHANGED clockVars
    BY <1>8 DEF clockVars, ClockAccuracy
  <1> QED
    BY <1>1, <1>2, <1>3, <1>4, <1>5, <1>6, <1>7, <1>8 DEF ClockNext

-----------------------------------------------------------------------------
(* The exchange.                                                           *)

\* An error of the server's clock, of an offset of some origin.
ErrorOf(e, o) == o # "none" => e \in (-Worst(o))..0

\* Each stamp that has been taken is the reading of its clock at its time, the
\* times are in order, and the errors are those of their origins.
ExchangeInv ==
    /\ TypeOK
    /\ held # <<>> => step \in ServerStamps /\ ErrorOf(held[1] + ServerSkew, held[2])
    /\ step # "T1" =>
         T["T1"] = when["T1"] + ClientSkew /\ when["T1"] <= now
    /\ step \notin {"T1", "T2"} =>
         /\ T["T2"] = when["T2"] + carry["T2"]
         /\ when["T1"] <= when["T2"] /\ when["T2"] <= now
         /\ ErrorOf(carry["T2"], from["T2"])
    /\ step \notin {"T1", "T2", "T3"} =>
         /\ T["T3"] = when["T3"] + carry["T3"]
         /\ when["T2"] <= when["T3"] /\ when["T3"] <= now
         /\ ErrorOf(carry["T3"], from["T3"])
    /\ step = "done" =>
         /\ T["T4"] = when["T4"] + ClientSkew
         /\ when["T3"] <= when["T4"]

LEMMA ExchangeInit == Init => ExchangeInv
  <1> SUFFICES ASSUME Init PROVE ExchangeInv
    OBVIOUS
  <1>1. ClockTypeOK
    BY ClockInvInit DEF Init, ClockInv
  <1>2. /\ step \in Stamps \cup {"label", "done"} /\ label \in Labels
        /\ held = <<>> /\ step = "T1"
    BY DEF Init, Stamps, Labels
  <1>3. /\ T \in [Stamps -> Int]
        /\ when \in [Stamps -> 0..MaxTime]
        /\ carry \in [ServerStamps -> Int]
        /\ from \in [ServerStamps -> {"none", "ntp", "https"}]
    BY ClockAssumption
    DEF Init, Blank, BlankCarry, BlankFrom, ClockAssumption
  <1> QED
    BY <1>1, <1>2, <1>3 DEF Init, ExchangeInv, TypeOK

LEMMA ExchangeStep == ClockInv /\ ExchangeInv /\ [Next]_vars => ExchangeInv'
  <1> SUFFICES ASSUME ClockInv, ExchangeInv, [Next]_vars PROVE ExchangeInv'
    OBVIOUS
  <1> USE DEF Stamps, ServerStamps
  <1>0. /\ now \in Int /\ now >= 0 /\ now <= MaxTime /\ MaxTime \in Nat
        /\ offset \in Int /\ ServerSkew \in Int /\ ClientSkew \in Int
        /\ status \in Labels /\ origin \in {"none", "ntp", "https"} /\ shifted \in BOOLEAN
    BY ClockAssumption, ExchangeAssumption
    DEF ClockInv, ClockTypeOK, ExchangeInv, TypeOK, ClockAssumption, ExchangeAssumption
  <1>e. ErrorOf(offset + ServerSkew, origin)
    BY DEF ClockInv, ClockAccuracy, ErrorOf
  <1>t. /\ T \in [Stamps -> Int] /\ when \in [Stamps -> 0..MaxTime]
        /\ carry \in [ServerStamps -> Int] /\ label \in Labels
        /\ from \in [ServerStamps -> {"none", "ntp", "https"}]
        /\ held = <<>> \/ held \in Int \X {"none", "ntp", "https"}
        /\ step \in Stamps \cup {"label", "done"}
    BY DEF ExchangeInv, TypeOK
  \* A step that leaves the clock alone keeps its type.
  <1>c. ASSUME UNCHANGED clockVars PROVE ClockTypeOK' /\ now' = now
    BY <1>c DEF clockVars, syncVars, ClockInv, ClockTypeOK
  <1>1. CASE ClockRuns
    <2>1. now' = now \/ now' = now + 1
      BY <1>1 DEF ClockRuns, ClockNext, Tick, Stop, Loop, Answered, NextSource, NoReference, Wake
    <2>2. ClockTypeOK' /\ now' \in Int /\ now <= now'
      BY <1>0, <1>1, <2>1, ClockInvStep DEF ClockInv, ClockRuns
    <2>3. TypeOK'
      BY <1>0, <1>1, <1>t, <2>2 DEF ClockRuns, TypeOK, exchangeVars
    <2>4. \A t \in Int : t <= now => t <= now'
      BY <1>0, <2>2
    <2>5. \A s \in Stamps : when[s] \in Int
      BY <1>0, <1>t
    <2> QED
      BY <1>1, <2>3, <2>4, <2>5 DEF ClockRuns, ExchangeInv, exchangeVars
  <1>2. CASE Send
    <2>1. /\ step = "T1" /\ step' = "T2" /\ T' = [T EXCEPT !["T1"] = now + ClientSkew]
          /\ when' = [when EXCEPT !["T1"] = now]
          /\ UNCHANGED <<held, label, carry, from, shifted>> /\ UNCHANGED clockVars
      BY <1>2 DEF Send, Take
    <2>2. ClockTypeOK' /\ now' = now
      BY <1>c, <2>1
    <2>3. TypeOK'
      BY <1>0, <1>t, <2>1, <2>2 DEF TypeOK
    <2>4. T'["T1"] = now + ClientSkew /\ when'["T1"] = now
      BY <1>t, <2>1
    <2> QED
      BY <1>0, <2>1, <2>2, <2>3, <2>4 DEF ExchangeInv
  <1>3. CASE Hold
    <2>1. /\ step \in ServerStamps /\ held' = <<offset, origin>>
          /\ UNCHANGED <<step, T, label, when, carry, from, shifted>> /\ UNCHANGED clockVars
      BY <1>3 DEF Hold
    <2>2. ClockTypeOK' /\ now' = now
      BY <1>c, <2>1
    <2>3. TypeOK' /\ held'[1] = offset /\ held'[2] = origin
      BY <1>0, <1>t, <2>1, <2>2 DEF TypeOK
    <2> QED
      BY <1>e, <2>1, <2>2, <2>3 DEF ExchangeInv
  <1>4. ASSUME NEW s \in ServerStamps, NEW n, Stamp(s, n),
               <<s, n>> \in {<<"T2", "T3">>, <<"T3", "reference_time">>,
                             <<"reference_time", "label">>}
        PROVE  ExchangeInv'
    <2>0. held # <<>>
      BY <1>4 DEF Stamp
    <2>1. PICK e \in Int, o \in {"none", "ntp", "https"} :
            held[1] = e /\ held[2] = o /\ ErrorOf(e + ServerSkew, o)
      BY <1>t, <2>0 DEF ExchangeInv
    <2>2. /\ step = s /\ step' = n /\ held' = <<>> /\ label' = label /\ shifted' = shifted
          /\ T' = [T EXCEPT ![s] = now + ServerSkew + e]
          /\ when' = [when EXCEPT ![s] = now]
          /\ carry' = [carry EXCEPT ![s] = e + ServerSkew]
          /\ from' = [from EXCEPT ![s] = o]
          /\ UNCHANGED clockVars
      BY <1>4, <2>1 DEF Stamp, Take
    <2>3. ClockTypeOK' /\ now' = now
      BY <1>c, <2>2
    <2>4. /\ now + ServerSkew + e \in Int /\ e + ServerSkew \in Int
          /\ now + ServerSkew + e = now + (e + ServerSkew) /\ now \in 0..MaxTime
      BY <1>0
    <2>5. TypeOK'
      <3>1. T' \in [Stamps -> Int] /\ when' \in [Stamps -> 0..MaxTime]
        BY <1>t, <2>2, <2>4
      <3>2. /\ carry' \in [ServerStamps -> Int]
            /\ from' \in [ServerStamps -> {"none", "ntp", "https"}]
        BY <1>t, <2>2, <2>4
      <3> QED
        BY <1>0, <1>4, <1>t, <2>2, <2>3, <3>1, <3>2 DEF TypeOK
    <2>6. /\ T'[s] = when'[s] + carry'[s] /\ when'[s] = now
          /\ carry'[s] = e + ServerSkew /\ from'[s] = o
          /\ \A r \in Stamps \ {s} : T'[r] = T[r] /\ when'[r] = when[r]
          /\ \A r \in ServerStamps \ {s} : carry'[r] = carry[r] /\ from'[r] = from[r]
      BY <1>t, <2>2, <2>4
    <2>7. ErrorOf(carry'[s], from'[s])
      BY <2>1, <2>6
    <2> QED
      BY <1>0, <1>4, <2>2, <2>3, <2>5, <2>6, <2>7 DEF ExchangeInv
  <1>5. CASE Label
    <2>1. /\ step = "label" /\ step' = "T4" /\ label' = status
          /\ UNCHANGED <<held, T, when, carry, from, shifted>> /\ UNCHANGED clockVars
      BY <1>5 DEF Label
    <2>2. ClockTypeOK' /\ now' = now
      BY <1>c, <2>1
    <2>3. TypeOK'
      BY <1>0, <1>t, <2>1, <2>2 DEF TypeOK
    <2> QED
      BY <2>1, <2>2, <2>3 DEF ExchangeInv
  <1>6. CASE Receive
    <2>1. /\ step = "T4" /\ step' = "done" /\ T' = [T EXCEPT !["T4"] = now + ClientSkew]
          /\ when' = [when EXCEPT !["T4"] = now]
          /\ UNCHANGED <<held, label, carry, from, shifted>> /\ UNCHANGED clockVars
      BY <1>6 DEF Receive, Take
    <2>2. ClockTypeOK' /\ now' = now
      BY <1>c, <2>1
    <2>3. TypeOK'
      BY <1>0, <1>t, <2>1, <2>2 DEF TypeOK
    <2>4. /\ T'["T4"] = now + ClientSkew /\ when'["T4"] = now
          /\ \A r \in Stamps \ {"T4"} : T'[r] = T[r] /\ when'[r] = when[r]
      BY <1>t, <2>1
    <2> QED
      BY <1>0, <2>1, <2>2, <2>3, <2>4 DEF ExchangeInv
  <1>7. CASE Again
    <2>1. /\ step' = "T1" /\ T' = Blank /\ label' = "system-time" /\ when' = Blank
          /\ carry' = BlankCarry /\ from' = BlankFrom /\ held' = held /\ shifted' = FALSE
          /\ step = "done" /\ UNCHANGED clockVars
      BY <1>7 DEF Again
    <2>2. ClockTypeOK' /\ now' = now
      BY <1>c, <2>1
    <2>3. TypeOK'
      <3>1. /\ T' \in [Stamps -> Int] /\ when' \in [Stamps -> 0..MaxTime]
            /\ carry' \in [ServerStamps -> Int]
            /\ from' \in [ServerStamps -> {"none", "ntp", "https"}]
        BY <1>0, <2>1 DEF Blank, BlankCarry, BlankFrom
      <3>2. label' \in Labels /\ step' \in Stamps /\ shifted' \in BOOLEAN
        BY <2>1 DEF Labels
      <3> QED
        BY <1>t, <2>1, <2>2, <3>1, <3>2 DEF TypeOK
    <2> QED
      BY <2>1, <2>3 DEF ExchangeInv
  <1>8. CASE UNCHANGED vars
    <2>1. UNCHANGED <<exchangeVars, shifted>> /\ ClockTypeOK' /\ now' = now
      BY <1>8, <1>c DEF vars
    <2>2. TypeOK'
      BY <1>0, <1>t, <2>1 DEF TypeOK, exchangeVars
    <2> QED
      BY <2>1, <2>2 DEF ExchangeInv, exchangeVars
  <1>9. ServerStamp => ExchangeInv'
    BY <1>4 DEF ServerStamp
  <1> QED
    BY <1>1, <1>2, <1>3, <1>5, <1>6, <1>7, <1>8, <1>9 DEF Next, Over

-----------------------------------------------------------------------------
(* Theorems.                                                               *)

LEMMA ClockStep == ClockInv /\ [Next]_vars => ClockInv'
  <1> SUFFICES ASSUME ClockInv, [Next]_vars
               PROVE  ClockNext \/ UNCHANGED clockVars
    BY ClockInvStep
  <1> QED
    BY DEF Next, ClockRuns, Send, Hold, ServerStamp, Stamp, Label, Receive, Again, Over, vars

LEMMA Invariance == Spec => [](ClockInv /\ ExchangeInv)
  <1>1. Init => ClockInv /\ ExchangeInv
    BY ClockInvInit, ExchangeInit DEF Init
  <1> QED
    BY <1>1, ClockStep, ExchangeStep, PTL DEF Spec

\* The state keeps its type, for all values of the constants.
THEOREM TypeCorrect == Spec => []TypeOK
  <1>1. ExchangeInv => TypeOK
    BY DEF ExchangeInv
  <1> QED
    BY <1>1, Invariance, PTL

\* The server's clock stays within one request and one granule of true time,
\* through every failed measurement.
THEOREM Accuracy == Spec => []ClockAccuracy
  <1>1. ClockInv => ClockAccuracy
    BY DEF ClockInv
  <1> QED
    BY <1>1, Invariance, PTL

LEMMA Sound == ExchangeInv => MeasurementSound
  <1> SUFFICES ASSUME ExchangeInv, step = "done"
               PROVE  /\ Delay = RoundTrip - (carry["T3"] - carry["T2"])
                      /\ TwiceClientError - (carry["T2"] + carry["T3"]) \in (-RoundTrip)..RoundTrip
    BY DEF MeasurementSound
  <1>1. \A s \in Stamps : T[s] \in Int /\ when[s] \in Int
    BY ClockAssumption DEF ExchangeInv, TypeOK, ClockAssumption
  <1>2. carry["T2"] \in Int /\ carry["T3"] \in Int /\ ClientSkew \in Int
    BY ExchangeAssumption DEF ExchangeInv, TypeOK, ServerStamps, ExchangeAssumption
  <1>3. /\ T["T1"] = when["T1"] + ClientSkew /\ T["T4"] = when["T4"] + ClientSkew
        /\ T["T2"] = when["T2"] + carry["T2"] /\ T["T3"] = when["T3"] + carry["T3"]
        /\ when["T1"] <= when["T2"] /\ when["T2"] <= when["T3"]
        /\ when["T3"] <= when["T4"]
    BY DEF ExchangeInv
  <1> QED
    BY <1>1, <1>2, <1>3 DEF Stamps, Delay, RoundTrip, TwiceClientError, TwiceOffset

\* The measured delay is the round trip less what the server's clock has moved
\* between its stamps, and the round trip bounds twice the error of the offset
\* against the mean of the two clocks.
THEOREM Soundness == Spec => []MeasurementSound
  BY Sound, Invariance, PTL

LEMMA Within == ExchangeInv => EndToEnd
  <1> SUFFICES ASSUME ExchangeInv, step = "done", from["T2"] # "none", from["T3"] # "none"
               PROVE  TwiceClientError \in (-(Delay + 3 * B))..(Delay + B)
    BY DEF EndToEnd
  <1>1. \A s \in Stamps : T[s] \in Int /\ when[s] \in Int
    BY ClockAssumption DEF ExchangeInv, TypeOK, ClockAssumption
  <1>2. carry["T2"] \in Int /\ carry["T3"] \in Int /\ ClientSkew \in Int /\ B \in Int
    BY ExchangeAssumption, ClockAssumption
    DEF ExchangeInv, TypeOK, ServerStamps, ExchangeAssumption, ClockAssumption, B
  <1>3. /\ T["T1"] = when["T1"] + ClientSkew /\ T["T4"] = when["T4"] + ClientSkew
        /\ T["T2"] = when["T2"] + carry["T2"] /\ T["T3"] = when["T3"] + carry["T3"]
        /\ when["T1"] <= when["T2"] /\ when["T2"] <= when["T3"]
        /\ when["T3"] <= when["T4"]
    BY DEF ExchangeInv
  <1>4. ASSUME NEW e \in Int, NEW o \in {"none", "ntp", "https"}, o # "none",
               ErrorOf(e, o)
        PROVE  -B <= e /\ e <= 0
    BY <1>4, ClockAssumption DEF ErrorOf, Worst, B, ClockAssumption
  <1>5. from["T2"] \in {"none", "ntp", "https"} /\ from["T3"] \in {"none", "ntp", "https"}
    BY DEF ExchangeInv, TypeOK, ServerStamps
  <1>6. -B <= carry["T2"] /\ carry["T2"] <= 0 /\ -B <= carry["T3"] /\ carry["T3"] <= 0
    BY <1>2, <1>4, <1>5 DEF ExchangeInv
  <1> QED
    BY <1>1, <1>2, <1>3, <1>6 DEF Stamps, Delay, TwiceClientError, TwiceOffset

\* Between clocks that have been set, the corrected client clock is within
\* half the delay and the errors of the server's clock of true time.
THEOREM Accurate == Spec => []EndToEnd
  BY Within, Invariance, PTL

\* A corrected stamp was taken from a clock that had been set, and a clock that
\* has been set never reports the system's time again.  While a reply is made
\* and the source stays, its stamps are corrected from the source in force.
StampedFrom(s) ==
    CASE s = "T2" -> step \in {"T3", "reference_time", "label"}
      [] s = "T3" -> step \in {"reference_time", "label"}
      [] OTHER    -> step = "label"

LabelInv ==
    /\ \A s \in ServerStamps : from[s] # "none" => origin # "none"
    /\ held # <<>> /\ held[2] # "none" => origin # "none"
    /\ ~shifted =>
        /\ \A s \in ServerStamps : StampedFrom(s) => from[s] = origin
        /\ held # <<>> => held[2] = origin
    /\ LabelDescribesStamps

LEMMA LabelInit == Init => LabelInv
  BY DEF Init, LabelInv, LabelDescribesStamps, StampedFrom, BlankFrom

LEMMA LabelStep == ClockInv /\ ExchangeInv /\ LabelInv /\ [Next]_vars => LabelInv'
  <1> SUFFICES ASSUME ClockInv, ExchangeInv, LabelInv, [Next]_vars PROVE LabelInv'
    OBVIOUS
  <1> USE DEF LabelInv, LabelDescribesStamps, StampedFrom, ServerStamps
  <1>0. /\ status \in {"system-time", "manual"} => origin = "none"
        /\ status \in {"ntp", "https"} => origin = status
        /\ from \in [ServerStamps -> {"none", "ntp", "https"}]
        /\ spc = "asking" => sources[source] \in {"ntp", "https"}
        /\ held # <<>> => step \in ServerStamps
    <2>1. spc = "asking" => sources[source] \in {"ntp", "https"}
      BY ClockAssumption DEF ClockInv, ClockTypeOK, ClockAssumption
    <2> QED
      BY <2>1 DEF ClockInv, ExchangeInv, TypeOK
  <1>1. CASE ClockRuns
    <2>1. origin # "none" => origin' # "none"
      BY <1>0, <1>1
      DEF ClockRuns, ClockNext, Tick, Stop, Loop, Answered, NextSource, NoReference, Wake, syncVars
    <2>2. UNCHANGED <<step, held, label, from>> /\ (~shifted' => ~shifted)
      BY <1>1 DEF ClockRuns, exchangeVars
    <2>3. ~shifted' /\ Replying => origin' = origin
      BY <1>1 DEF ClockRuns
    <2> QED
      BY <2>1, <2>2, <2>3 DEF Replying
  <1>2. CASE UNCHANGED clockVars
    <2>0. origin' = origin
      BY <1>2 DEF clockVars, syncVars
    <2>1. CASE Send \/ Receive
      BY <1>0, <2>0, <2>1 DEF Send, Receive, Take
    <2>2. CASE Hold
      BY <2>0, <2>2 DEF Hold
    <2>3. ASSUME NEW s \in ServerStamps, NEW n \in {"T3", "reference_time", "label"},
                 Stamp(s, n),
                 <<s, n>> \in {<<"T2", "T3">>, <<"T3", "reference_time">>,
                               <<"reference_time", "label">>}
          PROVE  LabelInv'
      <3>1. /\ held # <<>> /\ held' = <<>> /\ step = s /\ step' = n /\ shifted' = shifted
            /\ from' = [from EXCEPT ![s] = held[2]]
        BY <2>3 DEF Stamp, Take
      <3> QED
        BY <1>0, <2>0, <2>3, <3>1
    <2>4. CASE Label
      BY <1>0, <2>0, <2>4 DEF Label
    <2>5. CASE Again
      BY <1>0, <2>0, <2>5 DEF Again, BlankFrom
    <2>6. CASE UNCHANGED vars
      BY <2>0, <2>6 DEF vars, exchangeVars
    <2>7. ServerStamp => LabelInv'
      BY <2>3 DEF ServerStamp
    <2> QED
      BY <1>1, <2>1, <2>2, <2>4, <2>5, <2>6, <2>7 DEF Next, Over
  <1> QED
    BY <1>1, <1>2
    DEF Next, Send, Hold, ServerStamp, Stamp, Label, Receive, Again, Over, vars

\* The label of a reply is that of its stamps: "system-time" and "manual" mean
\* none is corrected, a source that all are corrected from it, unless the
\* source has changed during the reply.  The label of a failed measurement
\* tells nothing.
THEOREM LabelDescribes == Spec => []LabelDescribesStamps
  <1>1. LabelInv => LabelDescribesStamps
    BY DEF LabelInv
  <1> QED
    BY <1>1, LabelInit, LabelStep, Invariance, PTL DEF Spec
=============================================================================
