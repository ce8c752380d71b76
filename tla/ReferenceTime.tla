---------------------------- MODULE ReferenceTime ----------------------------
(***************************************************************************)
(* The pure part of server/ntp_sync.py: which sources a fetch asks and in  *)
(* which order, and which of its failures are logged.  The walk through    *)
(* the sources, and what they answer, is MasterClock's.                    *)
(***************************************************************************)
LOCAL INSTANCE Integers
LOCAL INSTANCE Sequences
LOCAL INSTANCE SequencesExt

CONSTANTS
    Primary,        \* PRIMARY_NTP_SERVER
    Fallbacks,      \* DEFAULT_NTP_FALLBACKS
    HttpsSources,   \* DEFAULT_HTTPS_TIME_SOURCES
    WarnInterval    \* NTP_WARNING_INTERVAL_SECONDS

ASSUME ReferenceAssumption ==
    /\ Fallbacks \in Seq(ToSet(Fallbacks))
    /\ HttpsSources \in Seq(ToSet(HttpsSources))
    /\ WarnInterval \in Nat

\* A sequence without the later occurrences of its elements.
Distinct(s) ==
    LET Add(list, x) == IF x \in ToSet(list) THEN list ELSE Append(list, x)
    IN  FoldLeft(Add, <<>>, s)

\* _candidate_servers(): "configured" are the parts of --ntp-server; manual
\* mode is an empty string or one of "none", "off", "local" and "system".
CandidateServers(manual, configured) ==
    IF manual THEN <<>> ELSE Distinct(<<Primary>> \o configured \o Fallbacks)

\* fetch_reference_time(): the kinds of the sources it walks through, the
\* candidates if ntplib is there and then the HTTPS sources; without a
\* candidate it asks nobody.
SourceKinds(manual, configured, ntplib) ==
    LET candidates == CandidateServers(manual, configured)
        asked == IF ntplib THEN candidates ELSE <<>>
    IN  IF candidates = <<>> THEN <<>>
        ELSE [i \in 1..Len(asked) |-> "ntp"] \o [i \in 1..Len(HttpsSources) |-> "https"]

-----------------------------------------------------------------------------
\* _warning_state before the first warning: the key of no failure.
NoWarning == [key |-> "", at |-> 0]

\* _should_emit_warning() at a time t, and what it leaves.
ShouldEmit(state, key, t) == key # state.key \/ t - state.at >= WarnInterval

AfterWarning(state, key, t) ==
    IF ShouldEmit(state, key, t) THEN [key |-> key, at |-> t] ELSE state
=============================================================================
