--------------------------- MODULE MCTimeExchange ---------------------------
(* Instances of TimeExchange for TLC, with the lists of sources that       *)
(* ntp_sync.py builds, and its two algorithms checked against what they    *)
(* are for over bounded inputs.                                            *)
EXTENDS TimeExchange, ReferenceTime, SequencesExt

\* What a .cfg cannot write: sequences, and a clock that is behind.
PublicServers == <<"pool", "google">>
WebServers == <<"web">>
Behind == -3

\* Manual mode, NTP with HTTPS after it, and HTTPS alone without ntplib.
Lists ==
    {SourceKinds(manual, <<"pool">>, ntplib) : manual, ntplib \in BOOLEAN}

-----------------------------------------------------------------------------
First(s, x) == SelectInSeq(s, LAMBDA y : y = x)

\* Whatever servers --ntp-server names, and however often, a fetch asks each of
\* them and each public one exactly once, the primary one first and a public
\* one never before a configured one that is not itself public.
ASSUME CandidatesCorrect ==
    \A configured \in SeqOf({"pool", "google", "a", "b"}, 3) :
        LET c == CandidateServers(FALSE, configured)
            all == <<Primary>> \o configured \o Fallbacks
        IN  /\ IsInjective(c)
            /\ ToSet(c) = ToSet(configured) \cup ToSet(Fallbacks) \cup {Primary}
            /\ c[1] = Primary
            /\ \A i, j \in 1..Len(c) : i < j => First(all, c[i]) < First(all, c[j])

\* Failures <<key, time>>, in the order of their times.
Failures == {f \in SeqOf({"x", "y"} \X (0..4), 4) :
                \A i, j \in 1..Len(f) : i < j => f[i][2] <= f[j][2]}

States(f) == [n \in 0..Len(f) |->
    FoldLeft(LAMBDA w, e : AfterWarning(w, e[1], e[2]), NoWarning, SubSeq(f, 1, n))]

Logged(f) == {i \in 1..Len(f) : ShouldEmit(States(f)[i - 1], f[i][1], f[i][2])}

\* The first failure is logged, also on a host that has just booted.  A failure
\* is left out only if the same one was logged less than the interval ago and
\* no other came between; one that lasts is logged again after each interval.
ASSUME ThrottleTells ==
    \A f \in Failures :
        LET logged == Logged(f)
        IN  \A i \in 1..Len(f) : i \notin logged <=>
                \E k \in logged :
                    /\ k < i /\ \A j \in k..i : f[j][1] = f[k][1]
                    /\ f[i][2] - f[k][2] < WarnInterval
=============================================================================
