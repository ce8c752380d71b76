------------------------- MODULE ClientSessionProofs -------------------------
(***************************************************************************)
(* Facts about ClientSession, for any number of clients and rounds: what   *)
(* its sort does to a sequence of rows, and what each step of the program  *)
(* preserves, to the refinement of ResultsFile; MonitorJobsProofs composes *)
(* them.                                                                   *)
(***************************************************************************)
EXTENDS ClientSession, FunctionTheorems, FiniteSetTheorems, SequenceTheorems, TLAPS

Sample == Nat \X Client \X (1..Rounds)

-----------------------------------------------------------------------------
(* The sort.                                                               *)

Ascending(s) == \A i, j \in 1..Len(s) : i < j => Before(s[i], s[j])

\* Row i is not sorted after row j.
NotAfter(s, i, j) == Before(s[i], s[j]) \/ (i <= j /\ ~Before(s[j], s[i]))

LEMMA SampleType ==
  ASSUME NEW s \in Seq(Sample), NEW i \in 1..Len(s)
  PROVE  /\ s[i][1] \in Nat /\ s[i][2] \in Nat /\ s[i][3] \in Nat
         /\ s[i][2] \in Client /\ s[i][3] \in 1..Rounds
         /\ s[i] = <<s[i][1], s[i][2], s[i][3]>>
  <1>1. s[i] \in Nat \X Client \X (1..Rounds)
    BY DEF Sample
  <1>2. s[i][1] \in Nat /\ s[i][2] \in Client /\ s[i][3] \in 1..Rounds /\ s[i] = <<s[i][1], s[i][2], s[i][3]>>
    BY <1>1
  <1> QED
    BY <1>2, ClientAssumption DEF Client, ClientAssumption

\* The order of the keys is a strict one.
LEMMA KeyOrder ==
  ASSUME NEW a, NEW b, NEW c, a[2] \in Nat, a[3] \in Nat, b[2] \in Nat, b[3] \in Nat,
         c[2] \in Nat, c[3] \in Nat
  PROVE  /\ Before(a, b) => ~Before(b, a)
         /\ Before(a, b) => Before(a, c) \/ Before(c, b)
  <1>1. Before(a, b) => ~Before(b, a)
    BY DEF Before
  <1>2. Before(a, b) => Before(a, c) \/ Before(c, b)
    BY DEF Before
  <1> QED
    BY <1>1, <1>2

\* The positions of the rows are in a total order.
LEMMA Order ==
  ASSUME NEW s \in Seq(Sample), NEW i \in 1..Len(s), NEW j \in 1..Len(s), NEW k \in 1..Len(s)
  PROVE  /\ NotAfter(s, i, i)
         /\ NotAfter(s, i, j) \/ NotAfter(s, j, i)
         /\ NotAfter(s, i, j) /\ NotAfter(s, j, i) => i = j
         /\ NotAfter(s, i, j) /\ NotAfter(s, j, k) => NotAfter(s, i, k)
  <1>1. /\ s[i][2] \in Nat /\ s[i][3] \in Nat /\ s[j][2] \in Nat /\ s[j][3] \in Nat
        /\ s[k][2] \in Nat /\ s[k][3] \in Nat
    BY SampleType
  <1>2. i \in Int /\ j \in Int /\ k \in Int
    OBVIOUS
  <1>3. ASSUME NEW a \in {s[i], s[j], s[k]}, NEW b \in {s[i], s[j], s[k]}, NEW c \in {s[i], s[j], s[k]}
        PROVE  /\ Before(a, b) => ~Before(b, a)
               /\ Before(a, b) => Before(a, c) \/ Before(c, b)
    <2> DEFINE Key(d) == d[2] \in Nat /\ d[3] \in Nat
    <2>1. Key(s[i]) /\ Key(s[j]) /\ Key(s[k])
      BY <1>1
    <2> HIDE DEF Key
    <2>2. Key(a) /\ Key(b) /\ Key(c)
      BY <2>1
    <2> QED
      BY <2>2, KeyOrder DEF Key
  <1>4. NotAfter(s, i, i) /\ (NotAfter(s, i, j) \/ NotAfter(s, j, i))
    BY <1>2, <1>3 DEF NotAfter
  <1>5. NotAfter(s, i, j) /\ NotAfter(s, j, i) => i = j
    BY <1>2, <1>3 DEF NotAfter
  <1>6. ASSUME NotAfter(s, i, j), NotAfter(s, j, k) PROVE NotAfter(s, i, k)
    <2>1. CASE Before(s[i], s[k])
      BY <2>1 DEF NotAfter
    <2>2. CASE ~Before(s[i], s[k])
      <3>1. i <= k
        BY <1>2, <1>3, <1>6, <2>2 DEF NotAfter
      <3>2. ~Before(s[k], s[i])
        BY <1>3, <1>6 DEF NotAfter
      <3> QED
        BY <3>1, <3>2 DEF NotAfter
    <2> QED
      BY <2>1, <2>2
  <1> QED
    BY <1>4, <1>5, <1>6

\* Places are numbered like the rows, and no two rows share one.
LEMMA Places ==
  ASSUME NEW s \in Seq(Sample), NEW i \in 1..Len(s)
  PROVE  /\ Place(s, i) \in 1..Len(s)
         /\ \A j \in 1..Len(s) : i # j /\ NotAfter(s, i, j) => Place(s, i) < Place(s, j)
  <1> DEFINE Upto(j) == {k \in 1..Len(s) : NotAfter(s, k, j)}
  <1>1. Len(s) \in Nat /\ IsFiniteSet(1..Len(s)) /\ Cardinality(1..Len(s)) = Len(s)
    BY FS_Interval
  <1>2. ASSUME NEW j \in 1..Len(s)
        PROVE  /\ Place(s, j) = Cardinality(Upto(j)) /\ j \in Upto(j)
               /\ IsFiniteSet(Upto(j)) /\ Cardinality(Upto(j)) \in Nat
    <2>1. Upto(j) \subseteq 1..Len(s) /\ j \in Upto(j)
      BY Order
    <2>2. IsFiniteSet(Upto(j)) /\ Cardinality(Upto(j)) \in Nat
      BY <1>1, <2>1, FS_Subset, FS_CardinalityType
    <2>3. Place(s, j) = Cardinality(Upto(j))
      BY DEF Place, NotAfter
    <2> QED
      BY <2>1, <2>2, <2>3
  <1>3. Place(s, i) \in 1..Len(s)
    <2>1. Cardinality(Upto(i)) <= Len(s)
      BY <1>1, <1>2, FS_Subset
    <2>2. Cardinality(Upto(i)) # 0
      BY <1>2, FS_EmptySet
    <2> QED
      BY <1>1, <1>2, <2>1, <2>2
  <1>4. ASSUME NEW j \in 1..Len(s), i # j, NotAfter(s, i, j) PROVE Place(s, i) < Place(s, j)
    <2>1. Upto(i) \subseteq Upto(j)
      BY <1>4, Order
    <2>2. j \notin Upto(i)
      BY <1>4, Order
    <2>3. /\ Cardinality(Upto(i)) <= Cardinality(Upto(j))
          /\ Cardinality(Upto(i)) # Cardinality(Upto(j))
      BY <1>2, <2>1, <2>2, FS_Subset
    <2> QED
      BY <1>2, <2>3
  <1> QED
    BY <1>3, <1>4

\* Sorting permutes the rows, and puts them in order when no two have a key
\* in common.
LEMMA Sorting ==
  ASSUME NEW s \in Seq(Sample)
  PROVE  /\ SortRows(s) \in Seq(Sample) /\ Len(SortRows(s)) = Len(s)
         /\ \A k \in 1..Len(s) : \E i \in 1..Len(s) : SortRows(s)[k] = s[i]
         /\ \A i \in 1..Len(s) : \E k \in 1..Len(s) : SortRows(s)[k] = s[i]
         /\ (\A i, j \in 1..Len(s) : i # j => Before(s[i], s[j]) \/ Before(s[j], s[i]))
              => Ascending(SortRows(s))
  <1> DEFINE n == Len(s)
             place == [i \in 1..n |-> Place(s, i)]
             from(k) == CHOOSE i \in 1..n : Place(s, i) = k
  <1>1. n \in Nat /\ IsFiniteSet(1..n)
    BY FS_Interval
  <1>2. place \in Injection(1..n, 1..n)
    <2>1. ASSUME NEW i \in 1..n, NEW j \in 1..n, i # j PROVE Place(s, i) # Place(s, j)
      <3>1. Place(s, i) \in 1..n /\ Place(s, j) \in 1..n
        BY Places
      <3>2. Place(s, i) < Place(s, j) \/ Place(s, j) < Place(s, i)
        BY <2>1, Order, Places
      <3> QED
        BY <3>1, <3>2
    <2>2. place \in [1..n -> 1..n]
      BY Places
    <2> QED
      BY <2>1, <2>2, Fun_IsInj
  <1>3. place \in Surjection(1..n, 1..n)
    BY <1>1, <1>2, FS_Injection
  <1>4. ASSUME NEW k \in 1..n PROVE from(k) \in 1..n /\ Place(s, from(k)) = k
    <2>1. \E i \in 1..n : place[i] = k
      BY <1>3 DEF Surjection
    <2>2. \E i \in 1..n : Place(s, i) = k
      BY <2>1
    <2> QED
      BY <2>2
  <1>5. SortRows(s) = [k \in 1..n |-> s[from(k)]]
    BY DEF SortRows
  <1> HIDE DEF n, from, place
  <1>6. SortRows(s) \in Seq(Sample) /\ Len(SortRows(s)) = n
    BY <1>1, <1>4, <1>5 DEF n
  <1>7. \A k \in 1..n : SortRows(s)[k] = s[from(k)]
    BY <1>5
  <1>8. ASSUME NEW i \in 1..n PROVE \E k \in 1..n : SortRows(s)[k] = s[i]
    <2>1. Place(s, i) \in 1..n
      BY Places DEF n
    <2>2. from(Place(s, i)) = i
      <3>1. from(Place(s, i)) \in 1..n /\ Place(s, from(Place(s, i))) = Place(s, i)
        BY <1>4, <2>1
      <3> QED
        BY <1>8, <2>1, <3>1, Order, Places DEF n
    <2> QED
      BY <1>7, <2>1, <2>2
  <1>9. ASSUME \A i, j \in 1..n : i # j => Before(s[i], s[j]) \/ Before(s[j], s[i]),
               NEW k \in 1..n, NEW l \in 1..n, k < l
        PROVE  Before(SortRows(s)[k], SortRows(s)[l])
    <2>1. /\ from(k) \in 1..n /\ Place(s, from(k)) = k
          /\ from(l) \in 1..n /\ Place(s, from(l)) = l
      BY <1>4
    <2>2. from(k) # from(l)
      BY <1>1, <1>9, <2>1
    <2>3. ~NotAfter(s, from(l), from(k))
      BY <1>1, <1>9, <2>1, <2>2, Places DEF n
    <2>4. Before(s[from(k)], s[from(l)])
      BY <1>9, <2>1, <2>2, <2>3 DEF NotAfter
    <2> QED
      BY <1>7, <2>4
  <1> QED
    BY <1>4, <1>6, <1>7, <1>8, <1>9 DEF Ascending, n

-----------------------------------------------------------------------------
(* The program.  Its steps, with those of whoever reads its output.        *)

StdoutRead ==
    /\ stdout > 0 /\ stdout' = stdout - 1
    /\ UNCHANGED <<progVars, sessionVars, file>>

MainStep ==
    \/ Launch \/ MainRaises \/ Die \/ Join \/ SingleFails \/ SingleReturns
    \/ SaveOpens \/ SaveWrites \/ SaveFails

SessionStep ==
    \E c \in Client : RoundOk(c) \/ SessionReturns(c) \/ \E network \in BOOLEAN : RoundFails(c, network)

ClientNext == (\E n \in Client : Begin(n)) \/ MainStep \/ SessionStep \/ StdoutRead

\* Which sessions have begun, and that none runs while main() saves.
Threads ==
    /\ launched <= clients
    /\ \A c \in Client : session[c] = "none" <=> c > launched
    /\ pc = "launch" => launched < clients
    /\ pc = "single" => launched = 1
    /\ pc = "off" => launched = 0
    /\ pc \in {"off", "save", "write", "exited"} => \A c \in Client : session[c] # "running"

\* The rows in s are those of the clients D in run n, each once.
Holds(s, n, D) ==
    /\ \A c \in Client, r \in 1..Rounds : c \in D <=> \E i \in 1..Len(s) : s[i] = <<n, c, r>>
    /\ \A i \in 1..Len(s) : s[i][1] = n
    /\ \A i, j \in 1..Len(s) : s[i] = s[j] => i = j
    /\ Len(s) = Cardinality(D) * Rounds

\* Where the rows of the sessions that succeeded are, and when in order.
Collected ==
    /\ pc \notin {"off", "exited"} => Holds(all, run, Done)
    /\ pc \in {"single", "save", "write"} => Ascending(all)
    /\ pc = "exited" /\ code = 0 => Holds(file, run, Done) /\ Ascending(file)

\* The clients whose error is still to be printed have failed.
Reported ==
    /\ \A c \in errors : session[c] = "failed"
    /\ pc \in {"off", "save", "write", "exited"} => errors = {}

LEMMA ClientBegins == ClientInit => ClientTypeOK /\ Threads /\ Collected /\ Reported
  <1> SUFFICES ASSUME ClientInit PROVE ClientTypeOK /\ Threads /\ Collected /\ Reported
    OBVIOUS
  <1> USE ClientAssumption DEF ClientAssumption, ClientInit, Client
  <1>1. ClientTypeOK
    <2>1. all \in Seq(Nat \X Client \X (1..Rounds)) /\ file \in Seq(Nat \X Client \X (1..Rounds))
      OBVIOUS
    <2>2. got \in [Client -> 0..Rounds] /\ session \in [Client -> {"none", "running", "done", "failed"}]
      OBVIOUS
    <2> QED
      BY <2>1, <2>2 DEF ClientTypeOK
  <1>2. Threads /\ Reported
    BY DEF Threads, Reported
  <1>3. Collected
    BY DEF Collected
  <1> QED
    BY <1>1, <1>2, <1>3

LEMMA ClientTypeStep == ClientTypeOK /\ Threads /\ [ClientNext]_cvars => ClientTypeOK'
  <1> SUFFICES ASSUME ClientTypeOK, Threads, [ClientNext]_cvars PROVE ClientTypeOK'
    OBVIOUS
  <1>n. MaxClients \in Nat \ {0} /\ Rounds \in Nat \ {0}
    BY ClientAssumption DEF ClientAssumption
  <1>t. /\ errors \subseteq Client /\ IsFiniteSet(errors) /\ Cardinality(errors) \in Nat
        /\ stdout \in Nat /\ stdout + Cardinality(errors) \in Nat
    <2>1. IsFiniteSet(Client)
      BY <1>n, FS_Interval DEF Client
    <2>2. errors \subseteq Client /\ stdout \in Nat
      BY DEF ClientTypeOK
    <2>3. IsFiniteSet(errors) /\ Cardinality(errors) \in Nat
      BY <2>1, <2>2, FS_Subset, FS_CardinalityType
    <2> QED
      BY <2>2, <2>3
  <1>g. [d \in Client |-> 0] \in [Client -> 0..Rounds] /\ <<>> \in Seq(Sample)
    BY <1>n
  <1>1. ASSUME NEW n \in Client, Begin(n) PROVE ClientTypeOK'
    <2>1. session' \in [Client -> {"none", "running", "done", "failed"}]
      BY <1>1 DEF Begin
    <2>2. launched' \in 0..MaxClients /\ run' \in Nat
      BY <1>1, <1>n DEF Begin, ClientTypeOK
    <2> QED
      BY <1>1, <1>g, <2>1, <2>2 DEF Begin, ClientTypeOK, Sample
  <1>2. ASSUME NEW x \in {0, 1}, Exit(x), stdout' \in Nat, file' \in Seq(Sample) PROVE ClientTypeOK'
    BY <1>2, <1>g DEF Exit, ClientTypeOK, Sample
  <1>3. CASE MainStep
    <2> USE DEF ClientTypeOK, sessionVars
    <2>1. CASE Launch
      <3>1. launched' = launched + 1 /\ launched' \in 1..MaxClients
        BY <1>n, <2>1 DEF Launch, Threads, Client
      <3>2. session' \in [Client -> {"none", "running", "done", "failed"}]
        BY <2>1 DEF Launch
      <3> QED
        BY <1>n, <2>1, <3>1, <3>2 DEF Launch
    <2>2. CASE MainRaises
      BY <2>2 DEF MainRaises
    <2>3. CASE Die
      BY <1>2, <2>3 DEF Die, Sample
    <2>4. CASE Join
      <3>1. all' \in Seq(Sample)
        BY <2>4, Sorting DEF Join, Sample
      <3> QED
        BY <1>t, <2>4, <3>1 DEF Join, Sample
    <2>5. CASE SingleFails
      BY <1>2, <1>t, <2>5 DEF SingleFails, Sample
    <2>6. CASE SingleReturns
      BY <2>6 DEF SingleReturns
    <2>7. CASE SaveOpens
      BY <2>7 DEF SaveOpens
    <2>8. CASE SaveWrites
      BY <1>2, <2>8 DEF SaveWrites, Sample
    <2>9. CASE SaveFails
      <3>1. file' \in Seq(Sample)
        <4>1. ASSUME NEW n \in 0..Len(all) PROVE SubSeq(all, 1, n) \in Seq(Sample)
          <5>1. all \in Seq(Sample)
            BY DEF Sample
          <5> QED
            BY <5>1, SubSeqProperties
        <4> QED
          BY <2>9, <4>1 DEF SaveFails, Sample
      <3> QED
        BY <1>2, <2>9, <3>1 DEF SaveFails
    <2> QED
      BY <1>3, <2>1, <2>2, <2>3, <2>4, <2>5, <2>6, <2>7, <2>8, <2>9 DEF MainStep
  <1>4. CASE SessionStep
    <2> USE DEF ClientTypeOK, progVars
    <2>1. ASSUME NEW c \in Client, RoundOk(c) PROVE ClientTypeOK'
      BY <1>n, <2>1 DEF RoundOk
    <2>2. ASSUME NEW c \in Client, SessionReturns(c) PROVE ClientTypeOK'
      <3>1. RowsOf(c, got[c]) \in Seq(Sample)
        BY <1>n, <2>2 DEF SessionReturns, RowsOf, Sample
      <3>2. all' \in Seq(Sample)
        BY <2>2, <3>1 DEF SessionReturns, Sample
      <3> QED
        BY <2>2, <3>2 DEF SessionReturns, Sample
    <2>3. ASSUME NEW c \in Client, NEW network \in BOOLEAN, RoundFails(c, network) PROVE ClientTypeOK'
      BY <2>3 DEF RoundFails
    <2> QED
      BY <1>4, <2>1, <2>2, <2>3 DEF SessionStep
  <1>5. CASE StdoutRead
    BY <1>5 DEF StdoutRead, ClientTypeOK, progVars, sessionVars
  <1>6. CASE UNCHANGED cvars
    BY <1>6 DEF ClientTypeOK, cvars, progVars, sessionVars
  <1> QED
    BY <1>1, <1>3, <1>4, <1>5, <1>6 DEF ClientNext

LEMMA ThreadsStep == ClientTypeOK /\ Threads /\ [ClientNext]_cvars => Threads'
  <1> SUFFICES ASSUME ClientTypeOK, Threads, [ClientNext]_cvars PROVE Threads'
    OBVIOUS
  <1>n. MaxClients \in Nat \ {0} /\ Rounds \in Nat \ {0}
    BY ClientAssumption DEF ClientAssumption
  <1>t. launched \in Nat /\ clients \in 1..MaxClients /\ session \in [Client -> {"none", "running", "done", "failed"}]
    BY <1>n DEF ClientTypeOK, Client
  <1>1. ASSUME NEW n \in Client, Begin(n) PROVE Threads'
    BY <1>1, <1>n DEF Begin, Threads, Client
  <1>2. ASSUME NEW x \in {0, 1}, Exit(x), \A c \in Client : session[c] # "running" PROVE Threads'
    BY <1>2 DEF Exit, Threads
  <1>3. ASSUME \A c \in 1..launched : Finished(c) PROVE \A c \in Client : session[c] # "running"
    BY <1>3, <1>t DEF Threads, Finished, Client
  <1>4. CASE MainStep
    <2>1. CASE Launch
      <3>1. launched' = launched + 1 /\ UNCHANGED clients /\ launched < clients
            /\ pc' = (IF launched' = clients THEN "join" ELSE "launch")
        BY <2>1 DEF Launch, Threads
      <3>2. ASSUME NEW c \in Client PROVE session'[c] = "none" <=> c > launched'
        <4>1. session'[c] = IF c = launched' THEN "running" ELSE session[c]
          BY <1>t, <2>1 DEF Launch
        <4> QED
          BY <1>t, <3>1, <4>1 DEF Threads, Client
      <3> QED
        BY <1>t, <3>1, <3>2 DEF Threads
    <2>2. CASE MainRaises
      BY <2>2 DEF MainRaises, Threads, sessionVars
    <2>3. CASE Die
      BY <1>2, <1>3, <2>3 DEF Die
    <2>4. CASE Join
      BY <1>3, <2>4 DEF Join, Threads
    <2>5. CASE SingleFails
      BY <1>2, <1>3, <2>5 DEF SingleFails, Threads, Finished
    <2>6. CASE SingleReturns
      BY <1>3, <2>6 DEF SingleReturns, Threads, Finished, sessionVars
    <2>7. CASE SaveOpens
      BY <2>7 DEF SaveOpens, Threads, sessionVars
    <2>8. CASE SaveWrites
      BY <1>2, <2>8 DEF SaveWrites, Threads
    <2>9. CASE SaveFails
      BY <1>2, <2>9 DEF SaveFails, Threads
    <2> QED
      BY <1>4, <2>1, <2>2, <2>3, <2>4, <2>5, <2>6, <2>7, <2>8, <2>9 DEF MainStep
  <1>5. CASE SessionStep
    <2>1. ASSUME NEW c \in Client, RoundOk(c) PROVE Threads'
      BY <2>1 DEF RoundOk, Threads, progVars
    <2>2. ASSUME NEW c \in Client, session[c] = "running", UNCHANGED progVars,
                 NEW x \in {"done", "failed"}, session' = [session EXCEPT ![c] = x]
          PROVE  Threads'
      BY <1>t, <2>2 DEF Threads, progVars
    <2> QED
      BY <1>5, <2>1, <2>2 DEF SessionStep, SessionReturns, RoundFails
  <1>6. CASE StdoutRead \/ UNCHANGED cvars
    BY <1>6 DEF StdoutRead, Threads, cvars, progVars, sessionVars
  <1> QED
    BY <1>1, <1>4, <1>5, <1>6 DEF ClientNext

LEMMA ReportedStep == ClientTypeOK /\ Threads /\ Reported /\ [ClientNext]_cvars => Reported'
  <1> SUFFICES ASSUME ClientTypeOK, Threads, Reported, [ClientNext]_cvars PROVE Reported'
    OBVIOUS
  <1>t. session \in [Client -> {"none", "running", "done", "failed"}] /\ errors \subseteq Client
    BY DEF ClientTypeOK
  <1>1. ASSUME errors' = {} PROVE Reported'
    BY <1>1 DEF Reported
  <1>2. CASE \E n \in Client : Begin(n)
    BY <1>1, <1>2 DEF Begin
  <1>3. CASE Join \/ Die \/ SingleFails \/ SaveWrites \/ SaveFails
    BY <1>1, <1>3 DEF Join, Die, SingleFails, SaveWrites, SaveFails, Exit
  <1>4. CASE Launch
    <2>1. ASSUME NEW c \in errors PROVE session'[c] = "failed"
      <3>1. session[c] = "failed" /\ c # launched'
        BY <1>t, <1>4, <2>1 DEF Reported, Launch, Threads, ClientTypeOK
      <3> QED
        BY <1>t, <1>4, <3>1 DEF Launch
    <2> QED
      BY <1>4, <2>1 DEF Launch, Reported
  <1>5. CASE MainRaises \/ SaveOpens
    BY <1>5 DEF MainRaises, SaveOpens, Reported, sessionVars
  <1>6. CASE SingleReturns
    <2>1. errors = {}
      BY <1>6, <1>t DEF SingleReturns, Reported, Threads, Client, ClientTypeOK
    <2> QED
      BY <1>1, <1>6, <2>1 DEF SingleReturns, sessionVars
  <1>7. ASSUME NEW c \in Client, RoundOk(c) PROVE Reported'
    BY <1>7 DEF RoundOk, Reported, progVars
  <1>8. ASSUME NEW c \in Client, session[c] = "running", UNCHANGED progVars,
               \/ session' = [session EXCEPT ![c] = "failed"] /\ errors' \in {errors, errors \cup {c}}
               \/ session' = [session EXCEPT ![c] = "done"] /\ errors' = errors
        PROVE  Reported'
    BY <1>t, <1>8 DEF Reported, Threads, progVars
  <1>9. CASE SessionStep
    BY <1>7, <1>8, <1>9 DEF SessionStep, SessionReturns, RoundFails
  <1>10. CASE StdoutRead \/ UNCHANGED cvars
    BY <1>10 DEF StdoutRead, Reported, cvars, progVars, sessionVars
  <1> QED
    BY <1>2, <1>3, <1>4, <1>5, <1>6, <1>9, <1>10 DEF ClientNext, MainStep

\* The rows of one more session.
LEMMA HoldsMore ==
  ASSUME NEW s \in Seq(Sample), NEW n \in Nat, NEW D \in SUBSET Client, Holds(s, n, D),
         NEW c \in Client, c \notin D
  PROVE  Holds(s \o [r \in 1..Rounds |-> <<n, c, r>>], n, D \cup {c})
  <1> DEFINE t == [r \in 1..Rounds |-> <<n, c, r>>]
             u == s \o t
  <1>n. Rounds \in Nat \ {0} /\ MaxClients \in Nat \ {0}
    BY ClientAssumption DEF ClientAssumption
  <1>1. t \in Seq(Sample) /\ Len(t) = Rounds /\ \A r \in 1..Rounds : t[r] = <<n, c, r>>
    BY <1>n DEF Sample
  <1> HIDE DEF t
  <1>2. /\ u \in Seq(Sample) /\ Len(u) = Len(s) + Rounds /\ Len(s) \in Nat
        /\ \A i \in 1..Len(s) : u[i] = s[i]
        /\ \A r \in 1..Rounds : u[Len(s) + r] = <<n, c, r>>
    <2>1. /\ u \in Seq(Sample) /\ Len(u) = Len(s) + Len(t)
          /\ \A i \in 1..Len(s) + Len(t) : u[i] = IF i <= Len(s) THEN s[i] ELSE t[i - Len(s)]
      BY <1>1, ConcatProperties
    <2>2. Len(s) \in Nat /\ Len(t) = Rounds
      BY <1>1
    <2>3. ASSUME NEW r \in 1..Rounds PROVE u[Len(s) + r] = <<n, c, r>>
      <3>1. /\ Len(s) + r \in 1..Len(s) + Len(t) /\ ~(Len(s) + r <= Len(s))
            /\ (Len(s) + r) - Len(s) = r
        BY <1>n, <2>2
      <3> QED
        BY <1>1, <2>1, <3>1
    <2>4. \A i \in 1..Len(s) : u[i] = s[i]
      BY <1>n, <2>1, <2>2
    <2> QED
      BY <2>1, <2>2, <2>3, <2>4
  <1> HIDE DEF u
  <1>3. ASSUME NEW i \in 1..Len(u)
        PROVE  \/ i \in 1..Len(s) /\ u[i] = s[i] /\ u[i][2] \in D /\ u[i][1] = n
               \/ /\ i - Len(s) \in 1..Rounds
                  /\ u[i] = <<n, c, i - Len(s)>>
    <2>1. CASE i \in 1..Len(s)
      <3>1. /\ s[i][2] \in Client /\ s[i][3] \in 1..Rounds /\ s[i][1] = n
            /\ s[i] = <<s[i][1], s[i][2], s[i][3]>>
        BY <2>1, SampleType DEF Holds
      <3>2. s[i][2] \in D
        BY <2>1, <3>1 DEF Holds
      <3> QED
        BY <1>2, <2>1, <3>1, <3>2
    <2>2. CASE i \notin 1..Len(s)
      <3>1. i - Len(s) \in 1..Rounds /\ Len(s) + (i - Len(s)) = i
        BY <1>2, <1>n, <2>2
      <3> QED
        BY <1>2, <3>1
    <2> QED
      BY <2>1, <2>2
  <1>4. ASSUME NEW d \in Client, NEW r \in 1..Rounds
        PROVE  d \in D \cup {c} <=> \E i \in 1..Len(u) : u[i] = <<n, d, r>>
    <2>1. ASSUME d \in D PROVE \E i \in 1..Len(u) : u[i] = <<n, d, r>>
      <3>1. PICK i \in 1..Len(s) : s[i] = <<n, d, r>>
        BY <2>1 DEF Holds
      <3>2. i \in 1..Len(u) /\ u[i] = <<n, d, r>>
        BY <1>2, <1>n, <3>1
      <3> QED
        BY <3>2
    <2>2. ASSUME d = c PROVE \E i \in 1..Len(u) : u[i] = <<n, d, r>>
      <3>1. Len(s) + r \in 1..Len(u) /\ u[Len(s) + r] = <<n, d, r>>
        BY <1>2, <1>n, <2>2
      <3> QED
        BY <3>1
    <2>3. ASSUME NEW i \in 1..Len(u), u[i] = <<n, d, r>> PROVE d \in D \cup {c}
      BY <1>3, <2>3
    <2> QED
      BY <2>1, <2>2, <2>3
  <1>5. \A i \in 1..Len(u) : u[i][1] = n
    BY <1>3
  <1>6. ASSUME NEW i \in 1..Len(u), NEW j \in 1..Len(u), u[i] = u[j] PROVE i = j
    <2>1. CASE i \in 1..Len(s) /\ j \in 1..Len(s)
      BY <1>2, <1>6, <2>1 DEF Holds
    <2>2. CASE i \notin 1..Len(s) /\ j \notin 1..Len(s)
      <3>1. u[i][3] = i - Len(s) /\ u[j][3] = j - Len(s)
        BY <1>3, <2>2
      <3> QED
        BY <1>2, <1>6, <3>1
    <2>3. ASSUME NEW k \in 1..Len(u), NEW l \in 1..Len(u), k \in 1..Len(s), l \notin 1..Len(s)
          PROVE  u[k] # u[l]
      <3>1. u[k][2] \in D /\ u[l][2] = c
        <4>1. k - Len(s) \notin 1..Rounds
          BY <1>2, <2>3
        <4> QED
          BY <1>3, <2>3, <4>1
      <3> QED
        BY <3>1
    <2> QED
      BY <1>6, <2>1, <2>2, <2>3
  <1>7. Len(u) = Cardinality(D \cup {c}) * Rounds
    <2>1. IsFiniteSet(D) /\ Cardinality(D) \in Nat
      <3>1. IsFiniteSet(Client)
        BY <1>n, FS_Interval DEF Client
      <3> QED
        BY <3>1, FS_Subset, FS_CardinalityType
    <2>2. Cardinality(D \cup {c}) = Cardinality(D) + 1
      BY <2>1, FS_AddElement
    <2>3. Len(s) = Cardinality(D) * Rounds
      BY DEF Holds
    <2> QED
      BY <1>2, <1>n, <2>1, <2>2, <2>3
  <1>8. Holds(u, n, D \cup {c})
    BY <1>4, <1>5, <1>6, <1>7 DEF Holds
  <1> QED
    BY <1>8 DEF u, t

\* The same rows, sorted.
LEMMA HoldsSorted ==
  ASSUME NEW s \in Seq(Sample), NEW n \in Nat, NEW D, Holds(s, n, D)
  PROVE  Holds(SortRows(s), n, D) /\ Ascending(SortRows(s))
  <1> DEFINE t == SortRows(s)
  <1>1. ASSUME NEW i \in 1..Len(s), NEW j \in 1..Len(s), i # j
        PROVE  Before(s[i], s[j]) \/ Before(s[j], s[i])
    <2>1. /\ s[i][2] \in Nat /\ s[i][3] \in Nat /\ s[i] = <<n, s[i][2], s[i][3]>>
          /\ s[j][2] \in Nat /\ s[j][3] \in Nat /\ s[j] = <<n, s[j][2], s[j][3]>>
      BY SampleType DEF Holds
    <2>2. s[i][2] # s[j][2] \/ s[i][3] # s[j][3]
      BY <1>1, <2>1 DEF Holds
    <2> QED
      BY <2>1, <2>2 DEF Before
  <1>2. /\ t \in Seq(Sample) /\ Len(t) = Len(s) /\ Ascending(t)
        /\ \A k \in 1..Len(s) : \E i \in 1..Len(s) : t[k] = s[i]
        /\ \A i \in 1..Len(s) : \E k \in 1..Len(s) : t[k] = s[i]
    BY <1>1, Sorting
  <1> HIDE DEF t
  <1>3. \A c \in Client, r \in 1..Rounds : c \in D <=> \E i \in 1..Len(t) : t[i] = <<n, c, r>>
    <2> SUFFICES ASSUME NEW c \in Client, NEW r \in 1..Rounds
                 PROVE  (\E i \in 1..Len(s) : s[i] = <<n, c, r>>) <=> \E i \in 1..Len(t) : t[i] = <<n, c, r>>
      BY DEF Holds
    <2> QED
      BY <1>2
  <1>4. ASSUME NEW i \in 1..Len(t) PROVE t[i][1] = n
    <2>1. PICK k \in 1..Len(s) : t[i] = s[k]
      BY <1>2
    <2>2. s[k][1] = n
      BY DEF Holds
    <2> QED
      BY <2>1, <2>2
  <1>5. ASSUME NEW i \in 1..Len(t), NEW j \in 1..Len(t), t[i] = t[j] PROVE i = j
    <2>1. t[i][2] \in Nat /\ t[i][3] \in Nat
      BY <1>2, SampleType
    <2>2. ~Before(t[i], t[j]) /\ ~Before(t[j], t[i])
      BY <1>5, <2>1 DEF Before
    <2>3. ~(i < j) /\ ~(j < i)
      BY <1>2, <2>2 DEF Ascending
    <2> QED
      BY <2>3
  <1>6. Len(t) = Cardinality(D) * Rounds
    BY <1>2 DEF Holds
  <1> QED
    BY <1>2, <1>3, <1>4, <1>5, <1>6 DEF Holds, t

LEMMA CollectedStep == ClientTypeOK /\ Threads /\ Collected /\ [ClientNext]_cvars => Collected'
  <1> SUFFICES ASSUME ClientTypeOK, Threads, Collected, [ClientNext]_cvars PROVE Collected'
    OBVIOUS
  <1>n. MaxClients \in Nat \ {0} /\ Rounds \in Nat \ {0}
    BY ClientAssumption DEF ClientAssumption
  <1>t. /\ run \in Nat /\ all \in Seq(Sample) /\ Done \in SUBSET Client
        /\ session \in [Client -> {"none", "running", "done", "failed"}]
        /\ launched \in Nat
    BY <1>n DEF ClientTypeOK, Sample, Done
  <1>1. ASSUME NEW x \in {0, 1}, Exit(x), x = 0 => file' = all /\ Holds(all, run, Done) /\ Ascending(all)
        PROVE  Collected'
    <2>1. Done' = Done /\ run' = run /\ pc' = "exited" /\ code' = x
      BY <1>1 DEF Exit, Done
    <2> QED
      BY <1>1, <2>1 DEF Collected
  <1>2. ASSUME UNCHANGED <<run, all, file, code>>, Done' = Done,
               pc = pc' \/ (pc \notin {"off", "exited"} /\ pc' # "exited"),
               pc' \in {"single", "save", "write"} => pc \in {"single", "save", "write"}
        PROVE  Collected'
    BY <1>2 DEF Collected
  <1>3. ASSUME NEW n \in Client, Begin(n) PROVE Collected'
    <2>1. /\ all' = <<>> /\ pc' \in {"single", "launch"}
          /\ session' = [c \in Client |-> IF n = 1 /\ c = 1 THEN "running" ELSE "none"]
      BY <1>3 DEF Begin
    <2>2. Done' = {}
      BY <2>1 DEF Done
    <2>3. Holds(<<>>, run', {}) /\ Ascending(<<>>)
      <3>1. Cardinality({}) = 0 /\ Len(<<>>) = 0 /\ 1..0 = {} /\ 0 * Rounds = 0
        BY FS_EmptySet, <1>n
      <3> QED
        BY <3>1 DEF Holds, Ascending
    <2> QED
      BY <2>1, <2>2, <2>3 DEF Collected
  <1>4. CASE MainStep
    <2>1. CASE Launch
      <3>1. session[launched'] = "none" /\ session' = [session EXCEPT ![launched'] = "running"]
        BY <1>t, <1>n, <2>1 DEF Launch, Threads, Client, ClientTypeOK
      <3>2. Done' = Done
        BY <1>t, <3>1 DEF Done
      <3> QED
        BY <1>2, <2>1, <3>2 DEF Launch
    <2>2. CASE MainRaises
      BY <1>2, <2>2 DEF MainRaises, sessionVars, Done
    <2>3. CASE Die \/ SingleFails \/ SaveFails
      BY <1>1, <2>3 DEF Die, SingleFails, SaveFails
    <2>4. CASE Join
      <3>1. Holds(SortRows(all), run, Done) /\ Ascending(SortRows(all))
        BY <1>t, <2>4, HoldsSorted DEF Join, Collected
      <3>2. Done' = Done /\ run' = run /\ all' = SortRows(all) /\ pc' = "save"
        BY <2>4 DEF Join, Done
      <3> QED
        BY <3>1, <3>2 DEF Collected
    <2>5. CASE SingleReturns
      BY <1>2, <2>5 DEF SingleReturns, sessionVars, Done
    <2>6. CASE SaveOpens
      <3>1. UNCHANGED <<run, all>> /\ Done' = Done /\ pc = "save" /\ pc' = "write"
        BY <2>6 DEF SaveOpens, sessionVars, Done
      <3> QED
        BY <3>1 DEF Collected
    <2>7. CASE SaveWrites
      BY <1>1, <2>7 DEF SaveWrites, Collected
    <2> QED
      BY <1>4, <2>1, <2>2, <2>3, <2>4, <2>5, <2>6, <2>7 DEF MainStep
  <1>5. CASE SessionStep
    <2>1. ASSUME NEW c \in Client, RoundOk(c) PROVE Collected'
      BY <1>2, <2>1 DEF RoundOk, progVars, Done
    <2>2. ASSUME NEW c \in Client, NEW network \in BOOLEAN, RoundFails(c, network) PROVE Collected'
      <3>1. Done' = Done
        BY <1>t, <2>2 DEF RoundFails, Done
      <3> QED
        BY <1>2, <2>2, <3>1 DEF RoundFails, progVars
    <2>3. ASSUME NEW c \in Client, SessionReturns(c) PROVE Collected'
      <3>1. /\ session[c] = "running" /\ session' = [session EXCEPT ![c] = "done"] /\ UNCHANGED progVars
            /\ all' = all \o [r \in 1..Rounds |-> <<run, c, r>>]
        BY <2>3 DEF SessionReturns, RowsOf
      <3>2. Done' = Done \cup {c} /\ c \notin Done
        BY <1>t, <3>1 DEF Done
      <3>3. pc \notin {"off", "save", "write", "exited"} /\ run' = run /\ pc' = pc
        BY <3>1 DEF Threads, progVars
      <3>4. Holds(all', run', Done')
        BY <1>t, <3>1, <3>2, <3>3, HoldsMore DEF Collected
      <3>5. ASSUME pc = "single" PROVE Ascending(all')
        <4>1. Done = {}
          BY <1>t, <1>n, <3>1, <3>5 DEF Threads, Done, Client
        <4>2. Len(all) = 0
          BY <1>n, <3>3, <4>1, FS_EmptySet DEF Collected, Holds
        <4>3. all' = [r \in 1..Rounds |-> <<run, c, r>>]
          BY <1>t, <1>n, <3>1, <4>2
        <4>4. Len(all') = Rounds /\ \A r \in 1..Rounds : all'[r] = <<run, c, r>>
          BY <4>3, <1>n
        <4> QED
          BY <4>4, <1>n DEF Ascending, Before, Client
      <3> QED
        BY <3>3, <3>4, <3>5 DEF Collected
    <2> QED
      BY <1>5, <2>1, <2>2, <2>3 DEF SessionStep
  <1>6. CASE StdoutRead \/ UNCHANGED cvars
    BY <1>2, <1>6 DEF StdoutRead, cvars, progVars, sessionVars, Done
  <1> QED
    BY <1>3, <1>4, <1>5, <1>6 DEF ClientNext

\* What the file holds at the end.
LEMMA Results == ClientTypeOK /\ Collected => SavedResults
  <1> SUFFICES ASSUME ClientTypeOK, Collected, pc = "exited", code = 0
               PROVE  /\ \A c \in Client, r \in 1..Rounds :
                          session[c] = "done" <=> \E i \in 1..Len(file) : file[i] = <<run, c, r>>
                      /\ \A i, j \in 1..Len(file) : i < j => Before(file[i], file[j])
                      /\ \A i \in 1..Len(file) : file[i][1] = run
    BY DEF SavedResults
  <1>1. Holds(file, run, Done) /\ Ascending(file)
    BY DEF Collected
  <1>2. \A c \in Client : session[c] = "done" <=> c \in Done
    BY DEF Done
  <1> QED
    BY <1>1, <1>2 DEF Holds, Ascending

-----------------------------------------------------------------------------
(* Refinement of ResultsFile.                                              *)

\* How many sessions there are when main() goes on with their results.
Started ==
    /\ pc = "single" => clients = 1
    /\ pc \in {"launch", "join"} => clients # 1
    /\ pc \in {"join", "save", "write"} => launched = clients
    /\ pc \in {"save", "write"} /\ clients = 1 => session[1] = "done"

LEMMA StartedBegins == ClientInit => Started
  BY DEF ClientInit, Started

LEMMA StartedStep == ClientTypeOK /\ Threads /\ Started /\ [ClientNext]_cvars => Started'
  <1> SUFFICES ASSUME ClientTypeOK, Threads, Started, [ClientNext]_cvars PROVE Started'
    OBVIOUS
  <1>t. session \in [Client -> {"none", "running", "done", "failed"}]
    BY DEF ClientTypeOK
  <1>1. CASE \E n \in Client : Begin(n)
    BY <1>1 DEF Begin, Started
  <1>2. CASE Launch
    BY <1>2 DEF Launch, Started
  <1>3. CASE Die \/ SingleFails \/ SaveWrites \/ SaveFails
    BY <1>3 DEF Die, SingleFails, SaveWrites, SaveFails, Exit, Started
  <1>4. CASE MainRaises \/ Join \/ SaveOpens
    BY <1>4 DEF MainRaises, Join, SaveOpens, Started, sessionVars
  <1>5. CASE SingleReturns
    BY <1>5 DEF SingleReturns, Started, Threads, sessionVars
  <1>6. ASSUME NEW c \in Client, session[c] = "running", UNCHANGED progVars,
               \/ UNCHANGED session
               \/ \E how \in {"done", "failed"} : session' = [session EXCEPT ![c] = how]
        PROVE  Started'
    BY <1>t, <1>6 DEF Started, Threads, progVars
  <1>7. CASE SessionStep
    BY <1>6, <1>7 DEF SessionStep, RoundOk, SessionReturns, RoundFails
  <1>8. CASE StdoutRead \/ UNCHANGED cvars
    BY <1>8 DEF StdoutRead, Started, cvars, progVars, sessionVars
  <1> QED
    BY <1>1, <1>2, <1>3, <1>4, <1>5, <1>7, <1>8 DEF ClientNext, MainStep

\* The rows that are due, in terms of the program.
LEMMA DueRows ==
  ASSUME ClientTypeOK, NEW s \in Seq(Sample), Holds(s, run, Done)
  PROVE  Abstract!RowsIn(s) = Abstract!Due
  <1>1. Abstract!Due = {run} \X Done \X (1..Rounds)
    BY DEF Abstract!Due, Done, Finished
  <1>2. ASSUME NEW i \in 1..Len(s) PROVE s[i] \in {run} \X Done \X (1..Rounds)
    <2>1. s[i] = <<run, s[i][2], s[i][3]>> /\ s[i][2] \in Client /\ s[i][3] \in 1..Rounds
      BY SampleType DEF Holds
    <2>2. s[i][2] \in Done
      BY <2>1 DEF Holds
    <2>3. \A c \in Done, r \in 1..Rounds : <<run, c, r>> \in {run} \X Done \X (1..Rounds)
      OBVIOUS
    <2> QED
      BY <2>1, <2>2, <2>3
  <1>3. ASSUME NEW a \in {run} \X Done \X (1..Rounds) PROVE \E i \in 1..Len(s) : s[i] = a
    <2>1. a = <<run, a[2], a[3]>> /\ a[2] \in Done /\ a[2] \in Client /\ a[3] \in 1..Rounds
      BY DEF Done
    <2>2. \E i \in 1..Len(s) : s[i] = <<run, a[2], a[3]>>
      BY <2>1 DEF Holds
    <2> QED
      BY <2>1, <2>2
  <1> QED
    BY <1>1, <1>2, <1>3 DEF Abstract!RowsIn

LEMMA SameOrder ==
  /\ \A a, b : Abstract!Earlier(a, b) <=> Before(a, b)
  /\ \A s : Abstract!Sorted(s) <=> Ascending(s)
  BY DEF Abstract!Earlier, Before, Abstract!Sorted, Ascending

\* What a failing write leaves of the rows that are due.
LEMMA FirstRows ==
  ASSUME ClientTypeOK, NEW s \in Seq(Sample), Holds(s, run, Done), Ascending(s),
         NEW n \in 0..Len(s)
  PROVE  /\ Abstract!Sorted(SubSeq(s, 1, n))
         /\ Abstract!RowsIn(SubSeq(s, 1, n)) \subseteq Abstract!Due
         /\ \A a \in Abstract!Due \ Abstract!RowsIn(SubSeq(s, 1, n)),
               b \in Abstract!RowsIn(SubSeq(s, 1, n)) : ~Abstract!Earlier(a, b)
  <1> DEFINE t == SubSeq(s, 1, n)
  <1>1. /\ Len(s) \in Nat /\ n \in Nat /\ n <= Len(s)
        /\ Len(t) = n /\ \A i \in 1..n : t[i] = s[i]
    OBVIOUS
  <1> HIDE DEF t
  <1>2. Ascending(t)
    BY <1>1 DEF Ascending
  <1>3. Abstract!RowsIn(t) \subseteq Abstract!RowsIn(s)
    BY <1>1 DEF Abstract!RowsIn
  <1>4. ASSUME NEW a \in Abstract!RowsIn(s) \ Abstract!RowsIn(t), NEW b \in Abstract!RowsIn(t)
        PROVE  ~Before(a, b)
    <2>1. PICK k \in 1..Len(s) : a = s[k]
      BY DEF Abstract!RowsIn
    <2>2. PICK i \in 1..n : b = s[i]
      BY <1>1 DEF Abstract!RowsIn
    <2>3. k > n
      BY <1>1, <2>1 DEF Abstract!RowsIn
    <2>4. Before(b, a)
      BY <1>1, <2>1, <2>2, <2>3 DEF Ascending
    <2>5. /\ a[2] \in Nat /\ a[3] \in Nat /\ b[2] \in Nat /\ b[3] \in Nat
      BY <1>1, <2>1, <2>2, SampleType
    <2> QED
      BY <2>4, <2>5, KeyOrder
  <1> QED
    BY <1>2, <1>3, <1>4, DueRows, SameOrder DEF t

LEMMA FileInit == ClientInit => Abstract!RInit
  <1> SUFFICES ASSUME ClientInit PROVE Abstract!RInit
    OBVIOUS
  <1>1. \A c \in Client : ~Finished(c)
    BY DEF ClientInit, Finished
  <1> QED
    BY <1>1 DEF ClientInit, Abstract!RInit, Phase

LEMMA FileStep ==
  ClientTypeOK /\ Threads /\ Started /\ Collected /\ [ClientNext]_cvars
    => [Abstract!RNext]_(Abstract!rvars)
  <1> SUFFICES ASSUME ClientTypeOK, Threads, Started, Collected, [ClientNext]_cvars
               PROVE  Abstract!RNext \/ UNCHANGED Abstract!rvars
    OBVIOUS
  <1> DEFINE outcome == [c \in Client |-> IF Finished(c) THEN session[c] ELSE "open"]
  <1>t. /\ session \in [Client -> {"none", "running", "done", "failed"}]
        /\ all \in Seq(Sample) /\ clients \in Client /\ launched \in Nat /\ Client \subseteq Nat
    BY ClientAssumption DEF ClientTypeOK, Sample, Client, ClientAssumption
  <1>o. ASSUME NEW c \in Client PROVE outcome[c] = IF session[c] \in {"done", "failed"} THEN session[c] ELSE "open"
    BY DEF Finished
  <1>p. /\ pc \in {"single", "launch", "join", "dying", "save"} => Phase = "running"
        /\ pc = "write" => Phase = "saving"
        /\ pc \in {"off", "exited"} => Phase = "idle"
    BY DEF Phase
  <1>q. /\ pc' \in {"single", "launch", "join", "dying", "save"} => Phase' = "running"
        /\ pc' = "write" => Phase' = "saving"
        /\ pc' \in {"off", "exited"} => Phase' = "idle"
    BY DEF Phase
  <1>s. ASSUME UNCHANGED session PROVE UNCHANGED outcome
    BY <1>s DEF Finished
  <1>1. ASSUME NEW n \in Client, Begin(n) PROVE Abstract!RunBegins(n)
    <2>1. outcome' = [c \in Client |-> "open"]
      BY <1>1 DEF Begin, Finished
    <2>2. Phase = "idle" /\ Phase' = "running"
      BY <1>1, <1>p, <1>q DEF Begin
    <2> QED
      BY <1>1, <2>1, <2>2 DEF Begin, Abstract!RunBegins
  <1>2. CASE Launch
    <2>1. \A c \in Client : Finished(c)' <=> Finished(c)
      <3>1. launched' \in Client => session[launched'] = "none"
        BY <1>t, <1>2 DEF Launch, Threads
      <3> QED
        BY <1>t, <1>2, <3>1 DEF Launch, Finished
    <2>2. \A c \in Client : Finished(c) => session'[c] = session[c]
      BY <1>t, <1>2, <2>1 DEF Launch, Threads, Finished
    <2>3. UNCHANGED outcome
      BY <2>1, <2>2
    <2>4. Phase = "running" /\ Phase' = "running"
      BY <1>2, <1>p, <1>q DEF Launch
    <2> QED
      BY <1>2, <2>3, <2>4 DEF Launch, Abstract!rvars
  <1>3. CASE MainRaises \/ Join \/ SingleReturns
    <2>1. UNCHANGED outcome
      BY <1>3, <1>s DEF MainRaises, Join, SingleReturns, sessionVars
    <2>2. Phase = "running" /\ Phase' = "running"
      BY <1>3, <1>p, <1>q DEF MainRaises, Join, SingleReturns
    <2> QED
      BY <1>3, <2>1, <2>2 DEF MainRaises, Join, SingleReturns, Abstract!rvars
  <1>4. ASSUME Exit(1), pc \in {"single", "launch", "join", "dying", "save"}, UNCHANGED file
        PROVE  Abstract!RunFails
    <2>1. UNCHANGED outcome
      BY <1>4, <1>s DEF Exit
    <2>2. Phase = "running" /\ Phase' = "idle"
      BY <1>4, <1>p, <1>q DEF Exit
    <2> QED
      BY <1>4, <2>1, <2>2 DEF Exit, Abstract!RunFails
  <1>5. CASE Die \/ SingleFails
    BY <1>4, <1>5 DEF Die, SingleFails, Abstract!RNext
  <1>6. CASE SaveOpens
    <2>1. UNCHANGED outcome
      BY <1>6, <1>s DEF SaveOpens, sessionVars
    <2>2. Phase = "running" /\ Phase' = "saving"
      BY <1>6, <1>p, <1>q DEF SaveOpens
    <2>3. /\ launched = clients /\ clients \in 1..MaxClients /\ MaxClients \in Nat
          /\ \A c \in Client : (session[c] = "none" <=> c > launched) /\ session[c] # "running"
      BY <1>6, ClientAssumption, <1>t DEF SaveOpens, Threads, Started, Client, ClientAssumption
    <2>b. \A c \in 1..clients : c \in Client /\ ~(c > launched)
      BY <2>3 DEF Client
    <2>c. \A c \in 1..clients : session[c] \in {"done", "failed"}
      BY <1>t, <2>3, <2>b
    <2>4. \A c \in 1..clients : outcome[c] # "open"
      BY <2>b, <2>c, <1>o
    <2>5. clients = 1 => outcome[1] = "done"
      BY <1>t, <1>6, <1>o DEF SaveOpens, Started
    <2> QED
      BY <1>6, <2>1, <2>2, <2>4, <2>5 DEF SaveOpens, Abstract!FileOpened, Abstract!RNext
  <1>7. CASE SaveWrites
    <2>1. UNCHANGED outcome
      BY <1>7, <1>s DEF SaveWrites, Exit
    <2>2. Phase = "saving" /\ Phase' = "idle"
      BY <1>7, <1>p, <1>q DEF SaveWrites, Exit
    <2>3. Abstract!Sorted(all) /\ Abstract!RowsIn(all) = Abstract!Due
      BY <1>7, <1>t, DueRows, SameOrder DEF SaveWrites, Collected
    <2> QED
      BY <1>7, <2>1, <2>2, <2>3 DEF SaveWrites, Exit, Abstract!RowsSaved, Abstract!RNext
  <1>8. CASE SaveFails
    <2>1. CASE pc = "save"
      BY <1>4, <1>8, <2>1 DEF SaveFails, Abstract!RNext
    <2>2. CASE pc = "write"
      <3>1. PICK n \in 0..Len(all) : file' = SubSeq(all, 1, n)
        BY <1>8, <2>2 DEF SaveFails
      <3>2. /\ Abstract!Sorted(file') /\ Abstract!RowsIn(file') \subseteq Abstract!Due
            /\ \A a \in Abstract!Due \ Abstract!RowsIn(file'), b \in Abstract!RowsIn(file') :
                 ~Abstract!Earlier(a, b)
        BY <1>t, <2>2, <3>1, FirstRows DEF Collected
      <3>3. UNCHANGED outcome
        BY <1>8, <1>s DEF SaveFails, Exit
      <3>4. Phase = "saving" /\ Phase' = "idle"
        BY <1>8, <2>2, <1>p, <1>q DEF SaveFails, Exit
      <3> QED
        BY <1>8, <3>2, <3>3, <3>4 DEF SaveFails, Exit, Abstract!SavingFails, Abstract!RNext
    <2> QED
      BY <1>8, <2>1, <2>2 DEF SaveFails
  <1>9. ASSUME NEW c \in Client, RoundOk(c) PROVE UNCHANGED Abstract!rvars
    <2>1. UNCHANGED outcome /\ UNCHANGED Phase
      BY <1>9, <1>s DEF RoundOk, progVars, Phase
    <2> QED
      BY <1>9, <2>1 DEF RoundOk, progVars, Abstract!rvars
  <1>10. ASSUME NEW c \in Client, session[c] = "running", UNCHANGED <<progVars, file>>,
                NEW how \in {"done", "failed"}, session' = [session EXCEPT ![c] = how]
         PROVE  Abstract!SessionEnds(c)
    <2>1. outcome' = [outcome EXCEPT ![c] = how]
      BY <1>t, <1>10 DEF Finished
    <2>2. outcome[c] = "open"
      BY <1>10, <1>o
    <2>3. c \in 1..clients
      BY <1>t, <1>10 DEF Threads, Client
    <2>4. Phase = "running" /\ Phase' = "running"
      BY <1>10, <1>p DEF Threads, progVars, ClientTypeOK, Phase
    <2> QED
      BY <1>10, <2>1, <2>2, <2>3, <2>4 DEF Abstract!SessionEnds, progVars
  <1>11. CASE SessionStep
    <2>1. ASSUME NEW c \in Client, SessionReturns(c) PROVE Abstract!RNext
      BY <1>10, <2>1 DEF SessionReturns, Abstract!RNext
    <2>2. ASSUME NEW c \in Client, NEW network \in BOOLEAN, RoundFails(c, network) PROVE Abstract!RNext
      BY <1>10, <2>2 DEF RoundFails, Abstract!RNext
    <2> QED
      BY <1>9, <1>11, <2>1, <2>2 DEF SessionStep
  <1>12. CASE StdoutRead \/ UNCHANGED cvars
    <2>1. UNCHANGED <<progVars, session, file>>
      BY <1>12 DEF StdoutRead, cvars, sessionVars
    <2>2. UNCHANGED outcome /\ UNCHANGED Phase
      BY <2>1, <1>s DEF progVars, Phase
    <2> QED
      BY <2>1, <2>2 DEF progVars, Abstract!rvars
  <1>13. \/ \E n \in Client : Begin(n)
         \/ Launch \/ MainRaises \/ Die \/ Join \/ SingleFails \/ SingleReturns
         \/ SaveOpens \/ SaveWrites \/ SaveFails
         \/ SessionStep \/ StdoutRead \/ UNCHANGED cvars
    BY DEF ClientNext, MainStep
  <1> QED
    BY <1>1, <1>2, <1>3, <1>5, <1>6, <1>7, <1>8, <1>11, <1>12, <1>13 DEF Abstract!RNext

=============================================================================
