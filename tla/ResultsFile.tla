----------------------------- MODULE ResultsFile -----------------------------
(***************************************************************************)
(* What client/client.py promises about its results file, without its      *)
(* threads, locks and shared lists: sessions end in any order; the file is *)
(* touched only when all of them have ended, and by a run that ends with   *)
(* code 0 it is filled with the rows of those that succeeded, in order.    *)
(***************************************************************************)
EXTENDS Integers, Sequences

CONSTANTS Client, Rounds

VARIABLES
    phase,    \* idle, running or saving
    run,      \* the number of this run of the program
    asked,    \* it has clients 1..asked
    outcome,  \* of the session of each client: open, done or failed
    file,     \* the rows in the file
    code      \* the exit code

rvars == <<phase, run, asked, outcome, file, code>>

\* The rows to be saved, and those in s.
Due == {run} \X {c \in Client : outcome[c] = "done"} \X (1..Rounds)
RowsIn(s) == {s[i] : i \in 1..Len(s)}

Earlier(a, b) == a[2] < b[2] \/ (a[2] = b[2] /\ a[3] < b[3])
Sorted(s) == \A i, j \in 1..Len(s) : i < j => Earlier(s[i], s[j])

RInit ==
    /\ phase = "idle" /\ run = 0 /\ asked = 1
    /\ outcome = [c \in Client |-> "open"]
    /\ file = <<>> /\ code = 0

RunBegins(n) ==
    /\ phase = "idle"
    /\ phase' = "running" /\ run' = run + 1 /\ asked' = n
    /\ outcome' = [c \in Client |-> "open"]
    /\ UNCHANGED <<file, code>>

SessionEnds(c) ==
    /\ phase = "running" /\ c \in 1..asked /\ outcome[c] = "open"
    /\ \E how \in {"done", "failed"} : outcome' = [outcome EXCEPT ![c] = how]
    /\ UNCHANGED <<phase, run, asked, file, code>>

\* The run ends, and the file is as it was.
RunFails ==
    /\ phase = "running"
    /\ phase' = "idle" /\ code' = 1
    /\ UNCHANGED <<run, asked, outcome, file>>

\* One session that failed saves nothing; of several the others are saved.
FileOpened ==
    /\ phase = "running"
    /\ \A c \in 1..asked : outcome[c] # "open"
    /\ asked = 1 => outcome[1] = "done"
    /\ phase' = "saving" /\ file' = <<>>
    /\ UNCHANGED <<run, asked, outcome, code>>

RowsSaved ==
    /\ phase = "saving"
    /\ Sorted(file') /\ RowsIn(file') = Due
    /\ phase' = "idle" /\ code' = 0
    /\ UNCHANGED <<run, asked, outcome>>

\* Writing fails: the first rows are there, the others are lost.
SavingFails ==
    /\ phase = "saving"
    /\ Sorted(file') /\ RowsIn(file') \subseteq Due
    /\ \A a \in Due \ RowsIn(file'), b \in RowsIn(file') : ~Earlier(a, b)
    /\ phase' = "idle" /\ code' = 1
    /\ UNCHANGED <<run, asked, outcome>>

RNext ==
    \/ \E n \in Client : RunBegins(n)
    \/ \E c \in Client : SessionEnds(c)
    \/ RunFails \/ FileOpened \/ RowsSaved \/ SavingFails

RSpec == RInit /\ [][RNext]_rvars
=============================================================================
