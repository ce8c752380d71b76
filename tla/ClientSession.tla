---------------------------- MODULE ClientSession ----------------------------
(***************************************************************************)
(* The command-line client, client/client.py: one session in main(), or    *)
(* several in threads of their own (run_multi_client_sessions), whose      *)
(* samples are collected, sorted and saved as one CSV file.                *)
(*                                                                         *)
(* A row of the file is <<run, client, round>>: the execution of the       *)
(* program it comes from, and its two key columns.                         *)
(***************************************************************************)
EXTENDS Integers, Sequences, FiniteSets

CONSTANTS
    MaxClients,   \* the largest --clients
    Rounds        \* --rounds

ASSUME ClientAssumption ==
    /\ MaxClients \in Nat \ {0}
    /\ Rounds \in Nat \ {0}

Client == 1..MaxClients

VARIABLES
    pc,        \* where main() is
    run,       \* the number of this execution
    clients,   \* --clients
    launched,  \* the threads started: clients 1..launched
    session,   \* of each client: none, running, done or failed
    got,       \* the samples of its session so far
    all,       \* all_samples
    errors,    \* the clients whose session ended with a network or TLS error
    stdout,    \* the lines in the output pipe that report such an error
    file,      \* the rows of the CSV file
    code       \* the exit code

progVars == <<pc, run, clients, launched, code>>
sessionVars == <<session, got, all, errors>>
cvars == <<progVars, sessionVars, stdout, file>>

Finished(c) == session[c] \in {"done", "failed"}
Done == {c \in Client : session[c] = "done"}

\* The rows of a session, in the order it took them.
RowsOf(c, n) == [r \in 1..n |-> <<run, c, r>>]

\* The order in which all_samples is sorted.
Before(a, b) == a[2] < b[2] \/ (a[2] = b[2] /\ a[3] < b[3])

\* Where row i of s is sorted to: rows with the same key keep their order.
Place(s, i) ==
    Cardinality({j \in 1..Len(s) : Before(s[j], s[i]) \/ (j <= i /\ ~Before(s[i], s[j]))})

SortRows(s) == [k \in 1..Len(s) |-> s[CHOOSE i \in 1..Len(s) : Place(s, i) = k]]

ClientInit ==
    /\ pc = "off"
    /\ run = 0
    /\ clients = 1
    /\ launched = 0
    /\ session = [c \in Client |-> "none"]
    /\ got = [c \in Client |-> 0]
    /\ all = <<>>
    /\ errors = {}
    /\ stdout = 0
    /\ file = <<>>
    /\ code = 0

\* What was in memory is gone when the program ends.
Exit(c) ==
    /\ pc' = "exited"
    /\ code' = c
    /\ got' = [d \in Client |-> 0]
    /\ all' = <<>>
    /\ errors' = {}
    /\ UNCHANGED <<run, clients, launched, session>>

-----------------------------------------------------------------------------
(* main().                                                                 *)

\* The program starts; with one client the session runs in main() itself.
Begin(n) ==
    /\ pc \in {"off", "exited"}
    /\ run' = run + 1
    /\ clients' = n
    /\ pc' = IF n = 1 THEN "single" ELSE "launch"
    /\ launched' = IF n = 1 THEN 1 ELSE 0
    /\ session' = [c \in Client |-> IF n = 1 /\ c = 1 THEN "running" ELSE "none"]
    /\ got' = [c \in Client |-> 0]
    /\ all' = <<>>
    /\ errors' = {}
    /\ UNCHANGED <<stdout, file, code>>

Launch ==
    /\ pc = "launch"
    /\ launched' = launched + 1
    /\ session' = [session EXCEPT ![launched'] = "running"]
    /\ pc' = IF launched' = clients THEN "join" ELSE "launch"
    /\ UNCHANGED <<run, clients, code, got, all, errors, stdout, file>>

\* A thread cannot be started, or Ctrl-C: main() ends, its threads run on.
MainRaises ==
    /\ pc \in {"launch", "join"}
    /\ pc' = "dying"
    /\ UNCHANGED <<run, clients, launched, code, sessionVars, stdout, file>>

\* The interpreter waits for the threads, which are no daemons.
Die ==
    /\ pc = "dying"
    /\ \A c \in 1..launched : Finished(c)
    /\ Exit(1)
    /\ UNCHANGED <<stdout, file>>

\* Fault: main() waits for one thread only.
JoinOne ==
    /\ pc = "join"
    /\ \E c \in 1..launched : Finished(c)
    /\ stdout' = stdout + Cardinality(errors)
    /\ errors' = {}
    /\ all' = SortRows(all)
    /\ pc' = "save"
    /\ UNCHANGED <<run, clients, launched, code, session, got, file>>

\* Every thread is joined, the errors are printed, the samples sorted.
Join ==
    /\ pc = "join"
    /\ \A c \in 1..launched : Finished(c)
    /\ stdout' = stdout + Cardinality(errors)
    /\ errors' = {}
    /\ all' = SortRows(all)
    /\ pc' = "save"
    /\ UNCHANGED <<run, clients, launched, code, session, got, file>>

\* Fault: the exit code of a session that failed is 0.
SingleFailsQuietly ==
    /\ pc = "single" /\ session[1] = "failed"
    /\ stdout' = stdout + Cardinality(errors)
    /\ Exit(0)
    /\ UNCHANGED file

\* run_session() raised: main() reports a network or TLS error, any other
\* exception ends it with a traceback.  Nothing is saved.
SingleFails ==
    /\ pc = "single" /\ session[1] = "failed"
    /\ stdout' = stdout + Cardinality(errors)
    /\ Exit(1)
    /\ UNCHANGED file

SingleReturns ==
    /\ pc = "single" /\ session[1] = "done"
    /\ pc' = "save"
    /\ UNCHANGED <<run, clients, launched, code, sessionVars, stdout, file>>

\* save_results(): opening the file empties it; the rows follow.
SaveOpens ==
    /\ pc = "save"
    /\ file' = <<>>
    /\ pc' = "write"
    /\ UNCHANGED <<run, clients, launched, code, sessionVars, stdout>>

SaveWrites ==
    /\ pc = "write"
    /\ file' = all
    /\ Exit(0)
    /\ UNCHANGED stdout

\* makedirs() or open() raises, or the disk is full: nothing catches it.
SaveFails ==
    /\ \/ pc = "save" /\ UNCHANGED file
       \/ pc = "write" /\ \E n \in 0..Len(all) : file' = SubSeq(all, 1, n)
    /\ Exit(1)
    /\ UNCHANGED stdout

-----------------------------------------------------------------------------
(* run_session() of a client, in main() or in its worker().                *)

\* Fault: range(1, rounds + 2).
RoundOkOneMore(c) ==
    /\ session[c] = "running" /\ got[c] <= Rounds
    /\ got' = [got EXCEPT ![c] = @ + 1]
    /\ UNCHANGED <<progVars, session, all, errors, stdout, file>>

RoundOk(c) ==
    /\ session[c] = "running" /\ got[c] < Rounds
    /\ got' = [got EXCEPT ![c] = @ + 1]
    /\ UNCHANGED <<progVars, session, all, errors, stdout, file>>

\* Fault: what a failed session has measured is kept.
RoundFailsKeeps(c, network) ==
    /\ session[c] = "running" /\ got[c] < Rounds
    /\ session' = [session EXCEPT ![c] = "failed"]
    /\ all' = all \o RowsOf(c, got[c])
    /\ errors' = IF network THEN errors \cup {c} ELSE errors
    /\ UNCHANGED <<progVars, got, stdout, file>>

\* A round raises, a network or TLS error or another one; the session's
\* earlier samples go with it.
RoundFails(c, network) ==
    /\ session[c] = "running" /\ got[c] < Rounds
    /\ session' = [session EXCEPT ![c] = "failed"]
    /\ errors' = IF network THEN errors \cup {c} ELSE errors
    /\ UNCHANGED <<progVars, got, all, stdout, file>>

\* The samples of a session are appended together, under samples_lock.
SessionReturns(c) ==
    /\ session[c] = "running" /\ got[c] = Rounds
    /\ session' = [session EXCEPT ![c] = "done"]
    /\ all' = all \o RowsOf(c, got[c])
    /\ UNCHANGED <<progVars, got, errors, stdout, file>>

-----------------------------------------------------------------------------
ClientTypeOK ==
    /\ pc \in {"off", "single", "launch", "join", "dying", "save", "write", "exited"}
    /\ run \in Nat
    /\ clients \in Client
    /\ launched \in 0..MaxClients
    /\ session \in [Client -> {"none", "running", "done", "failed"}]
    /\ got \in [Client -> 0..Rounds]
    /\ all \in Seq(Nat \X Client \X (1..Rounds))
    /\ errors \subseteq Client
    /\ stdout \in Nat
    /\ file \in Seq(Nat \X Client \X (1..Rounds))
    /\ code \in {0, 1}

\* When the program has ended with code 0 its file holds the rows of this run's
\* successful sessions, all of them, each once and in order, however the
\* threads were interleaved and whichever of them failed.
SavedResults ==
    pc = "exited" /\ code = 0 =>
        /\ \A c \in Client, r \in 1..Rounds :
            session[c] = "done" <=> \E i \in 1..Len(file) : file[i] = <<run, c, r>>
        /\ \A i, j \in 1..Len(file) : i < j => Before(file[i], file[j])
        /\ \A i \in 1..Len(file) : file[i][1] = run

-----------------------------------------------------------------------------
\* Seen from outside, with the file and the exit code only.
Phase ==
    CASE pc \in {"off", "exited"} -> "idle"
      [] pc = "write" -> "saving"
      [] OTHER -> "running"

Abstract == INSTANCE ResultsFile WITH
    phase <- Phase,
    asked <- clients,
    outcome <- [c \in Client |-> IF Finished(c) THEN session[c] ELSE "open"]

\* The threads, the shared lists and the sort implement what the program
\* promises about its file: whatever fails and in whatever order sessions end,
\* the file is left alone until all have ended, is emptied and filled once, and
\* holds the rows of the sessions that succeeded, or the first of them.
ImplementsResults == Abstract!RSpec
=============================================================================
