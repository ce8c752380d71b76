------------------------------ MODULE Admission ------------------------------
(***************************************************************************)
(* What the admission control of both servers promises, without its        *)
(* threads, queue and semaphore: at most Slots requests are admitted at    *)
(* any time, one is refused only while all slots are in use, and every     *)
(* admitted request ends and gives its slot to another.                    *)
(***************************************************************************)
EXTENDS Integers, FiniteSets

CONSTANTS Request, Slots

VARIABLES
    fate,   \* of each request: waiting, admitted, refused or over
    open    \* the server has not returned

avars == <<fate, open>>

Admitted == {r \in Request : fate[r] = "admitted"}

AInit ==
    /\ fate = [r \in Request |-> "waiting"]
    /\ open = TRUE

AdmitOne(r) ==
    /\ open /\ fate[r] = "waiting"
    /\ Cardinality(Admitted) < Slots
    /\ fate' = [fate EXCEPT ![r] = "admitted"]
    /\ UNCHANGED open

RefuseOne(r) ==
    /\ open /\ fate[r] = "waiting"
    /\ Cardinality(Admitted) = Slots
    /\ fate' = [fate EXCEPT ![r] = "refused"]
    /\ UNCHANGED open

Settle(r) ==
    /\ fate[r] = "admitted"
    /\ fate' = [fate EXCEPT ![r] = "over"]
    /\ UNCHANGED open

\* The server returns: it cuts off whatever it will not handle any more.
Return ==
    /\ open
    /\ open' = FALSE
    /\ \E cut \in SUBSET {r \in Request : fate[r] \in {"waiting", "admitted"}} :
        fate' = [r \in Request |-> IF r \in cut THEN "over" ELSE fate[r]]

ANext ==
    \/ \E r \in Request : AdmitOne(r) \/ RefuseOne(r) \/ Settle(r)
    \/ Return

ASpec == AInit /\ [][ANext]_avars
=============================================================================
