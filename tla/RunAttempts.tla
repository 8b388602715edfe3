------------------------------ MODULE RunAttempts ------------------------------
(***************************************************************************)
(* What the run manager promises about one ticket: per workflow a numbered *)
(* series of attempts, one at a time.  Polls begin the first, operators    *)
(* the next ones, and only after the last was canceled; a workflow whose   *)
(* run was canceled on this ticket is barred to polls for good.            *)
(***************************************************************************)
EXTENDS Naturals

CONSTANT Workflows

VARIABLES
    last,    \* number of the newest attempt on record, or 0
    status,  \* its status, or "none" when nothing is on record
    barred   \* workflows whose cancellation the ticket records

attemptVars == <<last, status, barred>>

Decided == {"completed", "canceled"}

AttemptsInit ==
    /\ last = [w \in Workflows |-> 0]
    /\ status = [w \in Workflows |-> "none"]
    /\ barred = {}

\* A poll, or recovery from the task system.
Begin(w) ==
    /\ status[w] = "none" /\ w \notin barred
    /\ last' = [last EXCEPT ![w] = 1]
    /\ status' = [status EXCEPT ![w] = "live"]
    /\ UNCHANGED barred

BeginAgain(w) ==
    /\ status[w] = "canceled"
    /\ last' = [last EXCEPT ![w] = @ + 1]
    /\ status' = [status EXCEPT ![w] = "live"]
    /\ UNCHANGED barred

Bar(w) ==
    /\ status[w] = "live"
    /\ barred' = barred \cup {w}
    /\ UNCHANGED <<last, status>>

Settle(w) ==
    /\ status[w] = "live"
    /\ \E s \in Decided : /\ s = "canceled" => w \in barred
                          /\ status' = [status EXCEPT ![w] = s]
    /\ UNCHANGED <<last, barred>>

\* Old decided attempts expire; a lost database forgets everything.
Forget ==
    /\ \E S \in SUBSET Workflows :
          /\ S = Workflows \/ \A w \in S : status[w] \in Decided
          /\ last' = [w \in Workflows |-> IF w \in S THEN 0 ELSE last[w]]
          /\ status' = [w \in Workflows |-> IF w \in S THEN "none" ELSE status[w]]
    /\ UNCHANGED barred

AttemptsNext ==
    \/ \E w \in Workflows : Begin(w) \/ BeginAgain(w) \/ Bar(w) \/ Settle(w)
    \/ Forget

AttemptsSpec == AttemptsInit /\ [][AttemptsNext]_attemptVars
=============================================================================
