---------------------------- MODULE RunProjection -----------------------------
(***************************************************************************)
(* The rows the relay_* tables keep for one run                            *)
(* (internal/execution/projection/projection.go): its relay_runs row, its  *)
(* relay_node_runtime rows and its relay_processed_reports receipts.       *)
(* SQLite is opened with a single connection, so every statement, and      *)
(* every transaction, is one atomic step here.                             *)
(*                                                                         *)
(* Each operation below is an action over these variables; callers in      *)
(* other modules conjoin them with their own control.  A WHERE clause that *)
(* matches no row is the ELSE branch that leaves the row as it is.         *)
(* Timestamps and display texts are left out; last_error keeps which of    *)
(* its writers wrote it.  The session_id column belongs to NodeRuntime.    *)
(***************************************************************************)
EXTENDS Naturals

CONSTANTS
    Nodes,      \* the work nodes of the run's workflow snapshot
    NoNode,     \* current_node before the first node is published
    ReportIds,  \* the report identities agents may submit
    Reasons,    \* the reasons operators may give for a cancellation
    MaxVisit,   \* bound on the visit identities of ProjNext
    MaxTerm     \* bound on the terminal identities of ProjNext

ASSUME NodesAssumption == NoNode \notin Nodes
ASSUME ReasonsAssumption == {"none", "conflict"} \cap Reasons = {}
ASSUME BoundsAssumption == MaxVisit \in Nat /\ MaxTerm \in Nat

VARIABLES
    row,        \* the relay_runs row
    runtimes,   \* relay_node_runtime, one row per node; visit 0: no row
    processed   \* relay_processed_reports: the ids consumed by this run

projVars == <<row, runtimes, processed>>

Active   == {"starting", "running", "waiting", "blocked"}
Terminal == {"completed", "canceled"}
States   == Active \cup Terminal \cup {"absent", "canceling"}
Errors   == {"none", "conflict"} \cup Reasons

Rows     == [state : States, node : Nodes \cup {NoNode}, visit : Nat,
             err : Errors, retry : BOOLEAN]
Runtimes == [Nodes -> [visit : Nat, term : Nat]]

ProjTypeOK ==
    /\ row \in Rows
    /\ runtimes \in Runtimes
    /\ processed \subseteq ReportIds

ProjInit ==
    /\ row = [state |-> "absent", node |-> NoNode, visit |-> 0,
              err |-> "none", retry |-> FALSE]
    /\ runtimes = [n \in Nodes |-> [visit |-> 0, term |-> 0]]
    /\ processed = {}

-----------------------------------------------------------------------------
(* relay_runs *)

\* insertStart: ON CONFLICT(id) DO NOTHING.
InsertStart ==
    row' = IF row.state = "absent" THEN [row EXCEPT !.state = "starting"] ELSE row

\* Mutant: the fence forgets the canceling state.
FencedTerminal(s) ==
    row.state = "absent" \/ (row.state \in Terminal /\ row.state # s)

\* The WHERE clause of an ordinary updateState: once cancellation or a
\* terminal state has won, only its own continuation still matches.
Fenced(s) ==
    \/ row.state = "absent"
    \/ row.state = "canceling" /\ s \notin {"canceling", "canceled"}
    \/ row.state \in Terminal /\ row.state # s

Written(s, e) ==
    [row EXCEPT !.state = s, !.err = e,
                !.retry = IF s \in Terminal THEN FALSE ELSE @]

UpdateState(s, e) == row' = IF Fenced(s) THEN row ELSE Written(s, e)

\* updateStateIf: an explicit compare-and-set against a known state.
UpdateStateIf(expected, s, e) ==
    row' = IF row.state = expected /\ ~(row.state \in Terminal /\ row.state # s)
           THEN Written(s, e) ELSE row

\* Mutant: the two parameters of the UPDATE are swapped.
BeginCancellationSwapped(why) ==
    row' = IF row.state \in Active
           THEN [row EXCEPT !.state = why, !.err = "canceling"] ELSE row

\* Mutant: a later request replaces the reason.
BeginCancellationAgain(why) ==
    row' = IF row.state \in Active \cup {"canceling"}
           THEN [row EXCEPT !.state = "canceling", !.err = why] ELSE row

BeginCancellation(why) ==
    row' = IF row.state \in Active
           THEN [row EXCEPT !.state = "canceling", !.err = why] ELSE row

\* updateRetry matches on the id alone.
UpdateRetry(b) ==
    row' = IF row.state = "absent" THEN row ELSE [row EXCEPT !.retry = b]

\* updateNode: the row and the node's runtime row in one transaction, which
\* commits nothing when the run is no longer active.
UpdateNode(s, n, v) ==
    IF row.state \in Active
    THEN /\ row' = [row EXCEPT !.state = s, !.node = n, !.visit = v]
         /\ runtimes' = [runtimes EXCEPT ![n].visit = v]
    ELSE UNCHANGED <<row, runtimes>>

-----------------------------------------------------------------------------
(* relay_node_runtime and relay_processed_reports *)

UpdateNodeRuntimeVisit(n, v) == runtimes' = [runtimes EXCEPT ![n].visit = v]

NodeRuntimeVisitIsCurrent(n, v) == runtimes[n].visit = v

\* replaceNodeRuntime: an error to the caller unless v is the bound visit.
ReplaceNodeRuntime(n, v, t) ==
    /\ NodeRuntimeVisitIsCurrent(n, v)
    /\ runtimes' = [runtimes EXCEPT ![n].term = t]

ClearNodeRuntime(ns, clearTerminal) ==
    runtimes' = [n \in Nodes |->
                    IF clearTerminal /\ n \in ns
                    THEN [runtimes[n] EXCEPT !.term = 0] ELSE runtimes[n]]

RecordProcessedReport(r) == processed' = processed \cup {r}

-----------------------------------------------------------------------------
(* The projection on its own: its callers in any order. *)

\* The statements both engines make, and the embedded engine's cancellation.
EmbeddedNext ==
    \/ InsertStart /\ UNCHANGED <<runtimes, processed>>
    \/ \E s \in {"waiting", "blocked", "completed", "canceled"} :
          \E e \in {"none", "conflict"} :
             /\ row.state # "absent"
             /\ UpdateState(s, e)
             /\ UNCHANGED <<runtimes, processed>>
    \/ \E s \in Terminal : /\ UpdateStateIf("canceling", s, "none")
                           /\ UNCHANGED <<runtimes, processed>>
    \/ \E why \in Reasons \cup {"none"} :
          BeginCancellation(why) /\ UNCHANGED <<runtimes, processed>>
    \/ \E b \in BOOLEAN : UpdateRetry(b) /\ UNCHANGED <<runtimes, processed>>
    \/ \E n \in Nodes, v \in 1..MaxVisit :
          UpdateNode("running", n, v) /\ UNCHANGED processed
    \/ \E n \in Nodes, v \in 1..MaxVisit :
          UpdateNodeRuntimeVisit(n, v) /\ UNCHANGED <<row, processed>>
    \/ \E n \in Nodes, v \in 1..MaxVisit, t \in 1..MaxTerm :
          ReplaceNodeRuntime(n, v, t) /\ UNCHANGED <<row, processed>>
    \/ \E n \in Nodes, b \in BOOLEAN :
          ClearNodeRuntime({n}, b) /\ UNCHANGED <<row, processed>>
    \/ \E r \in ReportIds :
          RecordProcessedReport(r) /\ UNCHANGED <<row, runtimes>>

\* CancelRun of the Temporal engine: the reason is written by updateState, with
\* the cancellation and again with the outcome of a workflow found closed.
TemporalCancel ==
    /\ \E s \in Terminal \cup {"canceling"}, why \in Reasons \cup {"none"} :
          row.state # "absent" /\ UpdateState(s, why)
    /\ UNCHANGED <<runtimes, processed>>

ProjNext == EmbeddedNext \/ TemporalCancel

ProjSpec == ProjInit /\ [][ProjNext]_projVars

\* A server that runs the embedded engine.
EmbeddedSpec == ProjInit /\ [][EmbeddedNext]_projVars

-----------------------------------------------------------------------------
(* Whatever order its callers come in, a decided run stays decided: a      *)
(* terminal state is never left, and a recorded cancellation is only ever  *)
(* followed by a terminal state (the fence of updateStateCAS, updateNode   *)
(* and beginCancellation, which late workflow writes run into).            *)
DecisionsStand ==
    [][/\ row.state \in Terminal => row'.state = row.state
       /\ row.state = "canceling" => row'.state \in Terminal \cup {"canceling"}]_projVars

(* Under the embedded engine the reason of a pending cancellation is the   *)
(* operator's first one: neither a later cancel request nor a late blocked *)
(* or waiting write of the workflow replaces last_error before the run is  *)
(* decided (beginCancellation).  Temporal's CancelRun writes the reason by *)
(* updateState, whose fence admits a second one: it is excepted by         *)
(* EmbeddedSpec, and what is left of the promise there is ReasonAnnounced  *)
(* of RunTimeline.                                                         *)
FirstReasonStands ==
    [][row.state = "canceling" /\ row'.state = "canceling"
          => row'.err = row.err]_projVars

(* Position in the graph is frozen once cancellation is requested: the     *)
(* node and visit an operator sees for a canceling or terminal run are the *)
(* ones it was canceled or finished at.                                    *)
PositionFrozen ==
    [][row.state \notin Active \cup {"absent"}
          => row'.node = row.node /\ row'.visit = row.visit]_projVars
=============================================================================
