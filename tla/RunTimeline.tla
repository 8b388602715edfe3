----------------------------- MODULE RunTimeline ------------------------------
(***************************************************************************)
(* The step rows and session handles of one run attempt                    *)
(* (relay_run_steps and relay_node_sessions of                             *)
(* internal/execution/projection), written in the order in which           *)
(* TicketWorkflow schedules its projection activities, next to the run     *)
(* rows of RunProjection.  Beside the workflow: registering agents, a      *)
(* poll's EnsureRun, and operators in CancelRun, call by call.             *)
(*                                                                         *)
(* The same timeline is kept three times: in the table, in the workflow's  *)
(* memory (workflowState.steps), and in its history, from which            *)
(* restoreProjection rebuilds the table.  An activity attempt may time out *)
(* and still write afterwards; a failed step write is logged and dropped.  *)
(*                                                                         *)
(* An operator makes one CancelRun, and one who crashes or whose call      *)
(* fails stays where he is.  That loses nothing: until his reason is on    *)
(* record a second call starts where the first one is, and from then on    *)
(* it finds the row canceling, or decided, and returns.                    *)
(*                                                                         *)
(* Left out: timestamps, durations, messages, the tree columns, and every  *)
(* activity that writes no row, but for the conflict it may meet.          *)
(***************************************************************************)
EXTENDS RunProjection, FiniteSets

CONSTANTS
    EndNode,    \* the reserved node `end`
    Sessions,   \* the harness sessions agents may register
    NoSession,
    MaxStep,    \* bound on step sequences, the end step included
    MaxSlow     \* bound on attempts that time out or write nothing

ASSUME TimelineAssumption ==
    /\ EndNode \notin Nodes /\ NoSession \notin Sessions
    /\ MaxStep \in Nat /\ MaxStep >= 2    \* the start, a visit and the end
    /\ MaxSlow \in Nat

VARIABLES
    pc,         \* the activity scheduled next
    k,          \* sequence of the current step; a node's visit identity
    target,     \* the node being visited
    ctxDone,    \* the workflow context is canceled
    blocked,    \* retryActivity: blocked
    steps,      \* relay_run_steps
    mem,        \* workflowState.steps
    told,       \* what stepsFromHistory makes of the activities scheduled so far
    late,       \* a timed-out attempt that is still writing
    slow,       \* attempts that timed out or wrote nothing
    session,    \* relay_node_runtime.session_id
    bound,      \* relay_node_sessions: the visit a session belongs to; 0: no row
    prev,       \* EnsureNodeRuntime: the session it has read, or NoSession
    call,       \* how far each operator's CancelRun has got
    heard       \* the workflow's cancellationReason, "none" until it has one

rows     == <<row, runtimes, processed>>
sessVars == <<session, bound, prev>>
flow     == <<k, target, ctxDone, blocked>>
callVars == <<call, heard>>
vars == <<rows, pc, flow, steps, mem, told, late, slow, sessVars, callVars>>

\* One operator for each reason, and one who names none.
Callers  == Reasons \cup {"none"}
Stages   == {"idle", "found", "recorded", "told", "done"}

Open      == {"running", "waiting", "blocked"}
Finished  == {"succeeded", "failed", "canceled"}
Statuses  == {"none"} \cup Open \cup Finished
Sequences0 == 0..MaxStep
Tables    == [Sequences0 -> Statuses]
Empty     == [i \in Sequences0 |-> "none"]
Visiting  == {"open", "visit", "launch", "bind", "node", "waiting", "wait", "close", "next"}
Pcs       == Visiting \cup {"startOpen", "startDone", "endOpen", "endDone", "completed",
                            "clear", "canceled", "closed"}
NoWrite   == [op |-> "none", k |-> 0, s |-> "none"]

TypeOK ==
    /\ ProjTypeOK
    /\ pc \in Pcs /\ k \in Sequences0 /\ target \in Nodes \cup {EndNode}
    /\ {ctxDone, blocked} \subseteq BOOLEAN
    /\ {steps, mem, told} \subseteq Tables
    /\ late \in [op : {"none", "step", "node", "state", "lookup", "derive"},
                 k : Sequences0, s : Statuses \cup States \cup Nodes]
    /\ slow \in 0..MaxSlow
    /\ session \in [Nodes -> Sessions \cup {NoSession}]
    /\ bound \in [Nodes -> [Sessions -> Nat]]
    /\ prev \in Sessions \cup {NoSession}
    /\ call \in [Callers -> Stages] /\ heard \in Callers

Init ==
    /\ ProjInit
    /\ pc = "startOpen" /\ k = 0 /\ target \in Nodes
    /\ ctxDone = FALSE /\ blocked = FALSE
    /\ steps = Empty /\ mem = Empty /\ told = Empty
    /\ late = NoWrite /\ slow = 0
    /\ session = [n \in Nodes |-> NoSession]
    /\ bound = [n \in Nodes |-> [x \in Sessions |-> 0]]
    /\ prev = NoSession
    /\ call = [why \in Callers |-> "idle"] /\ heard = "none"

-----------------------------------------------------------------------------
(* Step tables *)

Rank(s) ==
    CASE s = "running" -> 1
      [] s = "waiting" -> 2
      [] s = "blocked" -> 3
      [] s \in Finished -> 4
      [] OTHER -> 0

\* The status CASE of upsertStep, and mergeTemporalStep.
Merged(old, new) == IF old \in Finished \/ Rank(new) < Rank(old) THEN old ELSE new

OpenSteps(tbl) == {i \in Sequences0 : tbl[i] \in Open}
Latest(tbl)    == CHOOSE i \in OpenSteps(tbl) : \A j \in OpenSteps(tbl) : j <= i

SetLatest(tbl, s) ==
    IF OpenSteps(tbl) = {} THEN tbl ELSE [tbl EXCEPT ![Latest(tbl)] = s]

\* stepStatusForRunState; "none" when the state has no step status.
StepStatus(s) ==
    CASE s \in {"running", "waiting", "blocked", "canceled"} -> s
      [] s = "completed" -> "succeeded"
      [] OTHER -> "none"

\* updateStateCAS on the step rows, once the run row has taken state s.
Derived(tbl, s) == IF StepStatus(s) = "none" THEN tbl ELSE SetLatest(tbl, StepStatus(s))

\* applyTemporalProjectionState
FromHistory(tbl, s) ==
    CASE s \in {"waiting", "blocked"} -> SetLatest(tbl, s)
      [] s \in {"canceled", "canceling"} -> SetLatest(tbl, "canceled")
      [] OTHER -> tbl

-----------------------------------------------------------------------------
(* The workflow's projection activities *)

At(p) == pc = p /\ ~ctxDone

\* Timed out before it wrote: the same activity is scheduled again, and this
\* attempt may write later.  Also an activity that is scheduled and never run,
\* because the workflow was canceled first.
TimesOut(op, i, s) ==
    /\ slow < MaxSlow /\ slow' = slow + 1 /\ late = NoWrite
    /\ late' = [op |-> op, k |-> i, s |-> s]
    /\ UNCHANGED <<pc, steps, mem>>

\* ProjectionUpsertStep: an error of the write is not one of the activity.
UpsertStep(i, s, next) ==
    /\ told' = [told EXCEPT ![i] = Merged(@, s)]
    /\ \/ /\ steps' = [steps EXCEPT ![i] = Merged(@, s)]
          /\ mem' = [mem EXCEPT ![i] = s] /\ pc' = next
          /\ UNCHANGED <<late, slow>>
       \/ /\ slow < MaxSlow /\ slow' = slow + 1
          /\ mem' = [mem EXCEPT ![i] = s] /\ pc' = next
          /\ UNCHANGED <<late, steps>>
       \/ TimesOut("step", i, s)
    /\ UNCHANGED rows

\* ProjectionUpdateState, with what the workflow then remembers of its steps.
WriteState(s, e, memory, next) ==
    /\ told' = FromHistory(told, s)
    /\ \/ /\ UpdateState(s, e)
          /\ steps' = IF Fenced(s) THEN steps ELSE Derived(steps, s)
          /\ mem' = memory /\ pc' = next
          /\ UNCHANGED <<late, slow>>
       \/ TimesOut("state", 0, s) /\ UNCHANGED row
    /\ UNCHANGED <<runtimes, processed>>

OpenStart ==
    /\ At("startOpen") /\ row.state # "absent"
    /\ UpsertStep(0, "running", "startDone")
    /\ UNCHANGED <<flow, sessVars>>

CloseStart ==
    /\ At("startDone") /\ ~blocked
    /\ UpsertStep(0, "succeeded", "open")
    /\ k' = IF pc' = "open" THEN 1 ELSE k
    /\ UNCHANGED <<target, ctxDone, blocked, sessVars>>

OpenVisit ==
    /\ At("open") /\ UpsertStep(k, "running", "visit")
    /\ UNCHANGED <<flow, sessVars>>

BindVisit ==
    /\ At("visit") /\ UpdateNodeRuntimeVisit(target, k)
    /\ pc' = "launch"
    /\ UNCHANGED <<row, processed, flow, steps, mem, told, late, slow, sessVars>>

\* EnsureNodeRuntime reads the handles, and may start an agent ...
Launch ==
    /\ At("launch") /\ ~blocked /\ NodeRuntimeVisitIsCurrent(target, k)
    /\ prev' = session[target]
    /\ pc' = "bind"
    /\ UNCHANGED <<rows, flow, steps, mem, told, late, slow, session, bound>>

\* Mutant: the session column is written unconditionally.
SessionOverwritten == [session EXCEPT ![target] = prev]

\* The session CASE of replaceNodeRuntime, called with the session it has read
\* as the previous and as the new one.
SessionKept == [session EXCEPT ![target] = IF @ = prev THEN prev ELSE @]

\* ... and ReplaceNodeRuntime stores its terminal.
StoreHandle ==
    /\ pc = "bind"
    /\ ReplaceNodeRuntime(target, k, 1)
    /\ session' = SessionKept /\ prev' = NoSession
    /\ pc' = "node"
    /\ UNCHANGED <<row, processed, flow, steps, mem, told, late, slow, bound>>

PublishNode ==
    /\ At("node")
    /\ \/ /\ UpdateNode("running", target, k) /\ pc' = "waiting"
          /\ UNCHANGED <<steps, mem, late, slow>>
       \/ TimesOut("node", k, target) /\ UNCHANGED <<row, runtimes>>
    /\ UNCHANGED <<processed, flow, told, sessVars>>

PublishWaiting ==
    /\ At("waiting") /\ WriteState("waiting", "none", SetLatest(mem, "waiting"), "wait")
    /\ UNCHANGED <<flow, sessVars>>

TakeReport ==
    /\ At("wait") /\ pc' = "close"
    /\ UNCHANGED <<rows, flow, steps, mem, told, late, slow, sessVars>>

CloseVisit ==
    /\ At("close")
    /\ \E s \in {"succeeded", "failed"} : UpsertStep(k, s, "next")
    /\ UNCHANGED <<flow, sessVars>>

\* CheckpointNodeRuntime, and on to the next node; a bound keeps a step for end.
NextVisit ==
    /\ At("next") /\ ~blocked
    /\ k' = k + 1
    /\ \E n \in Nodes \cup {EndNode} :
          /\ n # EndNode => k + 1 < MaxStep
          /\ target' = n /\ pc' = IF n = EndNode THEN "endOpen" ELSE "open"
    /\ \E clearTerminal, clearSession \in BOOLEAN :
          /\ clearSession => clearTerminal
          /\ ClearNodeRuntime({target}, clearTerminal)
          /\ session' = IF clearSession THEN [session EXCEPT ![target] = NoSession] ELSE session
    /\ UNCHANGED <<row, processed, ctxDone, blocked, steps, mem, told, late, slow, bound, prev>>

OpenEnd ==
    /\ At("endOpen") /\ UpsertStep(k, "running", "endDone")
    /\ UNCHANGED <<flow, sessVars>>

CloseEnd ==
    /\ At("endDone") /\ ~blocked /\ UpsertStep(k, "succeeded", "completed")
    /\ UNCHANGED <<flow, sessVars>>

Complete ==
    /\ At("completed") /\ WriteState("completed", "none", mem, "closed")
    /\ UNCHANGED <<flow, sessVars>>

\* A task-system conflict inside a node, or before the start or end step closes.
Block ==
    /\ \E p \in {"startDone", "launch", "next", "endDone"} : At(p)
    /\ ~blocked /\ blocked' = TRUE
    /\ mem' = SetLatest(mem, "blocked")
    /\ told' = FromHistory(told, "blocked")
    /\ UpdateState("blocked", "conflict")
    /\ steps' = IF Fenced("blocked") THEN steps ELSE Derived(steps, "blocked")
    /\ UNCHANGED <<runtimes, processed, pc, k, target, ctxDone, late, slow, sessVars>>

Unblock ==
    /\ blocked /\ ~ctxDone
    /\ WriteState("waiting", "none", SetLatest(mem, "waiting"), pc)
    /\ blocked' = (blocked /\ late' # late)
    /\ UNCHANGED <<k, target, ctxDone, sessVars>>

\* The next activity is not scheduled once the context is canceled.
Abandon ==
    /\ ctxDone /\ pc \in Pcs \ {"bind", "clear", "canceled", "closed"}
    /\ pc' = "clear" /\ blocked' = FALSE
    /\ UNCHANGED <<rows, k, target, ctxDone, steps, mem, told, late, slow, sessVars>>

ClearCanceled ==
    /\ pc = "clear" /\ pc' = "canceled"
    /\ ClearNodeRuntime(Nodes, TRUE)
    /\ \E clearSession \in BOOLEAN :
          session' = IF clearSession THEN [n \in Nodes |-> NoSession] ELSE session
    /\ UNCHANGED <<row, processed, flow, steps, mem, told, late, slow, bound, prev>>

WriteCanceled ==
    /\ pc = "canceled" /\ WriteState("canceled", "none", mem, "closed")
    /\ UNCHANGED <<flow, sessVars>>

Workflow ==
    \/ OpenStart \/ CloseStart \/ OpenVisit \/ BindVisit \/ Launch \/ StoreHandle
    \/ PublishNode \/ PublishWaiting \/ TakeReport \/ CloseVisit \/ NextVisit
    \/ OpenEnd \/ CloseEnd \/ Complete \/ Block \/ Unblock
    \/ Abandon \/ ClearCanceled \/ WriteCanceled

-----------------------------------------------------------------------------
(* Timed-out attempts, statement by statement *)

LateFrame == UNCHANGED <<processed, pc, flow, mem, told, slow, sessVars>>

LateRow ==
    /\ \/ /\ late.op = "step" /\ late' = NoWrite
          /\ steps' = [steps EXCEPT ![late.k] = Merged(@, late.s)]
          /\ UNCHANGED <<row, runtimes>>
       \/ /\ late.op = "node" /\ late' = NoWrite
          /\ UpdateNode("running", late.s, late.k) /\ UNCHANGED steps
       \/ /\ late.op = "state" /\ UpdateState(late.s, "none")
          /\ late' = IF Fenced(late.s) \/ StepStatus(late.s) = "none"
                     THEN NoWrite ELSE [late EXCEPT !.op = "lookup"]
          /\ UNCHANGED <<runtimes, steps>>
    /\ LateFrame

LateLookup ==
    /\ late.op = "lookup"
    /\ late' = IF OpenSteps(steps) = {} THEN NoWrite
               ELSE [late EXCEPT !.op = "derive", !.k = Latest(steps)]
    /\ UNCHANGED <<row, runtimes, steps>> /\ LateFrame

\* Mutant: the step found by the lookup is updated whatever it has become.
DeriveAnyway ==
    /\ late.op = "derive" /\ late' = NoWrite
    /\ steps' = [steps EXCEPT ![late.k] = StepStatus(late.s)]
    /\ UNCHANGED <<row, runtimes>> /\ LateFrame

\* The UPDATE matches open steps only.
LateDerive ==
    /\ late.op = "derive" /\ late' = NoWrite
    /\ steps' = [steps EXCEPT ![late.k] = IF @ \in Open THEN StepStatus(late.s) ELSE @]
    /\ UNCHANGED <<row, runtimes>> /\ LateFrame

-----------------------------------------------------------------------------
(* Callers next to the workflow *)

Beside == UNCHANGED <<pc, mem, told, late, slow>>

Insert ==
    /\ row.state = "absent" /\ InsertStart
    /\ UNCHANGED <<runtimes, processed, flow, steps, sessVars, callVars>> /\ Beside

\* What Temporal says of a closed workflow.
Outcome == IF ctxDone THEN "canceled" ELSE "completed"

\* UpdateState with that, on the row and on its open step.
WriteOutcome(e) ==
    /\ UpdateState(Outcome, e)
    /\ steps' = IF Fenced(Outcome) THEN steps ELSE Derived(steps, Outcome)

\* CancelRun: an operator's call finds the run undecided, ...
FindActive(why) ==
    /\ call[why] = "idle" /\ row.state \in Active
    /\ call' = [call EXCEPT ![why] = "found"]
    /\ UNCHANGED <<rows, flow, steps, sessVars, heard>> /\ Beside

\* ... puts the cancellation on record, over another's reason and without
\* effect on a decided run, ...
RecordReason(why) ==
    /\ call[why] = "found" /\ UpdateState("canceling", why)
    /\ call' = [call EXCEPT ![why] = "recorded"]
    /\ UNCHANGED <<runtimes, processed, flow, steps, sessVars, heard>> /\ Beside

\* ... or finds the workflow closed and writes its outcome, at either of its
\* next two calls.
FindClosed(why) ==
    /\ call[why] \in {"recorded", "told"} /\ pc = "closed"
    /\ WriteOutcome(why)
    /\ call' = [call EXCEPT ![why] = "done"]
    /\ UNCHANGED <<runtimes, processed, flow, sessVars, heard>> /\ Beside

\* ... sends the workflow the reason, which counts when it is not empty and
\* comes before the cleanup starts, ...
SignalReason(why) ==
    /\ call[why] = "recorded" /\ pc # "closed"
    /\ heard' = IF why # "none" /\ pc \notin {"clear", "canceled"} THEN why ELSE heard
    /\ call' = [call EXCEPT ![why] = "told"]
    /\ UNCHANGED <<rows, flow, steps, sessVars>> /\ Beside

\* Mutant: cancellation is requested first, the reason signaled afterwards.
RequestCancelFirst(why) ==
    /\ call[why] = "recorded" /\ pc # "closed"
    /\ ctxDone' = TRUE
    /\ call' = [call EXCEPT ![why] = "told"]
    /\ UNCHANGED <<rows, k, target, blocked, steps, sessVars, heard>> /\ Beside

\* ... and requests its cancellation.
RequestCancel(why) ==
    /\ call[why] = "told" /\ pc # "closed"
    /\ ctxDone' = TRUE
    /\ call' = [call EXCEPT ![why] = "done"]
    /\ UNCHANGED <<rows, k, target, blocked, steps, sessVars, heard>> /\ Beside

\* EnsureRun of a poll: the row was undecided when it was read, as every row
\* once was, and the workflow turns out closed.  Its outcome is written, which
\* a recorded cancellation bars when it is completion.
Reconcile ==
    /\ pc = "closed" /\ row.state # "absent"
    /\ WriteOutcome("none")
    /\ UNCHANGED <<runtimes, processed, flow, sessVars, callVars>> /\ Beside

\* registerNodeSession, called by the plugin of any agent of the run.
Register(n, x) ==
    /\ runtimes[n].visit # 0
    /\ LET first == bound[n][x] = 0
           visit == IF first THEN runtimes[n].visit ELSE bound[n][x]
       IN /\ bound' = [bound EXCEPT ![n][x] = visit]
          /\ session' = IF visit = runtimes[n].visit THEN [session EXCEPT ![n] = x] ELSE session
    /\ UNCHANGED <<rows, flow, steps, prev, callVars>> /\ Beside

Operator ==
    \E why \in Callers :
       FindActive(why) \/ RecordReason(why) \/ FindClosed(why)
       \/ SignalReason(why) \/ RequestCancel(why)

Next ==
    \/ Workflow /\ UNCHANGED callVars
    \/ (LateRow \/ LateLookup \/ LateDerive) /\ UNCHANGED callVars
    \/ Insert \/ Operator \/ Reconcile
    \/ \E n \in Nodes, x \in Sessions : Register(n, x)

Spec == Init /\ [][Next]_vars

-----------------------------------------------------------------------------
(* Rebuilding *)

\* Mutant: the state is restored before the steps it applies to.
RebuiltStateFirst(tbl) ==
    LET decided == Derived(Empty, Outcome) IN [i \in Sequences0 |-> Merged(decided[i], tbl[i])]

\* restoreProjection of the closed run: the steps of the query's answer, or of
\* history, followed by the update of the state.
Rebuilt(tbl) ==
    Derived([i \in Sequences0 |-> Merged("none", tbl[i])], Outcome)

(* A finished step keeps its outcome: no retry of an earlier write, no     *)
(* timed-out attempt that writes between another's statements, and no      *)
(* decision about the run reopens or rewrites a step that has succeeded,   *)
(* failed or been canceled (the CASE of upsertStep, and the two statements *)
(* of updateStateCAS).                                                     *)
FinishedStepsStand ==
    [][\A i \in Sequences0 : steps[i] \in Finished => steps'[i] = steps[i]]_vars

(* Losing the database loses no step: when every attempt has written, the  *)
(* timeline rebuilt from Temporal for a closed run is the one the table    *)
(* had, whether the workflow still answers the query or only its history   *)
(* is left, wherever it was canceled or blocked (upsertStep,               *)
(* updateLatestStep and stepsFromHistory derive it independently).         *)
RebuiltTimelineAgrees ==
    pc = "closed" /\ slow = 0 /\ row.state \in Terminal
       => Rebuilt(mem) = steps /\ Rebuilt(told) = steps

(* A run is canceled for a reason somebody gave: what the row shows while  *)
(* the cancellation is pending, and what the workflow announces when it    *)
(* cleans up, are reasons operators had put on record, never a conflict's, *)
(* and the default text only where an operator gave none, however several  *)
(* operators' calls interleave with each other, fail half-way, or meet     *)
(* late writes (CancelRun, which may replace one operator's reason by      *)
(* another's, and cancelReasonCh).                                         *)
Given == {why \in Callers : call[why] \notin {"idle", "found"}}

ReasonAnnounced ==
    /\ row.state = "canceling" => row.err \in Given
    /\ pc \in {"clear", "canceled"} => heard \in Given

(* A registered session is what the node resumes with: storing the handle  *)
(* of a new terminal does not undo the registration its agent made before  *)
(* the handle was stored, and a session is only ever replaced by one that  *)
(* belongs to the visit the node is at, or cleared by the session policy.  *)
RegisteredSessionStands ==
    [][\A n \in Nodes : session'[n] # session[n]
          => \/ session'[n] = NoSession /\ pc \in {"next", "clear"}
             \/ session'[n] \in Sessions /\ bound'[n][session'[n]] = runtimes[n].visit]_vars
===============================================================================
