------------------------------ MODULE TicketRun -------------------------------
(***************************************************************************)
(* One run attempt of one ticket under the embedded executor               *)
(* (internal/execution/goworkflows): the durable interpreter               *)
(* TicketWorkflow, the projection it writes, the engine calls that race    *)
(* with it (EnsureRun, SubmitReport, CancelRun, startup reconciliation),   *)
(* the agents in their terminals and the task system.                      *)
(*                                                                         *)
(* Durable state survives Crash; what a request handler holds does not.    *)
(* The interpreter is replayed from its history, so its locals are         *)
(* durable too.  An activity runs at least once: Lost is a server that     *)
(* dies after the effect and before the result is recorded.  The           *)
(* go-workflows library itself (instances, pending events, history) is     *)
(* modelled from how engine.go uses it.                                    *)
(*                                                                         *)
(* Left out: step rows of the timeline, which swallow their own errors and *)
(* steer nothing; harness sessions; prompt and comment texts.              *)
(***************************************************************************)
EXTENDS RunProjection, Sequences, FiniteSets

CONSTANTS
    EndNode,        \* the reserved node `end`
    StartTarget,    \* start.onSuccess
    Legal,          \* Legal[n]: every target of n's onSuccess and onFailure
    KeepTerminals,  \* machine policy keepTerminalsAlive
    CleanupOnEnd,   \* workflow cleanupRunnerOnEnd
    IsRestart,      \* AttemptID > 1
    RecoverByTitle, \* does the runner's EnsureTerminal look for a lost create
    MaxExecs,       \* bound on executions created for this run
    Scenarios       \* bounds on the faults that may strike together, by kind

FaultKinds == {"fail", "crash", "death", "db"}

ASSUME GraphAssumption ==
    /\ EndNode \notin Nodes /\ EndNode # NoNode
    /\ StartTarget \in Nodes
    /\ Legal \in [Nodes -> SUBSET (Nodes \cup {EndNode})]
ASSUME SwitchAssumption ==
    {KeepTerminals, CleanupOnEnd, IsRestart, RecoverByTitle} \subseteq BOOLEAN
ASSUME FaultAssumption == MaxExecs \in Nat /\ Scenarios \subseteq [FaultKinds -> Nat]

VARIABLES
    (* the durable execution of this run id *)
    inst,       \* newest instance: "none", "active" or "finished"
    execs,      \* executions created so far
    cancelReq,  \* a cancellation event is pending or in history
    ctxDone,    \* the workflow has taken it: ctx.Err() # nil
    raced,      \* some execution was created for a run no longer active
    (* interpreter locals *)
    pc,         \* the activity being awaited, or "wait" or "done"
    phase,      \* where retryLoop is around it
    tries,      \* retryLoop: attempt > 0
    blocked,    \* retryLoop: blocked
    cur, visit, lastVisit,
    seen,       \* seenReportIDs
    rep,        \* the report being carried out
    loaded,     \* visit returned by LoadNodeRuntime
    fresh,      \* EnsureNodeRuntime: the terminal made and not yet bound
    why,        \* reason returned by LoadCancellationReason
    taken,      \* history: every report the interpreter accepted
    (* pending signals *)
    sigs, reconcile,
    (* task system and runner *)
    mailbox, parent, comments, cancelText, terms,
    (* agents' reports and the requests and handlers in flight *)
    msg, req, en, cx,
    faults      \* faults so far, by kind

execVars  == <<execs, cancelReq, ctxDone, raced>>
loopVars  == <<inst, pc, phase, tries, blocked, cur, visit, lastVisit>>
dataVars  == <<seen, rep, loaded, fresh, why, taken>>
wfVars    == <<loopVars, dataVars>>
sigVars   == <<sigs, reconcile>>
taskVars  == <<mailbox, parent, comments, cancelText>>
extVars   == <<taskVars, terms>>
callVars  == <<msg, req, en, cx>>
vars == <<projVars, execVars, wfVars, sigVars, extVars, callVars, faults>>

CancelPcs == {"reason", "cFinalize", "cComment", "cState"}
PlainPcs  == {"validate", "envStart", "envNode", "envEnd"}
SetupPcs  == {"loadRuntime", "publishVisit", "applyNode", "envNode", "launch",
              "publishNode", "waiting"}
TransitionPcs == {"record", "summary", "feedback", "complete", "checkpoint"}
ActivityPcs ==
    CancelPcs \cup PlainPcs \cup (SetupPcs \ {"launch"}) \cup TransitionPcs \cup
    {"mailboxes", "prepare", "applyStart", "applyEnd", "cleanup", "finalize",
     "completed"}
LaunchPcs   == {"launch", "reconcile"}
ConflictPcs == {"prepare", "applyStart", "applyNode", "complete", "applyEnd"}
Pcs == ActivityPcs \cup LaunchPcs \cup {"wait", "done"}
Phases == {"call", "again", "bind", "block", "note", "timer", "clear", "unblock"}

NoReport == [id |-> "none", next |-> NoNode]
Targets  == Nodes \cup {EndNode}
Signals  == [id : ReportIds, node : Nodes, visit : Nat, next : Targets, meant : Nat]
Reported == [id : ReportIds, next : Targets]
Taken    == [exec : Nat, id : ReportIds, node : Nodes, visit : Nat,
             next : Targets, meant : Nat]
Terminals == [node : Nodes, live : BOOLEAN, visit : Nat]
Messages == [st : {"unsent", "sending", "accepted", "duplicate", "rejected"},
             node : Nodes \cup {NoNode}, meant : Nat, next : Targets \cup {NoNode}]
IdleReq  == [st |-> "idle", visit |-> 0]
IdlePoll == [st |-> "idle", node |-> NoNode]
IdleCancel == [st |-> "idle", why |-> "none"]

ExecTypeOK ==
    /\ execs \in 0..MaxExecs
    /\ cancelReq \in BOOLEAN /\ ctxDone \in BOOLEAN /\ raced \in BOOLEAN
LoopTypeOK ==
    /\ inst \in {"none", "active", "finished"}
    /\ pc \in Pcs /\ phase \in Phases /\ tries \in BOOLEAN /\ blocked \in BOOLEAN
    /\ cur \in Nodes \cup {NoNode} /\ visit \in Nat /\ lastVisit \in Nat
DataTypeOK ==
    /\ seen \subseteq ReportIds
    /\ rep \in Reported \cup {NoReport}
    /\ loaded \in Nat /\ fresh \in Nat /\ why \in Errors
    /\ taken \subseteq Taken
SigTypeOK ==
    sigs \in Seq(Signals) /\ reconcile \in BOOLEAN
TaskTypeOK ==
    /\ mailbox \in [Nodes -> {"absent", "open", "active", "done"}]
    /\ parent \in [started : BOOLEAN, ended : BOOLEAN]
    /\ comments \subseteq {"summary", "feedback"} \X Nat
    /\ cancelText \in Errors
TermTypeOK ==
    terms \in Seq(Terminals)
CallTypeOK ==
    /\ msg \in [ReportIds -> Messages]
    /\ req \in [ReportIds -> [st : {"idle", "read", "checked"}, visit : Nat]]
    /\ en \in [st : {"idle", "check", "create"}, node : Nodes \cup {NoNode}]
    /\ cx \in [st : {"idle", "request", "finalize", "comment", "write", "complete"},
               why : Errors]
    /\ \A r \in ReportIds :
          /\ msg[r].st # "unsent" => msg[r].node \in Nodes /\ msg[r].next \in Targets
          /\ req[r].st # "idle" => msg[r].st = "sending"
FaultTypeOK ==
    faults \in [FaultKinds -> Nat]

TypeOK ==
    /\ ProjTypeOK /\ ExecTypeOK /\ LoopTypeOK /\ DataTypeOK /\ SigTypeOK
    /\ TaskTypeOK /\ TermTypeOK /\ CallTypeOK /\ FaultTypeOK

Init ==
    /\ ProjInit
    /\ inst = "none" /\ execs = 0
    /\ cancelReq = FALSE /\ ctxDone = FALSE /\ raced = FALSE
    /\ pc = "done" /\ phase = "call" /\ tries = FALSE /\ blocked = FALSE
    /\ cur = NoNode /\ visit = 0 /\ lastVisit = 0
    /\ seen = {} /\ rep = NoReport /\ loaded = 0 /\ fresh = 0
    /\ why = "none" /\ taken = {}
    /\ sigs = <<>> /\ reconcile = FALSE
    /\ mailbox = [n \in Nodes |-> IF IsRestart THEN "done" ELSE "absent"]
    /\ parent = [started |-> FALSE, ended |-> FALSE]
    /\ comments = {}
    \* attempts share the marker of the cancellation comment
    /\ cancelText \in IF IsRestart THEN Reasons ELSE {"none"}
    \* a previous attempt may have left one terminal behind
    /\ terms = IF IsRestart
               THEN << [node |-> StartTarget, live |-> TRUE, visit |-> 0] >> ELSE <<>>
    /\ msg = [r \in ReportIds |-> [st |-> "unsent", node |-> NoNode, meant |-> 0,
                                   next |-> NoNode]]
    /\ req = [r \in ReportIds |-> IdleReq]
    /\ en = IdlePoll /\ cx = IdleCancel
    /\ faults = [k \in FaultKinds |-> 0]

-----------------------------------------------------------------------------
(* Moving through runGraph and cancelCleanup *)

Spend(kind) ==
    /\ faults' = [faults EXCEPT ![kind] = @ + 1]
    /\ \E s \in Scenarios : \A k \in FaultKinds : faults'[k] <= s[k]

\* ctx.Err() as the code under way sees it: cancelCleanup is disconnected.
CancelSeen == ctxDone /\ pc \notin CancelPcs

Placed == UNCHANGED <<cur, visit, lastVisit>>

Begin(p) == pc' = p /\ phase' = "call" /\ tries' = FALSE /\ blocked' = FALSE

Goto(p) == Begin(p) /\ Placed /\ UNCHANGED inst

Phase(ph) == phase' = ph /\ Placed /\ UNCHANGED <<pc, tries, blocked, inst>>

\* Mutant: one visit identity for the whole execution.
EnterAgain(n) ==
    /\ Begin("loadRuntime")
    /\ cur' = n /\ visit' = 1 /\ lastVisit' = lastVisit + 1
    /\ UNCHANGED inst

\* One fresh visit identity per node entry.
Enter(n) ==
    /\ Begin("loadRuntime")
    /\ cur' = n /\ visit' = lastVisit + 1 /\ lastVisit' = lastVisit + 1
    /\ UNCHANGED inst

Finish == Begin("done") /\ Placed /\ inst' = "finished"

After ==
    [mailboxes    |-> IF IsRestart THEN "prepare" ELSE "validate",
     prepare      |-> "validate",
     validate     |-> "applyStart",
     applyStart   |-> "envStart",
     loadRuntime  |-> "publishVisit",
     publishVisit |-> "applyNode",
     applyNode    |-> "envNode",
     envNode      |-> "launch",
     launch       |-> "publishNode",
     publishNode  |-> "waiting",
     waiting      |-> "wait",
     reconcile    |-> "wait",
     record       |-> "summary",
     summary      |-> IF rep.next = EndNode THEN "complete" ELSE "feedback",
     feedback     |-> "complete",
     complete     |-> "checkpoint",
     applyEnd     |-> "envEnd",
     envEnd       |-> IF CleanupOnEnd THEN "cleanup" ELSE "finalize",
     cleanup      |-> "finalize",
     finalize     |-> "completed",
     reason       |-> "cFinalize",
     cFinalize    |-> "cComment",
     cComment     |-> "cState"]

\* retryLoop returned a result: the next loop starts, or finds ctx canceled.
Continue ==
    \/ CancelSeen /\ pc # "completed" /\ Goto("reason")
    \/ /\ ~CancelSeen
       /\ \/ pc \in DOMAIN After /\ Goto(After[pc])
          \/ pc = "envStart" /\ Enter(StartTarget)
          \/ pc = "checkpoint" /\ rep.next # EndNode /\ Enter(rep.next)
          \/ pc = "checkpoint" /\ rep.next = EndNode /\ Goto("applyEnd")
    \/ pc \in {"completed", "cState"} /\ Finish

\* retryLoop returned an error.
Abandon ==
    \/ CancelSeen /\ Goto("reason")
    \/ ~CancelSeen /\ pc = "reconcile" /\ Goto("wait")
    \/ ~CancelSeen /\ pc # "reconcile" /\ Finish

Running == inst = "active" /\ pc \notin {"wait", "done"}
Act(p)  == Running /\ pc = p /\ phase \in {"call", "again"}

\* The activity's result is in history.  After a retry the schedule is
\* cleared first, which a canceled ctx refuses.
Recorded ==
    \/ ~tries /\ Continue
    \/ tries /\ CancelSeen /\ Goto("reason")
    \/ tries /\ ~CancelSeen /\ Phase("clear")

\* What a server restart wipes; Start resubmits recorded cancellations.
Restarted ==
    /\ req' = [r \in ReportIds |-> IdleReq]
    /\ en' = IdlePoll
    /\ cx' = IF row'.state = "canceling"
             THEN [st |-> "request", why |-> row'.err] ELSE IdleCancel
    /\ UNCHANGED msg

\* The activity returned an error.
Failed ==
    \/ CancelSeen /\ Goto("reason")
    \/ ~CancelSeen /\ Phase("note")

\* The activity had its effect.  Its server may die before the result is
\* recorded, or the answer be lost, so that it counts as failed.
Done ==
    \/ Recorded /\ UNCHANGED <<callVars, faults>>
    \/ Spend("crash") /\ Restarted /\ Phase("again")
    \/ Spend("fail") /\ Failed /\ UNCHANGED callVars

-----------------------------------------------------------------------------
(* Activities: one action each, the whole effect of the activity *)

\* ValidateAgents, EnsureEnvironment, SetEnvironmentStatus: no state here.
PlainActivity ==
    /\ \E p \in PlainPcs : Act(p)
    /\ Recorded
    /\ UNCHANGED <<projVars, execVars, dataVars, sigVars, extVars, callVars, faults>>

TaskFrame == UNCHANGED <<projVars, execVars, dataVars, sigVars>>
ProjFrame == UNCHANGED <<execVars, dataVars, sigVars, taskVars>>

EnsureMailboxes ==
    /\ Act("mailboxes")
    /\ mailbox' = [n \in Nodes |-> IF mailbox[n] = "absent" THEN "open" ELSE mailbox[n]]
    /\ TaskFrame
    /\ UNCHANGED <<parent, comments, cancelText, terms>>
    /\ Done

Closed(S) == [t \in DOMAIN terms |->
                 IF t \in S THEN [terms[t] EXCEPT !.live = FALSE] ELSE terms[t]]

PrepareRestart ==
    /\ Act("prepare")
    /\ mailbox' = [n \in Nodes |-> "open"]
    /\ terms' = Closed(DOMAIN terms)
    /\ TaskFrame
    /\ UNCHANGED <<parent, comments, cancelText>>
    /\ Done

ApplyTaskConfig ==
    /\ \/ /\ Act("applyStart")
          /\ parent' = [parent EXCEPT !.started = TRUE] /\ UNCHANGED mailbox
       \/ /\ Act("applyNode")
          /\ mailbox' = [mailbox EXCEPT ![cur] = "active"] /\ UNCHANGED parent
       \/ /\ Act("applyEnd")
          /\ parent' = [parent EXCEPT !.ended = TRUE] /\ UNCHANGED mailbox
    /\ TaskFrame
    /\ UNCHANGED <<comments, cancelText, terms>>
    /\ Done

\* The marker <visit>:summary or <visit>:feedback makes a repeat a no-op.
Comment ==
    /\ \E kind \in {"summary", "feedback"} :
          Act(kind) /\ comments' = comments \cup {<<kind, visit>>}
    /\ TaskFrame
    /\ UNCHANGED <<mailbox, parent, cancelText, terms>>
    /\ Done

CompleteMailbox ==
    /\ Act("complete")
    /\ mailbox' = [mailbox EXCEPT ![cur] = "done"]
    /\ TaskFrame
    /\ UNCHANGED <<parent, comments, cancelText, terms>>
    /\ Done

\* The run's cancellation marker admits one comment.
CancelComment(text) ==
    /\ cancelText' = IF cancelText = "none" THEN text ELSE cancelText
    /\ UNCHANGED <<mailbox, parent, comments>>

CommentCancellation ==
    /\ Act("cComment")
    /\ CancelComment(why)
    /\ TaskFrame
    /\ UNCHANGED terms
    /\ Done

\* Mutant: the rows are cleared before the handles are read from them.
ReclaimForgetting(ns, keep) ==
    IF keep THEN UNCHANGED <<terms, projVars>>
    ELSE ClearNodeRuntime(ns, TRUE) /\ UNCHANGED <<terms, row, processed>>

\* Close the terminals bound to ns and forget them, unless they are kept.
Reclaim(ns, keep) ==
    IF keep THEN UNCHANGED <<terms, projVars>>
    ELSE /\ terms' = Closed({runtimes[n].term : n \in ns})
         /\ ClearNodeRuntime(ns, TRUE)
         /\ UNCHANGED <<row, processed>>

CheckpointNodeRuntime ==
    /\ Act("checkpoint")
    /\ Reclaim({cur}, KeepTerminals)
    /\ ProjFrame
    /\ Done

FinalizeNodeRuntimes ==
    /\ \/ Act("finalize") /\ Reclaim(Nodes, KeepTerminals /\ ~CleanupOnEnd)
       \/ Act("cFinalize") /\ Reclaim(Nodes, KeepTerminals)
    /\ ProjFrame
    /\ Done

CleanupRun ==
    /\ Act("cleanup")
    /\ terms' = Closed(DOMAIN terms)
    /\ TaskFrame
    /\ UNCHANGED taskVars
    /\ Done

LoadNodeRuntime ==
    /\ Act("loadRuntime")
    /\ loaded' = runtimes[cur].visit
    /\ Recorded
    /\ UNCHANGED <<projVars, execVars, seen, rep, fresh, why, taken, sigVars,
                   extVars, callVars, faults>>

LoadCancellationReason ==
    /\ Act("reason")
    /\ why' = row.err
    /\ Recorded
    /\ UNCHANGED <<projVars, execVars, seen, rep, loaded, fresh, taken, sigVars,
                   extVars, callVars, faults>>

ProjectionUpdateNodeRuntimeVisit ==
    /\ Act("publishVisit")
    /\ UpdateNodeRuntimeVisit(cur, visit)
    /\ ProjFrame
    /\ UNCHANGED <<row, processed, terms>>
    /\ Done

ProjectionUpdateNode ==
    /\ Act("publishNode")
    /\ UpdateNode("running", cur, visit)
    /\ ProjFrame
    /\ UNCHANGED <<processed, terms>>
    /\ Done

ProjectionUpdateState ==
    /\ \/ Act("waiting") /\ UpdateState("waiting", "none")
       \/ Act("completed") /\ UpdateState("completed", "none")
       \/ Act("cState") /\ UpdateState("canceled", "none")
    /\ ProjFrame
    /\ UNCHANGED <<runtimes, processed, terms>>
    /\ Done

ProjectionRecordProcessedReport ==
    /\ Act("record")
    /\ RecordProcessedReport(rep.id)
    /\ ProjFrame
    /\ UNCHANGED <<row, runtimes, terms>>
    /\ Done

Activity ==
    \/ PlainActivity \/ EnsureMailboxes \/ PrepareRestart \/ ApplyTaskConfig
    \/ Comment \/ CompleteMailbox \/ CommentCancellation
    \/ CheckpointNodeRuntime \/ FinalizeNodeRuntimes \/ CleanupRun
    \/ LoadNodeRuntime \/ LoadCancellationReason
    \/ ProjectionUpdateNodeRuntimeVisit \/ ProjectionUpdateNode
    \/ ProjectionUpdateState \/ ProjectionRecordProcessedReport

-----------------------------------------------------------------------------
(* EnsureNodeRuntime, at a node's entry and when reconciling its visit.    *)
(* It makes a terminal and binds it in two steps a crash can separate.     *)

\* Mutant: a live terminal is never prompted again.
NeverRevisit == FALSE

\* The terminal was last bound for an earlier visit of the node.
Revisit == pc = "launch" /\ loaded \notin {0, visit}

Launching == \E p \in LaunchPcs : Act(p) /\ NodeRuntimeVisitIsCurrent(cur, visit)

BoundLive(n) == runtimes[n].term # 0 /\ terms[runtimes[n].term].live

\* A live terminal is left alone, or prompted for the new visit.
ReuseTerminal ==
    /\ Launching /\ BoundLive(cur)
    /\ terms' = IF Revisit THEN [terms EXCEPT ![runtimes[cur].term].visit = visit]
                ELSE terms
    /\ TaskFrame
    /\ UNCHANGED taskVars
    /\ Done

\* The prompt could not be sent: close it, then replace it.
SendFails ==
    /\ Launching /\ BoundLive(cur) /\ Revisit
    /\ Spend("fail")
    /\ terms' = Closed({runtimes[cur].term})
    /\ Phase("again") /\ TaskFrame
    /\ UNCHANGED <<taskVars, callVars>>

\* Mutant: only the handle that was stored is looked up.
RecoverStored == {}

\* Live panes labelled with the node's title.
Recoverable == {t \in DOMAIN terms : terms[t].live /\ terms[t].node = cur}

\* Runner.EnsureTerminal once the bound terminal is gone.
EnsureTerminal ==
    /\ Launching /\ ~BoundLive(cur)
    /\ \/ /\ RecoverByTitle
          /\ fresh' \in Recoverable
          /\ UNCHANGED terms
       \/ /\ RecoverByTitle => Recoverable = {}
          /\ terms' = Append(terms, [node |-> cur, live |-> TRUE, visit |-> visit])
          /\ fresh' = Len(terms) + 1
    /\ Phase("bind")
    /\ UNCHANGED <<projVars, execVars, seen, rep, loaded, why, taken, sigVars,
                   taskVars, callVars, faults>>

BindTerminal ==
    /\ Running /\ phase = "bind"
    /\ ReplaceNodeRuntime(cur, visit, fresh)
    /\ fresh' = 0
    /\ Recorded
    /\ UNCHANGED <<row, processed, execVars, seen, rep, loaded, why, taken,
                   sigVars, extVars, callVars, faults>>

\* The write fails: the replacement is closed, if that succeeds.
BindFails ==
    /\ Running /\ phase = "bind"
    /\ Spend("fail")
    /\ terms' \in {terms, Closed({fresh})}
    /\ fresh' = 0
    /\ Failed
    /\ UNCHANGED <<projVars, execVars, seen, rep, loaded, why, taken, sigVars,
                   taskVars, callVars>>

Launch == ReuseTerminal \/ SendFails \/ EnsureTerminal \/ BindTerminal \/ BindFails

-----------------------------------------------------------------------------
(* retryLoop around one activity *)

LoopFrame ==
    UNCHANGED <<execVars, dataVars, sigVars, extVars, callVars, runtimes, processed>>

\* Mutant: the error is swallowed and the graph goes on.
ActivityErrorSwallowed ==
    /\ Running /\ phase \in {"call", "again"}
    /\ Spend("fail")
    /\ Continue
    /\ UNCHANGED row /\ LoopFrame

\* A transient error is retried; a conflict first marks the run blocked.
ActivityFails ==
    /\ Running /\ phase \in {"call", "again"}
    /\ Spend("fail")
    /\ \/ Failed
       \/ ~CancelSeen /\ pc \in ConflictPcs /\ Phase("block")
    /\ UNCHANGED row /\ LoopFrame

\* scheduleState: the caller ignores its error.
ScheduleState(st, e) ==
    \/ UpdateState(st, e) /\ UNCHANGED faults
    \/ UNCHANGED row /\ Spend("db")

MarkBlocked ==
    /\ Running /\ phase = "block"
    /\ ScheduleState("blocked", "conflict")
    /\ \/ CancelSeen /\ Goto("reason")
       \/ /\ ~CancelSeen
          /\ phase' = "note" /\ blocked' = TRUE
          /\ Placed /\ UNCHANGED <<inst, pc, tries>>
    /\ LoopFrame

NoteRetry ==
    /\ Running /\ phase = "note"
    /\ UpdateRetry(TRUE)
    /\ \/ CancelSeen /\ Goto("reason")
       \/ ~CancelSeen /\ Phase("timer")
    /\ UNCHANGED faults /\ LoopFrame

\* Mutant: a blocked run waits for a resume that does not exist.
TimerFiresUnlessBlocked ==
    /\ Running /\ phase = "timer" /\ ~blocked
    /\ phase' = "call" /\ tries' = TRUE
    /\ Placed /\ UNCHANGED <<inst, pc, blocked, row, faults>> /\ LoopFrame

TimerFires ==
    /\ Running /\ phase = "timer"
    /\ phase' = "call" /\ tries' = TRUE
    /\ Placed /\ UNCHANGED <<inst, pc, blocked, row, faults>> /\ LoopFrame

ClearRetry ==
    /\ Running /\ phase = "clear"
    /\ UpdateRetry(FALSE)
    /\ \/ blocked /\ ~CancelSeen /\ Phase("unblock")
       \/ ~(blocked /\ ~CancelSeen) /\ Continue
    /\ UNCHANGED faults /\ LoopFrame

Unblock ==
    /\ Running /\ phase = "unblock"
    /\ ScheduleState("waiting", "none")
    /\ Continue
    /\ LoopFrame

\* The retry schedule itself cannot be written: retryLoop gives up.
RetryWriteFails ==
    /\ Running /\ phase \in {"note", "clear"}
    /\ Spend("db")
    /\ Abandon
    /\ UNCHANGED row /\ LoopFrame

RetryLoop ==
    \/ ActivityFails \/ MarkBlocked \/ NoteRetry \/ TimerFires \/ ClearRetry
    \/ Unblock \/ RetryWriteFails

-----------------------------------------------------------------------------
(* The durable interpreter receives: cancellation, reports, reconciles *)

\* An activity in flight is waited for; a wait, a timer or a call not yet
\* scheduled ends at once.
TakeCancel ==
    /\ inst = "active" /\ cancelReq /\ ~ctxDone
    /\ ctxDone' = TRUE
    /\ \/ pc # "wait" /\ phase # "timer" /\ UNCHANGED loopVars
       \/ (pc = "wait" \/ phase \in {"timer", "call"}) /\ Goto("reason")
    /\ UNCHANGED <<projVars, execs, cancelReq, raced, dataVars, sigVars, extVars,
                   callVars, faults>>

Waiting == inst = "active" /\ pc = "wait" /\ ~ctxDone

Accepts(s) == s.id \notin seen /\ s.node = cur /\ s.visit = visit

\* A report id is spent even if the report is for another node or visit.
TakeReport ==
    /\ Waiting /\ sigs # <<>>
    /\ sigs' = Tail(sigs)
    /\ LET s == Head(sigs)
       IN /\ seen' = seen \cup {s.id}
          /\ \/ ~Accepts(s) /\ UNCHANGED <<rep, taken, loopVars>>
             \/ /\ Accepts(s)
                /\ rep' = [id |-> s.id, next |-> s.next]
                /\ taken' = taken \cup
                     {[exec |-> execs, id |-> s.id, node |-> cur, visit |-> visit,
                       next |-> s.next, meant |-> s.meant]}
                /\ IF s.next \in Legal[cur] THEN Goto("record") ELSE Finish
    /\ UNCHANGED <<projVars, execVars, loaded, fresh, why, reconcile, extVars,
                   callVars, faults>>

\* Mutant: the signal is drained and nothing relaunched.
TakeReconcileIgnored ==
    /\ Waiting /\ reconcile
    /\ reconcile' = FALSE
    /\ UNCHANGED <<projVars, execVars, wfVars, sigs, extVars, callVars, faults>>

TakeReconcile ==
    /\ Waiting /\ reconcile
    /\ reconcile' = FALSE
    /\ Goto("reconcile")
    /\ UNCHANGED <<projVars, execVars, dataVars, sigs, extVars, callVars, faults>>

Receive == TakeCancel \/ TakeReport \/ TakeReconcile

-----------------------------------------------------------------------------
(* Agents and SubmitReport.  A report names its run and node, never the    *)
(* visit it was written for; `meant` is that visit.                        *)

CallFrame == UNCHANGED <<execVars, wfVars, extVars, en, cx>>

AgentReports(r) ==
    /\ msg[r].st = "unsent"
    /\ \E t \in DOMAIN terms, next \in Targets :
          /\ terms[t].live /\ terms[t].visit # 0
          /\ \A q \in ReportIds : ~(msg[q].st = "sending" /\ msg[q].node = terms[t].node)
          /\ msg' = [msg EXCEPT ![r] = [st |-> "sending", node |-> terms[t].node,
                                        meant |-> terms[t].visit, next |-> next]]
    /\ UNCHANGED <<projVars, sigVars, req, faults>> /\ CallFrame

Answer(r, st) ==
    /\ msg' = [msg EXCEPT ![r].st = st]
    /\ req' = [req EXCEPT ![r] = IdleReq]

\* The run's row is read once; all later decisions use that copy.
ReadRun(r) ==
    /\ msg[r].st = "sending" /\ req[r].st = "idle"
    /\ LET current == row.visit # 0 /\ msg[r].node = row.node /\ row.state \notin Terminal
       IN req' = [req EXCEPT ![r] = [st |-> "read",
                                     visit |-> IF current THEN row.visit ELSE 0]]
    /\ UNCHANGED <<projVars, sigVars, msg, faults>> /\ CallFrame

\* ValidateReport, as far as the next step.
LegalRoute(r) == msg[r].next \in Legal[msg[r].node]

CheckReport(r) ==
    /\ req[r].st = "read"
    /\ \/ /\ r \in processed \/ req[r].visit = 0
          /\ Answer(r, "duplicate")
       \/ /\ r \notin processed /\ req[r].visit # 0
          /\ ~LegalRoute(r)
          /\ Answer(r, "rejected")
       \/ /\ r \notin processed /\ req[r].visit # 0
          /\ LegalRoute(r)
          /\ req' = [req EXCEPT ![r].st = "checked"] /\ UNCHANGED msg
    /\ UNCHANGED <<projVars, sigVars, faults>> /\ CallFrame

\* Acknowledged once the signal is durable; the agent may not hear of it.
SignalReport(r) ==
    /\ req[r].st = "checked" /\ inst = "active"
    /\ sigs' = Append(sigs, [id |-> r, node |-> msg[r].node, visit |-> req[r].visit,
                             next |-> msg[r].next, meant |-> msg[r].meant])
    /\ \/ Answer(r, "accepted") /\ UNCHANGED faults
       \/ Answer(r, "sending") /\ Spend("fail")
    /\ UNCHANGED <<projVars, reconcile>> /\ CallFrame

\* Mutant: the failed signal is acknowledged.
SignalRefusedAcked(r) ==
    /\ req[r].st = "checked" /\ inst # "active"
    /\ Answer(r, "accepted")
    /\ UNCHANGED <<projVars, sigVars, faults>> /\ CallFrame

\* No active instance to signal: an error, and the agent retries.
SignalRefused(r) ==
    /\ req[r].st = "checked" /\ inst # "active"
    /\ Answer(r, "sending")
    /\ UNCHANGED <<projVars, sigVars, faults>> /\ CallFrame

Submit(r) == ReadRun(r) \/ CheckReport(r) \/ SignalReport(r) \/ SignalRefused(r)

-----------------------------------------------------------------------------
(* EnsureRun, called by every poll that still sees the claimed ticket *)

PollFrame == UNCHANGED <<runtimes, processed, extVars, msg, req, cx, faults>>

PollReads ==
    /\ en.st = "idle" /\ row.state \in Active \cup {"absent"}
    /\ InsertStart
    /\ en' = IF row.state = "absent" THEN [IdlePoll EXCEPT !.st = "create"]
             ELSE [st |-> "check", node |-> IF row.visit = 0 THEN NoNode ELSE row.node]
    /\ UNCHANGED <<execVars, wfVars, sigVars>> /\ PollFrame

\* Mutant: a run without an instance is not given one.
PollChecksNoCreate ==
    /\ en.st = "check" /\ en' = IdlePoll
    /\ reconcile' = (reconcile \/ (inst = "active" /\ en.node # NoNode
                                     /\ ~BoundLive(en.node)))
    /\ UNCHANGED <<row, execVars, wfVars, sigs>> /\ PollFrame

\* en.node is the node of the row as it was read.
PollChecks ==
    /\ en.st = "check"
    /\ \/ /\ inst # "active" /\ en' = [en EXCEPT !.st = "create"]
          /\ UNCHANGED reconcile
       \/ /\ inst = "active" /\ en' = IdlePoll
          /\ reconcile' = (reconcile \/ (en.node # NoNode /\ ~BoundLive(en.node)))
    /\ UNCHANGED <<row, execVars, wfVars, sigs>> /\ PollFrame

PollCreates ==
    /\ en.st = "create" /\ en' = IdlePoll
    /\ \/ /\ inst = "active"
          /\ UNCHANGED <<execVars, wfVars, sigVars>>
       \/ /\ inst # "active" /\ execs < MaxExecs
          /\ execs' = execs + 1
          /\ inst' = "active" /\ Begin("mailboxes")
          /\ raced' = (raced \/ row.state \notin Active)
          /\ cancelReq' = FALSE /\ ctxDone' = FALSE
          /\ cur' = NoNode /\ visit' = 0 /\ UNCHANGED lastVisit
          /\ seen' = {} /\ rep' = NoReport /\ loaded' = 0 /\ fresh' = 0
          /\ why' = "none" /\ UNCHANGED taken
          /\ sigs' = <<>> /\ reconcile' = FALSE
    /\ UNCHANGED row /\ PollFrame

Poll == PollReads \/ PollChecks \/ PollCreates

-----------------------------------------------------------------------------
(* CancelRun, and the same call resubmitted by Start *)

CancelFrame == UNCHANGED <<processed, wfVars, sigVars, msg, req, en>>
ExecFrame   == UNCHANGED execVars

\* Mutant: a run already canceling is left to itself.
OperatorCancelsOnce ==
    /\ cx.st = "idle" /\ row.state \in Active
    /\ \E w \in Reasons : BeginCancellation(w)
    /\ cx' = [st |-> "request", why |-> row'.err]
    /\ UNCHANGED <<runtimes, extVars, faults>> /\ ExecFrame /\ CancelFrame

\* Mutant: the engine is told before the request is on record.
OperatorCancelsUnrecorded ==
    /\ cx.st = "idle" /\ row.state \in Active \cup {"canceling"}
    /\ \E w \in Reasons : cx' = [st |-> "request", why |-> w]
    /\ UNCHANGED <<row, runtimes, extVars, faults>> /\ ExecFrame /\ CancelFrame

\* The reason of the first request stands for all later ones.
OperatorCancels ==
    /\ cx.st = "idle" /\ row.state \in Active \cup {"canceling"}
    /\ \E w \in Reasons : BeginCancellation(w)
    /\ cx' = [st |-> "request", why |-> row'.err]
    /\ UNCHANGED <<runtimes, extVars, faults>> /\ ExecFrame /\ CancelFrame

CancelStep(from, to) == cx.st = from /\ cx' = [cx EXCEPT !.st = to]
CancelEnds(from)     == cx.st = from /\ cx' = IdleCancel

\* A finished instance whose history has no cancellation before its end.
FinishedUncanceled == inst = "finished" /\ ~ctxDone

\* lookupInstance decides how the request is carried out.
RequestCancellation ==
    /\ \/ inst = "active" /\ cancelReq' = TRUE /\ CancelEnds("request")
       \/ /\ inst # "active" /\ ~FinishedUncanceled
          /\ CancelStep("request", "finalize") /\ UNCHANGED cancelReq
       \/ /\ FinishedUncanceled
          /\ CancelStep("request", "complete") /\ UNCHANGED cancelReq
    /\ UNCHANGED <<row, runtimes, execs, ctxDone, raced, extVars, faults>>
    /\ CancelFrame

\* Mutant: the state is written before the comment.
FinalizeCancellationEarly ==
    /\ \/ /\ CancelStep("finalize", "write")
          /\ Reclaim(Nodes, KeepTerminals) /\ UNCHANGED taskVars
       \/ /\ CancelStep("write", "comment")
          /\ UpdateStateIf("canceling", "canceled", "none")
          /\ UNCHANGED <<runtimes, extVars>>
       \/ /\ CancelEnds("comment")
          /\ CancelComment(cx.why) /\ UNCHANGED <<row, runtimes, terms>>
    /\ UNCHANGED faults /\ ExecFrame /\ CancelFrame

FinalizeCancellation ==
    /\ \/ /\ CancelStep("finalize", "comment")
          /\ Reclaim(Nodes, KeepTerminals) /\ UNCHANGED taskVars
       \/ /\ CancelStep("comment", "write")
          /\ CancelComment(cx.why) /\ UNCHANGED <<row, runtimes, terms>>
       \/ /\ CancelEnds("write")
          /\ UpdateStateIf("canceling", "canceled", "none")
          /\ UNCHANGED <<runtimes, extVars>>
    /\ UNCHANGED faults /\ ExecFrame /\ CancelFrame

CompleteInstead ==
    /\ CancelEnds("complete")
    /\ UpdateStateIf("canceling", "completed", "none")
    /\ UNCHANGED <<runtimes, extVars, faults>> /\ ExecFrame /\ CancelFrame

CancelFails ==
    /\ cx.st # "idle" /\ cx' = IdleCancel
    /\ Spend("fail")
    /\ UNCHANGED <<row, runtimes, extVars>> /\ ExecFrame /\ CancelFrame

Cancel == RequestCancellation \/ FinalizeCancellation \/ CompleteInstead

-----------------------------------------------------------------------------
(* Faults, and the whole *)

Crash ==
    /\ Spend("crash")
    /\ phase' = IF phase = "bind" THEN "again" ELSE phase
    /\ fresh' = 0
    /\ UNCHANGED <<projVars, execVars, inst, pc, tries, blocked, cur, visit,
                   lastVisit, seen, rep, loaded, why, taken, sigVars, extVars>>
    /\ Restarted

TerminalDies ==
    /\ Spend("death")
    /\ \E t \in DOMAIN terms : terms[t].live /\ terms' = Closed({t})
    /\ UNCHANGED <<projVars, execVars, wfVars, sigVars, taskVars, callVars>>

Next ==
    \/ Activity \/ Launch \/ RetryLoop \/ Receive
    \/ \E r \in ReportIds : AgentReports(r) \/ Submit(r)
    \/ Poll
    \/ OperatorCancels \/ Cancel \/ CancelFails
    \/ Crash \/ TerminalDies

Spec == Init /\ [][Next]_vars

\* What the running server keeps doing without anybody's help: the engine's
\* workers advance the instance and deliver its events, a started call goes
\* on, an agent's plugin resends an unanswered report, polls keep coming.
Interpreting ==
    Activity \/ Launch \/ MarkBlocked \/ NoteRetry \/ TimerFires \/ ClearRetry
    \/ Unblock
Fairness ==
    /\ WF_vars(Interpreting) /\ WF_vars(TakeCancel) /\ WF_vars(TakeReport)
    /\ WF_vars(TakeReconcile)
    /\ \A r \in ReportIds : WF_vars(Submit(r))
    /\ WF_vars(Poll) /\ WF_vars(Cancel)

FairSpec == Spec /\ Fairness

\* The same with an operator who repeats a cancellation that has not settled.
PersistentOperator == WF_vars(row.state = "canceling" /\ OperatorCancels)
PersistentSpec == FairSpec /\ PersistentOperator

-----------------------------------------------------------------------------
(* Safety.  `raced` excepts executions created for a run that was no       *)
(* longer active; the findings show how one comes about.                   *)

(* The graph is walked edge by edge.  A visit is left by one report, and   *)
(* one report leaves one visit of an execution, whatever is resent,        *)
(* duplicated or redelivered (TicketWorkflow's seenReportIDs and its test  *)
(* of node and visit); the visit that follows is of the node that report   *)
(* chose, whatever crashed or was replayed in between.                     *)
OneReportPerVisit ==
    \A a \in taken :
        /\ \A b \in taken :
              (a.visit = b.visit \/ (a.exec = b.exec /\ a.id = b.id)) => a = b
        /\ a.exec = execs /\ visit = a.visit + 1 => cur = a.next

(* No effect before its cause, none left out: a comment for a visit is     *)
(* written only after the receipt of the report that left the visit, and   *)
(* once the interpreter is past a visit, receipt, summary and (unless at   *)
(* `end`) feedback all exist, despite crashes, retries and conflicts.      *)
EffectsInOrder ==
    /\ \A c \in comments : \E a \in taken : a.visit = c[2] /\ a.id \in processed
    /\ \A a \in taken :
          a.exec = execs /\ visit > a.visit =>
             /\ a.id \in processed
             /\ <<"summary", a.visit>> \in comments
             /\ <<"feedback", a.visit>> \in comments

(* What `run get` shows while a run waits is what the interpreter waits    *)
(* for: the published node and visit are the awaited ones, and an agent    *)
(* terminal is bound to the node that was prompted for that very visit.    *)
PublishedIsAwaited ==
    inst = "active" /\ pc = "wait" /\ row.state \in Active =>
        /\ row.node = cur /\ row.visit = visit
        /\ runtimes[cur].visit = visit /\ runtimes[cur].term # 0
        /\ execs <= 1 => terms[runtimes[cur].term].visit = visit

(* An acknowledged report is not forgotten: once the agent was told        *)
(* "accepted", its report is pending, consumed or recorded for as long as  *)
(* the execution it was given to exists.                                   *)
AcceptedIsDurable ==
    execs <= 1 => \A r \in ReportIds : msg[r].st = "accepted" =>
        r \in seen \cup {sigs[i].id : i \in DOMAIN sigs}

(* A canceled run says so on its ticket, with the reason of the operator   *)
(* who canceled first: the comment precedes the terminal state on both     *)
(* paths (cancelCleanup and finalizeCancellationEffects).  A restarted     *)
(* attempt leaves the comment of the attempt canceled before it.           *)
CanceledIsAnnounced ==
    /\ row.state = "canceled" => cancelText \in Reasons
    /\ row.state = "canceling" /\ ~IsRestart => cancelText \in {"none", row.err}

OnRecord == row.state \in Terminal \cup {"canceling"}

(* No cancellation without a record of it: cleanup code runs, and the      *)
(* engine is asked to cancel, only once the operator's request is in the   *)
(* row, so a crash at any point leaves a request that Start can resubmit,  *)
(* and a recreated execution never inherits a stale cancellation.          *)
CancellationStaged ==
    /\ pc \in CancelPcs => ctxDone
    /\ ctxDone => cancelReq
    /\ cancelReq => OnRecord
    /\ cx.st # "idle" => OnRecord

(* Nothing more happens to a decided run: no mailbox, ticket or comment is *)
(* touched and no agent started once the state is terminal, though workers, *)
(* polls and late reports go on.                                           *)
QuietAfterEnd ==
    [][row.state \in Terminal /\ ~raced =>
          taskVars' = taskVars /\ Len(terms') = Len(terms)]_vars

(* No agent outlives a decided run whose policy closes terminals, though    *)
(* the server may crash between creating one and storing its handle.  Only *)
(* a handle that cannot be stored (BindFails) may leave one behind.        *)
NoAgentLeft ==
    row.state \in Terminal /\ ~raced /\ faults.fail = 0 =>
        \A t \in DOMAIN terms : ~terms[t].live

(* Two agents never work on the same node of the ticket's worktree: every  *)
(* relaunch finds, closes or recovers the terminal of a lost one.          *)
OneAgentPerNode ==
    \A t, u \in DOMAIN terms :
        terms[t].live /\ terms[u].live /\ terms[t].node = terms[u].node => t = u

-----------------------------------------------------------------------------
(* What documents and comments of the repository say, and the code does    *)
(* not do in every interleaving: each is refuted by a run of its own.      *)

(* A report counts only for the visit it was written for: a late report of *)
(* an earlier visit never advances the run.                                *)
ReportsCountForTheirVisit == \A a \in taken : a.meant = a.visit

-----------------------------------------------------------------------------
(* Refinement and liveness *)

Lifecycle == INSTANCE RunLifecycle WITH state <- row.state

(* The state shown for the run moves as RunLifecycle promises, whichever   *)
(* of interpreter, poll, operator call and restart writes it.              *)
LifecycleSpec == Lifecycle!Spec

(* A run inserted by a poll gets its execution even if the server dies     *)
(* between insertStart and CreateWorkflowInstance.                         *)
StartedRunsExecute == row.state = "starting" ~> inst = "active" \/ row.state = "canceling"

(* A lost agent is replaced: a wait whose terminal is dead ends, or gets a *)
(* live terminal through a poll's reconcile signal.                        *)
LostAgentIsReplaced ==
    (inst = "active" /\ pc = "wait" /\ ~BoundLive(cur))
        ~> \/ inst # "active" \/ pc \notin {"wait", "reconcile"} \/ BoundLive(cur)
           \/ row.state \notin Active

(* A consumed report moves the run: its visit is left, for the next node   *)
(* or the end of the run, unless a cancellation takes over.                *)
ReportMovesRun ==
    \A v \in 1..(Cardinality(ReportIds) + 1) :
        (inst = "active" /\ pc = "record" /\ visit = v)
            ~> (lastVisit > v \/ row.state \in Terminal \cup {"canceling"})

(* A requested cancellation settles: the run reaches a terminal state.     *)
CancelSettles == row.state = "canceling" ~> row.state \in Terminal
=============================================================================
