----------------------------- MODULE TemporalRun ------------------------------
(***************************************************************************)
(* One run attempt under the Temporal executor                             *)
(* (internal/execution/temporal): the workflow TicketWorkflow, whose       *)
(* history Temporal keeps, the local projection derived from it, and the   *)
(* engine calls that relate the two (EnsureRun, SubmitReport, CancelRun    *)
(* and the rebuild of `serve --recover`).                                  *)
(*                                                                         *)
(* The workflow's locals and its query snapshot live in Temporal; the      *)
(* projection can be lost and rebuilt from them.  An activity is tried     *)
(* once, so one whose worker dies or whose answer is lost counts as failed *)
(* after its effect.  The Temporal service itself is modelled from how     *)
(* operations.go and interpreter.go use it.                                *)
(*                                                                         *)
(* Left out: step rows (RunTimeline models them), harness sessions, texts, *)
(* a workflow that ends in an error other than cancellation (the snapshot  *)
(* is validated before it starts) and namespace retention.                 *)
(***************************************************************************)
EXTENDS RunProjection, Sequences, FiniteSets

CONSTANTS
    EndNode,        \* the reserved node `end`
    StartTarget,    \* start.onSuccess
    Legal,          \* Legal[n]: every target of n's onSuccess and onFailure
    KeepTerminals,  \* machine policy keepTerminalsAlive
    CleanupOnEnd,   \* workflow cleanupRunnerOnEnd
    IsRestart,      \* AttemptID > 1
    MaxExecs,       \* bound on executions started under this Workflow ID
    Scenarios       \* bounds on the faults that may strike together, by kind

FaultKinds == {"fail", "crash", "death", "loss", "call"}

ASSUME GraphAssumption ==
    /\ EndNode \notin Nodes /\ EndNode # NoNode
    /\ StartTarget \in Nodes
    /\ Legal \in [Nodes -> SUBSET (Nodes \cup {EndNode})]
ASSUME SwitchAssumption == {KeepTerminals, CleanupOnEnd, IsRestart} \subseteq BOOLEAN
ASSUME FaultAssumption == MaxExecs \in Nat /\ Scenarios \subseteq [FaultKinds -> Nat]

VARIABLES
    (* the newest execution of this Workflow ID, as the service sees it *)
    status,     \* "none", "running", "completed" or "canceled"
    execs,      \* executions started so far
    cancelReq,  \* a cancellation request is in its history
    sigs,       \* undelivered report signals
    reconcile,  \* an undelivered reconcile signal
    said,       \* newest cancel-reason signal
    (* interpreter locals *)
    ctxDone,    \* ctx.Err() # nil
    pc,         \* the activity being awaited, or "wait" or "done"
    phase,      \* where retryActivity is around it
    tries,      \* retryActivity: attempt > 0
    blocked,    \* retryActivity: blocked
    cur, visit, lastVisit,
    rep,        \* the report being carried out
    loaded,     \* visit returned by LoadNodeRuntime
    fresh,      \* terminal returned by EnsureNodeRuntime, not yet in binds
    (* workflowState: what the queries answer *)
    mem,        \* state.run
    binds,      \* state.bindings
    seen,       \* state.processed
    (* runner and task system *)
    terms, effects, cancelText,
    (* agents' reports and the handlers in flight *)
    msg,
    req,        \* SubmitReport: the visit it was answered by the query
    en,         \* EnsureRun: what it has read, and what it does next
    cx,         \* CancelRun, one handler per operator
    taken,      \* history: every report the workflow accepted
    faults      \* faults so far, by kind

svcVars  == <<status, execs, cancelReq>>
sigVars  == <<sigs, reconcile, said>>
loopVars == <<ctxDone, pc, phase, tries, blocked, cur, visit, lastVisit>>
workVars == <<rep, loaded, fresh>>
memVars  == <<mem, binds, seen, taken>>
extVars  == <<terms, effects, cancelText>>
callVars == <<msg, req, en, cx>>
vars == <<projVars, svcVars, sigVars, loopVars, workVars, memVars, extVars, callVars, faults>>

CancelPcs == {"cFinalize", "cComment", "cState"}
PlainPcs  == {"validate", "envStart", "envNode", "envEnd"}
TaskPcs   == {"mailboxes", "applyStart", "applyNode", "summary", "feedback",
              "complete", "applyEnd"}
LaunchPcs == {"launch", "reconcile"}
Pcs == CancelPcs \cup PlainPcs \cup TaskPcs \cup LaunchPcs \cup
       {"prepare", "loadRuntime", "publishVisit", "publishNode", "waiting",
        "record", "checkpoint", "cleanup", "finalize", "completed", "wait", "done"}
ConflictPcs == {"prepare", "applyStart", "applyNode", "complete", "applyEnd"}
Phases == {"call", "bind", "block", "note", "timer", "clear", "unblock"}

Targets  == Nodes \cup {EndNode}
NoReport == [id |-> "none", next |-> NoNode]
Signals  == [id : ReportIds, node : Nodes, visit : Nat, next : Targets]
Taken    == [id : ReportIds, visit : Nat, next : Targets]
Snapshots == [mem : Rows, binds : Runtimes]
Unsent   == [st |-> "unsent", node |-> NoNode, next |-> NoNode]
IdleReq  == [st |-> "idle", visit |-> 0]

TypeOK ==
    /\ ProjTypeOK
    /\ status \in {"none", "running", "completed", "canceled"}
    /\ execs \in 0..MaxExecs /\ {cancelReq, reconcile, ctxDone, tries, blocked} \subseteq BOOLEAN
    /\ sigs \in Seq(Signals) /\ said \in Errors
    /\ pc \in Pcs /\ phase \in Phases
    /\ cur \in Nodes \cup {NoNode} /\ {visit, lastVisit, loaded, fresh} \subseteq Nat
    /\ rep \in [id : ReportIds, next : Targets] \cup {NoReport}
    /\ mem \in Rows /\ binds \in Runtimes /\ seen \subseteq ReportIds
    /\ terms \in Seq([node : Nodes, live : BOOLEAN, visit : Nat])
    /\ effects \subseteq (TaskPcs \cup {"prepare", "cComment"}) \X Nat
    /\ cancelText \in Errors
    /\ msg \in [ReportIds -> [st : {"unsent", "sending", "accepted", "duplicate", "rejected"},
                              node : Nodes \cup {NoNode}, next : Targets \cup {NoNode}]]
    /\ req \in [ReportIds -> [st : {"idle", "checked"}, visit : Nat]]
    /\ en \in [st : {"idle", "create", "node", "state", "check", "signal"},
               snap : Snapshots, term : Nat]
    /\ cx \in [Reasons -> {"idle", "mark", "signal", "cancel"}]
    /\ taken \subseteq Taken
    /\ faults \in [FaultKinds -> Nat]

NoRow  == [state |-> "absent", node |-> NoNode, visit |-> 0, err |-> "none", retry |-> FALSE]
NoBinds == [n \in Nodes |-> [visit |-> 0, term |-> 0]]
NoSnapshot == [mem |-> NoRow, binds |-> NoBinds]
IdlePoll == [st |-> "idle", snap |-> NoSnapshot, term |-> 0]

Init ==
    /\ ProjInit
    /\ status = "none" /\ execs = 0 /\ cancelReq = FALSE
    /\ sigs = <<>> /\ reconcile = FALSE /\ said = "none"
    /\ ctxDone = FALSE /\ pc = "done" /\ phase = "call" /\ tries = FALSE /\ blocked = FALSE
    /\ cur = NoNode /\ visit = 0 /\ lastVisit = 0
    /\ rep = NoReport /\ loaded = 0 /\ fresh = 0
    /\ mem = NoRow /\ binds = NoBinds /\ seen = {} /\ taken = {}
    \* a previous attempt may have left one terminal behind
    /\ terms = IF IsRestart
               THEN << [node |-> StartTarget, live |-> TRUE, visit |-> 0] >> ELSE <<>>
    /\ effects = {} /\ cancelText = "none"
    /\ msg = [r \in ReportIds |-> Unsent] /\ req = [r \in ReportIds |-> IdleReq]
    /\ en = IdlePoll /\ cx = [w \in Reasons |-> "idle"]
    /\ faults = [k \in FaultKinds |-> 0]

-----------------------------------------------------------------------------
(* Moving through runGraph *)

Spend(kind) ==
    /\ faults' = [faults EXCEPT ![kind] = @ + 1]
    /\ \E s \in Scenarios : \A k \in FaultKinds : faults'[k] <= s[k]

\* ctx.Err() as the code under way sees it: cancelCleanup is disconnected.
CancelSeen == ctxDone /\ pc \notin CancelPcs

Placed == UNCHANGED <<cur, visit, lastVisit>>
Begin(p) == pc' = p /\ phase' = "call" /\ tries' = FALSE /\ blocked' = FALSE
Phase(ph) == phase' = ph /\ UNCHANGED <<pc, tries, blocked>> /\ Placed

\* One fresh visit identity per node entry.
Enter(n) ==
    Begin("loadRuntime") /\ cur' = n /\ visit' = lastVisit + 1 /\ lastVisit' = lastVisit + 1

After ==
    [mailboxes    |-> IF IsRestart THEN "prepare" ELSE "validate",
     prepare      |-> "validate",
     validate     |-> "applyStart",
     applyStart   |-> "envStart",
     loadRuntime  |-> "publishVisit",
     publishVisit |-> "applyNode",
     applyNode    |-> "envNode",
     envNode      |-> "launch",
     launch       |-> "publishNode",
     publishNode  |-> "waiting",
     waiting      |-> "wait",
     reconcile    |-> "wait",
     record       |-> "summary",
     summary      |-> IF rep.next = EndNode THEN "complete" ELSE "feedback",
     feedback     |-> "complete",
     complete     |-> "checkpoint",
     applyEnd     |-> "envEnd",
     envEnd       |-> IF CleanupOnEnd THEN "cleanup" ELSE "finalize",
     cleanup      |-> "finalize",
     finalize     |-> "completed",
     cFinalize    |-> "cComment",
     cComment     |-> "cState"]

Advance ==
    \/ pc \in DOMAIN After /\ Begin(After[pc]) /\ Placed
    \/ pc = "envStart" /\ Enter(StartTarget)
    \/ pc = "checkpoint" /\ rep.next # EndNode /\ Enter(rep.next)
    \/ pc = "checkpoint" /\ rep.next = EndNode /\ Begin("applyEnd") /\ Placed

\* Cleanup policy of finalize: cleanupRunnerOnEnd overrides the machine's.
KeepAtEnd == KeepTerminals /\ ~CleanupOnEnd

\* What the workflow remembers of the activity that just returned.
MemAfter(m) ==
    CASE pc = "publishNode" -> [m EXCEPT !.state = "running", !.node = cur, !.visit = visit]
      [] pc = "waiting"     -> [m EXCEPT !.state = "waiting"]
      [] pc = "completed"   -> [m EXCEPT !.state = "completed"]
      [] pc = "cState"      -> [m EXCEPT !.state = "canceled"]
      [] OTHER -> m

Dropped(ns) == [n \in Nodes |-> IF n \in ns THEN [binds[n] EXCEPT !.term = 0] ELSE binds[n]]

BindsAfter ==
    CASE pc \in LaunchPcs -> [binds EXCEPT ![cur] = [visit |-> visit, term |-> fresh']]
      [] pc = "checkpoint" /\ ~KeepTerminals -> Dropped({cur})
      [] pc = "finalize" /\ ~KeepAtEnd -> Dropped(Nodes)
      [] pc = "cState" -> Dropped(Nodes)
      [] OTHER -> binds

\* TicketWorkflow: runGraph returned because of ctx.
Canceled(m) ==
    /\ mem' = [m EXCEPT !.state = "canceling", !.err = said]
    /\ Begin("cFinalize") /\ Placed /\ UNCHANGED status

\* retryActivity returned a result, with m as the remembered run.
Proceed(m) ==
    /\ binds' = BindsAfter
    /\ UNCHANGED <<seen, taken>>
    /\ \/ /\ pc \in {"completed", "cState"}
          /\ status' = IF pc = "cState" THEN "canceled" ELSE "completed"
          /\ mem' = MemAfter(m) /\ Begin("done") /\ Placed
       \/ CancelSeen /\ pc # "completed" /\ Canceled(MemAfter(m))
       \/ /\ ~CancelSeen /\ Advance
          /\ mem' = MemAfter(m) /\ UNCHANGED status

\* retryActivity returned ctx's error.
GiveUp == Canceled(mem) /\ UNCHANGED <<binds, seen, taken>>

Running == status = "running" /\ pc \notin {"wait", "done"}
Act(p)  == Running /\ pc = p /\ phase = "call"

Recorded ==
    \/ ~tries /\ Proceed(mem)
    \/ tries /\ CancelSeen /\ GiveUp
    \/ tries /\ ~CancelSeen /\ Phase("clear") /\ UNCHANGED <<memVars, status>>

\* What the retry loop writes stands for every text of its own.
Retrying(m) == [m EXCEPT !.retry = TRUE, !.err = "conflict"]

\* The attempt failed: remember the retry that will be noted.
Failed(m) ==
    \/ CancelSeen /\ GiveUp
    \/ ~CancelSeen /\ Phase("note")
       /\ mem' = Retrying(m) /\ UNCHANGED <<binds, seen, taken, status>>

\* The activity had its effect; its answer may still be lost.
Done == (Recorded /\ UNCHANGED faults) \/ (Spend("fail") /\ Failed(mem))

-----------------------------------------------------------------------------
(* Activities *)

ActFrame == UNCHANGED <<execs, cancelReq, sigVars, ctxDone, callVars>>

PlainActivity ==
    /\ \E p \in PlainPcs : Act(p)
    /\ Recorded
    /\ UNCHANGED <<projVars, workVars, extVars, faults>> /\ ActFrame

\* Task-system writes are idempotent: found again, or marked with the visit.
TaskActivity ==
    /\ \E p \in TaskPcs : Act(p) /\ effects' = effects \cup {<<p, visit>>}
    /\ Done
    /\ UNCHANGED <<projVars, workVars, terms, cancelText>> /\ ActFrame

Closed(S) == [t \in DOMAIN terms |->
                 IF t \in S THEN [terms[t] EXCEPT !.live = FALSE] ELSE terms[t]]

PrepareRestart ==
    /\ Act("prepare")
    /\ effects' = effects \cup {<<"prepare", visit>>}
    /\ terms' = Closed(DOMAIN terms)
    /\ Done
    /\ UNCHANGED <<projVars, workVars, cancelText>> /\ ActFrame

LoadNodeRuntime ==
    /\ Act("loadRuntime")
    /\ loaded' = runtimes[cur].visit
    /\ Recorded
    /\ UNCHANGED <<projVars, rep, fresh, extVars, faults>> /\ ActFrame

ProjectionActivity ==
    /\ \/ /\ Act("publishVisit") /\ UpdateNodeRuntimeVisit(cur, visit)
          /\ UNCHANGED <<row, processed>>
       \/ /\ Act("publishNode") /\ UpdateNode("running", cur, visit) /\ UNCHANGED processed
       \/ /\ Act("waiting") /\ UpdateState("waiting", "none")
          /\ UNCHANGED <<runtimes, processed>>
       \/ /\ Act("record") /\ RecordProcessedReport(rep.id) /\ UNCHANGED <<row, runtimes>>
       \/ /\ Act("completed") /\ UpdateState("completed", "none")
          /\ UNCHANGED <<runtimes, processed>>
       \/ /\ Act("cState") /\ UpdateState("canceled", "none")
          /\ UNCHANGED <<runtimes, processed>>
    /\ Done
    /\ UNCHANGED <<workVars, extVars>> /\ ActFrame

\* Close the bound terminals of ns unless kept, then clear the handles.
Reclaim(ns, keep) ==
    /\ terms' = IF keep THEN terms ELSE Closed({runtimes[n].term : n \in ns})
    /\ ClearNodeRuntime(ns, ~keep)

\* Mutant: cancellation follows the machine's policy.
ReclaimByPolicy ==
    /\ \/ Act("checkpoint") /\ Reclaim({cur}, KeepTerminals)
       \/ \E p \in {"finalize", "cFinalize"} : Act(p) /\ Reclaim(Nodes, KeepTerminals)
    /\ Done
    /\ UNCHANGED <<row, processed, workVars, effects, cancelText>> /\ ActFrame

ReclaimActivity ==
    /\ \/ Act("checkpoint") /\ Reclaim({cur}, KeepTerminals)
       \/ Act("finalize")   /\ Reclaim(Nodes, KeepAtEnd)
       \/ Act("cFinalize")  /\ Reclaim(Nodes, FALSE)
    /\ Done
    /\ UNCHANGED <<row, processed, workVars, effects, cancelText>> /\ ActFrame

CleanupRun ==
    /\ Act("cleanup")
    /\ terms' = Closed(DOMAIN terms)
    /\ Done
    /\ UNCHANGED <<projVars, workVars, effects, cancelText>> /\ ActFrame

CommentCancellation ==
    /\ Act("cComment")
    /\ effects' = effects \cup {<<"cComment", 0>>}
    /\ cancelText' = IF <<"cComment", 0>> \in effects THEN cancelText ELSE said
    /\ Done
    /\ UNCHANGED <<projVars, workVars, terms>> /\ ActFrame

\* The terminal was last bound for an earlier visit of the node.
Revisit == pc = "launch" /\ loaded \notin {0, visit}

Launching == \E p \in LaunchPcs : Act(p) /\ NodeRuntimeVisitIsCurrent(cur, visit)

BoundLive(n) == runtimes[n].term # 0 /\ terms[runtimes[n].term].live

\* EnsureNodeRuntime: a live terminal is left alone, or prompted for the visit.
ReuseTerminal ==
    /\ Launching /\ BoundLive(cur)
    /\ terms' = IF Revisit THEN [terms EXCEPT ![runtimes[cur].term].visit = visit]
                ELSE terms
    /\ fresh' = runtimes[cur].term
    /\ Done
    /\ UNCHANGED <<projVars, rep, loaded, effects, cancelText>> /\ ActFrame

\* Live panes that carry the node's title.
Recoverable == {t \in DOMAIN terms : terms[t].live /\ terms[t].node = cur}

\* Runner.EnsureTerminal once the bound terminal is gone.
EnsureTerminal ==
    /\ Launching /\ ~BoundLive(cur)
    /\ \/ fresh' \in Recoverable /\ UNCHANGED terms
       \/ /\ Recoverable = {}
          /\ terms' = Append(terms, [node |-> cur, live |-> TRUE, visit |-> visit])
          /\ fresh' = Len(terms) + 1
    /\ Phase("bind")
    /\ UNCHANGED <<projVars, status, rep, loaded, memVars, effects, cancelText, faults>>
    /\ ActFrame

\* The prompt cannot be sent, so the known terminal is closed.
SendFails ==
    /\ Launching /\ BoundLive(cur) /\ Revisit /\ Spend("fail")
    /\ terms' = Closed({runtimes[cur].term})
    /\ UNCHANGED <<projVars, status, loopVars, workVars, memVars, effects, cancelText>>
    /\ ActFrame

BindTerminal ==
    /\ Running /\ phase = "bind" /\ UNCHANGED workVars
    /\ \/ /\ ReplaceNodeRuntime(cur, visit, fresh)
          /\ UNCHANGED terms
          /\ Recorded
       \/ /\ ~NodeRuntimeVisitIsCurrent(cur, visit)
          /\ terms' = Closed({fresh})
          /\ Failed(mem)
          /\ UNCHANGED runtimes
    /\ UNCHANGED <<row, processed, effects, cancelText, faults>> /\ ActFrame

\* The runtime row is missing, or belongs to another visit.
StaleLaunch ==
    /\ \E p \in LaunchPcs : Act(p) /\ ~NodeRuntimeVisitIsCurrent(cur, visit)
    /\ Failed(mem)
    /\ UNCHANGED <<projVars, workVars, extVars, faults>> /\ ActFrame

Activity ==
    \/ PlainActivity \/ TaskActivity \/ PrepareRestart \/ LoadNodeRuntime
    \/ ProjectionActivity \/ ReclaimActivity \/ CleanupRun \/ CommentCancellation
    \/ ReuseTerminal \/ EnsureTerminal \/ SendFails \/ BindTerminal \/ StaleLaunch

-----------------------------------------------------------------------------
(* retryActivity around one activity *)

LoopFrame == UNCHANGED <<workVars, extVars>> /\ ActFrame

\* The activity fails before any effect; only the task system conflicts.
ActivityFails ==
    /\ Running /\ phase = "call" /\ Spend("fail")
    /\ \/ Failed(mem)
       \/ /\ pc \in ConflictPcs /\ ~CancelSeen
          /\ phase' = "block" /\ blocked' = TRUE /\ UNCHANGED <<pc, tries>> /\ Placed
          /\ mem' = [mem EXCEPT !.state = "blocked"]
          /\ UNCHANGED <<binds, seen, taken, status>>
    /\ UNCHANGED projVars /\ LoopFrame

\* The writes of the loop are activities of their own.
Loop(ph) == Running /\ phase = ph /\ ~CancelSeen

MarkBlocked ==
    /\ Loop("block") /\ UpdateState("blocked", "conflict")
    /\ Phase("note") /\ mem' = Retrying(mem)
    /\ UNCHANGED <<runtimes, processed, binds, seen, taken, status, faults>> /\ LoopFrame

NoteRetry ==
    /\ Loop("note") /\ UpdateRetry(TRUE)
    /\ Phase("timer")
    /\ UNCHANGED <<runtimes, processed, memVars, status, faults>> /\ LoopFrame

\* Mutant: a conflict is not tried again.
ConflictNotRetried ==
    /\ Loop("timer") /\ ~blocked /\ phase' = "call" /\ tries' = TRUE
    /\ UNCHANGED <<pc, blocked>> /\ Placed
    /\ UNCHANGED <<projVars, memVars, status, faults>> /\ LoopFrame

TimerFires ==
    /\ Loop("timer") /\ phase' = "call" /\ tries' = TRUE
    /\ UNCHANGED <<pc, blocked>> /\ Placed
    /\ UNCHANGED <<projVars, memVars, status, faults>> /\ LoopFrame

ClearRetry ==
    /\ Loop("clear") /\ UpdateRetry(FALSE) /\ UNCHANGED workVars
    /\ LET m == [mem EXCEPT !.retry = FALSE, !.err = "none"]
       IN \/ ~blocked /\ Proceed(m)
          \/ blocked /\ Phase("unblock") /\ mem' = m /\ UNCHANGED <<binds, seen, taken, status>>
    /\ UNCHANGED <<runtimes, processed, extVars, faults>> /\ ActFrame

Unblock ==
    /\ Loop("unblock") /\ UpdateState("waiting", "none") /\ UNCHANGED workVars
    /\ Proceed([mem EXCEPT !.state = "waiting"])
    /\ UNCHANGED <<runtimes, processed, extVars, faults>> /\ ActFrame

\* retryProjectionActivity: the write is repeated until it succeeds.
WriteFails ==
    /\ \E ph \in {"block", "note", "clear", "unblock"} : Loop(ph)
    /\ Spend("fail")
    /\ mem' = Retrying(mem)
    /\ UNCHANGED <<projVars, loopVars, binds, seen, taken, status>> /\ LoopFrame

\* The loop's writes and its timer return ctx's error once it is canceled.
LoopCanceled ==
    /\ Running /\ phase \notin {"call", "bind"} /\ CancelSeen
    /\ GiveUp
    /\ UNCHANGED <<projVars, faults>> /\ LoopFrame

RetryLoop ==
    \/ ActivityFails \/ MarkBlocked \/ NoteRetry \/ TimerFires \/ ClearRetry
    \/ Unblock \/ WriteFails \/ LoopCanceled

-----------------------------------------------------------------------------
(* Signals and cancellation reach the workflow *)

CallFrame == UNCHANGED <<execs, extVars, callVars, faults>>

\* ctx is canceled with the next workflow task; only a select sees it at once.
TakeCancel ==
    /\ status = "running" /\ cancelReq /\ ~ctxDone
    /\ ctxDone' = TRUE
    /\ \/ pc = "wait" /\ GiveUp
       \/ /\ pc # "wait"
          /\ UNCHANGED <<memVars, status, pc, phase, tries, blocked>> /\ Placed
    /\ UNCHANGED <<projVars, cancelReq, sigVars, workVars>> /\ CallFrame

Waiting == status = "running" /\ pc = "wait" /\ ~ctxDone

\* Mutant: a signal is matched by its node alone.
AcceptsNode(s) == s.node = cur

Accepts(s) == s.id \notin seen /\ s.node = cur /\ s.visit = visit

TakeReport ==
    /\ Waiting /\ sigs # <<>>
    /\ sigs' = Tail(sigs)
    /\ LET s == Head(sigs)
       IN \/ /\ Accepts(s)
             /\ rep' = [id |-> s.id, next |-> s.next]
             /\ seen' = seen \cup {s.id}
             /\ taken' = taken \cup {[id |-> s.id, visit |-> visit, next |-> s.next]}
             /\ Begin("record") /\ Placed
          \/ /\ ~Accepts(s)
             /\ UNCHANGED <<rep, seen, taken, pc, phase, tries, blocked>> /\ Placed
    /\ UNCHANGED <<projVars, status, cancelReq, reconcile, said, ctxDone, loaded, fresh,
                   mem, binds>> /\ CallFrame

TakeReconcile ==
    /\ Waiting /\ reconcile
    /\ reconcile' = FALSE
    /\ Begin("reconcile") /\ Placed
    /\ UNCHANGED <<projVars, status, cancelReq, sigs, said, ctxDone, workVars, memVars>>
    /\ CallFrame

Receive == TakeCancel \/ TakeReport \/ TakeReconcile

-----------------------------------------------------------------------------
(* SubmitReport *)

ReqFrame == UNCHANGED <<projVars, svcVars, reconcile, said, loopVars, workVars, memVars,
                        extVars, en, cx, faults>>

\* An agent reports from its terminal, and its plugin resends until answered.
\* Identities are fresh, so which one comes next does not matter.
AgentReports(r) ==
    /\ msg[r].st = "unsent" /\ r = CHOOSE q \in ReportIds : msg[q].st = "unsent"
    /\ \E t \in DOMAIN terms, next \in Targets :
          /\ terms[t].live /\ terms[t].visit # 0
          /\ msg' = [msg EXCEPT ![r] = [st |-> "sending", node |-> terms[t].node, next |-> next]]
    /\ UNCHANGED <<sigs, req>> /\ ReqFrame

Answer(r, st) ==
    /\ msg' = [msg EXCEPT ![r].st = st]
    /\ req' = [req EXCEPT ![r] = IdleReq]

\* The query and the validation against the snapshot in history.
CheckReport(r) ==
    /\ msg[r].st = "sending" /\ req[r].st = "idle" /\ status # "none"
    /\ LET stale == \/ status # "running" \/ r \in seen \/ mem.state \in Terminal
                    \/ mem.node # msg[r].node \/ mem.visit = 0
           legal == msg[r].next \in Legal[msg[r].node]
       IN \/ stale /\ Answer(r, "duplicate")
          \/ ~stale /\ ~legal /\ Answer(r, "rejected")
          \/ /\ ~stale /\ legal /\ UNCHANGED msg
             /\ req' = [req EXCEPT ![r] = [st |-> "checked", visit |-> mem.visit]]
    /\ UNCHANGED sigs /\ ReqFrame

\* The signal RPC makes the report durable; a closed execution refuses it.
SignalReport(r) ==
    /\ req[r].st = "checked"
    /\ \/ /\ status = "running" /\ Answer(r, "accepted")
          /\ sigs' = Append(sigs, [id |-> r, node |-> msg[r].node,
                                   visit |-> req[r].visit, next |-> msg[r].next])
       \/ status # "running" /\ Answer(r, "duplicate") /\ UNCHANGED sigs
    /\ ReqFrame

\* The signal fails, or its answer is lost: the plugin sends the report again.
SignalLost(r) ==
    /\ req[r].st = "checked" /\ Spend("call")
    /\ sigs' \in {sigs} \cup
                 (IF status = "running"
                  THEN {Append(sigs, [id |-> r, node |-> msg[r].node,
                                      visit |-> req[r].visit, next |-> msg[r].next])}
                  ELSE {})
    /\ req' = [req EXCEPT ![r] = IdleReq]
    /\ UNCHANGED <<projVars, svcVars, reconcile, said, loopVars, workVars, memVars,
                   extVars, msg, en, cx>>

Submit(r) == CheckReport(r) \/ SignalReport(r) \/ SignalLost(r)

-----------------------------------------------------------------------------
(* EnsureRun: every poll that routes the ticket here *)

\* Mutant: only a canceled status is told apart, the wrong way round.
SwappedState == IF status = "canceled" THEN "completed" ELSE "canceled"

\* stateForTemporalStatus
StateForStatus == IF status = "canceled" THEN "canceled" ELSE "completed"

PollFrame == UNCHANGED <<cancelReq, sigs, said, loopVars, workVars, extVars, msg, req,
                         cx, seen, taken, faults>>

Ask(st, snap) == en' = [st |-> st, snap |-> snap, term |-> 0]
Query == [mem |-> mem, binds |-> binds]

\* Live panes that carry the title of n.
TitledLive(n) == {t \in DOMAIN terms : terms[t].live /\ terms[t].node = n}

\* rediscoverMissingTerminals, for a snapshot whose current node has no handle.
Rediscovered(s, rts) ==
    IF s.mem.node \in Nodes /\ s.binds[s.mem.node].visit # 0 /\ s.binds[s.mem.node].term = 0
       /\ TitledLive(s.mem.node) # {}
    THEN {[rts EXCEPT ![s.mem.node] = [visit |-> s.binds[s.mem.node].visit, term |-> t]] :
             t \in TitledLive(s.mem.node)}
    ELSE {rts}

\* restoreProjection of an absent row while nothing else writes it: by the
\* query, or for a closed execution that cannot answer by its status alone.
Restore(s, answered) ==
    LET decided == IF status # "running" THEN StateForStatus ELSE s.mem.state
    IN IF answered
       THEN /\ row' = [s.mem EXCEPT !.state = decided,
                          !.retry = decided \notin Terminal /\ @]
            /\ runtimes' \in IF status = "running" THEN Rediscovered(s, s.binds) ELSE {s.binds}
       ELSE row' = [NoRow EXCEPT !.state = decided] /\ runtimes' = NoBinds

\* Temporal has no execution: InsertStart, and then a start.
PollUnstarted ==
    /\ en.st = "idle" /\ status = "none" /\ row.state \in {"absent", "starting"}
    /\ InsertStart /\ Ask("create", NoSnapshot)
    /\ UNCHANGED <<runtimes, processed, status, execs, reconcile, mem, binds>> /\ PollFrame

\* ALLOW_DUPLICATE_FAILED_ONLY: a canceled execution may be followed by another.
ExecuteWorkflow ==
    /\ en.st = "create" /\ en' = IdlePoll
    /\ IF status \in {"none", "canceled"} /\ execs < MaxExecs
       THEN /\ status' = "running" /\ execs' = execs + 1
            /\ mem' = [NoRow EXCEPT !.state = "starting"] /\ binds' = NoBinds
            /\ seen' = {} /\ cancelReq' = FALSE /\ ctxDone' = FALSE
            /\ sigs' = <<>> /\ reconcile' = FALSE /\ said' = "none"
            /\ Begin("mailboxes") /\ Placed
            /\ UNCHANGED <<projVars, workVars, extVars, msg, req, cx, taken, faults>>
       ELSE UNCHANGED <<projVars, svcVars, sigVars, loopVars, workVars, memVars, extVars,
                        msg, req, cx, faults>>

\* A closed execution decides the row, unless its fence holds.
PollClosed ==
    /\ en.st = "idle" /\ status \in {"completed", "canceled"}
    /\ row.state \notin Terminal
    /\ IF row.state = "absent" THEN \E answered \in BOOLEAN : Restore(Query, answered)
       ELSE UpdateState(StateForStatus, "none") /\ UNCHANGED runtimes
    /\ UNCHANGED <<processed, status, execs, reconcile, mem, binds, en>> /\ PollFrame

\* A running one without a row: InsertStart and the query, then the writes.
PollMissing ==
    /\ en.st = "idle" /\ status = "running" /\ row.state = "absent"
    /\ InsertStart /\ Ask("node", Query)
    /\ UNCHANGED <<runtimes, processed, status, execs, reconcile, mem, binds>> /\ PollFrame

\* UpdateNode and one UpdateNodeRuntime per binding, from the snapshot.
RestoreNode ==
    /\ en.st = "node" /\ Ask("state", en.snap)
    /\ LET m == en.snap.mem
       IN row' = IF m.node \in Nodes /\ row.state \in Active
                 THEN [row EXCEPT !.state = m.state, !.node = m.node, !.visit = m.visit]
                 ELSE row
    /\ runtimes' = [n \in Nodes |-> IF en.snap.binds[n].visit # 0
                                     THEN en.snap.binds[n] ELSE runtimes[n]]
    /\ UNCHANGED <<processed, status, execs, reconcile, mem, binds>> /\ PollFrame

RestoreState ==
    /\ en.st = "state" /\ Ask("check", NoSnapshot)
    /\ LET m == en.snap.mem
           written == IF Fenced(m.state) THEN row ELSE Written(m.state, m.err)
       IN /\ row' = [written EXCEPT !.retry = IF m.state \in Terminal THEN @ ELSE m.retry]
          /\ runtimes' \in IF m.state \in Terminal THEN {runtimes}
                           ELSE Rediscovered(en.snap, runtimes)
    /\ UNCHANGED <<processed, status, execs, reconcile, mem, binds>> /\ PollFrame

\* reconcileRunningTerminal: the query first.
PollRunning ==
    /\ \/ en.st = "idle" /\ status = "running" /\ row.state # "absent"
       \/ en.st = "check" /\ status = "running"
    /\ IF mem.state \in Terminal \cup {"canceling"} \/ mem.node = NoNode
       THEN en.st = "check" /\ en' = IdlePoll
       ELSE en' = [IdlePoll EXCEPT !.st = "signal", !.term = binds[mem.node].term]
    /\ UNCHANGED <<projVars, status, execs, reconcile, mem, binds>> /\ PollFrame

\* ... then FindTerminal on the handle it answered, and the signal.
SignalReconcile ==
    /\ en.st = "signal" /\ en' = IdlePoll
    /\ LET gone == en.term = 0 \/ ~terms[en.term].live
       IN reconcile' = (reconcile \/ (gone /\ status = "running"))
    /\ UNCHANGED <<projVars, status, execs, mem, binds>> /\ PollFrame

\* The query of an execution that closed meanwhile is an error.
CheckTooLate ==
    /\ en.st = "check" /\ status # "running" /\ en' = IdlePoll
    /\ UNCHANGED <<projVars, status, execs, reconcile, mem, binds>> /\ PollFrame

EnsureRun ==
    \/ PollUnstarted \/ ExecuteWorkflow \/ PollClosed \/ PollMissing \/ RestoreNode
    \/ RestoreState \/ PollRunning \/ SignalReconcile \/ CheckTooLate

-----------------------------------------------------------------------------
(* CancelRun *)

CancelFrame == UNCHANGED <<runtimes, processed, status, execs, sigs, reconcile, loopVars,
                           workVars, memVars, extVars, msg, req, en>>

GetForCancel(why) ==
    /\ cx[why] = "idle" /\ row.state \in Active
    /\ cx' = [cx EXCEPT ![why] = "mark"]
    /\ UNCHANGED <<row, cancelReq, said, faults>> /\ CancelFrame

MarkCanceling(why) ==
    /\ cx[why] = "mark" /\ UpdateState("canceling", why)
    /\ cx' = [cx EXCEPT ![why] = "signal"]
    /\ UNCHANGED <<cancelReq, said, faults>> /\ CancelFrame

\* The service no longer has a running execution: decide the row, or an error.
NotRunning(why) ==
    /\ status # "running"
    /\ IF status = "none" THEN UNCHANGED row ELSE UpdateState(StateForStatus, why)
    /\ cx' = [cx EXCEPT ![why] = "idle"]
    /\ UNCHANGED <<cancelReq, said, faults>>

\* Cleanup reads the reasons that have arrived when it starts.
SignalReason(why) ==
    /\ cx[why] = "signal"
    /\ \/ /\ status = "running"
          /\ said' = IF pc \in CancelPcs THEN said ELSE why
          /\ cx' = [cx EXCEPT ![why] = "cancel"]
          /\ UNCHANGED <<row, cancelReq, faults>>
       \/ NotRunning(why)
    /\ CancelFrame

CancelWorkflow(why) ==
    /\ cx[why] = "cancel"
    /\ \/ /\ status = "running" /\ cancelReq' = TRUE
          /\ cx' = [cx EXCEPT ![why] = "idle"]
          /\ UNCHANGED <<row, said, faults>>
       \/ NotRunning(why)
    /\ CancelFrame

\* Either call fails: an error to the operator, and the mark stays.
CancelFails(why) ==
    /\ cx[why] \in {"signal", "cancel"} /\ Spend("call")
    /\ cx' = [cx EXCEPT ![why] = "idle"]
    /\ UNCHANGED <<row, cancelReq, said>> /\ CancelFrame

Serve(why) ==
    MarkCanceling(why) \/ SignalReason(why) \/ CancelWorkflow(why) \/ CancelFails(why)

-----------------------------------------------------------------------------
(* Faults *)

\* Handlers are lost, and the activity under way fails with its effect kept.
Interrupted ==
    /\ req' = [r \in ReportIds |-> IdleReq] /\ en' = IdlePoll
    /\ cx' = [w \in Reasons |-> "idle"]
    /\ IF phase = "bind" THEN Failed(mem)
       ELSE UNCHANGED <<status, pc, phase, tries, blocked, memVars>> /\ Placed
    /\ UNCHANGED <<execs, cancelReq, sigVars, ctxDone, workVars, extVars, msg>>

Crash == Spend("crash") /\ Interrupted /\ UNCHANGED projVars

\* An execution is listed by Temporal's visibility store, which may lag, or
\* described because a parent ticket claims its workflow, routes to it alone
\* and is owned by this server; without either it stays unrestored.
Found(listed, claimed) == status # "none" /\ (listed \/ claimed)

\* The database is moved aside and `serve --recover` rebuilds it before the
\* worker starts.  An execution may be neither visible nor claimed.
Recover ==
    /\ Spend("loss") /\ Interrupted
    /\ processed' = {}
    /\ \E listed, claimed, answered \in BOOLEAN :
          /\ status = "running" => answered
          /\ IF Found(listed, claimed)
             THEN Restore([mem |-> mem', binds |-> binds'], answered)
             ELSE row' = NoRow /\ runtimes' = NoBinds

TerminalDies ==
    /\ Spend("death")
    /\ \E t \in DOMAIN terms : terms[t].live /\ terms' = Closed({t})
    /\ UNCHANGED <<projVars, svcVars, sigVars, loopVars, workVars, memVars, effects,
                   cancelText, callVars>>

Next ==
    \/ Activity \/ RetryLoop \/ Receive \/ EnsureRun
    \/ \E r \in ReportIds : AgentReports(r) \/ Submit(r)
    \/ \E why \in Reasons : GetForCancel(why) \/ Serve(why)
    \/ Crash \/ Recover \/ TerminalDies

Spec == Init /\ [][Next]_vars

(* Temporal delivers workflow tasks, activities and timers while a worker  *)
(* runs, and retries what a dead one held; the poller asks again at every  *)
(* tick, and handlers run to their end.  Operators and agents owe nothing. *)
FairSpec ==
    /\ Spec /\ WF_vars(Activity \/ RetryLoop) /\ WF_vars(Receive) /\ WF_vars(TakeCancel)
    /\ WF_vars(EnsureRun)
    /\ \A r \in ReportIds : WF_vars(Submit(r))
    /\ \A why \in Reasons : WF_vars(Serve(why))

-----------------------------------------------------------------------------
(* A report moves the run once, whatever was delivered twice: no identity  *)
(* and no visit is consumed by two transitions, though signals are sent    *)
(* again when their answer is lost and stay queued across node entries     *)
(* (state.processed and the visit comparison of the wait loop).            *)
ReportsConsumedOnce ==
    \A a, b \in taken : a.id = b.id \/ a.visit = b.visit => a = b

(* Temporal decides, once: neither an unanswered start, nor a lost row,    *)
(* nor a cancellation makes a poll start a second execution (the describe  *)
(* before the start in EnsureRun), and the projection never claims a       *)
(* decision of its own: a run shown as completed has carried out its whole *)
(* graph, and one shown as canceled is canceled in Temporal or about to    *)
(* be, also when the row was rebuilt from a closed execution that answers  *)
(* no query (stateForTemporalStatus).                                      *)
DecisionIsTemporals ==
    /\ execs <= 1
    /\ row.state = "completed" => <<"applyEnd", visit>> \in effects
    /\ row.state = "canceled"  => status = "canceled" \/ pc = "cState"

(* A canceled execution leaves no agent at work and has told the ticket    *)
(* why, whatever node it was canceled in and whatever the machine keeps    *)
(* between nodes (cancelCleanup).  A crash between the creation of a       *)
(* terminal and its row, or a lost row, hides a terminal from the cleanup, *)
(* and so does the end of a restart before PrepareRestart for an agent of  *)
(* the attempt before.                                                     *)
CanceledLeavesNothing ==
    status = "canceled" /\ faults.crash + faults.loss = 0
       => /\ \A t \in DOMAIN terms : terms[t].visit # 0 => ~terms[t].live
          /\ <<"cComment", 0>> \in effects

(* Every step is eventually carried out: unless the projection was lost,   *)
(* the run comes to wait for a report or to close, through failed          *)
(* activities, failed retry writes and dead workers.                       *)
Unsettled   == pc \notin {"wait", "done"}
StepsSettle == Unsettled ~> (~Unsettled \/ faults.loss > 0)
=============================================================================
