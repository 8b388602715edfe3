--------------------------- MODULE TicketRun_proofs ---------------------------
(***************************************************************************)
(* Facts about one run attempt for every workflow graph, every policy and  *)
(* any number of reports, faults, executions and requests.                 *)
(*                                                                         *)
(* In this order: its types; the staging of a cancellation, and that its   *)
(* shown state moves as RunLifecycle promises; the walk of the graph and   *)
(* its effects (Walk); acknowledged reports (Kept); the announcement of a  *)
(* cancellation (Announced) and the quiet after the end; terminals, of     *)
(* which a node has one (Grown) and a closed run none (Accounted); what a  *)
(* run that waits shows of itself (Shows, Attended).                       *)
(***************************************************************************)
EXTENDS TicketRun, SequenceTheorems, TLAPS

(* The pcs at which the interpreter is inside a node visit, and those at   *)
(* which it carries out a report: there cur is a node and rep a report.    *)
NodePcs == SetupPcs \cup TransitionPcs \cup {"wait", "reconcile"}

Located ==
    /\ pc \in NodePcs => cur \in Nodes
    /\ pc \in TransitionPcs => rep \in Reported

TInv == TypeOK /\ Located

USE DEF CancelPcs, PlainPcs, SetupPcs, TransitionPcs, ActivityPcs, LaunchPcs,
        ConflictPcs, Pcs, Phases

-----------------------------------------------------------------------------
(* Where each step of the interpreter leads *)

LEMMA AfterFacts ==
    ASSUME NEW p \in DOMAIN After
    PROVE  /\ After[p] \in Pcs \ {"done"}
           /\ After[p] \in NodePcs => p \in NodePcs
           /\ After[p] \in TransitionPcs => p \in TransitionPcs
           /\ After[p] \in CancelPcs => p \in CancelPcs
BY DEF After, NodePcs

LEMMA GotoType ==
    ASSUME LoopTypeOK, NEW p \in Pcs, Goto(p)
    PROVE  LoopTypeOK' /\ pc' = p /\ cur' = cur
BY DEF LoopTypeOK, Goto, Begin, Placed

LEMMA PhaseType ==
    ASSUME LoopTypeOK, NEW ph \in Phases, Phase(ph)
    PROVE  LoopTypeOK' /\ pc' = pc /\ cur' = cur
BY DEF LoopTypeOK, Phase, Placed

LEMMA EnterType ==
    ASSUME LoopTypeOK, NEW n \in Nodes, Enter(n)
    PROVE  LoopTypeOK' /\ pc' = "loadRuntime" /\ cur' \in Nodes
<1>1. /\ pc' = "loadRuntime" /\ phase' = "call" /\ tries' = FALSE /\ blocked' = FALSE
      /\ cur' = n /\ visit' = lastVisit + 1 /\ lastVisit' = lastVisit + 1
      /\ inst' = inst
  BY DEF Enter, Begin
<1>2. lastVisit + 1 \in Nat /\ inst \in {"none", "active", "finished"}
  BY DEF LoopTypeOK
<1>3. pc' \in Pcs /\ phase' \in Phases
  BY <1>1
<1> QED  BY <1>1, <1>2, <1>3 DEF LoopTypeOK

LEMMA FinishType ==
    ASSUME LoopTypeOK, Finish
    PROVE  LoopTypeOK' /\ pc' = "done"
BY DEF LoopTypeOK, Finish, Begin, Placed

(* Wherever retryLoop goes on to, a node visit has its node and a          *)
(* transition its report.                                                  *)
LEMMA ContinueType ==
    ASSUME LoopTypeOK, Located, Continue, UNCHANGED rep
    PROVE  LoopTypeOK' /\ Located'
<1>1. CASE Goto("reason")
  BY <1>1, GotoType DEF Located, NodePcs
<1>2. CASE pc \in DOMAIN After /\ Goto(After[pc])
  BY <1>2, GotoType, AfterFacts DEF Located
<1>3. CASE pc = "envStart" /\ Enter(StartTarget)
  BY <1>3, EnterType, GraphAssumption DEF Located
<1>4. CASE pc = "checkpoint" /\ rep.next # EndNode /\ Enter(rep.next)
  <2>1. rep.next \in Nodes
    BY <1>4 DEF Located, Reported, Targets
  <2> QED  BY <1>4, <2>1, EnterType DEF Located
<1>5. CASE Goto("applyEnd")
  BY <1>5, GotoType DEF Located, NodePcs
<1>6. CASE Finish
  BY <1>6, FinishType DEF Located, NodePcs
<1> QED  BY <1>1, <1>2, <1>3, <1>4, <1>5, <1>6 DEF Continue

LEMMA PhaseLocated ==
    ASSUME LoopTypeOK, Located, NEW ph \in Phases, Phase(ph), UNCHANGED rep
    PROVE  LoopTypeOK' /\ Located'
BY PhaseType DEF Located

LEMMA ReasonLocated ==
    ASSUME LoopTypeOK, Goto("reason")
    PROVE  LoopTypeOK' /\ Located'
BY GotoType DEF Located, NodePcs

LEMMA RecordedType ==
    ASSUME LoopTypeOK, Located, Recorded, UNCHANGED rep
    PROVE  LoopTypeOK' /\ Located'
<1>1. CASE Continue            BY <1>1, ContinueType
<1>2. CASE Goto("reason")      BY <1>2, ReasonLocated
<1>3. CASE Phase("clear")      BY <1>3, PhaseLocated
<1> QED  BY <1>1, <1>2, <1>3 DEF Recorded

-----------------------------------------------------------------------------
(* Types of what the helpers write *)

LEMMA UpdateStateType ==
    ASSUME row \in Rows, NEW s \in States, NEW e \in Errors, UpdateState(s, e)
    PROVE  row' \in Rows
BY DEF UpdateState, Written, Rows

LEMMA UpdateStateIfType ==
    ASSUME row \in Rows, NEW s \in States, NEW e \in Errors,
           UpdateStateIf("canceling", s, e)
    PROVE  row' \in Rows
BY DEF UpdateStateIf, Written, Rows

LEMMA UpdateRetryType ==
    ASSUME row \in Rows, NEW b \in BOOLEAN, UpdateRetry(b)
    PROVE  row' \in Rows
BY DEF UpdateRetry, Rows

LEMMA UpdateNodeType ==
    ASSUME row \in Rows, runtimes \in Runtimes,
           NEW n \in Nodes, NEW v \in Nat, UpdateNode("running", n, v)
    PROVE  row' \in Rows /\ runtimes' \in Runtimes
<1>1. CASE row.state \in Active
  <2>1. row' = [row EXCEPT !.state = "running", !.node = n, !.visit = v]
    BY <1>1 DEF UpdateNode
  <2>2. row' \in Rows
    BY <2>1 DEF Rows, States, Active
  <2>3. runtimes' \in Runtimes
    BY <1>1 DEF UpdateNode, Runtimes
  <2> QED  BY <2>2, <2>3
<1>2. CASE row.state \notin Active
  BY <1>2 DEF UpdateNode
<1> QED  BY <1>1, <1>2

LEMMA ClosedType ==
    ASSUME TermTypeOK, NEW S
    PROVE  Closed(S) \in Seq(Terminals)
<1> DEFINE one(t) == IF t \in S THEN [terms[t] EXCEPT !.live = FALSE] ELSE terms[t]
<1>1. /\ Len(terms) \in Nat /\ DOMAIN terms = 1..Len(terms)
      /\ terms \in [1..Len(terms) -> Terminals]
  BY LenProperties DEF TermTypeOK
<1>2. \A t \in 1..Len(terms) : one(t) \in Terminals
  BY <1>1 DEF Terminals
<1>3. [t \in 1..Len(terms) |-> one(t)] \in [1..Len(terms) -> Terminals]
  BY <1>2
<1>4. [t \in 1..Len(terms) |-> one(t)] \in Seq(Terminals)
  BY <1>1, <1>3, SeqDef
<1> QED  BY <1>1, <1>4 DEF Closed

LEMMA ReclaimType ==
    ASSUME TermTypeOK, ProjTypeOK, NEW ns, NEW keep \in BOOLEAN, Reclaim(ns, keep)
    PROVE  TermTypeOK' /\ ProjTypeOK'
<1>1. CASE keep
  BY <1>1 DEF Reclaim, TermTypeOK, ProjTypeOK, projVars
<1>2. CASE ~keep
  <2>1. TermTypeOK'
    BY <1>2, ClosedType DEF Reclaim, TermTypeOK
  <2>2. runtimes' \in Runtimes
    BY <1>2 DEF Reclaim, ClearNodeRuntime, ProjTypeOK, Runtimes
  <2> QED  BY <1>2, <2>1, <2>2 DEF Reclaim, ProjTypeOK
<1> QED  BY <1>1, <1>2

LEMMA SpendType ==
    ASSUME FaultTypeOK, NEW k \in FaultKinds, Spend(k)
    PROVE  FaultTypeOK'
BY DEF FaultTypeOK, Spend

LEMMA RestartedType ==
    ASSUME CallTypeOK, row' \in Rows, Restarted
    PROVE  CallTypeOK'
<1>1. req' \in [ReportIds -> [st : {"idle", "read", "checked"}, visit : Nat]]
  BY DEF Restarted, IdleReq
<1>2. en' \in [st : {"idle", "check", "create"}, node : Nodes \cup {NoNode}]
  BY DEF Restarted, IdlePoll
<1>3. cx' \in [st : {"idle", "request", "finalize", "comment", "write", "complete"},
               why : Errors]
  BY DEF Restarted, IdleCancel, Rows, Errors
<1>4. \A r \in ReportIds : req'[r].st = "idle" /\ msg'[r] = msg[r]
  BY DEF Restarted, IdleReq
<1> QED  BY <1>1, <1>2, <1>3, <1>4 DEF CallTypeOK, Restarted

(* Whatever an activity's own effect, its return keeps the rest typed. *)
LEMMA DoneType ==
    ASSUME TInv, row' \in Rows, UNCHANGED rep, Done
    PROVE  LoopTypeOK' /\ Located' /\ CallTypeOK' /\ FaultTypeOK'
<1>1. CASE Recorded /\ UNCHANGED <<callVars, faults>>
  <2>1. LoopTypeOK' /\ Located'
    BY <1>1, RecordedType DEF TInv, TypeOK
  <2>2. CallTypeOK' /\ FaultTypeOK'
    BY <1>1 DEF TInv, TypeOK, CallTypeOK, FaultTypeOK, callVars
  <2> QED  BY <2>1, <2>2
<1>2. CASE Spend("crash") /\ Restarted /\ Phase("again")
  <2>1. LoopTypeOK' /\ Located'
    BY <1>2, PhaseLocated DEF TInv, TypeOK
  <2>2. CallTypeOK'
    BY <1>2, RestartedType DEF TInv, TypeOK
  <2>3. FaultTypeOK'
    BY <1>2, SpendType DEF TInv, TypeOK, FaultKinds
  <2> QED  BY <2>1, <2>2, <2>3
<1>3. CASE Spend("fail") /\ Failed /\ UNCHANGED callVars
  <2>1. LoopTypeOK' /\ Located'
    BY <1>3, PhaseLocated, ReasonLocated DEF Failed, TInv, TypeOK
  <2>2. CallTypeOK'
    BY <1>3 DEF TInv, TypeOK, CallTypeOK, callVars
  <2>3. FaultTypeOK'
    BY <1>3, SpendType DEF TInv, TypeOK, FaultKinds
  <2> QED  BY <2>1, <2>2, <2>3
<1> QED  BY <1>1, <1>2, <1>3 DEF Done

-----------------------------------------------------------------------------
(* Every action keeps TInv *)

USE DEF projVars, execVars, loopVars, dataVars, wfVars, sigVars, taskVars,
        extVars, callVars

LEMMA FrameTask ==
    ASSUME TInv, TaskFrame, TaskTypeOK', TermTypeOK', Done
    PROVE  TInv'
<1>1. /\ UNCHANGED <<row, runtimes, processed, execs, cancelReq, ctxDone, raced>>
      /\ UNCHANGED <<seen, rep, loaded, fresh, why, taken, sigs, reconcile>>
  BY DEF TaskFrame
<1>2. row' \in Rows
  BY <1>1 DEF TInv, TypeOK, ProjTypeOK
<1>3. LoopTypeOK' /\ Located' /\ CallTypeOK' /\ FaultTypeOK'
  BY <1>1, <1>2, DoneType
<1>4. ProjTypeOK' /\ ExecTypeOK' /\ DataTypeOK' /\ SigTypeOK'
  BY <1>1 DEF TInv, TypeOK, ProjTypeOK, ExecTypeOK, DataTypeOK, SigTypeOK
<1> QED  BY <1>3, <1>4 DEF TInv, TypeOK

LEMMA FrameProj ==
    ASSUME TInv, ProjFrame, ProjTypeOK', TermTypeOK', Done
    PROVE  TInv'
<1>1. /\ UNCHANGED <<mailbox, parent, comments, cancelText>>
      /\ UNCHANGED <<execs, cancelReq, ctxDone, raced>>
      /\ UNCHANGED <<seen, rep, loaded, fresh, why, taken, sigs, reconcile>>
  BY DEF ProjFrame
<1>2. LoopTypeOK' /\ Located' /\ CallTypeOK' /\ FaultTypeOK'
  BY <1>1, DoneType DEF ProjTypeOK
<1>3. TaskTypeOK' /\ ExecTypeOK' /\ DataTypeOK' /\ SigTypeOK'
  BY <1>1 DEF TInv, TypeOK, TaskTypeOK, ExecTypeOK, DataTypeOK, SigTypeOK
<1> QED  BY <1>2, <1>3 DEF TInv, TypeOK

LEMMA TaskActivityType ==
    ASSUME TInv,
           \/ EnsureMailboxes \/ PrepareRestart \/ ApplyTaskConfig \/ Comment
           \/ CompleteMailbox \/ CommentCancellation \/ CleanupRun
    PROVE  TInv'
<1> USE DEF TInv, TypeOK
<1>1. CASE EnsureMailboxes
  <2>1. TaskTypeOK' /\ TermTypeOK'
    BY <1>1 DEF EnsureMailboxes, TaskTypeOK, TermTypeOK
  <2> QED  BY <1>1, <2>1, FrameTask DEF EnsureMailboxes
<1>2. CASE PrepareRestart
  <2>1. TaskTypeOK' /\ TermTypeOK'
    BY <1>2, ClosedType DEF PrepareRestart, TaskTypeOK, TermTypeOK
  <2> QED  BY <1>2, <2>1, FrameTask DEF PrepareRestart
<1>3. CASE ApplyTaskConfig
  <2>1. TaskTypeOK' /\ TermTypeOK'
    BY <1>3 DEF ApplyTaskConfig, TaskTypeOK, TermTypeOK
  <2> QED  BY <1>3, <2>1, FrameTask DEF ApplyTaskConfig
<1>4. CASE Comment
  <2>1. TaskTypeOK' /\ TermTypeOK'
    BY <1>4 DEF Comment, TaskTypeOK, TermTypeOK, LoopTypeOK
  <2> QED  BY <1>4, <2>1, FrameTask DEF Comment
<1>5. CASE CompleteMailbox
  <2>1. TaskTypeOK' /\ TermTypeOK'
    BY <1>5 DEF CompleteMailbox, TaskTypeOK, TermTypeOK
  <2> QED  BY <1>5, <2>1, FrameTask DEF CompleteMailbox
<1>6. CASE CommentCancellation
  <2>1. TaskTypeOK' /\ TermTypeOK'
    BY <1>6 DEF CommentCancellation, CancelComment, TaskTypeOK, TermTypeOK, DataTypeOK
  <2> QED  BY <1>6, <2>1, FrameTask DEF CommentCancellation
<1>7. CASE CleanupRun
  <2>1. TaskTypeOK' /\ TermTypeOK'
    BY <1>7, ClosedType DEF CleanupRun, TaskTypeOK, TermTypeOK
  <2> QED  BY <1>7, <2>1, FrameTask DEF CleanupRun
<1> QED  BY <1>1, <1>2, <1>3, <1>4, <1>5, <1>6, <1>7

LEMMA ProjActivityType ==
    ASSUME TInv,
           \/ CheckpointNodeRuntime \/ FinalizeNodeRuntimes
           \/ ProjectionUpdateNodeRuntimeVisit \/ ProjectionUpdateNode
           \/ ProjectionUpdateState \/ ProjectionRecordProcessedReport
    PROVE  TInv'
<1> USE DEF TInv, TypeOK
<1>0. row \in Rows /\ runtimes \in Runtimes /\ processed \subseteq ReportIds
  BY DEF ProjTypeOK
<1>1. CASE CheckpointNodeRuntime
  <2>1. ProjTypeOK' /\ TermTypeOK'
    BY <1>1, ReclaimType, SwitchAssumption DEF CheckpointNodeRuntime
  <2> QED  BY <1>1, <2>1, FrameProj DEF CheckpointNodeRuntime
<1>2. CASE FinalizeNodeRuntimes
  <2>1. ProjTypeOK' /\ TermTypeOK'
    BY <1>2, ReclaimType, SwitchAssumption DEF FinalizeNodeRuntimes
  <2> QED  BY <1>2, <2>1, FrameProj DEF FinalizeNodeRuntimes
<1>3. CASE ProjectionUpdateNodeRuntimeVisit
  <2>1. runtimes' \in Runtimes
    BY <1>0, <1>3 DEF ProjectionUpdateNodeRuntimeVisit, UpdateNodeRuntimeVisit,
                      Runtimes, LoopTypeOK
  <2>2. ProjTypeOK' /\ TermTypeOK'
    BY <1>0, <1>3, <2>1 DEF ProjectionUpdateNodeRuntimeVisit, ProjTypeOK, TermTypeOK
  <2> QED  BY <1>3, <2>2, FrameProj DEF ProjectionUpdateNodeRuntimeVisit
<1>4. CASE ProjectionUpdateNode
  <2>1. pc = "publishNode" /\ cur \in Nodes /\ visit \in Nat
    BY <1>4 DEF ProjectionUpdateNode, Act, Located, NodePcs, LoopTypeOK
  <2>2. row' \in Rows /\ runtimes' \in Runtimes
    BY <1>0, <1>4, <2>1, UpdateNodeType DEF ProjectionUpdateNode
  <2>3. ProjTypeOK' /\ TermTypeOK'
    BY <1>0, <1>4, <2>2 DEF ProjectionUpdateNode, ProjTypeOK, TermTypeOK
  <2> QED  BY <1>4, <2>3, FrameProj DEF ProjectionUpdateNode
<1>5. CASE ProjectionUpdateState
  <2>1. row' \in Rows
    BY <1>0, <1>5, UpdateStateType DEF ProjectionUpdateState, States, Errors,
                                      Active, Terminal
  <2>2. ProjTypeOK' /\ TermTypeOK'
    BY <1>0, <1>5, <2>1 DEF ProjectionUpdateState, ProjTypeOK, TermTypeOK
  <2> QED  BY <1>5, <2>2, FrameProj DEF ProjectionUpdateState
<1>6. CASE ProjectionRecordProcessedReport
  <2>1. pc = "record" /\ rep \in Reported
    BY <1>6 DEF ProjectionRecordProcessedReport, Act, Located
  <2>2. ProjTypeOK' /\ TermTypeOK'
    BY <1>0, <1>6, <2>1 DEF ProjectionRecordProcessedReport, RecordProcessedReport,
                            Reported, ProjTypeOK, TermTypeOK
  <2> QED  BY <1>6, <2>2, FrameProj DEF ProjectionRecordProcessedReport
<1> QED  BY <1>1, <1>2, <1>3, <1>4, <1>5, <1>6

LEMMA ReadActivityType ==
    ASSUME TInv, PlainActivity \/ LoadNodeRuntime \/ LoadCancellationReason
    PROVE  TInv'
<1> USE DEF TInv, TypeOK
<1>1. /\ Recorded
      /\ UNCHANGED <<projVars, execVars, seen, rep, fresh, taken, sigVars, extVars,
                     callVars, faults>>
  BY DEF PlainActivity, LoadNodeRuntime, LoadCancellationReason
<1>2. loaded' \in Nat /\ why' \in Errors
  <2>1. CASE PlainActivity
    BY <2>1 DEF PlainActivity, DataTypeOK
  <2>2. CASE LoadNodeRuntime
    BY <2>2 DEF LoadNodeRuntime, Act, Located, NodePcs, DataTypeOK, ProjTypeOK, Runtimes
  <2>3. CASE LoadCancellationReason
    BY <2>3 DEF LoadCancellationReason, DataTypeOK, ProjTypeOK, Rows
  <2> QED  BY <2>1, <2>2, <2>3
<1>3. LoopTypeOK' /\ Located'
  BY <1>1, RecordedType
<1>4. ProjTypeOK' /\ ExecTypeOK' /\ SigTypeOK' /\ TaskTypeOK' /\ TermTypeOK'
  BY <1>1 DEF ProjTypeOK, ExecTypeOK, SigTypeOK, TaskTypeOK, TermTypeOK
<1>5. DataTypeOK' /\ CallTypeOK' /\ FaultTypeOK'
  BY <1>1, <1>2 DEF DataTypeOK, CallTypeOK, FaultTypeOK
<1> QED  BY <1>3, <1>4, <1>5

LEMMA ActivityType ==
    ASSUME TInv, Activity
    PROVE  TInv'
BY TaskActivityType, ProjActivityType, ReadActivityType DEF Activity

LEMMA PromptedType ==
    ASSUME TermTypeOK, NEW k, NEW v \in Nat
    PROVE  [terms EXCEPT ![k].visit = v] \in Seq(Terminals)
<1> DEFINE new == [terms EXCEPT ![k].visit = v]
<1>1. /\ Len(terms) \in Nat /\ DOMAIN terms = 1..Len(terms)
      /\ terms \in [1..Len(terms) -> Terminals]
  BY LenProperties DEF TermTypeOK
<1>2. new \in [1..Len(terms) -> Terminals]
  BY <1>1 DEF Terminals
<1>3. new \in Seq(Terminals)
  BY <1>1, <1>2, SeqDef
<1> QED  BY <1>3

LEMMA LaunchType ==
    ASSUME TInv, Launch
    PROVE  TInv'
<1> USE DEF TInv, TypeOK
<1>0. (Running /\ pc \in LaunchPcs) \/ phase = "bind"
  BY DEF Launch, ReuseTerminal, SendFails, EnsureTerminal, BindTerminal, BindFails,
         Launching, Act
<1>1. CASE ReuseTerminal
  <2>1. visit \in Nat
    BY DEF LoopTypeOK
  <2>2. TermTypeOK' /\ TaskTypeOK'
    BY <1>1, <2>1, PromptedType DEF ReuseTerminal, TermTypeOK, TaskTypeOK
  <2> QED  BY <1>1, <2>2, FrameTask DEF ReuseTerminal
<1>2. CASE SendFails
  <2>1. TermTypeOK'
    BY <1>2, ClosedType DEF SendFails, TermTypeOK
  <2>2. LoopTypeOK' /\ Located'
    BY <1>2, PhaseLocated DEF SendFails, TaskFrame
  <2>3. FaultTypeOK'
    BY <1>2, SpendType DEF SendFails, FaultKinds
  <2>4. /\ ProjTypeOK' /\ ExecTypeOK' /\ DataTypeOK' /\ SigTypeOK'
        /\ TaskTypeOK' /\ CallTypeOK'
    BY <1>2 DEF SendFails, TaskFrame, ProjTypeOK, ExecTypeOK, DataTypeOK, SigTypeOK,
                TaskTypeOK, CallTypeOK
  <2> QED  BY <2>1, <2>2, <2>3, <2>4
<1>3. CASE EnsureTerminal
  <2>1. cur \in Nodes /\ visit \in Nat /\ pc \in LaunchPcs
    BY <1>3 DEF EnsureTerminal, Launching, Act, Located, NodePcs, LoopTypeOK
  <2>2. TermTypeOK' /\ fresh' \in Nat
    <3>1. CASE fresh' \in Recoverable /\ UNCHANGED terms
      BY <3>1, LenProperties DEF Recoverable, TermTypeOK
    <3>2. CASE /\ terms' = Append(terms, [node |-> cur, live |-> TRUE, visit |-> visit])
               /\ fresh' = Len(terms) + 1
      BY <2>1, <3>2, LenProperties DEF TermTypeOK, Terminals
    <3> QED  BY <1>3, <3>1, <3>2 DEF EnsureTerminal
  <2>3. LoopTypeOK' /\ Located'
    BY <1>3, PhaseLocated DEF EnsureTerminal
  <2>4. ProjTypeOK' /\ ExecTypeOK' /\ SigTypeOK' /\ TaskTypeOK'
    BY <1>3 DEF EnsureTerminal, ProjTypeOK, ExecTypeOK, SigTypeOK, TaskTypeOK
  <2>5. DataTypeOK' /\ CallTypeOK' /\ FaultTypeOK'
    BY <1>3, <2>2 DEF EnsureTerminal, DataTypeOK, CallTypeOK, FaultTypeOK
  <2> QED  BY <2>2, <2>3, <2>4, <2>5
<1>4. CASE BindTerminal
  <2>1. runtimes' \in Runtimes
    BY <1>4 DEF BindTerminal, ReplaceNodeRuntime, ProjTypeOK, DataTypeOK, Runtimes
  <2>2. LoopTypeOK' /\ Located'
    BY <1>4, RecordedType DEF BindTerminal
  <2>3. ProjTypeOK' /\ ExecTypeOK' /\ SigTypeOK' /\ TaskTypeOK' /\ TermTypeOK'
    BY <1>4, <2>1 DEF BindTerminal, ProjTypeOK, ExecTypeOK, SigTypeOK, TaskTypeOK,
                      TermTypeOK
  <2>4. DataTypeOK' /\ CallTypeOK' /\ FaultTypeOK'
    BY <1>4 DEF BindTerminal, DataTypeOK, CallTypeOK, FaultTypeOK
  <2> QED  BY <2>2, <2>3, <2>4
<1>5. CASE BindFails
  <2>1. TermTypeOK'
    BY <1>5, ClosedType DEF BindFails, TermTypeOK
  <2>2. LoopTypeOK' /\ Located'
    BY <1>5, PhaseLocated, ReasonLocated DEF BindFails, Failed
  <2>3. FaultTypeOK'
    BY <1>5, SpendType DEF BindFails, FaultKinds
  <2>4. ProjTypeOK' /\ ExecTypeOK' /\ SigTypeOK' /\ TaskTypeOK'
    BY <1>5 DEF BindFails, ProjTypeOK, ExecTypeOK, SigTypeOK, TaskTypeOK
  <2>5. DataTypeOK' /\ CallTypeOK'
    BY <1>5 DEF BindFails, DataTypeOK, CallTypeOK
  <2> QED  BY <2>1, <2>2, <2>3, <2>4, <2>5
<1> QED  BY <1>1, <1>2, <1>3, <1>4, <1>5 DEF Launch

LEMMA RetryLoopType ==
    ASSUME TInv, RetryLoop
    PROVE  TInv'
<1> USE DEF TInv, TypeOK
<1>0. LoopFrame
  BY DEF RetryLoop, ActivityFails, MarkBlocked, NoteRetry, TimerFires, ClearRetry,
         Unblock, RetryWriteFails
<1>1. UNCHANGED rep
  BY <1>0 DEF LoopFrame
<1>2. ExecTypeOK' /\ DataTypeOK' /\ SigTypeOK' /\ TaskTypeOK' /\ TermTypeOK' /\ CallTypeOK'
  BY <1>0 DEF LoopFrame, ExecTypeOK, DataTypeOK, SigTypeOK, TaskTypeOK, TermTypeOK,
              CallTypeOK
<1>3. FaultTypeOK'
  <2>1. CASE UNCHANGED faults
    BY <2>1 DEF FaultTypeOK
  <2>2. CASE Spend("fail") \/ Spend("db")
    BY <2>2, SpendType DEF FaultKinds
  <2> QED  BY <2>1, <2>2 DEF RetryLoop, ActivityFails, MarkBlocked, NoteRetry,
                             TimerFires, ClearRetry, Unblock, RetryWriteFails,
                             ScheduleState
<1>4. ProjTypeOK'
  <2>1. row \in Rows
    BY DEF ProjTypeOK
  <2>2. row' \in Rows
    <3>1. CASE row' = row
      BY <2>1, <3>1
    <3>2. CASE UpdateState("blocked", "conflict") \/ UpdateState("waiting", "none")
      BY <2>1, <3>2, UpdateStateType DEF States, Active, Errors
    <3>3. CASE UpdateRetry(TRUE) \/ UpdateRetry(FALSE)
      BY <2>1, <3>3, UpdateRetryType
    <3> QED  BY <3>1, <3>2, <3>3 DEF RetryLoop, ActivityFails, MarkBlocked, NoteRetry,
                             TimerFires, ClearRetry, Unblock, RetryWriteFails,
                             ScheduleState
  <2> QED  BY <1>0, <2>2 DEF LoopFrame, ProjTypeOK
<1>5. LoopTypeOK' /\ Located'
  <2>1. CASE \E ph \in Phases : Phase(ph)
    BY <1>1, <2>1, PhaseLocated
  <2>2. CASE Goto("reason")
    BY <2>2, ReasonLocated
  <2>3. CASE Continue
    BY <1>1, <2>3, ContinueType
  <2>4. CASE \/ phase' = "note" /\ blocked' = TRUE /\ Placed /\ UNCHANGED <<inst, pc, tries>>
             \/ phase' = "call" /\ tries' = TRUE /\ Placed /\ UNCHANGED <<inst, pc, blocked>>
    BY <1>1, <2>4 DEF Placed, LoopTypeOK, Located
  <2>5. CASE Abandon
    <3>1. CASE Goto("reason")
      BY <3>1, ReasonLocated
    <3>2. CASE pc = "reconcile" /\ Goto("wait")
      BY <1>1, <3>2, GotoType DEF Located, NodePcs
    <3>3. CASE Finish
      BY <3>3, FinishType DEF Located, NodePcs
    <3> QED  BY <2>5, <3>1, <3>2, <3>3 DEF Abandon
  <2>6. CASE ActivityFails
    BY <2>1, <2>2, <2>6 DEF ActivityFails, Failed
  <2>7. CASE MarkBlocked
    BY <2>2, <2>4, <2>7 DEF MarkBlocked
  <2>8. CASE NoteRetry
    BY <2>1, <2>2, <2>8 DEF NoteRetry
  <2>9. CASE TimerFires
    BY <2>4, <2>9 DEF TimerFires
  <2>10. CASE ClearRetry
    BY <2>1, <2>3, <2>10 DEF ClearRetry
  <2>11. CASE Unblock
    BY <2>3, <2>11 DEF Unblock
  <2>12. CASE RetryWriteFails
    BY <2>5, <2>12 DEF RetryWriteFails
  <2> QED  BY <2>6, <2>7, <2>8, <2>9, <2>10, <2>11, <2>12 DEF RetryLoop
<1> QED  BY <1>2, <1>3, <1>4, <1>5

LEMMA TailType ==
    ASSUME SigTypeOK, sigs # <<>>
    PROVE  Head(sigs) \in Signals /\ Tail(sigs) \in Seq(Signals)
BY HeadTailProperties DEF SigTypeOK

LEMMA ReceiveType ==
    ASSUME TInv, Receive
    PROVE  TInv'
<1> USE DEF TInv, TypeOK
<1>1. CASE TakeCancel
  <2>1. LoopTypeOK' /\ Located'
    <3>1. CASE UNCHANGED loopVars
      BY <1>1, <3>1 DEF TakeCancel, LoopTypeOK, Located
    <3>2. CASE Goto("reason")
      BY <3>2, ReasonLocated
    <3> QED  BY <1>1, <3>1, <3>2 DEF TakeCancel
  <2>2. ProjTypeOK' /\ ExecTypeOK' /\ DataTypeOK' /\ SigTypeOK'
    BY <1>1 DEF TakeCancel, ProjTypeOK, ExecTypeOK, DataTypeOK, SigTypeOK
  <2>3. TaskTypeOK' /\ TermTypeOK' /\ CallTypeOK' /\ FaultTypeOK'
    BY <1>1 DEF TakeCancel, TaskTypeOK, TermTypeOK, CallTypeOK, FaultTypeOK
  <2> QED  BY <2>1, <2>2, <2>3
<1>2. CASE TakeReport
  <2> DEFINE s == Head(sigs)
  <2>1. /\ s \in Signals /\ SigTypeOK'
        /\ seen' = seen \cup {s.id} /\ UNCHANGED <<loaded, fresh, why>>
    BY <1>2, TailType DEF TakeReport, SigTypeOK
  <2>2. /\ s.id \in ReportIds /\ s.next \in Targets /\ s.meant \in Nat
        /\ cur \in Nodes /\ visit \in Nat /\ execs \in Nat
    BY <1>2, <2>1 DEF TakeReport, Waiting, Located, NodePcs, Signals, LoopTypeOK,
                      ExecTypeOK
  <2>3. ASSUME ~Accepts(s) PROVE LoopTypeOK' /\ Located' /\ DataTypeOK'
    <3>1. UNCHANGED <<rep, taken, loopVars>>
      BY <1>2, <2>3 DEF TakeReport
    <3>2. LoopTypeOK' /\ Located'
      BY <3>1 DEF LoopTypeOK, Located
    <3>3. DataTypeOK'
      BY <2>1, <2>2, <3>1 DEF DataTypeOK
    <3> QED  BY <3>2, <3>3
  <2>4. ASSUME Accepts(s) PROVE LoopTypeOK' /\ Located' /\ DataTypeOK'
    <3>1. /\ rep' = [id |-> s.id, next |-> s.next]
          /\ taken' = taken \cup {[exec |-> execs, id |-> s.id, node |-> cur,
                                   visit |-> visit, next |-> s.next, meant |-> s.meant]}
          /\ Goto("record") \/ Finish
      BY <1>2, <2>4 DEF TakeReport
    <3>2. rep' \in Reported
      BY <2>2, <3>1 DEF Reported
    <3>3. taken' \subseteq Taken
      BY <2>2, <3>1 DEF Taken, DataTypeOK
    <3>4. LoopTypeOK' /\ Located'
      <4>1. CASE Goto("record")
        BY <2>2, <3>2, <4>1, GotoType DEF Located
      <4>2. CASE Finish
        BY <4>2, FinishType DEF Located, NodePcs
      <4> QED  BY <3>1, <4>1, <4>2
    <3>5. DataTypeOK'
      BY <2>1, <2>2, <3>2, <3>3 DEF DataTypeOK
    <3> QED  BY <3>4, <3>5
  <2>5. ProjTypeOK' /\ ExecTypeOK' /\ TaskTypeOK' /\ TermTypeOK' /\ CallTypeOK'
        /\ FaultTypeOK'
    BY <1>2 DEF TakeReport, ProjTypeOK, ExecTypeOK, TaskTypeOK, TermTypeOK, CallTypeOK,
                FaultTypeOK
  <2> QED  BY <2>1, <2>3, <2>4, <2>5
<1>3. CASE TakeReconcile
  <2>1. LoopTypeOK' /\ Located'
    BY <1>3, GotoType DEF TakeReconcile, Waiting, Located, NodePcs
  <2>2. ProjTypeOK' /\ ExecTypeOK' /\ DataTypeOK' /\ SigTypeOK'
    BY <1>3 DEF TakeReconcile, ProjTypeOK, ExecTypeOK, DataTypeOK, SigTypeOK
  <2>3. TaskTypeOK' /\ TermTypeOK' /\ CallTypeOK' /\ FaultTypeOK'
    BY <1>3 DEF TakeReconcile, TaskTypeOK, TermTypeOK, CallTypeOK, FaultTypeOK
  <2> QED  BY <2>1, <2>2, <2>3
<1> QED  BY <1>1, <1>2, <1>3 DEF Receive

LEMMA AnswerType ==
    ASSUME CallTypeOK, NEW r \in ReportIds, req[r].st # "idle",
           NEW st \in {"sending", "accepted", "duplicate", "rejected"},
           Answer(r, st), UNCHANGED <<en, cx>>
    PROVE  CallTypeOK'
<1>1. msg[r].st = "sending" /\ msg[r] \in Messages
  BY DEF CallTypeOK
<1>2. /\ msg' = [msg EXCEPT ![r] = [msg[r] EXCEPT !.st = st]]
      /\ req' = [req EXCEPT ![r] = IdleReq]
  BY DEF Answer
<1>3. [msg[r] EXCEPT !.st = st] \in Messages
  BY <1>1 DEF Messages
<1>4. msg' \in [ReportIds -> Messages]
  BY <1>2, <1>3 DEF CallTypeOK
<1>5. req' \in [ReportIds -> [st : {"idle", "read", "checked"}, visit : Nat]]
  BY <1>2 DEF CallTypeOK, IdleReq
<1>6. ASSUME NEW q \in ReportIds
      PROVE  /\ msg'[q].st # "unsent" => msg'[q].node \in Nodes /\ msg'[q].next \in Targets
             /\ req'[q].st # "idle" => msg'[q].st = "sending"
  <2>1. CASE q = r
    BY <1>1, <1>2, <2>1 DEF CallTypeOK, IdleReq, Messages
  <2>2. CASE q # r
    BY <1>2, <1>5, <2>2 DEF CheckReport, CallTypeOK
  <2> QED  BY <2>1, <2>2
<1> QED  BY <1>4, <1>5, <1>6 DEF CallTypeOK

LEMMA SubmitType ==
    ASSUME TInv, NEW r \in ReportIds, AgentReports(r) \/ Submit(r)
    PROVE  TInv'
<1> USE DEF TInv, TypeOK
<1>0. CallFrame /\ UNCHANGED projVars
  BY DEF AgentReports, Submit, ReadRun, CheckReport, SignalReport, SignalRefused
<1>1. /\ ProjTypeOK' /\ ExecTypeOK' /\ LoopTypeOK' /\ DataTypeOK'
      /\ TaskTypeOK' /\ TermTypeOK' /\ Located'
  BY <1>0 DEF CallFrame, ProjTypeOK, ExecTypeOK, LoopTypeOK, DataTypeOK, TaskTypeOK,
              TermTypeOK, Located
<1>2. UNCHANGED <<en, cx>>
  BY <1>0 DEF CallFrame
<1>3. CASE AgentReports(r)
  <2>1. PICK t \in DOMAIN terms, next \in Targets :
           msg' = [msg EXCEPT ![r] = [st |-> "sending", node |-> terms[t].node,
                                      meant |-> terms[t].visit, next |-> next]]
    BY <1>3 DEF AgentReports
  <2>2. terms[t] \in Terminals
    BY LenProperties DEF TermTypeOK
  <2>3. CallTypeOK'
    <3> DEFINE m == [st |-> "sending", node |-> terms[t].node,
                     meant |-> terms[t].visit, next |-> next]
    <3>1. m \in Messages /\ m.node \in Nodes /\ m.next \in Targets
      BY <2>2 DEF Messages, Terminals
    <3>2. req[r].st = "idle" /\ msg' = [msg EXCEPT ![r] = m] /\ UNCHANGED req
      BY <1>3, <2>1 DEF AgentReports, CallTypeOK
    <3> QED  BY <1>2, <3>1, <3>2 DEF CallTypeOK
  <2>4. SigTypeOK' /\ FaultTypeOK'
    BY <1>3 DEF AgentReports, SigTypeOK, FaultTypeOK
  <2> QED  BY <1>1, <2>3, <2>4
<1>4. CASE ReadRun(r)
  <2>1. row.visit \in Nat
    BY DEF ProjTypeOK, Rows
  <2>2. CallTypeOK'
    BY <1>2, <1>4, <2>1 DEF ReadRun, CallTypeOK
  <2>3. SigTypeOK' /\ FaultTypeOK'
    BY <1>4 DEF ReadRun, SigTypeOK, FaultTypeOK
  <2> QED  BY <1>1, <2>2, <2>3
<1>5. CASE CheckReport(r)
  <2>1. ASSUME Answer(r, "duplicate") \/ Answer(r, "rejected") PROVE CallTypeOK'
    BY <1>2, <1>5, <2>1, AnswerType DEF CheckReport
  <2>2. ASSUME req' = [req EXCEPT ![r].st = "checked"], UNCHANGED msg PROVE CallTypeOK'
    BY <1>2, <1>5, <2>2 DEF CheckReport, CallTypeOK
  <2>3. SigTypeOK' /\ FaultTypeOK'
    BY <1>5 DEF CheckReport, SigTypeOK, FaultTypeOK
  <2> QED  BY <1>1, <1>5, <2>1, <2>2, <2>3 DEF CheckReport
<1>6. CASE SignalReport(r)
  <2>1. Answer(r, "accepted") \/ Answer(r, "sending")
    BY <1>6 DEF SignalReport
  <2>2. CallTypeOK'
    BY <1>2, <1>6, <2>1, AnswerType DEF SignalReport
  <2>3. FaultTypeOK'
    BY <1>6, SpendType DEF SignalReport, FaultTypeOK, FaultKinds
  <2>4. SigTypeOK'
    <3> DEFINE s == [id |-> r, node |-> msg[r].node, visit |-> req[r].visit,
                     next |-> msg[r].next, meant |-> msg[r].meant]
    <3>1. sigs' = Append(sigs, s) /\ UNCHANGED reconcile
      BY <1>6 DEF SignalReport
    <3>2. s \in Signals
      BY <1>6 DEF SignalReport, Signals, CallTypeOK, Messages
    <3> QED  BY <3>1, <3>2, AppendProperties DEF SigTypeOK
  <2> QED  BY <1>1, <2>2, <2>3, <2>4
<1>7. CASE SignalRefused(r)
  <2>1. CallTypeOK'
    BY <1>2, <1>7, AnswerType DEF SignalRefused
  <2>2. SigTypeOK' /\ FaultTypeOK'
    BY <1>7 DEF SignalRefused, SigTypeOK, FaultTypeOK
  <2> QED  BY <1>1, <2>1, <2>2
<1> QED  BY <1>3, <1>4, <1>5, <1>6, <1>7 DEF Submit

LEMMA PollType ==
    ASSUME TInv, Poll
    PROVE  TInv'
<1> USE DEF TInv, TypeOK
<1>0. PollFrame
  BY DEF Poll, PollReads, PollChecks, PollCreates
<1>1. TaskTypeOK' /\ TermTypeOK' /\ FaultTypeOK'
  BY <1>0 DEF PollFrame, TaskTypeOK, TermTypeOK, FaultTypeOK
<1>2. ProjTypeOK'
  <2>1. row' \in Rows
    BY DEF Poll, PollReads, PollChecks, PollCreates, InsertStart, ProjTypeOK, Rows,
           States, Active
  <2> QED  BY <1>0, <2>1 DEF PollFrame, ProjTypeOK
<1>3. CallTypeOK'
  <2>1. en' \in [st : {"idle", "check", "create"}, node : Nodes \cup {NoNode}]
    <3>1. CASE PollReads
      BY <3>1 DEF PollReads, IdlePoll, ProjTypeOK, Rows
    <3>2. CASE PollChecks
      BY <3>2 DEF PollChecks, IdlePoll, CallTypeOK
    <3>3. CASE PollCreates
      BY <3>3 DEF PollCreates, IdlePoll
    <3> QED  BY <3>1, <3>2, <3>3 DEF Poll
  <2> QED  BY <1>0, <2>1 DEF PollFrame, CallTypeOK
<1>4. ExecTypeOK' /\ LoopTypeOK' /\ DataTypeOK' /\ SigTypeOK' /\ Located'
  <2>1. CASE UNCHANGED <<execVars, wfVars, sigs>> /\ reconcile' \in BOOLEAN
    BY <2>1 DEF ExecTypeOK, LoopTypeOK, DataTypeOK, SigTypeOK, Located
  <2>2. CASE PollReads
    BY <2>1, <2>2 DEF PollReads, SigTypeOK
  <2>3. CASE PollChecks
    <3>1. reconcile' \in BOOLEAN
      BY <2>3 DEF PollChecks, SigTypeOK
    <3> QED  BY <2>1, <2>3, <3>1 DEF PollChecks
  <2>4. CASE /\ execs < MaxExecs /\ execs' = execs + 1
             /\ inst' = "active" /\ Begin("mailboxes")
             /\ raced' = (raced \/ row.state \notin Active)
             /\ cancelReq' = FALSE /\ ctxDone' = FALSE
             /\ cur' = NoNode /\ visit' = 0 /\ UNCHANGED lastVisit
             /\ seen' = {} /\ rep' = NoReport /\ loaded' = 0 /\ fresh' = 0
             /\ why' = "none" /\ UNCHANGED taken
             /\ sigs' = <<>> /\ reconcile' = FALSE
    <3>1. raced' \in BOOLEAN
      <4>1. raced' = (raced \/ row.state \notin Active)
        BY <2>4
      <4>2. (raced \/ row.state \notin Active) \in BOOLEAN
        BY Zenon
      <4> QED  BY <4>1, <4>2, Zenon
    <3>2. execs' \in 0..MaxExecs /\ cancelReq' \in BOOLEAN /\ ctxDone' \in BOOLEAN
      <4>1. MaxExecs \in Nat /\ execs \in 0..MaxExecs
        BY FaultAssumption DEF ExecTypeOK
      <4>2. execs < MaxExecs /\ execs' = execs + 1 /\ ~cancelReq' /\ ~ctxDone'
        BY <2>4
      <4>3. cancelReq' \in BOOLEAN /\ ctxDone' \in BOOLEAN
        BY <2>4
      <4> QED  BY <4>1, <4>2, <4>3
    <3>3. ExecTypeOK'
      BY <3>1, <3>2 DEF ExecTypeOK
    <3>4. LoopTypeOK' /\ Located'
      BY <2>4 DEF LoopTypeOK, Located, NodePcs, Begin
    <3>5. DataTypeOK'
      BY <2>4 DEF DataTypeOK, Errors
    <3>6. SigTypeOK'
      BY <2>4, EmptySeq DEF SigTypeOK
    <3> QED  BY <3>3, <3>4, <3>5, <3>6
  <2>5. CASE PollCreates
    BY <2>1, <2>4, <2>5 DEF PollCreates, SigTypeOK
  <2> QED  BY <2>2, <2>3, <2>5 DEF Poll
<1> QED  BY <1>1, <1>2, <1>3, <1>4

LEMMA CancelType ==
    ASSUME TInv, OperatorCancels \/ Cancel \/ CancelFails
    PROVE  TInv'
<1> USE DEF TInv, TypeOK
<1>0. CancelFrame
  BY DEF OperatorCancels, Cancel, CancelFails, RequestCancellation,
         FinalizeCancellation, CompleteInstead
<1>1. LoopTypeOK' /\ DataTypeOK' /\ SigTypeOK' /\ Located'
  BY <1>0 DEF CancelFrame, LoopTypeOK, DataTypeOK, SigTypeOK, Located
<1>2. FaultTypeOK'
  BY SpendType DEF OperatorCancels, Cancel, CancelFails, RequestCancellation,
         FinalizeCancellation, CompleteInstead, FaultTypeOK, FaultKinds
<1>3. ExecTypeOK'
  BY DEF OperatorCancels, Cancel, CancelFails, RequestCancellation,
         FinalizeCancellation, CompleteInstead, ExecFrame, ExecTypeOK
<1>4. row \in Rows /\ runtimes \in Runtimes /\ processed \subseteq ReportIds
  BY DEF ProjTypeOK
<1>5. cx' \in [st : {"idle", "request", "finalize", "comment", "write", "complete"},
               why : Errors] => CallTypeOK'
  BY <1>0 DEF CancelFrame, CallTypeOK
<1>6. ProjTypeOK' /\ TermTypeOK' /\ TaskTypeOK' /\ CallTypeOK'
  <2>1. CASE OperatorCancels
    <3>1. row' \in Rows
      BY <1>4, <2>1 DEF OperatorCancels, BeginCancellation, Rows, States, Errors
    <3>2. cx' = [st |-> "request", why |-> row'.err] /\ row'.err \in Errors
      BY <2>1, <3>1 DEF OperatorCancels, Rows
    <3>3. ProjTypeOK' /\ TermTypeOK' /\ TaskTypeOK'
      BY <1>0, <1>4, <2>1, <3>1 DEF OperatorCancels, CancelFrame, ProjTypeOK,
                                    TermTypeOK, TaskTypeOK
    <3> QED  BY <1>5, <3>2, <3>3
  <2>2. CASE RequestCancellation
    <3>1. CallTypeOK'
      BY <1>5, <2>2 DEF RequestCancellation, CancelEnds, CancelStep, IdleCancel,
                        CallTypeOK, Errors
    <3> QED  BY <1>0, <2>2, <3>1 DEF RequestCancellation, CancelFrame, ProjTypeOK,
                                     TermTypeOK, TaskTypeOK
  <2>3. CASE FinalizeCancellation
    <3>1. CallTypeOK'
      BY <1>5, <2>3 DEF FinalizeCancellation, CancelEnds, CancelStep, IdleCancel,
                        CallTypeOK, Errors
    <3>2. CASE Reclaim(Nodes, KeepTerminals) /\ UNCHANGED taskVars
      BY <3>1, <3>2, ReclaimType, SwitchAssumption DEF TaskTypeOK
    <3>3. CASE CancelComment(cx.why) /\ UNCHANGED <<row, runtimes, terms>>
      BY <1>0, <1>4, <3>1, <3>3 DEF CancelComment, CancelFrame, ProjTypeOK, TermTypeOK,
                                    TaskTypeOK, CallTypeOK
    <3>4. CASE /\ UpdateStateIf("canceling", "canceled", "none")
               /\ UNCHANGED <<runtimes, extVars>>
      <4>1. row' \in Rows
        BY <1>4, <3>4, UpdateStateIfType DEF States, Terminal, Errors
      <4> QED  BY <1>0, <1>4, <3>1, <3>4, <4>1 DEF CancelFrame, ProjTypeOK, TermTypeOK,
                                                   TaskTypeOK
    <3> QED  BY <2>3, <3>2, <3>3, <3>4 DEF FinalizeCancellation
  <2>4. CASE CompleteInstead
    <3>1. row' \in Rows
      BY <1>4, <2>4, UpdateStateIfType DEF CompleteInstead, States, Terminal, Errors
    <3>2. CallTypeOK'
      BY <1>5, <2>4 DEF CompleteInstead, CancelEnds, IdleCancel, Errors
    <3> QED  BY <1>0, <1>4, <2>4, <3>1, <3>2 DEF CompleteInstead, CancelFrame,
                                     ProjTypeOK, TermTypeOK, TaskTypeOK
  <2>5. CASE CancelFails
    <3>1. CallTypeOK'
      BY <1>5, <2>5 DEF CancelFails, IdleCancel, Errors
    <3> QED  BY <1>0, <1>4, <2>5, <3>1 DEF CancelFails, CancelFrame, ProjTypeOK,
                                           TermTypeOK, TaskTypeOK
  <2> QED  BY <2>1, <2>2, <2>3, <2>4, <2>5 DEF Cancel
<1> QED  BY <1>1, <1>2, <1>3, <1>6

LEMMA FaultType ==
    ASSUME TInv, Crash \/ TerminalDies
    PROVE  TInv'
<1> USE DEF TInv, TypeOK
<1>1. CASE Crash
  <2>1. ProjTypeOK' /\ ExecTypeOK' /\ SigTypeOK' /\ TaskTypeOK' /\ TermTypeOK'
    BY <1>1 DEF Crash, ProjTypeOK, ExecTypeOK, SigTypeOK, TaskTypeOK, TermTypeOK
  <2>2. DataTypeOK' /\ LoopTypeOK' /\ Located'
    BY <1>1 DEF Crash, DataTypeOK, LoopTypeOK, Located
  <2>3. FaultTypeOK'
    BY <1>1, SpendType DEF Crash, FaultKinds
  <2>4. CallTypeOK'
    BY <1>1, <2>1, RestartedType DEF Crash, ProjTypeOK
  <2> QED  BY <2>1, <2>2, <2>3, <2>4
<1>2. CASE TerminalDies
  <2>1. TermTypeOK'
    BY <1>2, ClosedType DEF TerminalDies, TermTypeOK
  <2>2. FaultTypeOK'
    BY <1>2, SpendType DEF TerminalDies, FaultKinds
  <2>3. ProjTypeOK' /\ ExecTypeOK' /\ SigTypeOK' /\ TaskTypeOK' /\ CallTypeOK'
    BY <1>2 DEF TerminalDies, ProjTypeOK, ExecTypeOK, SigTypeOK, TaskTypeOK, CallTypeOK
  <2>4. DataTypeOK' /\ LoopTypeOK' /\ Located'
    BY <1>2 DEF TerminalDies, DataTypeOK, LoopTypeOK, Located
  <2> QED  BY <2>1, <2>2, <2>3, <2>4
<1> QED  BY <1>1, <1>2

LEMMA StutterType ==
    ASSUME TInv, UNCHANGED vars
    PROVE  TInv'
BY DEF TInv, TypeOK, vars, ProjTypeOK, ExecTypeOK, LoopTypeOK, DataTypeOK, SigTypeOK,
       TaskTypeOK, TermTypeOK, CallTypeOK, FaultTypeOK, Located

LEMMA InitType == Init => TInv
<1> SUFFICES ASSUME Init PROVE TInv
  OBVIOUS
<1> USE DEF Init
<1>1. ProjTypeOK
  BY DEF ProjInit, ProjTypeOK, Rows, Runtimes, States, Errors
<1>2. ExecTypeOK
  <2>1. MaxExecs \in Nat
    BY FaultAssumption
  <2>2. execs \in 0..MaxExecs
    BY <2>1
  <2>3. cancelReq \in BOOLEAN /\ ctxDone \in BOOLEAN /\ raced \in BOOLEAN
    OBVIOUS
  <2> QED  BY <2>2, <2>3 DEF ExecTypeOK
<1>7. LoopTypeOK /\ Located
  BY DEF LoopTypeOK, Located, NodePcs
<1>8. DataTypeOK
  BY DEF DataTypeOK, Errors
<1>9. SigTypeOK
  BY EmptySeq DEF SigTypeOK
<1>3. TaskTypeOK
  BY DEF TaskTypeOK, Errors
<1>4. TermTypeOK
  <2> DEFINE left == [node |-> StartTarget, live |-> TRUE, visit |-> 0]
  <2>1. left \in Terminals
    BY GraphAssumption DEF Terminals
  <2>2. <<left>> \in Seq(Terminals) /\ << >> \in Seq(Terminals)
    BY <2>1, EmptySeq
  <2>3. terms \in {<<left>>, << >>}
    OBVIOUS
  <2> QED  BY <2>2, <2>3 DEF TermTypeOK
<1>5. CallTypeOK
  BY DEF CallTypeOK, Messages, IdleReq, IdlePoll, IdleCancel, Errors
<1>6. FaultTypeOK
  BY DEF FaultTypeOK
<1> QED  BY <1>1, <1>2, <1>3, <1>4, <1>5, <1>6, <1>7, <1>8, <1>9 DEF TInv, TypeOK

LEMMA NextType == TInv /\ [Next]_vars => TInv'
BY ActivityType, LaunchType, RetryLoopType, ReceiveType, SubmitType, PollType,
   CancelType, FaultType, StutterType DEF Next

(* Every row, signal, request, terminal and report a run ever holds is     *)
(* well formed, and the interpreter is never inside a visit without a node *)
(* or carrying out a report it does not have.                              *)
THEOREM TicketTyping == Spec => [](TypeOK /\ Located)
<1>1. Init => TInv
  BY InitType
<1>2. TInv /\ [Next]_vars => TInv'
  BY NextType
<1> QED  BY <1>1, <1>2, PTL DEF Spec, TInv

-----------------------------------------------------------------------------
(* A cancellation is on record before anything is done about it *)

RowStep == row'.state = row.state \/ Lifecycle!Next

USE DEF Lifecycle!Next, Lifecycle!Create, Lifecycle!Progress, Lifecycle!Complete,
        Lifecycle!RequestCancel, Lifecycle!ConfirmCancel, Lifecycle!Active,
        Active, Terminal

(* Every write to relay_runs is a step of the lifecycle, provided that     *)
(* only a run canceling or decided is ever written as canceled.            *)
LEMMA UpdateStateStep ==
    ASSUME row \in Rows, NEW e,
           NEW s \in {"waiting", "blocked", "completed", "canceled"},
           s = "canceled" => OnRecord, UpdateState(s, e)
    PROVE  RowStep
BY DEF UpdateState, Fenced, Written, Rows, States, OnRecord, RowStep

LEMMA UpdateStateIfStep ==
    ASSUME row \in Rows, NEW s \in Terminal, NEW e,
           UpdateStateIf("canceling", s, e)
    PROVE  RowStep
BY DEF UpdateStateIf, Written, Rows, RowStep

LEMMA UpdateRetryStep ==
    ASSUME row \in Rows, NEW b, UpdateRetry(b)
    PROVE  RowStep
BY DEF UpdateRetry, Rows, RowStep

LEMMA UpdateNodeStep ==
    ASSUME row \in Rows, NEW n, NEW v, UpdateNode("running", n, v)
    PROVE  RowStep
BY DEF UpdateNode, Rows, RowStep

LEMMA RowStepKeepsRecord ==
    ASSUME RowStep, OnRecord
    PROVE  OnRecord'
BY DEF RowStep, OnRecord

(* The interpreter's own steps: where they lead and what they write. *)
PcStaged == pc \in CancelPcs => ctxDone

LEMMA ContinueStaged ==
    ASSUME PcStaged, UNCHANGED ctxDone,
           \/ Continue \/ (CancelSeen /\ Goto("reason")) \/ (\E ph \in Phases : Phase(ph))
           \/ UNCHANGED pc
    PROVE  PcStaged'
<1>1. CASE CancelSeen /\ Goto("reason")
  BY <1>1 DEF CancelSeen, PcStaged
<1>2. CASE UNCHANGED pc
  BY <1>2 DEF PcStaged
<1>3. CASE \E ph \in Phases : Phase(ph)
  BY <1>3 DEF Phase, PcStaged
<1>4. CASE pc \in DOMAIN After /\ Goto(After[pc])
  BY <1>4, AfterFacts DEF Goto, Begin, PcStaged
<1>5. CASE \/ \E n \in Nodes \cup {StartTarget, rep.next} : Enter(n)
           \/ Goto("applyEnd") \/ Finish
  BY <1>5 DEF Enter, Goto, Finish, Begin, PcStaged
<1> QED  BY <1>1, <1>2, <1>3, <1>4, <1>5 DEF Continue

LEMMA RecordedStaged ==
    ASSUME PcStaged, UNCHANGED ctxDone, Recorded
    PROVE  PcStaged'
BY ContinueStaged DEF Recorded

LEMMA DoneStaged ==
    ASSUME PcStaged, UNCHANGED ctxDone, Done
    PROVE  PcStaged' /\ (UNCHANGED cx \/ Restarted)
<1>1. CASE Recorded /\ UNCHANGED <<callVars, faults>>
  BY <1>1, RecordedStaged
<1>2. CASE Restarted /\ Phase("again")
  BY <1>2, ContinueStaged
<1>3. CASE Failed /\ UNCHANGED callVars
  BY <1>3, ContinueStaged DEF Failed, Phases
<1> QED  BY <1>1, <1>2, <1>3 DEF Done

(* What the interpreter changes of the staging: nothing but its pc. *)
Stays == UNCHANGED execVars /\ PcStaged' /\ (UNCHANGED cx \/ Restarted)

LEMMA ActivityStaged ==
    ASSUME TInv, CancellationStaged, Activity
    PROVE  Stays /\ RowStep
<1>0. row \in Rows /\ PcStaged
  BY DEF TInv, TypeOK, ProjTypeOK, CancellationStaged, PcStaged
<1>1. CASE \/ EnsureMailboxes \/ PrepareRestart \/ ApplyTaskConfig \/ Comment
           \/ CompleteMailbox \/ CommentCancellation \/ CleanupRun
  <2>1. UNCHANGED row /\ UNCHANGED execVars /\ Done
    BY <1>1 DEF EnsureMailboxes, PrepareRestart, ApplyTaskConfig, Comment,
                CompleteMailbox, CommentCancellation, CleanupRun, TaskFrame
  <2> QED  BY <1>0, <2>1, DoneStaged DEF Stays, RowStep
<1>2. CASE PlainActivity \/ LoadNodeRuntime \/ LoadCancellationReason
  <2>1. UNCHANGED <<row, cx>> /\ UNCHANGED execVars /\ Recorded
    BY <1>2 DEF PlainActivity, LoadNodeRuntime, LoadCancellationReason
  <2> QED  BY <1>0, <2>1, RecordedStaged DEF Stays, RowStep
<1>3. CASE \/ CheckpointNodeRuntime \/ FinalizeNodeRuntimes
           \/ ProjectionUpdateNodeRuntimeVisit \/ ProjectionRecordProcessedReport
  <2>1. UNCHANGED row
    BY <1>3 DEF CheckpointNodeRuntime, FinalizeNodeRuntimes, Reclaim,
                ProjectionUpdateNodeRuntimeVisit, ProjectionRecordProcessedReport
  <2>2. UNCHANGED execVars /\ Done
    BY <1>3 DEF CheckpointNodeRuntime, FinalizeNodeRuntimes, ProjFrame,
                ProjectionUpdateNodeRuntimeVisit, ProjectionRecordProcessedReport
  <2> QED  BY <1>0, <2>1, <2>2, DoneStaged DEF Stays, RowStep
<1>4. CASE ProjectionUpdateNode
  <2>1. RowStep
    BY <1>0, <1>4, UpdateNodeStep DEF ProjectionUpdateNode
  <2>2. UNCHANGED execVars /\ Done
    BY <1>4 DEF ProjectionUpdateNode, ProjFrame
  <2> QED  BY <1>0, <2>1, <2>2, DoneStaged DEF Stays
<1>5. CASE ProjectionUpdateState
  <2>1. pc = "cState" => OnRecord
    BY DEF CancellationStaged
  <2>2. RowStep
    BY <1>0, <1>5, <2>1, UpdateStateStep DEF ProjectionUpdateState, Act
  <2>3. UNCHANGED execVars /\ Done
    BY <1>5 DEF ProjectionUpdateState, ProjFrame
  <2> QED  BY <1>0, <2>2, <2>3, DoneStaged DEF Stays
<1> QED  BY <1>1, <1>2, <1>3, <1>4, <1>5 DEF Activity

LEMMA LaunchStaged ==
    ASSUME TInv, CancellationStaged, Launch
    PROVE  Stays /\ RowStep
<1>0. PcStaged
  BY DEF CancellationStaged, PcStaged
<1>1. UNCHANGED execVars /\ UNCHANGED row
  BY DEF Launch, ReuseTerminal, SendFails, EnsureTerminal, BindTerminal, BindFails,
         TaskFrame
<1>2. CASE ReuseTerminal
  BY <1>0, <1>1, <1>2, DoneStaged DEF ReuseTerminal, Stays, RowStep
<1>3. CASE SendFails \/ EnsureTerminal
  <2>1. (\E ph \in Phases : Phase(ph)) /\ UNCHANGED cx
    BY <1>3 DEF SendFails, EnsureTerminal
  <2> QED  BY <1>0, <1>1, <2>1, ContinueStaged DEF Stays, RowStep
<1>4. CASE BindTerminal
  BY <1>0, <1>1, <1>4, RecordedStaged DEF BindTerminal, Stays, RowStep
<1>5. CASE BindFails
  <2>1. /\ (CancelSeen /\ Goto("reason")) \/ (\E ph \in Phases : Phase(ph))
        /\ UNCHANGED cx
    BY <1>5 DEF BindFails, Failed
  <2> QED  BY <1>0, <1>1, <2>1, ContinueStaged DEF Stays, RowStep
<1> QED  BY <1>2, <1>3, <1>4, <1>5 DEF Launch

LEMMA RetryLoopStaged ==
    ASSUME TInv, CancellationStaged, RetryLoop
    PROVE  Stays /\ RowStep
<1>0. row \in Rows /\ PcStaged
  BY DEF TInv, TypeOK, ProjTypeOK, CancellationStaged, PcStaged
<1>1. UNCHANGED execVars /\ UNCHANGED cx
  BY DEF RetryLoop, ActivityFails, MarkBlocked, NoteRetry, TimerFires, ClearRetry,
         Unblock, RetryWriteFails, LoopFrame
<1>2. RowStep
  <2>1. CASE row' = row
    BY <2>1 DEF RowStep
  <2>2. CASE MarkBlocked \/ Unblock
    BY <1>0, <2>1, <2>2, UpdateStateStep DEF MarkBlocked, Unblock, ScheduleState
  <2>3. CASE NoteRetry \/ ClearRetry
    BY <1>0, <2>3, UpdateRetryStep DEF NoteRetry, ClearRetry
  <2> QED  BY <2>1, <2>2, <2>3 DEF RetryLoop, ActivityFails, TimerFires, RetryWriteFails
<1>3. \/ Continue \/ (CancelSeen /\ Goto("reason")) \/ (\E ph \in Phases : Phase(ph))
      \/ UNCHANGED pc \/ Goto("wait") \/ Finish
  BY DEF RetryLoop, ActivityFails, MarkBlocked, NoteRetry, TimerFires, ClearRetry,
         Unblock, RetryWriteFails, Failed, Abandon
<1>4. CASE Goto("wait") \/ Finish
  BY <1>1, <1>2, <1>4 DEF Goto, Finish, Begin, PcStaged, Stays
<1> QED  BY <1>0, <1>1, <1>2, <1>3, <1>4, ContinueStaged DEF Stays

(* Steps of everybody else. *)
LEMMA ReceiveStaged ==
    ASSUME CancellationStaged, Receive
    PROVE  CancellationStaged' /\ RowStep
<1>0. UNCHANGED <<row, cancelReq, cx>>
  BY DEF Receive, TakeCancel, TakeReport, TakeReconcile
<1>1. CASE TakeCancel
  BY <1>0, <1>1 DEF TakeCancel, CancellationStaged, OnRecord, RowStep
<1>2. CASE TakeReport \/ TakeReconcile
  <2>1. UNCHANGED ctxDone
    BY <1>2 DEF TakeReport, TakeReconcile
  <2>2. pc' \notin CancelPcs \/ pc' = pc
    BY <1>2 DEF TakeReport, TakeReconcile, Goto, Finish, Begin
  <2> QED  BY <1>0, <2>1, <2>2 DEF CancellationStaged, OnRecord, RowStep
<1> QED  BY <1>1, <1>2 DEF Receive

LEMMA SubmitStaged ==
    ASSUME CancellationStaged, NEW r \in ReportIds, AgentReports(r) \/ Submit(r)
    PROVE  CancellationStaged' /\ RowStep
<1>1. UNCHANGED <<row, pc, ctxDone, cancelReq, cx>>
  BY DEF AgentReports, Submit, ReadRun, CheckReport, SignalReport, SignalRefused, CallFrame
<1> QED  BY <1>1 DEF CancellationStaged, OnRecord, RowStep

LEMMA PollStaged ==
    ASSUME TInv, CancellationStaged, Poll
    PROVE  CancellationStaged' /\ RowStep
<1>0. row \in Rows /\ UNCHANGED cx
  BY DEF TInv, TypeOK, ProjTypeOK, Poll, PollReads, PollChecks, PollCreates, PollFrame
<1>1. RowStep
  BY <1>0 DEF Poll, PollReads, PollChecks, PollCreates, InsertStart, Rows, RowStep
<1>2. OnRecord => OnRecord'
  BY <1>1, RowStepKeepsRecord
<1>3. CASE UNCHANGED <<pc, ctxDone, cancelReq>>
  BY <1>0, <1>1, <1>2, <1>3 DEF CancellationStaged
<1>4. CASE cancelReq' = FALSE /\ ctxDone' = FALSE /\ pc' = "mailboxes"
  BY <1>0, <1>1, <1>2, <1>4 DEF CancellationStaged
<1>5. UNCHANGED <<pc, ctxDone, cancelReq>>
      \/ (cancelReq' = FALSE /\ ctxDone' = FALSE /\ pc' = "mailboxes")
  BY DEF Poll, PollReads, PollChecks, PollCreates, Begin
<1> QED  BY <1>1, <1>3, <1>4, <1>5

LEMMA CancelStaged ==
    ASSUME TInv, CancellationStaged, OperatorCancels \/ Cancel \/ CancelFails
    PROVE  CancellationStaged' /\ RowStep
<1>0. row \in Rows
  BY DEF TInv, TypeOK, ProjTypeOK
<1>1. UNCHANGED <<pc, ctxDone>>
  BY DEF OperatorCancels, Cancel, CancelFails, RequestCancellation, CancelFrame,
         FinalizeCancellation, CompleteInstead, ExecFrame
<1>2. RowStep
  <2>1. CASE row' = row
    BY <2>1 DEF RowStep
  <2>2. CASE OperatorCancels
    BY <1>0, <2>2 DEF OperatorCancels, BeginCancellation, Rows, RowStep
  <2>3. CASE UpdateStateIf("canceling", "canceled", "none")
             \/ UpdateStateIf("canceling", "completed", "none")
    BY <1>0, <2>3, UpdateStateIfStep
  <2>4. CASE Reclaim(Nodes, KeepTerminals)
    BY <2>4 DEF Reclaim, RowStep
  <2> QED  BY <2>1, <2>2, <2>3, <2>4 DEF Cancel, CancelFails, RequestCancellation,
                                         FinalizeCancellation, CompleteInstead
<1>3. OnRecord => OnRecord'
  BY <1>2, RowStepKeepsRecord
<1>4. CASE OperatorCancels
  <2>1. OnRecord' /\ UNCHANGED cancelReq
    BY <1>0, <1>4 DEF OperatorCancels, BeginCancellation, ExecFrame, Rows, OnRecord
  <2> QED  BY <1>1, <1>2, <2>1 DEF CancellationStaged
<1>5. CASE Cancel \/ CancelFails
  <2>1. cx.st # "idle" /\ (cancelReq' = cancelReq \/ cancelReq' = TRUE)
    BY <1>5 DEF Cancel, CancelFails, RequestCancellation, FinalizeCancellation,
                CompleteInstead, CancelStep, CancelEnds, ExecFrame
  <2> QED  BY <1>1, <1>2, <1>3, <2>1 DEF CancellationStaged
<1> QED  BY <1>4, <1>5

LEMMA InterpreterStaged ==
    ASSUME CancellationStaged, RowStep, Stays
    PROVE  CancellationStaged'
<1>1. OnRecord => OnRecord'
  BY RowStepKeepsRecord
<1>2. cx'.st # "idle" => OnRecord'
  <2>1. CASE UNCHANGED cx
    BY <1>1, <2>1 DEF CancellationStaged
  <2>2. CASE Restarted
    BY <2>2 DEF Restarted, IdleCancel, OnRecord
  <2> QED  BY <2>1, <2>2 DEF Stays
<1> QED  BY <1>1, <1>2 DEF CancellationStaged, Stays, PcStaged

LEMMA NextStaged ==
    ASSUME TInv, CancellationStaged, [Next]_vars
    PROVE  CancellationStaged' /\ RowStep
<1>1. CASE Activity \/ Launch \/ RetryLoop
  BY <1>1, ActivityStaged, LaunchStaged, RetryLoopStaged, InterpreterStaged
<1>2. CASE Receive
  BY <1>2, ReceiveStaged
<1>3. CASE \E r \in ReportIds : AgentReports(r) \/ Submit(r)
  BY <1>3, SubmitStaged
<1>4. CASE Poll
  BY <1>4, PollStaged
<1>5. CASE OperatorCancels \/ Cancel \/ CancelFails
  BY <1>5, CancelStaged
<1>6. CASE Crash
  <2>1. Stays /\ RowStep
    BY <1>6 DEF Crash, CancellationStaged, PcStaged, Stays, RowStep
  <2> QED  BY <2>1, InterpreterStaged
<1>7. CASE TerminalDies \/ UNCHANGED vars
  <2>1. UNCHANGED <<row, pc, ctxDone, cancelReq, cx>>
    BY <1>7 DEF TerminalDies, vars
  <2> QED  BY <2>1 DEF CancellationStaged, OnRecord, RowStep
<1> QED  BY <1>1, <1>2, <1>3, <1>4, <1>5, <1>6, <1>7 DEF Next

LEMMA InitStaged == Init => CancellationStaged
BY DEF Init, CancellationStaged, IdleCancel

(* Whatever crashes, retries and repeated requests happen, no cleanup of a *)
(* canceled run and no request to the engine precedes the record of the    *)
(* operator's cancellation, and a recreated execution starts uncanceled.   *)
THEOREM CancellationHolds == Spec => []CancellationStaged
<1>1. Init => CancellationStaged
  BY InitStaged
<1>2. TInv /\ CancellationStaged /\ [Next]_vars => CancellationStaged'
  BY NextStaged
<1>3. Spec => []TInv
  BY TicketTyping DEF TInv
<1> QED  BY <1>1, <1>2, <1>3, PTL DEF Spec

(* A run attempt implements RunLifecycle: its shown state is created once, *)
(* decided once, and canceled only after a request for it was recorded.    *)
THEOREM TicketImplementsLifecycle == Spec => LifecycleSpec
<1>1. Init => Lifecycle!Init
  BY DEF Init, ProjInit, Lifecycle!Init
<1>2. TInv /\ CancellationStaged /\ [Next]_vars => [Lifecycle!Next]_(row.state)
  BY NextStaged DEF RowStep
<1>3. Spec => []TInv
  BY TicketTyping DEF TInv
<1> QED  BY <1>1, <1>2, <1>3, CancellationHolds, PTL DEF Spec, LifecycleSpec, Lifecycle!Spec

-----------------------------------------------------------------------------
(* The walk through the graph. *)

\* Before the first visit; and in a visit that no report has left yet.
EntryPcs == {"mailboxes", "prepare", "validate", "applyStart", "envStart"}
OpenPcs  == SetupPcs \cup {"wait", "reconcile"}

\* Visits are numbered through all executions, and a report that was taken is
\* behind the interpreter, or being carried out.
Counted ==
    /\ visit \in {0, lastVisit}
    /\ pc \in NodePcs => visit = lastVisit /\ visit # 0
    /\ \A a \in taken : /\ a.visit \in 1..lastVisit /\ a.exec <= execs
                        /\ a.exec = execs => a.id \in seen
    /\ pc \in EntryPcs => \A a \in taken : a.exec # execs
    /\ pc \in OpenPcs => \A a \in taken : a.visit # visit
    /\ pc \in TransitionPcs =>
          \E a \in taken : /\ a.exec = execs /\ a.visit = visit
                           /\ a.id = rep.id /\ a.next = rep.next

\* The activity at p has had its effect; all those before p have had theirs.
Wrote(p, receipts, said) ==
    /\ p = "record" => rep.id \in receipts
    /\ p \in {"summary", "feedback"} => <<p, visit>> \in said

Reached(p, receipts, said) ==
    /\ p \in {"summary", "feedback", "complete", "checkpoint"} => rep.id \in receipts
    /\ p \in {"feedback", "complete", "checkpoint"} => <<"summary", visit>> \in said
    /\ p \in {"complete", "checkpoint"} /\ rep.next # EndNode => <<"feedback", visit>> \in said

Settled == phase \in {"clear", "unblock"}

Ordered ==
    /\ phase = "bind" => pc \in LaunchPcs
    /\ Settled => Wrote(pc, processed, comments)
    /\ Reached(pc, processed, comments)

Walk == Counted /\ Ordered /\ OneReportPerVisit /\ EffectsInOrder

\* What a step of the interpreter makes of its place.
Moves ==
    \/ /\ UNCHANGED <<pc, cur, visit, lastVisit>>
       /\ phase' = "bind" => pc \in LaunchPcs
       /\ Settled' => Wrote(pc, processed', comments')
    \/ /\ UNCHANGED <<cur, visit, lastVisit>> /\ phase' = "call"
       /\ pc' \in {"reason", "done"} \/ (pc = "reconcile" /\ pc' = "wait")
    \/ Continue /\ Wrote(pc, processed', comments')

\* And what it may add to the receipts and comments.
Outcome ==
    /\ Moves
    /\ UNCHANGED <<execs, seen, rep, taken>>
    /\ processed \subseteq processed' /\ comments \subseteq comments'
    /\ \A c \in comments' \ comments : pc \in {"summary", "feedback"} /\ c[2] = visit

LEMMA RecordedMoves ==
    ASSUME Recorded, Wrote(pc, processed', comments')
    PROVE  Moves
BY DEF Recorded, Moves, Goto, Begin, Phase, Placed

LEMMA FailedMoves ==
    ASSUME \/ Failed \/ Phase("again") \/ Phase("note") \/ Phase("block")
           \/ Phase("bind") /\ pc \in LaunchPcs
    PROVE  Moves
BY DEF Failed, Moves, Goto, Begin, Phase, Placed, Settled

LEMMA DoneMoves ==
    ASSUME Done, Wrote(pc, processed', comments')
    PROVE  Moves
BY RecordedMoves, FailedMoves DEF Done

LEMMA ActivityWalks ==
    ASSUME TInv, Activity
    PROVE  Outcome
<1>1. UNCHANGED <<execs, seen, rep, taken>>
  BY DEF Activity, PlainActivity, EnsureMailboxes, PrepareRestart, ApplyTaskConfig, Comment,
     CompleteMailbox, CommentCancellation, CleanupRun, CheckpointNodeRuntime,
     FinalizeNodeRuntimes, LoadNodeRuntime, LoadCancellationReason,
     ProjectionUpdateNodeRuntimeVisit, ProjectionUpdateNode, ProjectionUpdateState,
     ProjectionRecordProcessedReport, TaskFrame, ProjFrame
<1>2. CASE Comment
  <2>1. /\ pc \in {"summary", "feedback"} /\ comments' = comments \cup {<<pc, visit>>}
        /\ UNCHANGED processed /\ Done
    BY <1>2 DEF Comment, Act, TaskFrame
  <2>2. Wrote(pc, processed', comments')
    BY <2>1 DEF Wrote
  <2> QED BY <1>1, <2>1, <2>2, DoneMoves DEF Outcome
<1>3. CASE ProjectionRecordProcessedReport
  <2>1. pc = "record" /\ processed' = processed \cup {rep.id} /\ UNCHANGED comments /\ Done
    BY <1>3 DEF ProjectionRecordProcessedReport, Act, ProjFrame, RecordProcessedReport
  <2>2. Wrote(pc, processed', comments')
    BY <2>1 DEF Wrote
  <2> QED BY <1>1, <2>1, <2>2, DoneMoves DEF Outcome
<1>4. CASE PlainActivity \/ LoadNodeRuntime \/ LoadCancellationReason
  <2>1. UNCHANGED <<processed, comments>> /\ Recorded
    BY <1>4 DEF PlainActivity, LoadNodeRuntime, LoadCancellationReason
  <2>2. pc \notin {"record", "summary", "feedback"}
    BY <1>4 DEF PlainActivity, LoadNodeRuntime, LoadCancellationReason, Act
  <2> QED BY <1>1, <2>1, <2>2, RecordedMoves DEF Outcome, Wrote
<1>5. CASE \/ EnsureMailboxes \/ PrepareRestart \/ ApplyTaskConfig
           \/ CompleteMailbox \/ CommentCancellation \/ CleanupRun
  <2>1. UNCHANGED <<processed, comments>> /\ Done
    BY <1>5 DEF EnsureMailboxes, PrepareRestart, ApplyTaskConfig, CompleteMailbox,
       CommentCancellation, CancelComment, CleanupRun, TaskFrame
  <2>2. pc \notin {"record", "summary", "feedback"}
    BY <1>5 DEF EnsureMailboxes, PrepareRestart, ApplyTaskConfig, CompleteMailbox,
       CommentCancellation, CleanupRun, Act
  <2> QED BY <1>1, <2>1, <2>2, DoneMoves DEF Outcome, Wrote
<1>6. CASE \/ CheckpointNodeRuntime \/ FinalizeNodeRuntimes \/ ProjectionUpdateNodeRuntimeVisit
           \/ ProjectionUpdateNode \/ ProjectionUpdateState
  <2>1. UNCHANGED <<processed, comments>> /\ Done
    BY <1>6 DEF CheckpointNodeRuntime, FinalizeNodeRuntimes, Reclaim, ProjFrame,
       ProjectionUpdateNodeRuntimeVisit, ProjectionUpdateNode, ProjectionUpdateState
  <2>2. pc \notin {"record", "summary", "feedback"}
    BY <1>6 DEF CheckpointNodeRuntime, FinalizeNodeRuntimes, Act,
       ProjectionUpdateNodeRuntimeVisit, ProjectionUpdateNode, ProjectionUpdateState
  <2> QED BY <1>1, <2>1, <2>2, DoneMoves DEF Outcome, Wrote
<1> QED BY <1>2, <1>3, <1>4, <1>5, <1>6 DEF Activity

LEMMA LaunchWalks ==
    ASSUME TInv, Launch, Ordered
    PROVE  Outcome
<1>1. UNCHANGED <<execs, seen, rep, taken, processed, comments>>
  BY DEF Launch, ReuseTerminal, SendFails, EnsureTerminal, BindTerminal, BindFails, TaskFrame
<1>2. pc \in LaunchPcs
  BY DEF Launch, ReuseTerminal, SendFails, EnsureTerminal, BindTerminal, BindFails, Launching, Act,
     Ordered
<1>3. Recorded \/ Done \/ Failed \/ Phase("again") \/ Phase("bind")
  BY DEF Launch, ReuseTerminal, SendFails, EnsureTerminal, BindTerminal, BindFails
<1>4. Moves
  BY <1>2, <1>3, RecordedMoves, DoneMoves, FailedMoves DEF Wrote
<1> QED BY <1>1, <1>4 DEF Outcome

LEMMA RetryWalks ==
    ASSUME TInv, RetryLoop, Ordered
    PROVE  Outcome
<1>1. UNCHANGED <<execs, seen, rep, taken, processed, comments>>
  BY DEF RetryLoop, ActivityFails, MarkBlocked, NoteRetry, TimerFires, ClearRetry, Unblock,
     RetryWriteFails, LoopFrame
<1>2. CASE ActivityFails \/ MarkBlocked \/ NoteRetry \/ TimerFires
  BY <1>1, <1>2, FailedMoves
  DEF ActivityFails, MarkBlocked, NoteRetry, TimerFires, Outcome, Moves, Phase, Goto, Begin,
      Placed, Settled
<1>3. CASE ClearRetry \/ Unblock
  <2>1. Wrote(pc, processed', comments')
    BY <1>1, <1>3 DEF ClearRetry, Unblock, Ordered, Settled
  <2> QED BY <1>1, <1>3, <2>1 DEF ClearRetry, Unblock, Outcome, Moves, Phase, Placed
<1>4. CASE RetryWriteFails
  BY <1>1, <1>4 DEF RetryWriteFails, Abandon, Outcome, Moves, Goto, Finish, Begin, Placed
<1> QED BY <1>2, <1>3, <1>4 DEF RetryLoop

\* A step of the interpreter keeps the walk in order.
LEMMA OutcomeWalks ==
    ASSUME TInv, Walk, Outcome
    PROVE  Walk'
<1>t. /\ visit \in Nat /\ lastVisit \in Nat /\ execs \in Nat /\ taken \subseteq Taken
      /\ lastVisit' = lastVisit \/ lastVisit' = lastVisit + 1
  BY DEF TInv, TypeOK, LoopTypeOK, ExecTypeOK, DataTypeOK, Outcome, Moves, Continue, Goto, Enter,
     Finish, Begin, Placed
<1> USE DEF Outcome
<1>w. Counted /\ Ordered /\ OneReportPerVisit /\ EffectsInOrder
  BY DEF Walk
<1>r. Reached(pc, processed', comments')
  BY <1>w DEF Ordered, Reached
<1>c. \A c \in comments' : \E a \in taken : a.visit = c[2] /\ a.id \in processed'
  <2> SUFFICES ASSUME NEW c \in comments' PROVE \E a \in taken : a.visit = c[2] /\ a.id \in processed'
    OBVIOUS
  <2>1. CASE c \in comments
    BY <1>w, <2>1 DEF EffectsInOrder
  <2>2. CASE c \notin comments
    BY <1>w, <1>r, <2>2 DEF Counted, Reached
  <2> QED BY <2>1, <2>2
\* no report is left without its effects while the visit stays
<1>e. ASSUME visit' = visit, cur' = cur
      PROVE  OneReportPerVisit' /\ EffectsInOrder'
  <2>1. OneReportPerVisit'
    BY <1>w, <1>e DEF OneReportPerVisit
  <2>2. EffectsInOrder'
    BY <1>w, <1>c, <1>e DEF EffectsInOrder
  <2> QED BY <2>1, <2>2
<1>1. CASE /\ UNCHANGED <<pc, cur, visit, lastVisit>>
           /\ phase' = "bind" => pc \in LaunchPcs
           /\ Settled' => Wrote(pc, processed', comments')
  <2>1. Counted'
    BY <1>w, <1>1 DEF Counted
  <2>2. Ordered'
    BY <1>r, <1>1 DEF Ordered, Reached, Wrote
  <2> QED BY <1>e, <1>1, <2>1, <2>2 DEF Walk
<1>2. CASE /\ UNCHANGED <<cur, visit, lastVisit>>
           /\ pc' \in {"reason", "done", "applyEnd"} \/ (pc = "reconcile" /\ pc' = "wait")
           /\ phase' = "call"
  <2>1. Counted'
    BY <1>w, <1>2 DEF Counted, NodePcs, EntryPcs, OpenPcs
  <2>2. Ordered'
    BY <1>2 DEF Ordered, Settled, Reached
  <2> QED BY <1>e, <1>2, <2>1, <2>2 DEF Walk
<1>3. CASE pc \in DOMAIN After /\ Goto(After[pc]) /\ Wrote(pc, processed', comments')
  <2>1. UNCHANGED <<cur, visit, lastVisit>> /\ phase' = "call" /\ pc' = After[pc]
    BY <1>3 DEF Goto, Begin, Placed
  <2>2. Counted'
    <3>1. /\ pc' \in NodePcs => pc \in NodePcs
          /\ pc' \in EntryPcs => pc \in EntryPcs
          /\ pc' \in OpenPcs => pc \in OpenPcs
          /\ pc' \in TransitionPcs => pc \in TransitionPcs
      BY <1>3, <2>1 DEF After, NodePcs, EntryPcs, OpenPcs
    <3> QED BY <1>w, <2>1, <3>1 DEF Counted
  <2>3. Ordered'
    <3>1. Reached(pc', processed', comments')
      BY <1>3, <1>r, <2>1 DEF Reached, Wrote, After
    <3> QED BY <2>1, <3>1 DEF Ordered, Settled, Reached
  <2> QED BY <1>e, <2>1, <2>2, <2>3 DEF Walk
<1>4. ASSUME NEW n, Enter(n), pc = "envStart" \/ (pc = "checkpoint" /\ n = rep.next /\ n # EndNode)
      PROVE  Walk'
  <2>1. /\ visit' = lastVisit + 1 /\ lastVisit' = lastVisit + 1 /\ cur' = n
        /\ pc' = "loadRuntime" /\ phase' = "call"
    BY <1>4 DEF Enter, Begin
  <2>2. \A a \in taken : a.visit \in 1..lastVisit
    BY <1>w DEF Counted
  <2>3. Counted'
    BY <1>w, <1>t, <2>1, <2>2 DEF Counted, NodePcs, EntryPcs, OpenPcs
  <2>4. Ordered'
    BY <2>1 DEF Ordered, Settled, Reached
  <2>5. CASE pc = "envStart"
    <3>1. \A a \in taken : a.exec # execs
      BY <1>w, <2>5 DEF Counted, EntryPcs
    <3>2. OneReportPerVisit' /\ EffectsInOrder'
      BY <1>w, <1>c, <3>1 DEF OneReportPerVisit, EffectsInOrder
    <3> QED BY <2>3, <2>4, <3>2 DEF Walk
  <2>6. CASE pc = "checkpoint" /\ n = rep.next /\ n # EndNode
    <3>1. PICK a \in taken : a.exec = execs /\ a.visit = visit /\ a.id = rep.id /\ a.next = rep.next
      BY <1>w, <2>6 DEF Counted
    <3>2. visit = lastVisit
      BY <1>w, <2>6 DEF Counted, NodePcs
    <3>3. \A b \in taken : b.visit = visit => b = a
      BY <1>w, <3>1 DEF OneReportPerVisit
    <3>4. OneReportPerVisit'
      <4>1. \A b \in taken : visit' = b.visit + 1 => b.visit = visit
        BY <1>t, <2>1, <2>2, <3>2
      <4> QED BY <1>w, <2>1, <2>6, <3>1, <3>3, <4>1 DEF OneReportPerVisit
    <3>5. /\ rep.id \in processed' /\ <<"summary", visit>> \in comments'
          /\ <<"feedback", visit>> \in comments'
      BY <1>r, <2>6 DEF Reached
    <3>6. EffectsInOrder'
      <4>1. ASSUME NEW b \in taken, b.exec = execs
            PROVE  /\ b.id \in processed' /\ <<"summary", b.visit>> \in comments'
                   /\ <<"feedback", b.visit>> \in comments'
        <5>1. CASE b.visit = visit
          BY <3>1, <3>3, <3>5, <5>1
        <5>2. CASE b.visit # visit
          <6>1. visit > b.visit
            BY <2>2, <3>2, <5>2, <1>t
          <6> QED BY <1>w, <4>1, <6>1 DEF EffectsInOrder
        <5> QED BY <5>1, <5>2
      <4> QED BY <1>c, <4>1 DEF EffectsInOrder
    <3> QED BY <2>3, <2>4, <3>4, <3>6 DEF Walk
  <2> QED BY <1>4, <2>5, <2>6
<1>5. CASE Continue /\ Wrote(pc, processed', comments')
  <2>1. CASE Goto("reason") \/ Goto("applyEnd") \/ Finish
    BY <1>2, <2>1 DEF Goto, Finish, Begin, Placed
  <2> QED BY <1>3, <1>4, <1>5, <2>1 DEF Continue
<1> QED BY <1>1, <1>2, <1>5 DEF Moves

\* The interpreter takes a report, a cancellation or a request to reconcile.
LEMMA ReceiveWalks ==
    ASSUME TInv, Walk, Receive
    PROVE  Walk'
<1>t. /\ visit \in Nat /\ lastVisit \in Nat /\ execs \in Nat /\ taken \subseteq Taken
  BY DEF TInv, TypeOK, LoopTypeOK, ExecTypeOK, DataTypeOK
<1>w. Counted /\ Ordered /\ OneReportPerVisit /\ EffectsInOrder
  BY DEF Walk
<1>0. UNCHANGED <<execs, processed, comments>>
  BY DEF Receive, TakeCancel, TakeReport, TakeReconcile
<1>1. CASE UNCHANGED <<loopVars, rep, taken>> /\ seen \subseteq seen'
  BY <1>0, <1>1, <1>w DEF Walk, Counted, Ordered, OneReportPerVisit, EffectsInOrder, Settled,
     Wrote, Reached
<1>2. CASE /\ Goto("reason") \/ (pc = "wait" /\ Goto("reconcile"))
           /\ UNCHANGED <<rep, taken, seen>>
  <2>1. /\ UNCHANGED <<cur, visit, lastVisit>> /\ phase' = "call"
        /\ pc' = "reason" \/ (pc = "wait" /\ pc' = "reconcile")
    BY <1>2 DEF Goto, Begin, Placed
  <2> QED
    BY <1>0, <1>2, <2>1, <1>w DEF Walk, Counted, Ordered, OneReportPerVisit, EffectsInOrder,
       Settled, Wrote, Reached, NodePcs, EntryPcs, OpenPcs
<1>3. CASE TakeReport /\ taken' # taken
  <2> DEFINE s == Head(sigs)
             new == [exec |-> execs, id |-> s.id, node |-> cur, visit |-> visit,
                     next |-> s.next, meant |-> s.meant]
  <2>1. /\ Waiting /\ s.id \notin seen /\ seen' = seen \cup {s.id}
        /\ rep' = [id |-> s.id, next |-> s.next] /\ taken' = taken \cup {new}
        /\ Goto("record") \/ Finish
    BY <1>3 DEF TakeReport, Accepts
  <2>2. /\ pc = "wait" /\ pc' \in {"record", "done"} /\ phase' = "call"
        /\ UNCHANGED <<cur, visit, lastVisit>>
    BY <2>1 DEF Waiting, Goto, Finish, Begin, Placed
  <2>3. /\ new.exec = execs /\ new.id = s.id /\ new.visit = visit /\ new.next = s.next
    OBVIOUS
  <2> HIDE DEF new, s
  <2>4. /\ visit = lastVisit /\ visit # 0 /\ \A a \in taken : a.visit # visit
        /\ \A a \in taken : a.visit \in 1..lastVisit /\ a.exec <= execs
                            /\ (a.exec = execs => a.id \in seen)
    BY <1>w, <2>2 DEF Counted, NodePcs, OpenPcs
  <2>5. rep'.id = new.id /\ rep'.next = new.next
    BY <2>1, <2>3
  <2>6. Counted'
    <3>1. \A a \in taken' : /\ a.visit \in 1..lastVisit' /\ a.exec <= execs'
                            /\ a.exec = execs' => a.id \in seen'
      BY <1>t, <1>0, <2>1, <2>2, <2>3, <2>4
    <3> QED BY <1>0, <2>1, <2>2, <2>3, <2>4, <2>5, <3>1
            DEF Counted, NodePcs, EntryPcs, OpenPcs
  <2>7. Ordered'
    BY <2>2 DEF Ordered, Settled, Reached
  <2>8. OneReportPerVisit'
    BY <1>t, <1>0, <1>w, <2>1, <2>2, <2>3, <2>4 DEF OneReportPerVisit
  <2>9. EffectsInOrder'
    BY <1>t, <1>0, <1>w, <2>1, <2>2, <2>3, <2>4 DEF EffectsInOrder
  <2> QED BY <2>6, <2>7, <2>8, <2>9 DEF Walk
<1>4. \/ UNCHANGED <<loopVars, rep, taken>> /\ seen \subseteq seen'
      \/ /\ Goto("reason") \/ (pc = "wait" /\ Goto("reconcile"))
         /\ UNCHANGED <<rep, taken, seen>>
      \/ TakeReport /\ taken' # taken
  <2>1. CASE TakeReport
    <3>1. Accepts(Head(sigs)) => taken' # taken
      <4> SUFFICES ASSUME TakeReport, Accepts(Head(sigs)), taken' = taken PROVE FALSE
        BY <2>1
      <4> DEFINE new == [exec |-> execs, id |-> Head(sigs).id, node |-> cur, visit |-> visit,
                         next |-> Head(sigs).next, meant |-> Head(sigs).meant]
      <4>0. taken' = taken \cup {new}
        BY DEF TakeReport, Accepts
      <4>v. new.visit = visit
        OBVIOUS
      <4> HIDE DEF new
      <4>1. \E a \in taken : a.visit = visit
        BY <4>0, <4>v
      <4>2. pc = "wait"
        BY DEF TakeReport, Waiting
      <4> QED BY <4>1, <4>2, <1>w DEF Counted, OpenPcs
    <3>2. ~Accepts(Head(sigs)) => UNCHANGED <<loopVars, rep, taken>> /\ seen \subseteq seen'
      BY <2>1 DEF TakeReport
    <3> QED BY <2>1, <3>1, <3>2
  <2>2. CASE TakeCancel
    BY <2>2 DEF TakeCancel
  <2>3. CASE TakeReconcile
    BY <2>3 DEF TakeReconcile, Waiting
  <2> QED BY <2>1, <2>2, <2>3 DEF Receive
<1> QED BY <1>1, <1>2, <1>3, <1>4

\* An execution created anew starts over, its visits go on counting.
LEMMA PollWalks ==
    ASSUME TInv, Walk, PollCreates, execs' = execs + 1
    PROVE  Walk'
<1>t. /\ lastVisit \in Nat /\ execs \in Nat /\ taken \subseteq Taken
  BY DEF TInv, TypeOK, LoopTypeOK, ExecTypeOK, DataTypeOK
<1>w. Counted /\ OneReportPerVisit /\ EffectsInOrder
  BY DEF Walk
<1>1. /\ visit' = 0 /\ pc' = "mailboxes" /\ phase' = "call"
      /\ UNCHANGED <<lastVisit, taken, processed, comments>>
  BY <1>t DEF PollCreates, PollFrame, Begin
<1>2. \A a \in taken : a.visit \in Nat \ {0} /\ a.exec \in Nat /\ a.exec < execs'
  BY <1>t, <1>w DEF Counted, Taken
<1>3. Counted'
  BY <1>w, <1>1, <1>2 DEF Counted, NodePcs, EntryPcs, OpenPcs
<1>4. Ordered'
  BY <1>1 DEF Ordered, Settled, Reached
<1>5. OneReportPerVisit' /\ EffectsInOrder'
  BY <1>w, <1>1, <1>2 DEF OneReportPerVisit, EffectsInOrder
<1> QED BY <1>3, <1>4, <1>5 DEF Walk

LEMMA NextWalks == TInv /\ Walk /\ [Next]_vars => Walk'
<1> SUFFICES ASSUME TInv, Walk, [Next]_vars PROVE Walk'
  OBVIOUS
<1>w. Ordered
  BY DEF Walk
<1>0. ASSUME UNCHANGED <<pc, cur, visit, lastVisit, execs, seen, rep, taken, processed, comments>>,
             phase' = phase \/ phase' \in {"call", "again"}
      PROVE  Walk'
  BY <1>0 DEF Walk, Counted, Ordered, OneReportPerVisit, EffectsInOrder, Settled, Wrote, Reached
<1>1. CASE Activity \/ Launch \/ RetryLoop
  BY <1>1, <1>w, ActivityWalks, LaunchWalks, RetryWalks, OutcomeWalks
<1>2. CASE Receive
  BY <1>2, ReceiveWalks
<1>3. CASE \E r \in ReportIds : AgentReports(r) \/ Submit(r)
  BY <1>0, <1>3 DEF AgentReports, Submit, ReadRun, CheckReport, SignalReport, SignalRefused, CallFrame
<1>4. CASE Poll
  <2>1. CASE PollReads \/ PollChecks
    BY <1>0, <2>1 DEF PollReads, PollChecks, PollFrame
  <2>2. CASE PollCreates
    <3>1. execs' = execs + 1 \/ UNCHANGED <<execVars, wfVars>>
      BY <2>2 DEF PollCreates
    <3>2. UNCHANGED <<processed, comments>>
      BY <2>2 DEF PollCreates, PollFrame
    <3> QED BY <1>0, <2>2, <3>1, <3>2, PollWalks
  <2> QED BY <1>4, <2>1, <2>2 DEF Poll
<1>5. CASE OperatorCancels \/ Cancel \/ CancelFails
  BY <1>0, <1>5 DEF OperatorCancels, Cancel, CancelFails, RequestCancellation, CancelFrame,
     FinalizeCancellation, CompleteInstead, ExecFrame, CancelComment
<1>6. CASE Crash \/ TerminalDies \/ UNCHANGED vars
  BY <1>0, <1>6 DEF Crash, TerminalDies, vars
<1> QED BY <1>1, <1>2, <1>3, <1>4, <1>5, <1>6 DEF Next

LEMMA InitWalks == Init => Walk
<1> SUFFICES ASSUME Init PROVE Walk
  OBVIOUS
<1>1. /\ visit = 0 /\ lastVisit = 0 /\ taken = {} /\ comments = {} /\ pc = "done" /\ phase = "call"
  BY DEF Init
<1> QED BY <1>1 DEF Walk, Counted, Ordered, OneReportPerVisit, EffectsInOrder, Settled, Reached,
        NodePcs, EntryPcs, OpenPcs

LEMMA WalkHolds == Spec => []Walk
<1>1. Spec => []TInv
  BY TicketTyping DEF TInv
<1> QED BY <1>1, InitWalks, NextWalks, PTL DEF Spec

(* One report leaves one visit, and the visit that follows is of the node  *)
(* it chose, for every graph, however often reports are resent, executions *)
(* are created anew and activities repeated.                               *)
THEOREM WalkedEdgeByEdge == Spec => []OneReportPerVisit
<1>1. Walk => OneReportPerVisit
  BY DEF Walk
<1> QED BY <1>1, WalkHolds, PTL

(* No comment without the receipt of its report, and no visit left behind  *)
(* without receipt, summary and feedback, whatever fails in between.       *)
THEOREM EffectsStayInOrder == Spec => []EffectsInOrder
<1>1. Walk => EffectsInOrder
  BY DEF Walk
<1> QED BY <1>1, WalkHolds, PTL

-----------------------------------------------------------------------------
(* Acknowledged reports. *)

\* Nothing is acknowledged before there is an execution to remember it.
Kept ==
    /\ inst = "active" => execs # 0
    /\ execs = 0 => \A r \in ReportIds : msg[r].st # "accepted"
    /\ AcceptedIsDurable

Given == {sigs[i].id : i \in DOMAIN sigs}

\* The interpreter's own steps touch none of it.
LEMMA InterpreterKeeps ==
    ASSUME Activity \/ Launch \/ RetryLoop
    PROVE  inst' \in {inst, "finished"} /\ UNCHANGED <<execs, seen, sigs, msg>>
<1>0. Done \/ Recorded \/ Failed \/ Continue \/ Abandon \/ (\E p \in Pcs : Goto(p))
         \/ (\E ph \in Phases : Phase(ph)) => inst' \in {inst, "finished"}
  BY DEF Done, Recorded, Failed, Continue, Abandon, Goto, Phase, Enter, Finish
<1>1. Done => UNCHANGED msg
  BY DEF Done, Restarted
<1>2. CASE Activity
  BY <1>0, <1>1, <1>2
  DEF Activity, PlainActivity, EnsureMailboxes, PrepareRestart, ApplyTaskConfig, Comment,
     CompleteMailbox, CommentCancellation, CleanupRun, CheckpointNodeRuntime,
     FinalizeNodeRuntimes, LoadNodeRuntime, LoadCancellationReason,
     ProjectionUpdateNodeRuntimeVisit, ProjectionUpdateNode, ProjectionUpdateState,
     ProjectionRecordProcessedReport, TaskFrame, ProjFrame
<1>3. CASE Launch
  BY <1>0, <1>1, <1>3
  DEF Launch, ReuseTerminal, SendFails, EnsureTerminal, BindTerminal, BindFails, TaskFrame
<1>4. CASE RetryLoop
  BY <1>0, <1>4
  DEF RetryLoop, ActivityFails, MarkBlocked, NoteRetry, TimerFires, ClearRetry, Unblock,
      RetryWriteFails, LoopFrame
<1> QED BY <1>2, <1>3, <1>4

\* A report leaves the queue for the ids that were seen, and joins it at the end.
LEMMA GivenMoves ==
    ASSUME SigTypeOK
    PROVE  /\ \A s \in Signals : sigs' = Append(sigs, s) => Given' = Given \cup {s.id}
           /\ sigs # <<>> /\ sigs' = Tail(sigs) => Given \subseteq Given' \cup {Head(sigs).id}
<1>1. ASSUME NEW s \in Signals, sigs' = Append(sigs, s)
      PROVE  Given' = Given \cup {s.id}
  <2>1. /\ DOMAIN sigs = 1..Len(sigs) /\ DOMAIN sigs' = 1..(Len(sigs) + 1) /\ Len(sigs) \in Nat
        /\ \A i \in 1..Len(sigs) : sigs'[i] = sigs[i]
        /\ sigs'[Len(sigs) + 1] = s
    BY <1>1 DEF SigTypeOK
  <2> QED BY <2>1 DEF Given
<1>2. ASSUME sigs # <<>>, sigs' = Tail(sigs)
      PROVE  Given \subseteq Given' \cup {Head(sigs).id}
  <2>1. /\ DOMAIN sigs = 1..Len(sigs) /\ Len(sigs) \in Nat \ {0}
        /\ DOMAIN sigs' = 1..(Len(sigs) - 1)
        /\ \A i \in 1..(Len(sigs) - 1) : sigs'[i] = sigs[i + 1]
        /\ Head(sigs) = sigs[1]
    BY <1>2 DEF SigTypeOK
  <2>2. ASSUME NEW i \in DOMAIN sigs, i # 1 PROVE sigs[i].id \in Given'
    <3>1. i - 1 \in DOMAIN sigs' /\ sigs'[i - 1] = sigs[i]
      BY <2>1, <2>2
    <3> QED BY <3>1 DEF Given
  <2> QED BY <2>1, <2>2 DEF Given
<1> QED BY <1>1, <1>2

LEMMA NextKeeps == TInv /\ Kept /\ [Next]_vars => Kept'
<1> SUFFICES ASSUME TInv, Kept, [Next]_vars PROVE Kept'
  OBVIOUS
<1>t. /\ execs \in Nat /\ SigTypeOK /\ CallTypeOK /\ inst \in {"none", "active", "finished"}
      /\ msg \in [ReportIds -> Messages]
  BY DEF TInv, TypeOK, ExecTypeOK, LoopTypeOK, CallTypeOK
<1>k. /\ inst = "active" => execs # 0
      /\ execs = 0 => \A r \in ReportIds : msg[r].st # "accepted"
      /\ execs <= 1 => \A r \in ReportIds : msg[r].st = "accepted" => r \in seen \cup Given
  BY DEF Kept, AcceptedIsDurable, Given
<1>0. ASSUME inst' \in {inst, "finished"}, UNCHANGED execs,
             \A r \in ReportIds : msg'[r].st = "accepted" => msg[r].st = "accepted",
             seen \cup Given \subseteq seen' \cup Given'
      PROVE  Kept'
  BY <1>0, <1>k DEF Kept, AcceptedIsDurable, Given
<1>1. CASE Activity \/ Launch \/ RetryLoop
  BY <1>0, <1>1, InterpreterKeeps DEF Given
<1>2. CASE Receive
  <2>0. inst' \in {inst, "finished"} /\ UNCHANGED <<execs, msg>>
    BY <1>2 DEF Receive, TakeCancel, TakeReport, TakeReconcile, Goto, Finish
  <2>1. CASE TakeReport
    <3>1. sigs # <<>> /\ sigs' = Tail(sigs) /\ seen' = seen \cup {Head(sigs).id}
      BY <2>1 DEF TakeReport
    <3> QED BY <1>0, <1>t, <2>0, <3>1, GivenMoves
  <2>2. CASE TakeCancel \/ TakeReconcile
    <3>1. UNCHANGED <<seen, sigs>>
      BY <2>2 DEF TakeCancel, TakeReconcile
    <3> QED BY <1>0, <2>0, <3>1 DEF Given
  <2> QED BY <1>2, <2>1, <2>2 DEF Receive
<1>3. ASSUME NEW r \in ReportIds, AgentReports(r) \/ Submit(r)
      PROVE  Kept'
  <2>0. UNCHANGED <<inst, execs, seen>>
    BY <1>3 DEF AgentReports, Submit, ReadRun, CheckReport, SignalReport, SignalRefused, CallFrame
  <2>1. CASE SignalReport(r)
    <3> DEFINE s == [id |-> r, node |-> msg[r].node, visit |-> req[r].visit,
                     next |-> msg[r].next, meant |-> msg[r].meant]
    <3>1. inst = "active" /\ sigs' = Append(sigs, s) /\ req[r].st = "checked"
      BY <2>1 DEF SignalReport
    <3>2. s \in Signals /\ s.id = r
      BY <1>t, <3>1 DEF CallTypeOK, Signals, Messages
    <3>3. \A q \in ReportIds : msg'[q].st = "accepted" => msg[q].st = "accepted" \/ q = r
      BY <1>t, <2>1 DEF SignalReport, Answer
    <3> HIDE DEF s
    <3>4. Given' = Given \cup {r}
      BY <1>t, <3>1, <3>2, GivenMoves
    <3> QED BY <1>k, <2>0, <3>1, <3>3, <3>4 DEF Kept, AcceptedIsDurable, Given
  <2>2. CASE AgentReports(r) \/ ReadRun(r) \/ CheckReport(r) \/ SignalRefused(r)
    <3>1. UNCHANGED sigs
      BY <2>2 DEF AgentReports, ReadRun, CheckReport, SignalRefused
    <3>2. \A q \in ReportIds : msg'[q].st = "accepted" => msg[q].st = "accepted"
      <4>1. msg' = msg \/ \E st \in {"sending", "duplicate", "rejected"} :
                             \E m : msg' = [msg EXCEPT ![r] = m] /\ m.st = st
        <5>1. CASE ReadRun(r)
          BY <5>1 DEF ReadRun
        <5>2. CASE AgentReports(r)
          BY <5>2 DEF AgentReports
        <5>3. CASE CheckReport(r) \/ SignalRefused(r)
          <6>1. ASSUME NEW st, Answer(r, st)
                PROVE  \E m : msg' = [msg EXCEPT ![r] = m] /\ m.st = st
            <7>1. /\ msg' = [msg EXCEPT ![r] = [msg[r] EXCEPT !.st = st]]
                  /\ [msg[r] EXCEPT !.st = st].st = st
              BY <1>t, <6>1 DEF Answer, Messages
            <7> QED BY <7>1
          <6> QED BY <5>3, <6>1 DEF CheckReport, SignalRefused
        <5> QED BY <2>2, <5>1, <5>2, <5>3
      <4> QED BY <1>t, <4>1
    <3> QED BY <1>0, <2>0, <3>1, <3>2 DEF Given
  <2> QED BY <1>3, <2>1, <2>2 DEF Submit
<1>4. CASE Poll
  <2>1. CASE PollReads \/ PollChecks
    <3>1. UNCHANGED <<inst, execs, seen, sigs, msg>>
      BY <2>1 DEF PollReads, PollChecks, PollFrame
    <3> QED BY <1>0, <3>1 DEF Given
  <2>2. CASE PollCreates
    <3>1. UNCHANGED <<inst, execs, seen, sigs, msg>> \/ (execs' = execs + 1 /\ UNCHANGED msg)
      BY <2>2 DEF PollCreates, PollFrame
    <3>2. CASE execs' = execs + 1 /\ UNCHANGED msg
      BY <1>t, <1>k, <3>2 DEF Kept, AcceptedIsDurable
    <3>3. CASE UNCHANGED <<inst, execs, seen, sigs, msg>>
      BY <1>0, <3>3 DEF Given
    <3> QED BY <3>1, <3>2, <3>3
  <2> QED BY <1>4, <2>1, <2>2 DEF Poll
<1>5. CASE OperatorCancels \/ Cancel \/ CancelFails \/ Crash \/ TerminalDies \/ UNCHANGED vars
  <2>1. UNCHANGED <<inst, execs, seen, sigs, msg>>
    BY <1>5 DEF OperatorCancels, Cancel, CancelFails, RequestCancellation, CancelFrame,
       FinalizeCancellation, CompleteInstead, ExecFrame, Crash, Restarted, TerminalDies, vars
  <2> QED BY <1>0, <2>1 DEF Given
<1> QED BY <1>1, <1>2, <1>3, <1>4, <1>5 DEF Next

LEMMA InitKept == Init => Kept
BY DEF Init, Kept, AcceptedIsDurable

(* An acknowledged report is not forgotten while its execution exists: it  *)
(* is pending or consumed, whichever request, crash or retry comes between *)
(* the signal, the answer and the interpreter's turn.                      *)
THEOREM AcceptedIsKept == Spec => []AcceptedIsDurable
<1>1. Spec => []TInv
  BY TicketTyping DEF TInv
<1>2. Kept => AcceptedIsDurable
  BY DEF Kept
<1> QED BY <1>1, <1>2, InitKept, NextKeeps, PTL DEF Spec

-----------------------------------------------------------------------------
(* A canceled run is announced, and a decided one is left alone. *)

Known == Reasons \cup {"none"}

\* What the code under way was told is the reason on record, and what is on
\* the ticket is said by it.
Said ==
    /\ cancelText \in Known /\ why \in Known
    /\ OnRecord => row.err \in Known
    /\ row.state = "canceling" => row.err \in Reasons
    /\ cx.st # "idle" => cx.why \in Reasons
    /\ cx.st # "idle" /\ row.state = "canceling" => cx.why = row.err
    /\ cx.st = "write" => cancelText \in Reasons
    /\ row.state = "canceled" => cancelText \in Reasons
    /\ ~IsRestart /\ ~OnRecord => cancelText = "none"
    /\ ~IsRestart /\ row.state = "canceling" => cancelText \in {"none", row.err}

\* The cleanup has read the reason; it has written it.
Told(p, w, text) ==
    row.state = "canceling" =>
       /\ p = "reason" => w = row.err
       /\ p = "cComment" => text \in Reasons

Cleaned ==
    row.state = "canceling" =>
       /\ Settled => Told(pc, why, cancelText)
       /\ pc \in {"cFinalize", "cComment", "cState"} => why = row.err
       /\ pc = "cState" => cancelText \in Reasons

\* Who may still be at work on a decided run, and which request is never a
\* forgotten one.
Decided ==
    ~raced =>
       /\ row.state = "completed" =>
             cx.st = "idle" /\ (inst # "active" \/ (pc = "completed" /\ ~cancelReq))
       /\ row.state = "canceled" => inst # "active" \/ pc = "cState"
       /\ cx.st \in {"finalize", "comment", "write", "complete"} => inst # "active"
       /\ inst = "active" /\ cancelReq => row.state \in {"canceling", "canceled"}

Announced == Said /\ Cleaned /\ Decided

\* What the interpreter writes to the row.
Writes ==
    /\ row'.state = "canceling" => row.state = "canceling" /\ row'.err = row.err
    /\ row.state = "canceling" => row'.state \in {"canceling", "canceled"}
    /\ row.state \in Terminal => row'.state = row.state
    /\ row'.state \in Terminal => row'.err = "none" \/ (row'.err = row.err /\ OnRecord)
    /\ row'.state = "canceled" => row.state = "canceled" \/ (pc = "cState" /\ row.state = "canceling")
    /\ row'.state = "completed" => row.state = "completed" \/ (pc = "completed" /\ ~OnRecord)

\* Where the interpreter goes from the code that cleans up after a cancellation.
Cleans ==
    \/ UNCHANGED <<pc, inst>> /\ (Settled' => Told(pc, why', cancelText'))
    \/ /\ phase' = "call" /\ pc' \notin {"cFinalize", "cComment", "cState"}
       /\ inst' = "finished" \/ pc \notin {"completed", "cState"} \/ CancelSeen
    \/ /\ phase' = "call" /\ pc \in {"reason", "cFinalize", "cComment"} /\ pc' = After[pc]
       /\ Told(pc, why', cancelText') /\ UNCHANGED inst

\* One step of the interpreter.
Cleanup ==
    /\ inst = "active" /\ Cleans /\ Writes
    /\ UNCHANGED execVars
    /\ UNCHANGED cx \/ Restarted
    /\ UNCHANGED cancelText \/ (pc = "cComment" /\ cancelText' = IF cancelText = "none" THEN why ELSE cancelText)
    /\ UNCHANGED why \/ (pc = "reason" /\ why' = row.err)

LEMMA UpdateStateWrites ==
    ASSUME row \in Rows, NEW e,
           NEW s \in {"waiting", "blocked", "completed", "canceled"},
           s \in Terminal => e = "none",
           s = "completed" => pc = "completed",
           s = "canceled" => pc = "cState" /\ OnRecord,
           UpdateState(s, e)
    PROVE  Writes
<1>1. CASE Fenced(s)
  BY <1>1 DEF UpdateState, Rows, States, OnRecord, Writes
<1>2. CASE ~Fenced(s)
  <2>1. row'.state = s /\ row'.err = e
    BY <1>2 DEF UpdateState, Written, Rows
  <2>2. row.state # "absent" /\ (row.state = "canceling" => s = "canceled")
        /\ (row.state \in Terminal => s = row.state)
    BY <1>2 DEF Fenced
  <2>3. row.state \in Active \cup Terminal \cup {"canceling"}
    BY <2>2 DEF Rows, States
  <2>4. CASE s \in {"waiting", "blocked"}
    BY <2>1, <2>2, <2>4 DEF Writes
  <2>5. CASE s = "completed"
    <3>1. row.state = "completed" \/ (row.state \in Active /\ pc = "completed")
      BY <2>2, <2>3, <2>5
    <3>2. row'.state = "completed" /\ row'.err = "none"
      BY <2>1, <2>5
    <3>3. row.state # "canceling" /\ (row.state \in Terminal => row.state = "completed")
      BY <3>1
    <3>4. row.state = "completed" \/ (pc = "completed" /\ ~OnRecord)
      BY <3>1 DEF OnRecord
    <3> QED BY <3>2, <3>3, <3>4 DEF Writes
  <2>6. CASE s = "canceled"
    <3>1. row.state \in {"canceled", "canceling"} /\ pc = "cState"
      BY <2>2, <2>6 DEF OnRecord
    <3> QED BY <2>1, <2>6, <3>1 DEF OnRecord, Writes
  <2> QED BY <2>4, <2>5, <2>6
<1> QED BY <1>1, <1>2

LEMMA SameWrites ==
    ASSUME row \in Rows, (\E b : UpdateRetry(b)) \/ row' = row \/ (\E n, v : UpdateNode("running", n, v))
    PROVE  Writes
BY DEF UpdateRetry, UpdateNode, Rows, States, Writes, OnRecord

LEMMA RecordedCleans ==
    ASSUME Recorded, Told(pc, why', cancelText')
    PROVE  Cleans
<1>1. CASE Continue
  BY <1>1 DEF Continue, Goto, Enter, Finish, Begin, Cleans, After, CancelSeen
<1>2. CASE ~Continue
  BY <1>2 DEF Recorded, Goto, Begin, Phase, Placed, Cleans, CancelSeen
<1> QED BY <1>1, <1>2

LEMMA FailedCleans ==
    ASSUME \/ Failed \/ Phase("again") \/ Phase("note") \/ Phase("block") \/ Phase("bind")
           \/ Phase("timer")
    PROVE  Cleans
BY DEF Failed, Goto, Begin, Phase, Placed, Cleans, Settled, CancelSeen

LEMMA DoneCleans ==
    ASSUME Done, Told(pc, why', cancelText')
    PROVE  Cleans /\ (UNCHANGED cx \/ Restarted)
BY RecordedCleans, FailedCleans DEF Done

LEMMA ActivityCleans ==
    ASSUME TInv, CancellationStaged, Announced, Activity
    PROVE  Cleanup
<1>0. /\ row \in Rows /\ UNCHANGED execVars
      /\ pc \in CancelPcs => OnRecord
  BY ActivityStaged DEF TInv, TypeOK, ProjTypeOK, Stays, CancellationStaged
<1>a. inst = "active"
  BY DEF Activity, PlainActivity, EnsureMailboxes, PrepareRestart, ApplyTaskConfig, Comment,
     CompleteMailbox, CommentCancellation, CleanupRun, CheckpointNodeRuntime,
     FinalizeNodeRuntimes, LoadNodeRuntime, LoadCancellationReason,
     ProjectionUpdateNodeRuntimeVisit, ProjectionUpdateNode, ProjectionUpdateState,
     ProjectionRecordProcessedReport, Act, Running
<1>1. CASE \/ EnsureMailboxes \/ PrepareRestart \/ ApplyTaskConfig \/ Comment
           \/ CompleteMailbox \/ CleanupRun
  <2>1. UNCHANGED <<row, cancelText, why>> /\ Done /\ pc \notin {"reason", "cComment"}
    BY <1>1 DEF EnsureMailboxes, PrepareRestart, ApplyTaskConfig, Comment, CompleteMailbox,
       CleanupRun, TaskFrame, Act
  <2> QED BY <1>0, <1>a, <2>1, DoneCleans, SameWrites DEF Cleanup, Told
<1>2. CASE CommentCancellation
  <2>1. /\ UNCHANGED <<row, why>> /\ Done /\ pc = "cComment"
        /\ cancelText' = IF cancelText = "none" THEN why ELSE cancelText
    BY <1>2 DEF CommentCancellation, CancelComment, TaskFrame, Act
  <2>2. Told(pc, why', cancelText')
    BY <2>1 DEF Announced, Said, Cleaned, Known, Told
  <2> QED BY <1>0, <1>a, <2>1, <2>2, DoneCleans, SameWrites DEF Cleanup
<1>3. CASE PlainActivity \/ LoadNodeRuntime
  <2>1. UNCHANGED <<row, cancelText, why, cx>> /\ Recorded /\ pc \notin {"reason", "cComment"}
    BY <1>3 DEF PlainActivity, LoadNodeRuntime, Act
  <2> QED BY <1>0, <1>a, <2>1, RecordedCleans, SameWrites DEF Cleanup, Told
<1>4. CASE LoadCancellationReason
  <2>1. UNCHANGED <<row, cancelText, cx>> /\ why' = row.err /\ Recorded /\ pc = "reason"
    BY <1>4 DEF LoadCancellationReason, Act
  <2> QED BY <1>0, <1>a, <2>1, RecordedCleans, SameWrites DEF Cleanup, Told
<1>5. CASE \/ CheckpointNodeRuntime \/ FinalizeNodeRuntimes \/ ProjectionUpdateNodeRuntimeVisit
           \/ ProjectionRecordProcessedReport \/ ProjectionUpdateNode
  <2>1. UNCHANGED <<cancelText, why>> /\ Done /\ pc \notin {"reason", "cComment"}
    BY <1>5 DEF CheckpointNodeRuntime, FinalizeNodeRuntimes, ProjFrame, Act,
       ProjectionUpdateNodeRuntimeVisit, ProjectionRecordProcessedReport, ProjectionUpdateNode
  <2>2. row' = row \/ UpdateNode("running", cur, visit)
    BY <1>5 DEF CheckpointNodeRuntime, FinalizeNodeRuntimes, Reclaim,
       ProjectionUpdateNodeRuntimeVisit, ProjectionRecordProcessedReport, ProjectionUpdateNode
  <2> QED BY <1>0, <1>a, <2>1, <2>2, DoneCleans, SameWrites DEF Cleanup, Told
<1>6. CASE ProjectionUpdateState
  <2>1. UNCHANGED <<cancelText, why>> /\ Done /\ pc \notin {"reason", "cComment"}
    BY <1>6 DEF ProjectionUpdateState, ProjFrame, Act
  <2>2. Writes
    BY <1>0, <1>6, UpdateStateWrites DEF ProjectionUpdateState, Act
  <2> QED BY <1>0, <1>a, <2>1, <2>2, DoneCleans DEF Cleanup, Told
<1> QED BY <1>1, <1>2, <1>3, <1>4, <1>5, <1>6 DEF Activity

LEMMA LaunchCleans ==
    ASSUME TInv, CancellationStaged, Ordered, Launch
    PROVE  Cleanup
<1>1. /\ UNCHANGED <<row, cancelText, why>> /\ UNCHANGED execVars /\ inst = "active"
  BY DEF Launch, ReuseTerminal, SendFails, EnsureTerminal, BindTerminal, BindFails, TaskFrame,
         Launching, Act, Running
<1>2. pc \in LaunchPcs
  BY DEF Launch, ReuseTerminal, SendFails, EnsureTerminal, BindTerminal, BindFails, Launching, Act,
     Ordered
<1>3. Done \/ ((Recorded \/ Failed \/ Phase("again") \/ Phase("bind")) /\ UNCHANGED cx)
  BY DEF Launch, ReuseTerminal, SendFails, EnsureTerminal, BindTerminal, BindFails
<1>4. Told(pc, why', cancelText')
  BY <1>2 DEF Told
<1>5. Cleans /\ (UNCHANGED cx \/ Restarted)
  BY <1>3, <1>4, RecordedCleans, DoneCleans, FailedCleans
<1>6. Writes
  BY <1>1, SameWrites DEF TInv, TypeOK, ProjTypeOK
<1> QED BY <1>1, <1>5, <1>6 DEF Cleanup

LEMMA RetryCleans ==
    ASSUME TInv, CancellationStaged, Cleaned, RetryLoop
    PROVE  Cleanup
<1>0. row \in Rows
  BY DEF TInv, TypeOK, ProjTypeOK
<1>1. /\ UNCHANGED <<cancelText, why, cx>> /\ UNCHANGED execVars /\ inst = "active"
  BY DEF RetryLoop, ActivityFails, MarkBlocked, NoteRetry, TimerFires, ClearRetry, Unblock,
     RetryWriteFails, LoopFrame, Running
<1>2. Writes
  <2>1. CASE row' = row \/ (\E b : UpdateRetry(b))
    BY <1>0, <2>1, SameWrites
  <2>2. CASE UpdateState("blocked", "conflict") \/ UpdateState("waiting", "none")
    BY <1>0, <2>2, UpdateStateWrites
  <2> QED BY <2>1, <2>2 DEF RetryLoop, ActivityFails, MarkBlocked, NoteRetry, TimerFires,
             ClearRetry, Unblock, RetryWriteFails, ScheduleState
<1>3. CASE ActivityFails
  BY <1>1, <1>2, <1>3, FailedCleans DEF ActivityFails, Cleanup
<1>4. CASE MarkBlocked \/ NoteRetry \/ TimerFires
  BY <1>1, <1>2, <1>4 DEF MarkBlocked, NoteRetry, TimerFires, Cleanup, Cleans, Goto, Begin, Phase,
     Placed, Settled, CancelSeen
<1>5. CASE ClearRetry \/ Unblock
  <2>1. Told(pc, why', cancelText')
    BY <1>1, <1>5 DEF ClearRetry, Unblock, Cleaned, Settled, Told
  <2>2. CASE Continue
    BY <1>1, <1>2, <2>1, <2>2, RecordedCleans
    DEF Cleanup, Continue, Goto, Enter, Finish, Begin, Cleans, After, CancelSeen
  <2>3. CASE Phase("unblock")
    BY <1>1, <1>2, <2>1, <2>3 DEF Cleanup, Cleans, Phase, Placed
  <2> QED BY <1>5, <2>2, <2>3 DEF ClearRetry, Unblock
<1>6. CASE RetryWriteFails
  BY <1>1, <1>2, <1>6 DEF RetryWriteFails, Abandon, Cleanup, Cleans, Goto, Finish, Begin, Placed
<1> QED BY <1>3, <1>4, <1>5, <1>6 DEF RetryLoop

\* A step of the interpreter keeps the announcement ahead of the decision.
LEMMA CleanupAnnounces ==
    ASSUME TInv, CancellationStaged, Announced, Cleanup
    PROVE  Announced'
<1>t. /\ row \in Rows /\ row.state \in States
      /\ pc \in CancelPcs => ctxDone
      /\ ctxDone => cancelReq
      /\ cancelReq => OnRecord
      /\ cx.st # "idle" => OnRecord
  BY DEF TInv, TypeOK, ProjTypeOK, Rows, CancellationStaged
<1>s. Said /\ Cleaned /\ Decided
  BY DEF Announced
<1>w. Writes /\ Cleans /\ inst = "active" /\ UNCHANGED <<execs, cancelReq, ctxDone, raced>>
      /\ (UNCHANGED cx \/ Restarted)
  BY DEF Cleanup
<1>r. OnRecord => OnRecord'
  BY <1>w, <1>t DEF Writes, OnRecord
<1>1. cancelText' \in Known /\ why' \in Known
  BY <1>t, <1>s DEF Cleanup, Said
<1>2. cancelText \in Reasons => cancelText' = cancelText
  BY ReasonsAssumption DEF Cleanup
<1>3. (OnRecord' => row'.err \in Known) /\ (row'.state = "canceling" => row'.err \in Reasons)
  BY <1>s, <1>w DEF Said, Writes, OnRecord, Known
<1>4. /\ cx'.st # "idle" => cx'.why \in Reasons
      /\ cx'.st # "idle" /\ row'.state = "canceling" => cx'.why = row'.err
      /\ cx'.st = "write" => cancelText' \in Reasons
  <2>1. CASE UNCHANGED cx
    BY <1>s, <1>w, <1>2, <2>1 DEF Said, Writes
  <2>2. CASE Restarted
    BY <1>3, <2>2 DEF Restarted, IdleCancel
  <2> QED BY <1>w, <2>1, <2>2
<1>5. row'.state = "canceled" => cancelText' \in Reasons
  BY <1>s, <1>w, <1>2 DEF Said, Cleaned, Writes
<1>6. ~IsRestart /\ ~OnRecord' => cancelText' = "none"
  BY <1>t, <1>r, <1>s DEF Cleanup, Said
<1>7. ~IsRestart /\ row'.state = "canceling" => cancelText' \in {"none", row'.err}
  BY <1>s, <1>w DEF Cleanup, Said, Cleaned, Writes
<1>8. Said'
  BY <1>1, <1>3, <1>4, <1>5, <1>6, <1>7 DEF Said
<1>9. Cleaned'
  <2> SUFFICES ASSUME row'.state = "canceling" PROVE Cleaned'
    BY DEF Cleaned
  <2>1. row.state = "canceling" /\ row'.err = row.err
    BY <1>w DEF Writes
  <2>2. CASE UNCHANGED pc /\ (Settled' => Told(pc, why', cancelText'))
    <3>1. pc \in {"cFinalize", "cComment", "cState"} => why' = row.err
      BY <1>s, <2>1 DEF Cleaned, Cleanup
    <3>2. pc = "cState" => cancelText' \in Reasons
      BY <1>s, <1>2, <2>1 DEF Cleaned
    <3> QED BY <2>1, <2>2, <3>1, <3>2 DEF Cleaned, Told
  <2>3. CASE phase' = "call" /\ pc' \notin {"cFinalize", "cComment", "cState"}
    BY <2>3 DEF Cleaned, Settled
  <2>4. CASE /\ phase' = "call" /\ pc \in {"reason", "cFinalize", "cComment"} /\ pc' = After[pc]
             /\ Told(pc, why', cancelText')
    <3>1. pc' = "cState" => pc = "cComment"
      BY <2>4 DEF After
    <3>2. why' = row.err
      BY <1>s, <2>1, <2>4 DEF Cleaned, Told, Cleanup
    <3>3. pc' = "cState" => cancelText' \in Reasons
      BY <2>1, <2>4, <3>1 DEF Told
    <3> QED BY <2>1, <2>4, <3>2, <3>3 DEF Cleaned, Settled
  <2> QED BY <1>w, <2>2, <2>3, <2>4 DEF Cleans
<1>10. Decided'
  <2> SUFFICES ASSUME ~raced PROVE Decided'
    BY <1>w DEF Decided
  <2>1. inst' # "active" \/ pc' = pc \/ pc \notin {"completed", "cState"} \/ CancelSeen
    BY <1>w DEF Cleans
  <2>2. row'.state = "completed" => cx'.st = "idle" /\ (inst' # "active" \/ (pc' = "completed" /\ ~cancelReq))
    <3> SUFFICES ASSUME row'.state = "completed"
                 PROVE  cx'.st = "idle" /\ (inst' # "active" \/ (pc' = "completed" /\ ~cancelReq))
      OBVIOUS
    <3>1. pc = "completed" /\ ~cancelReq /\ cx.st = "idle"
      BY <1>s, <1>t, <1>w DEF Decided, Writes
    <3>2. ~CancelSeen
      BY <1>t, <3>1 DEF CancelSeen
    <3>3. cx'.st = "idle"
      BY <1>w, <3>1 DEF Restarted, IdleCancel
    <3> QED BY <2>1, <3>1, <3>2, <3>3
  <2>3. row'.state = "canceled" => inst' # "active" \/ pc' = "cState"
    <3> SUFFICES ASSUME row'.state = "canceled" PROVE inst' # "active" \/ pc' = "cState"
      OBVIOUS
    <3>1. pc = "cState"
      BY <1>s, <1>w DEF Decided, Writes
    <3> QED BY <2>1, <3>1 DEF CancelSeen
  <2>4. cx'.st \notin {"finalize", "comment", "write", "complete"}
    BY <1>s, <1>w DEF Decided, Restarted, IdleCancel
  <2>5. inst' = "active" /\ cancelReq' => row'.state \in {"canceling", "canceled"}
    BY <1>s, <1>w DEF Decided, Writes
  <2> QED BY <1>w, <2>2, <2>3, <2>4, <2>5 DEF Decided
<1> QED BY <1>8, <1>9, <1>10 DEF Announced

\* Steps that touch neither the row nor the ticket, nor the place of the cleanup.
LEMMA AsideAnnounces ==
    ASSUME Announced, UNCHANGED <<row, raced, cancelText, why, pc, cancelReq>>,
           inst' = inst, UNCHANGED cx, Settled' => Settled
    PROVE  Announced'
BY DEF Announced, Said, Cleaned, Decided, Told, OnRecord

LEMMA ReceiveAnnounces ==
    ASSUME TInv, CancellationStaged, Announced, Receive
    PROVE  Announced'
<1>0. UNCHANGED <<row, raced, cancelText, why, cancelReq, cx>>
  BY DEF Receive, TakeCancel, TakeReport, TakeReconcile
<1>s. Said /\ Cleaned /\ Decided
  BY DEF Announced
<1>1. CASE UNCHANGED <<pc, inst, phase>>
  BY <1>0, <1>1, AsideAnnounces DEF Settled
<1>2. CASE /\ pc' \in {"reason", "record", "done", "reconcile"} /\ phase' = "call"
           /\ inst' = inst \/ inst' = "finished"
           /\ pc \notin {"completed", "cState"} \/ (cancelReq /\ pc # "cState")
  <2>1. Said'
    BY <1>0, <1>s DEF Said, OnRecord
  <2>2. Cleaned'
    BY <1>2 DEF Cleaned, Settled
  <2>3. Decided'
    BY <1>0, <1>2, <1>s DEF Decided
  <2> QED BY <2>1, <2>2, <2>3 DEF Announced
<1>3. CASE TakeCancel
  <2>1. cancelReq /\ (pc \in CancelPcs => FALSE)
    BY <1>3 DEF TakeCancel, CancellationStaged
  <2> QED BY <1>1, <1>2, <1>3, <2>1 DEF TakeCancel, Goto, Begin
<1>4. CASE TakeReport \/ TakeReconcile
  BY <1>1, <1>2, <1>4 DEF TakeReport, TakeReconcile, Waiting, Goto, Finish, Begin
<1> QED BY <1>3, <1>4 DEF Receive

LEMMA PollAnnounces ==
    ASSUME TInv, CancellationStaged, Announced, Poll
    PROVE  Announced'
<1>t. row \in Rows /\ row.state \in States /\ (cx.st # "idle" => OnRecord)
  BY DEF TInv, TypeOK, ProjTypeOK, Rows, CancellationStaged
<1>s. Said /\ Cleaned /\ Decided
  BY DEF Announced
<1>1. CASE PollReads
  <2>1. UNCHANGED <<raced, cancelText, why, cancelReq, cx, pc, phase, inst>>
    BY <1>1 DEF PollReads, PollFrame
  <2>2. CASE row' = row
    BY <2>1, <2>2, AsideAnnounces DEF Settled
  <2>3. CASE row.state = "absent" /\ row' = [row EXCEPT !.state = "starting"]
    <3>1. row'.state = "starting"
      BY <1>t, <2>3 DEF Rows
    <3> QED BY <1>t, <1>s, <2>1, <2>3, <3>1, NextStaged
            DEF Announced, Said, Cleaned, Decided, Told, OnRecord, CancellationStaged
  <2> QED BY <1>1, <2>2, <2>3 DEF PollReads, InsertStart
<1>2. CASE PollChecks
  BY <1>2, AsideAnnounces DEF PollChecks, PollFrame, Settled
<1>3. CASE PollCreates /\ inst = "active"
  BY <1>3, AsideAnnounces DEF PollCreates, PollFrame, Settled
<1>4. CASE PollCreates /\ inst # "active"
  <2>1. /\ raced' = (raced \/ row.state \notin Active) /\ UNCHANGED <<row, cancelText, cx>>
        /\ pc' = "mailboxes" /\ phase' = "call" /\ cancelReq' = FALSE /\ why' = "none"
    BY <1>4 DEF PollCreates, PollFrame, Begin
  <2>2. Said' /\ Cleaned'
    BY <1>s, <2>1 DEF Said, Cleaned, Settled, Told, OnRecord, Known
  <2>3. Decided'
    BY <1>s, <1>t, <2>1 DEF Decided, OnRecord
  <2> QED BY <2>2, <2>3 DEF Announced
<1> QED BY <1>1, <1>2, <1>3, <1>4 DEF Poll

LEMMA CancelAnnounces ==
    ASSUME TInv, CancellationStaged, Announced, OperatorCancels \/ Cancel \/ CancelFails
    PROVE  Announced'
<1>t. /\ row \in Rows /\ row.state \in States /\ (cx.st # "idle" => OnRecord)
      /\ cancelReq => OnRecord
      /\ cx \in [st : {"idle", "request", "finalize", "comment", "write", "complete"}, why : Errors]
  BY DEF TInv, TypeOK, ProjTypeOK, CallTypeOK, Rows, CancellationStaged
<1>s. Said /\ Cleaned /\ Decided
  BY DEF Announced
<1>0. UNCHANGED <<why, pc, phase, inst, raced>>
  BY DEF OperatorCancels, Cancel, CancelFails, RequestCancellation, CancelFrame,
     FinalizeCancellation, CompleteInstead, ExecFrame
<1>1. CASE OperatorCancels
  <2>1. PICK w \in Reasons : BeginCancellation(w)
    BY <1>1 DEF OperatorCancels
  <2>2. /\ row.state \in Active \cup {"canceling"} /\ cx' = [st |-> "request", why |-> row'.err]
        /\ UNCHANGED <<cancelText, cancelReq>>
    BY <1>1 DEF OperatorCancels, ExecFrame
  <2>3. /\ row'.state = "canceling" /\ row'.err \in Reasons
        /\ row.state = "canceling" => row' = row
    <3>1. CASE row.state = "canceling"
      BY <1>s, <2>1, <3>1 DEF BeginCancellation, Said
    <3>2. CASE row.state \in Active
      BY <1>t, <2>1, <3>2 DEF BeginCancellation, Rows
    <3> QED BY <2>2, <3>1, <3>2
  <2>4. Said'
    BY <1>0, <1>s, <2>2, <2>3 DEF Said, OnRecord, Known
  <2>5. Cleaned'
    <3>1. CASE row.state = "canceling"
      BY <1>0, <1>s, <2>2, <2>3, <3>1 DEF Cleaned, Settled, Told
    <3>2. CASE row.state \in Active
      <4>1. pc \notin CancelPcs
        BY <3>2 DEF CancellationStaged, OnRecord
      <4> QED BY <1>0, <4>1 DEF Cleaned, Told
    <3> QED BY <2>2, <3>1, <3>2
  <2>6. Decided'
    BY <1>0, <1>s, <2>2, <2>3 DEF Decided
  <2> QED BY <2>4, <2>5, <2>6 DEF Announced
<1>2. CASE RequestCancellation
  <2>1. /\ UNCHANGED <<row, cancelText>> /\ cx.st = "request"
        /\ \/ inst = "active" /\ cx' = IdleCancel
           \/ /\ inst # "active" /\ cancelReq' = cancelReq
              /\ cx' = [cx EXCEPT !.st = "finalize"] \/ cx' = [cx EXCEPT !.st = "complete"]
    BY <1>2 DEF RequestCancellation, CancelEnds, CancelStep, FinishedUncanceled
  <2>2. Said' /\ Cleaned'
    BY <1>0, <1>s, <1>t, <2>1 DEF Said, Cleaned, Settled, Told, OnRecord, IdleCancel
  <2>3. Decided'
    <3>1. CASE inst = "active"
      <4>1. OnRecord /\ (~raced => row.state # "completed")
        BY <1>s, <1>t, <2>1 DEF Decided
      <4>2. ~raced => row.state \in {"canceling", "canceled"}
        BY <4>1 DEF OnRecord
      <4> QED BY <1>0, <1>s, <2>1, <3>1, <4>2 DEF Decided, IdleCancel
    <3>2. CASE inst # "active"
      <4>1. row.state = "completed" => raced
        BY <1>s, <2>1 DEF Decided
      <4> QED BY <1>0, <1>s, <2>1, <3>2, <4>1 DEF Decided
    <3> QED BY <3>1, <3>2
  <2> QED BY <2>2, <2>3 DEF Announced
<1>3. CASE FinalizeCancellation
  <2>0. UNCHANGED cancelReq
    BY <1>3 DEF FinalizeCancellation, ExecFrame
  <2>1. CASE CancelStep("finalize", "comment") /\ UNCHANGED <<row, cancelText>>
    <3>1. Said' /\ Cleaned'
      BY <1>0, <1>s, <1>t, <2>1 DEF Said, Cleaned, Settled, Told, OnRecord, CancelStep
    <3>2. Decided'
      BY <1>0, <1>s, <1>t, <2>0, <2>1 DEF Decided, CancelStep
    <3> QED BY <3>1, <3>2 DEF Announced
  <2>2. CASE CancelStep("comment", "write") /\ CancelComment(cx.why) /\ UNCHANGED row
    <3>1. /\ cx.st = "comment" /\ cx'.st = "write" /\ cx'.why = cx.why
          /\ cancelText' = IF cancelText = "none" THEN cx.why ELSE cancelText
      BY <1>t, <2>2 DEF CancelStep, CancelComment
    <3>2. cancelText' \in Reasons /\ (cancelText \in Reasons => cancelText' = cancelText)
      BY <1>s, <3>1, ReasonsAssumption DEF Said, Known
    <3>3. OnRecord
      BY <1>t, <3>1
    <3>4. Said'
      BY <1>0, <1>s, <2>2, <3>1, <3>2, <3>3 DEF Said, OnRecord, Known
    <3>5. Cleaned'
      BY <1>0, <1>s, <2>2, <3>2 DEF Cleaned, Settled, Told
    <3>6. Decided'
      BY <1>0, <1>s, <2>0, <2>2, <3>1 DEF Decided
    <3> QED BY <3>4, <3>5, <3>6 DEF Announced
  <2>3. CASE CancelEnds("write") /\ UpdateStateIf("canceling", "canceled", "none") /\ UNCHANGED cancelText
    <3>1. cx.st = "write" /\ cx' = IdleCancel
      BY <2>3 DEF CancelEnds
    <3>2. row' = row \/ (row.state = "canceling" /\ row'.state = "canceled" /\ row'.err = "none")
      BY <1>t, <2>3 DEF UpdateStateIf, Written, Rows
    <3>3. OnRecord /\ OnRecord' /\ row'.state # "absent"
      BY <1>t, <3>1, <3>2 DEF OnRecord
    <3>4. Said'
      BY <1>0, <1>s, <2>3, <3>1, <3>2, <3>3 DEF Said, IdleCancel, Known
    <3>5. Cleaned'
      BY <1>0, <1>s, <2>3, <3>2 DEF Cleaned, Settled, Told
    <3>6. Decided'
      BY <1>0, <1>s, <2>0, <3>1, <3>2 DEF Decided, IdleCancel
    <3> QED BY <3>4, <3>5, <3>6 DEF Announced
  <2> QED BY <1>3, <2>1, <2>2, <2>3 DEF FinalizeCancellation, Reclaim
<1>4. CASE CompleteInstead
  <2>1. /\ cx.st = "complete" /\ cx' = IdleCancel /\ UNCHANGED <<cancelText, cancelReq>>
        /\ UpdateStateIf("canceling", "completed", "none")
    BY <1>4 DEF CompleteInstead, CancelEnds, ExecFrame
  <2>2. row' = row \/ (row.state = "canceling" /\ row'.state = "completed" /\ row'.err = "none")
    BY <1>t, <2>1 DEF UpdateStateIf, Written, Rows
  <2>3. OnRecord
    BY <1>t, <2>1
  <2>4. Said'
    BY <1>0, <1>s, <2>1, <2>2, <2>3 DEF Said, IdleCancel, Known, OnRecord
  <2>5. Cleaned'
    BY <1>0, <1>s, <2>1, <2>2 DEF Cleaned, Settled, Told
  <2>6. Decided'
    BY <1>0, <1>s, <2>1, <2>2 DEF Decided, IdleCancel
  <2> QED BY <2>4, <2>5, <2>6 DEF Announced
<1>5. CASE CancelFails
  <2>1. cx' = IdleCancel /\ UNCHANGED <<row, cancelText, cancelReq>>
    BY <1>5 DEF CancelFails, ExecFrame
  <2> QED BY <1>0, <1>s, <2>1 DEF Announced, Said, Cleaned, Decided, Settled, Told, OnRecord, IdleCancel
<1> QED BY <1>1, <1>2, <1>3, <1>4, <1>5 DEF Cancel

LEMMA NextAnnounces == TInv /\ CancellationStaged /\ Ordered /\ Announced /\ [Next]_vars => Announced'
<1> SUFFICES ASSUME TInv, CancellationStaged, Ordered, Announced, [Next]_vars PROVE Announced'
  OBVIOUS
<1>1. CASE Activity \/ Launch \/ RetryLoop
  BY <1>1, ActivityCleans, LaunchCleans, RetryCleans, CleanupAnnounces DEF Announced
<1>2. CASE Receive \/ Poll \/ OperatorCancels \/ Cancel \/ CancelFails
  BY <1>2, ReceiveAnnounces, PollAnnounces, CancelAnnounces
<1>3. CASE \E r \in ReportIds : AgentReports(r) \/ Submit(r)
  BY <1>3, AsideAnnounces
  DEF AgentReports, Submit, ReadRun, CheckReport, SignalReport, SignalRefused, CallFrame, Settled
<1>4. CASE TerminalDies \/ UNCHANGED vars
  BY <1>4, AsideAnnounces DEF TerminalDies, vars, Settled
<1>5. CASE Crash
  <2>1. /\ UNCHANGED <<row, raced, cancelText, why, pc, cancelReq, inst>> /\ (Settled' => Settled)
        /\ cx' = IF row'.state = "canceling" THEN [st |-> "request", why |-> row'.err] ELSE IdleCancel
    BY <1>5 DEF Crash, Restarted, Settled
  <2> QED BY <2>1 DEF Announced, Said, Cleaned, Decided, Told, OnRecord, IdleCancel
<1> QED BY <1>1, <1>2, <1>3, <1>4, <1>5 DEF Next

LEMMA InitAnnounced == Init => Announced
<1> SUFFICES ASSUME Init PROVE Announced
  OBVIOUS
<1>1. /\ row.state = "absent" /\ cancelText \in Known /\ (~IsRestart => cancelText = "none")
      /\ why = "none" /\ cx.st = "idle" /\ inst = "none" /\ pc = "done" /\ phase = "call"
  BY DEF Init, ProjInit, IdleCancel, Known
<1> QED BY <1>1 DEF Announced, Said, Cleaned, Decided, Settled, OnRecord, Known

LEMMA AnnouncedHolds == Spec => []Announced
<1>1. Spec => []TInv
  BY TicketTyping DEF TInv
<1>2. Walk => Ordered
  BY DEF Walk
<1> QED BY <1>1, <1>2, WalkHolds, CancellationHolds, InitAnnounced, NextAnnounces, PTL DEF Spec

(* A canceled run says so on its ticket with the reason of the operator    *)
(* who canceled first, whichever of the two cleanups came to the end and   *)
(* whatever failed before it did.                                          *)
THEOREM CancellationAnnounced == Spec => []CanceledIsAnnounced
<1>1. Announced => CanceledIsAnnounced
  BY DEF Announced, Said, CanceledIsAnnounced
<1> QED BY <1>1, AnnouncedHolds, PTL

-----------------------------------------------------------------------------
(* After the end *)

\* Tickets and the number of terminals as they were.
Untouched == taskVars' = taskVars /\ Len(terms') = Len(terms)

LEMMA ClosedLength ==
    ASSUME TInv, NEW S
    PROVE  Len(Closed(S)) = Len(terms)
BY DEF TInv, TypeOK, TermTypeOK, Closed, Terminals

LEMMA ReclaimLeaves ==
    ASSUME TInv, NEW S, NEW keep, Reclaim(S, keep)
    PROVE  Len(terms') = Len(terms)
BY ClosedLength DEF Reclaim

\* The last write of either end is the only activity left to a decided run.
LEMMA InterpreterQuiet ==
    ASSUME TInv, Ordered, Decided, row.state \in Terminal, ~raced,
           Activity \/ Launch \/ RetryLoop
    PROVE  Untouched
<1>a. inst = "active"
  BY DEF Activity, PlainActivity, EnsureMailboxes, PrepareRestart, ApplyTaskConfig, Comment,
     CompleteMailbox, CommentCancellation, CleanupRun, CheckpointNodeRuntime,
     FinalizeNodeRuntimes, LoadNodeRuntime, LoadCancellationReason,
     ProjectionUpdateNodeRuntimeVisit, ProjectionUpdateNode, ProjectionUpdateState,
     ProjectionRecordProcessedReport, Act, Running, Launch, ReuseTerminal, SendFails,
     EnsureTerminal, BindTerminal, BindFails, Launching, RetryLoop, ActivityFails, MarkBlocked,
     NoteRetry, TimerFires, ClearRetry, Unblock, RetryWriteFails
<1>b. pc \in {"completed", "cState"}
  BY <1>a DEF Decided, Terminal
<1>1. CASE Activity
  <2>1. ProjectionUpdateState
    BY <1>b, <1>1 DEF Activity, PlainActivity, EnsureMailboxes, PrepareRestart, ApplyTaskConfig,
       Comment, CompleteMailbox, CommentCancellation, CleanupRun, CheckpointNodeRuntime,
       FinalizeNodeRuntimes, LoadNodeRuntime, LoadCancellationReason,
       ProjectionUpdateNodeRuntimeVisit, ProjectionUpdateNode, ProjectionRecordProcessedReport, Act
  <2> QED BY <2>1 DEF ProjectionUpdateState, ProjFrame, Untouched
<1>2. CASE Launch
  <2>1. pc \in LaunchPcs
    BY <1>2 DEF Launch, ReuseTerminal, SendFails, EnsureTerminal, BindTerminal, BindFails,
       Launching, Act, Ordered
  <2> QED BY <1>b, <2>1
<1>3. CASE RetryLoop
  BY <1>3 DEF RetryLoop, ActivityFails, MarkBlocked, NoteRetry, TimerFires, ClearRetry, Unblock,
     RetryWriteFails, LoopFrame, Untouched
<1> QED BY <1>1, <1>2, <1>3

\* A late cancellation finds its comment already written.
LEMMA CancelQuiet ==
    ASSUME TInv, Said, row.state \in Terminal, Decided, ~raced,
           OperatorCancels \/ Cancel \/ CancelFails
    PROVE  Untouched
<1>1. CASE OperatorCancels \/ RequestCancellation \/ CompleteInstead \/ CancelFails
  BY <1>1 DEF OperatorCancels, RequestCancellation, CompleteInstead, CancelFails, Untouched
<1>2. CASE FinalizeCancellation
  <2>1. CASE Reclaim(Nodes, KeepTerminals) /\ UNCHANGED taskVars
    BY <2>1, ReclaimLeaves DEF Untouched
  <2>2. CASE CancelStep("comment", "write") /\ CancelComment(cx.why) /\ UNCHANGED terms
    <3>1. row.state = "canceled"
      BY <2>2 DEF CancelStep, Decided, Terminal
    <3>2. cancelText # "none"
      BY <3>1, ReasonsAssumption DEF Said
    <3> QED BY <2>2, <3>2 DEF CancelComment, Untouched
  <2> QED BY <1>2, <2>1, <2>2 DEF FinalizeCancellation, Untouched
<1> QED BY <1>1, <1>2 DEF Cancel

LEMMA NextQuiet ==
    ASSUME TInv, Ordered, Announced, [Next]_vars, row.state \in Terminal, ~raced
    PROVE  Untouched
<1>1. CASE Activity \/ Launch \/ RetryLoop
  BY <1>1, InterpreterQuiet DEF Announced
<1>2. CASE OperatorCancels \/ Cancel \/ CancelFails
  BY <1>2, CancelQuiet DEF Announced
<1>3. CASE Receive \/ Poll \/ Crash \/ UNCHANGED vars
  BY <1>3 DEF Receive, TakeCancel, TakeReport, TakeReconcile, Poll, PollReads, PollChecks,
     PollCreates, PollFrame, Crash, vars, Untouched
<1>4. CASE \E r \in ReportIds : AgentReports(r) \/ Submit(r)
  BY <1>4 DEF AgentReports, Submit, ReadRun, CheckReport, SignalReport, SignalRefused, CallFrame,
     Untouched
<1>5. CASE TerminalDies
  BY <1>5, ClosedLength DEF TerminalDies, Untouched
<1> QED BY <1>1, <1>2, <1>3, <1>4, <1>5 DEF Next

(* Once a run is decided no mailbox, ticket or comment is touched and no   *)
(* agent started, though retries, polls, late reports and a second         *)
(* cancellation go on.                                                     *)
THEOREM NothingAfterTheEnd == Spec => QuietAfterEnd
<1>1. TInv /\ Ordered /\ Announced /\ [Next]_vars
      => [row.state \in Terminal /\ ~raced => taskVars' = taskVars /\ Len(terms') = Len(terms)]_vars
  BY NextQuiet DEF Untouched
<1>2. Spec => []TInv
  BY TicketTyping DEF TInv
<1>3. Walk => Ordered
  BY DEF Walk
<1> QED BY <1>1, <1>2, <1>3, WalkHolds, AnnouncedHolds, PTL DEF Spec, QuietAfterEnd

-----------------------------------------------------------------------------
(* The agents in their terminals *)

\* No terminal is added, none changes its node or comes back to life.
Faded ==
    /\ DOMAIN terms' = DOMAIN terms
    /\ \A t \in DOMAIN terms : /\ terms'[t].node = terms[t].node
                               /\ terms'[t].live => terms[t].live

\* One is added, for the node under way.
Grown ==
    LET new == Len(terms) + 1
    IN  /\ RecoverByTitle => Recoverable = {}
        /\ DOMAIN terms' = DOMAIN terms \cup {new} /\ new \notin DOMAIN terms
        /\ \A t \in DOMAIN terms : terms'[t] = terms[t]
        /\ terms'[new].node = cur

LEMMA ClosedFades ==
    ASSUME TInv, NEW S, terms' = Closed(S)
    PROVE  Faded
BY DEF TInv, TypeOK, TermTypeOK, Closed, Terminals, Faded

LEMMA ReclaimFades ==
    ASSUME TInv, NEW S, NEW keep, Reclaim(S, keep)
    PROVE  Faded
BY ClosedFades DEF Reclaim, Faded

LEMMA EnsureGrows ==
    ASSUME TInv, EnsureTerminal
    PROVE  Faded \/ Grown
<1>1. CASE UNCHANGED terms
  BY <1>1 DEF Faded
<1>2. CASE /\ RecoverByTitle => Recoverable = {}
           /\ terms' = Append(terms, [node |-> cur, live |-> TRUE, visit |-> visit])
  <2> DEFINE made == [node |-> cur, live |-> TRUE, visit |-> visit]
  <2>1. terms \in Seq(Terminals) /\ made \in Terminals
    <3>1. cur \in Nodes
      BY DEF EnsureTerminal, Launching, Act, TInv, Located, NodePcs
    <3> QED BY <3>1 DEF TInv, TypeOK, TermTypeOK, LoopTypeOK, Terminals
  <2>2. made.node = cur
    OBVIOUS
  <2> HIDE DEF made
  <2>3. /\ Len(Append(terms, made)) = Len(terms) + 1
        /\ \A i \in 1..Len(terms) : Append(terms, made)[i] = terms[i]
        /\ Append(terms, made)[Len(terms) + 1] = made
        /\ DOMAIN terms = 1..Len(terms) /\ Len(terms) \in Nat
        /\ DOMAIN Append(terms, made) = 1..(Len(terms) + 1)
    BY <2>1
  <2>4. terms' = Append(terms, made)
    BY <1>2 DEF made
  <2> QED BY <1>2, <2>2, <2>3, <2>4 DEF Grown
<1> QED BY <1>1, <1>2 DEF EnsureTerminal

LEMMA LaunchTends ==
    ASSUME TInv, Launch
    PROVE  Faded \/ Grown
<1>1. CASE ReuseTerminal
  <2>1. cur \in Nodes
    BY <1>1 DEF ReuseTerminal, Launching, Act, TInv, Located, NodePcs
  <2>2. terms \in Seq(Terminals) /\ runtimes[cur].term \in Nat
    BY <2>1 DEF TInv, TypeOK, TermTypeOK, ProjTypeOK, Runtimes
  <2> QED BY <1>1, <2>2 DEF ReuseTerminal, Faded, Terminals
<1>2. CASE SendFails
  BY <1>2, ClosedFades DEF SendFails
<1>3. CASE EnsureTerminal
  BY <1>3, EnsureGrows
<1>4. CASE BindTerminal \/ BindFails
  BY <1>4, ClosedFades DEF BindTerminal, BindFails, Faded
<1> QED BY <1>1, <1>2, <1>3, <1>4 DEF Launch

LEMMA NextTends ==
    ASSUME TInv, [Next]_vars
    PROVE  Faded \/ (Launch /\ Grown)
<1>1. CASE Launch
  BY <1>1, LaunchTends
<1>2. CASE UNCHANGED terms
  BY <1>2 DEF Faded
<1>3. CASE Activity
  <2>1. CASE PrepareRestart \/ CleanupRun
    BY <2>1, ClosedFades DEF PrepareRestart, CleanupRun
  <2>2. CASE CheckpointNodeRuntime \/ FinalizeNodeRuntimes
    BY <2>2, ReclaimFades DEF CheckpointNodeRuntime, FinalizeNodeRuntimes
  <2> QED BY <1>2, <1>3, <2>1, <2>2 DEF Activity, PlainActivity, EnsureMailboxes, ApplyTaskConfig,
       Comment, CompleteMailbox, CommentCancellation, CancelComment, LoadNodeRuntime,
       LoadCancellationReason, ProjectionUpdateNodeRuntimeVisit, ProjectionUpdateNode,
       ProjectionUpdateState, ProjectionRecordProcessedReport
<1>4. CASE Cancel
  BY <1>2, <1>4, ReclaimFades DEF Cancel, RequestCancellation, FinalizeCancellation, CompleteInstead,
     CancelComment
<1>5. CASE TerminalDies
  BY <1>5, ClosedFades DEF TerminalDies
<1>6. CASE RetryLoop \/ Receive \/ Poll
  BY <1>2, <1>6 DEF RetryLoop, ActivityFails, MarkBlocked, NoteRetry, TimerFires, ClearRetry,
     Unblock, RetryWriteFails, LoopFrame, Receive, TakeCancel, TakeReport, TakeReconcile, Poll,
     PollReads, PollChecks, PollCreates, PollFrame
<1>7. CASE OperatorCancels \/ CancelFails \/ Crash \/ UNCHANGED vars
  BY <1>2, <1>7 DEF OperatorCancels, CancelFails, Crash, vars
<1>8. CASE \E r \in ReportIds : AgentReports(r) \/ Submit(r)
  BY <1>2, <1>8 DEF AgentReports, Submit, ReadRun, CheckReport, SignalReport, SignalRefused,
     CallFrame
<1> QED BY <1>1, <1>3, <1>4, <1>5, <1>6, <1>7, <1>8 DEF Next

LEMMA NextLaunchesOnce ==
    RecoverByTitle /\ TInv /\ OneAgentPerNode /\ [Next]_vars => OneAgentPerNode'
<1> SUFFICES ASSUME RecoverByTitle, TInv, OneAgentPerNode, [Next]_vars
             PROVE  OneAgentPerNode'
  OBVIOUS
<1>1. CASE Faded
  BY <1>1 DEF Faded, OneAgentPerNode
<1>2. CASE Grown
  BY <1>2 DEF Grown, OneAgentPerNode, Recoverable
<1> QED BY <1>1, <1>2, NextTends

LEMMA InitLaunchesOnce == Init => OneAgentPerNode
BY DEF Init, OneAgentPerNode

(* Two agents never work on the same node of a ticket's worktree, where    *)
(* the runner looks for a lost terminal before it makes one: not after     *)
(* crashes, retries, reconciliations or a second execution.                *)
THEOREM OneAgentEach ==
    ASSUME RecoverByTitle
    PROVE  Spec => []OneAgentPerNode
<1>1. Spec => []TInv
  BY TicketTyping DEF TInv
<1>2. TInv /\ OneAgentPerNode /\ [Next]_vars => OneAgentPerNode'
  BY NextLaunchesOnce
<1> QED BY <1>1, <1>2, InitLaunchesOnce, PTL DEF Spec

-----------------------------------------------------------------------------
(* No agent left behind *)

\* A stored handle is that of a terminal of its own node, and so is one
\* about to be stored.
Housed ==
    /\ \A n \in Nodes : runtimes[n].term # 0 =>
          runtimes[n].term \in DOMAIN terms /\ terms[runtimes[n].term].node = n
    /\ phase = "bind" => fresh \in DOMAIN terms /\ terms[fresh].node = cur

\* Only legal routes are signalled.
Legalized ==
    /\ \A r \in ReportIds : req[r].st = "checked" => LegalRoute(r)
    /\ \A i \in DOMAIN sigs : sigs[i].next \in Legal[sigs[i].node]

Dead == \A t \in DOMAIN terms : ~terms[t].live
Bound(t) == runtimes[terms[t].node].term = t
Owned == \A t \in DOMAIN terms : terms[t].live => Bound(t)

\* Made or found by the launch under way, its handle not yet stored.
Adrift(t) ==
    /\ pc \in LaunchPcs /\ terms[t].node = cur
    /\ phase = "again" \/ (phase = "bind" /\ t = fresh)

Unfailing == faults.fail = 0 /\ ~raced

\* Without a failing call every live terminal is bound or about to be, and
\* none is left once the run is past its cleanup.
Accounted ==
    Unfailing =>
       /\ phase \in {"call", "again", "bind"} /\ ~tries
       /\ inst = "active" /\ phase = "bind" => ~BoundLive(cur)
       /\ inst # "active" \/ pc \in {"completed", "cComment", "cState"} => Dead
       /\ \A t \in DOMAIN terms : terms[t].live => Bound(t) \/ Adrift(t)

LEMMA SpendFails ==
    ASSUME TInv, Spend("fail")
    PROVE  ~Unfailing'
BY DEF TInv, TypeOK, FaultTypeOK, FaultKinds, Spend, Unfailing

LEMMA SpendOther ==
    ASSUME TInv, Spend("crash") \/ Spend("death") \/ Spend("db")
    PROVE  faults'.fail = faults.fail
BY DEF TInv, TypeOK, FaultTypeOK, FaultKinds, Spend

LEMMA FaultsLast ==
    ASSUME TInv, [Next]_vars, Unfailing'
    PROVE  Unfailing
<1>1. faults' = faults \/ faults'.fail = faults.fail
  <2>1. ~Spend("fail")
    BY SpendFails
  <2>2. \/ faults' = faults \/ Spend("crash") \/ Spend("death") \/ Spend("db")
    <3>1. CASE Activity
      BY <2>1, <3>1 DEF Activity, PlainActivity, EnsureMailboxes, PrepareRestart, ApplyTaskConfig,
        Comment, CompleteMailbox, CommentCancellation, CleanupRun, CheckpointNodeRuntime,
        FinalizeNodeRuntimes, LoadNodeRuntime, LoadCancellationReason,
        ProjectionUpdateNodeRuntimeVisit, ProjectionUpdateNode, ProjectionUpdateState,
        ProjectionRecordProcessedReport, Done
    <3>2. CASE Launch \/ RetryLoop
      BY <2>1, <3>2 DEF Launch, ReuseTerminal, SendFails, EnsureTerminal, BindTerminal, BindFails,
        Done, RetryLoop, ActivityFails, MarkBlocked, NoteRetry, TimerFires, ClearRetry, Unblock,
        RetryWriteFails, ScheduleState
    <3>3. CASE Receive \/ Poll \/ OperatorCancels \/ Cancel \/ CancelFails
      BY <2>1, <3>3 DEF Receive, TakeCancel, TakeReport, TakeReconcile, Poll, PollReads, PollChecks,
        PollCreates, PollFrame, OperatorCancels, Cancel, RequestCancellation, FinalizeCancellation,
        CompleteInstead, CancelFails
    <3>4. CASE \E r \in ReportIds : AgentReports(r) \/ Submit(r)
      BY <2>1, <3>4 DEF AgentReports, Submit, ReadRun, CheckReport, SignalReport, SignalRefused
    <3>5. CASE Crash \/ TerminalDies \/ UNCHANGED vars
      BY <3>5 DEF Crash, TerminalDies, vars
    <3> QED BY <3>1, <3>2, <3>3, <3>4, <3>5 DEF Next
  <2> QED BY <2>2, SpendOther
<1>2. raced => raced'
  <2>1. UNCHANGED raced \/ raced' = (raced \/ row.state \notin Active)
    <3>1. CASE Activity \/ Launch \/ RetryLoop
      <4>1. UNCHANGED execVars
        BY <3>1 DEF Activity, PlainActivity, EnsureMailboxes, PrepareRestart, ApplyTaskConfig,
          Comment, CompleteMailbox, CommentCancellation, CleanupRun, CheckpointNodeRuntime,
          FinalizeNodeRuntimes, LoadNodeRuntime, LoadCancellationReason, TaskFrame, ProjFrame,
          ProjectionUpdateNodeRuntimeVisit, ProjectionUpdateNode, ProjectionUpdateState,
          ProjectionRecordProcessedReport, Launch, ReuseTerminal, SendFails, EnsureTerminal,
          BindTerminal, BindFails, RetryLoop, ActivityFails, MarkBlocked, NoteRetry, TimerFires,
          ClearRetry, Unblock, RetryWriteFails, LoopFrame
      <4> QED BY <4>1
    <3>2. CASE Receive \/ Poll
      BY <3>2 DEF Receive, TakeCancel, TakeReport, TakeReconcile, Poll, PollReads, PollChecks,
         PollCreates
    <3>3. CASE OperatorCancels \/ Cancel \/ CancelFails
      BY <3>3 DEF OperatorCancels, Cancel, RequestCancellation, FinalizeCancellation,
        CompleteInstead, CancelFails, ExecFrame
    <3>4. CASE \E r \in ReportIds : AgentReports(r) \/ Submit(r)
      BY <3>4 DEF AgentReports, Submit, ReadRun, CheckReport, SignalReport, SignalRefused, CallFrame
    <3>5. CASE Crash \/ TerminalDies \/ UNCHANGED vars
      BY <3>5 DEF Crash, TerminalDies, vars
    <3> QED BY <3>1, <3>2, <3>3, <3>4, <3>5 DEF Next
  <2> QED BY <2>1
<1> QED BY <1>1, <1>2 DEF Unfailing

\* Handles are forgotten, or kept as they are.
Forgets == \A n \in Nodes : runtimes'[n].term \in {0, runtimes[n].term}

LEMMA ReclaimForgets ==
    ASSUME TInv, NEW S, NEW keep, Reclaim(S, keep)
    PROVE  Forgets
BY DEF Reclaim, ClearNodeRuntime, Forgets, TInv, TypeOK, ProjTypeOK, Runtimes

LEMMA NextForgets ==
    ASSUME TInv, [Next]_vars, ~BindTerminal
    PROVE  Forgets
<1>0. runtimes \in Runtimes
  BY DEF TInv, TypeOK, ProjTypeOK
<1>1. CASE UNCHANGED runtimes
  BY <1>1 DEF Forgets
<1>2. CASE Activity
  <2>1. CASE CheckpointNodeRuntime \/ FinalizeNodeRuntimes
    BY <2>1, ReclaimForgets DEF CheckpointNodeRuntime, FinalizeNodeRuntimes
  <2>2. CASE ProjectionUpdateNodeRuntimeVisit \/ ProjectionUpdateNode
    BY <1>0, <2>2 DEF ProjectionUpdateNodeRuntimeVisit, ProjectionUpdateNode, UpdateNode,
       UpdateNodeRuntimeVisit, Forgets, Runtimes
  <2> QED BY <1>1, <1>2, <2>1, <2>2 DEF Activity, PlainActivity, EnsureMailboxes, PrepareRestart,
       ApplyTaskConfig, Comment, CompleteMailbox, CommentCancellation, CleanupRun, TaskFrame,
       LoadNodeRuntime, LoadCancellationReason, ProjectionUpdateState,
       ProjectionRecordProcessedReport
<1>3. CASE Launch
  BY <1>1, <1>3 DEF Launch, ReuseTerminal, SendFails, EnsureTerminal, BindFails, TaskFrame
<1>4. CASE RetryLoop \/ Receive \/ Poll
  BY <1>1, <1>4 DEF RetryLoop, ActivityFails, MarkBlocked, NoteRetry, TimerFires, ClearRetry,
     Unblock, RetryWriteFails, LoopFrame, Receive, TakeCancel, TakeReport, TakeReconcile, Poll,
     PollReads, PollChecks, PollCreates, PollFrame
<1>5. CASE OperatorCancels \/ Cancel \/ CancelFails
  BY <1>1, <1>5, ReclaimForgets DEF OperatorCancels, Cancel, RequestCancellation,
     FinalizeCancellation, CompleteInstead, CancelFails
<1>6. CASE \E r \in ReportIds : AgentReports(r) \/ Submit(r)
  BY <1>1, <1>6 DEF AgentReports, Submit, ReadRun, CheckReport, SignalReport, SignalRefused
<1>7. CASE Crash \/ TerminalDies \/ UNCHANGED vars
  BY <1>1, <1>7 DEF Crash, TerminalDies, vars
<1> QED BY <1>2, <1>3, <1>4, <1>5, <1>6, <1>7 DEF Next

\* A launch in its second half goes on, or ends.
LEMMA NextBinds ==
    ASSUME TInv, Ordered, [Next]_vars, phase' = "bind"
    PROVE  EnsureTerminal \/ UNCHANGED <<phase, pc, cur, fresh, inst>>
<1>1. CASE Activity
  BY <1>1 DEF Activity, PlainActivity, EnsureMailboxes, PrepareRestart, ApplyTaskConfig,
     Comment, CompleteMailbox, CommentCancellation, CleanupRun, CheckpointNodeRuntime,
     FinalizeNodeRuntimes, LoadNodeRuntime, LoadCancellationReason,
     ProjectionUpdateNodeRuntimeVisit, ProjectionUpdateNode, ProjectionUpdateState,
     ProjectionRecordProcessedReport, Done, Recorded, Failed, Continue, Goto, Enter, Finish,
     Begin, Phase
<1>2. CASE Launch
  BY <1>2 DEF Launch, ReuseTerminal, SendFails, BindTerminal, BindFails, Done, Recorded, Failed,
     Continue, Goto, Enter, Finish, Begin, Phase
<1>3. CASE RetryLoop
  BY <1>3 DEF RetryLoop, ActivityFails, MarkBlocked, NoteRetry, TimerFires, ClearRetry, Unblock,
     RetryWriteFails, Failed, Continue, Abandon, Goto, Enter, Finish, Begin, Phase
<1>4. CASE Receive \/ Poll
  BY <1>4 DEF Receive, TakeCancel, TakeReport, TakeReconcile, Goto, Finish, Begin, Poll, PollReads,
     PollChecks, PollCreates
<1>5. CASE OperatorCancels \/ Cancel \/ CancelFails
  BY <1>5 DEF OperatorCancels, Cancel, RequestCancellation, FinalizeCancellation,
     CompleteInstead, CancelFails, CancelFrame
<1>6. CASE \E r \in ReportIds : AgentReports(r) \/ Submit(r)
  BY <1>6 DEF AgentReports, Submit, ReadRun, CheckReport, SignalReport, SignalRefused, CallFrame
<1>7. CASE Crash \/ TerminalDies \/ UNCHANGED vars
  BY <1>7 DEF Crash, TerminalDies, vars
<1> QED BY <1>1, <1>2, <1>3, <1>4, <1>5, <1>6, <1>7 DEF Next

\* What a launch holds between its two halves.
LEMMA EnsureHolds ==
    ASSUME TInv, EnsureTerminal
    PROVE  /\ pc \in LaunchPcs /\ inst = "active" /\ cur \in Nodes /\ ~BoundLive(cur)
           /\ phase \in {"call", "again"} /\ phase' = "bind"
           /\ UNCHANGED <<pc, cur, inst, tries, runtimes, row, raced, faults>>
           /\ fresh' \in DOMAIN terms' /\ terms'[fresh'].node = cur /\ terms'[fresh'].live
           /\ RecoverByTitle => \A t \in DOMAIN terms' :
                 terms'[t].live /\ terms'[t].node = cur /\ t # fresh'
                    => UNCHANGED terms /\ t \in DOMAIN terms /\ fresh' \in Recoverable
<1>1. /\ pc \in LaunchPcs /\ inst = "active" /\ ~BoundLive(cur)
      /\ phase \in {"call", "again"} /\ phase' = "bind"
      /\ UNCHANGED <<pc, cur, inst, tries, runtimes, row, raced, faults>>
  BY DEF EnsureTerminal, Launching, Act, Running, Phase, Placed
<1>2. cur \in Nodes
  BY <1>1 DEF TInv, Located, NodePcs
<1>3. CASE RecoverByTitle /\ fresh' \in Recoverable /\ UNCHANGED terms
  BY <1>1, <1>2, <1>3 DEF Recoverable
<1>4. CASE /\ RecoverByTitle => Recoverable = {}
           /\ terms' = Append(terms, [node |-> cur, live |-> TRUE, visit |-> visit])
           /\ fresh' = Len(terms) + 1
  <2> DEFINE made == [node |-> cur, live |-> TRUE, visit |-> visit]
  <2>1. terms \in Seq(Terminals) /\ made \in Terminals
    BY <1>2 DEF TInv, TypeOK, TermTypeOK, LoopTypeOK, Terminals
  <2>2. made.node = cur /\ made.live
    OBVIOUS
  <2> HIDE DEF made
  <2>3. /\ \A i \in DOMAIN terms : Append(terms, made)[i] = terms[i]
        /\ Append(terms, made)[Len(terms) + 1] = made
        /\ DOMAIN Append(terms, made) = DOMAIN terms \cup {Len(terms) + 1}
    BY <2>1
  <2>4. terms' = Append(terms, made)
    BY <1>4 DEF made
  <2> QED BY <1>1, <1>2, <1>4, <2>2, <2>3, <2>4 DEF Recoverable
<1> QED BY <1>3, <1>4 DEF EnsureTerminal

LEMMA NextHoused == TInv /\ Ordered /\ Housed /\ [Next]_vars => Housed'
<1> SUFFICES ASSUME TInv, Ordered, Housed, [Next]_vars PROVE Housed'
  OBVIOUS
<1>1. /\ DOMAIN terms \subseteq DOMAIN terms'
      /\ \A t \in DOMAIN terms : terms'[t].node = terms[t].node
  BY NextTends DEF Faded, Grown
<1>2. phase' = "bind" => fresh' \in DOMAIN terms' /\ terms'[fresh'].node = cur'
  <2>1. CASE EnsureTerminal
    BY <2>1, EnsureHolds
  <2>2. CASE ~EnsureTerminal
    BY <1>1, <2>2, NextBinds DEF Housed
  <2> QED BY <2>1, <2>2
<1>3. ASSUME NEW n \in Nodes, runtimes'[n].term # 0
      PROVE  runtimes'[n].term \in DOMAIN terms' /\ terms'[runtimes'[n].term].node = n
  <2>1. CASE BindTerminal
    <3>1. phase = "bind" /\ runtimes' = [runtimes EXCEPT ![cur].term = fresh]
      BY <2>1 DEF BindTerminal, ReplaceNodeRuntime
    <3>2. runtimes'[n].term = IF n = cur THEN fresh ELSE runtimes[n].term
      BY <3>1 DEF TInv, TypeOK, ProjTypeOK, Runtimes
    <3> QED BY <1>1, <1>3, <3>1, <3>2 DEF Housed
  <2>2. CASE ~BindTerminal
    <3>1. runtimes'[n].term = runtimes[n].term
      BY <1>3, <2>2, NextForgets DEF Forgets
    <3> QED BY <1>1, <1>3, <3>1 DEF Housed
  <2> QED BY <2>1, <2>2
<1> QED BY <1>2, <1>3 DEF Housed

LEMMA SubmitLegal ==
    ASSUME TInv, Legalized, NEW r \in ReportIds, Submit(r)
    PROVE  Legalized'
<1>t. /\ msg \in [ReportIds -> Messages]
      /\ req \in [ReportIds -> [st : {"idle", "read", "checked"}, visit : Nat]]
      /\ sigs \in Seq(Signals)
  BY DEF TInv, TypeOK, CallTypeOK, SigTypeOK
<1>a. ASSUME NEW st, Answer(r, st)
      PROVE  /\ \A q \in ReportIds : msg'[q].node = msg[q].node /\ msg'[q].next = msg[q].next
             /\ \A q \in ReportIds : q # r => req'[q] = req[q]
             /\ req'[r].st = "idle"
  <2>1. msg' = [msg EXCEPT ![r] = [msg[r] EXCEPT !.st = st]] /\ req' = [req EXCEPT ![r] = IdleReq]
    BY <1>a DEF Answer
  <2>2. msg[r] \in Messages
    BY <1>t
  <2>3. [msg[r] EXCEPT !.st = st].node = msg[r].node /\ [msg[r] EXCEPT !.st = st].next = msg[r].next
    BY <2>2 DEF Messages
  <2> QED BY <1>t, <2>1, <2>3 DEF IdleReq
<1>b. ASSUME UNCHANGED msg, ~\E st : Answer(r, st)
      PROVE  \A q \in ReportIds : req'[q].st = "checked" => LegalRoute(q)
  <2>1. CASE ReadRun(r)
    <3>1. PICK v : req' = [req EXCEPT ![r] = [st |-> "read", visit |-> v]]
      BY <2>1 DEF ReadRun
    <3>2. req'[r].st = "read" /\ (\A q \in ReportIds : q # r => req'[q] = req[q])
      BY <1>t, <3>1
    <3> QED BY <3>2 DEF Legalized
  <2>2. CASE CheckReport(r)
    <3>1. LegalRoute(r) /\ req' = [req EXCEPT ![r].st = "checked"]
      BY <1>b, <2>2 DEF CheckReport
    <3>2. \A q \in ReportIds : q # r => req'[q] = req[q]
      BY <1>t, <3>1
    <3> QED BY <3>1, <3>2 DEF Legalized
  <2> QED BY <1>b, <2>1, <2>2 DEF Submit, SignalReport, SignalRefused
<1>c. \/ \E st : Answer(r, st)
      \/ UNCHANGED msg
  BY DEF Submit, ReadRun, CheckReport, SignalReport, SignalRefused
<1>1. \A q \in ReportIds : msg'[q].node = msg[q].node /\ msg'[q].next = msg[q].next
  BY <1>a, <1>c
<1>2. \A q \in ReportIds : req'[q].st = "checked" => LegalRoute(q)
  <2>1. CASE \E st : Answer(r, st)
    <3> PICK st : Answer(r, st)
      BY <2>1
    <3>1. req'[r].st # "checked" /\ (\A q \in ReportIds : q # r => req'[q] = req[q])
      BY <1>a
    <3> QED BY <3>1 DEF Legalized
  <2>2. CASE ~\E st : Answer(r, st)
    BY <1>b, <1>c, <2>2
  <2> QED BY <2>1, <2>2
<1>3. \A i \in DOMAIN sigs' : sigs'[i].next \in Legal[sigs'[i].node]
  <2>1. CASE SignalReport(r)
    <3> DEFINE s == [id |-> r, node |-> msg[r].node, visit |-> req[r].visit,
                     next |-> msg[r].next, meant |-> msg[r].meant]
    <3>1. s.node = msg[r].node /\ s.next = msg[r].next /\ sigs' = Append(sigs, s)
      BY <2>1 DEF SignalReport
    <3>2. s.next \in Legal[s.node]
      BY <2>1, <3>1 DEF SignalReport, Legalized, LegalRoute
    <3>3. s \in Signals
      <4>1. msg[r].st # "unsent"
        BY <2>1 DEF SignalReport, TInv, TypeOK, CallTypeOK
      <4>2. msg[r].node \in Nodes /\ msg[r].next \in Targets
        BY <4>1 DEF TInv, TypeOK, CallTypeOK
      <4>3. msg[r].meant \in Nat /\ req[r].visit \in Nat
        BY <1>t DEF Messages
      <4> QED BY <4>2, <4>3 DEF Signals
    <3> HIDE DEF s
    <3>4. /\ DOMAIN sigs' = DOMAIN sigs \cup {Len(sigs) + 1}
          /\ \A i \in DOMAIN sigs : sigs'[i] = sigs[i]
          /\ sigs'[Len(sigs) + 1] = s
      BY <1>t, <3>1, <3>3
    <3> QED BY <3>2, <3>4 DEF Legalized
  <2>2. CASE ~SignalReport(r)
    <3>1. UNCHANGED sigs
      BY <2>2 DEF Submit, ReadRun, CheckReport, SignalRefused
    <3> QED BY <3>1 DEF Legalized
  <2> QED BY <2>1, <2>2
<1> QED BY <1>1, <1>2, <1>3 DEF Legalized, LegalRoute

LEMMA NextLegal == TInv /\ Legalized /\ [Next]_vars => Legalized'
<1> SUFFICES ASSUME TInv, Legalized, [Next]_vars PROVE Legalized'
  OBVIOUS
<1>1. CASE UNCHANGED <<msg, sigs>> /\ (UNCHANGED req \/ Restarted)
  BY <1>1 DEF Legalized, LegalRoute, Restarted, IdleReq
<1>2. CASE Activity
  BY <1>1, <1>2 DEF Activity, PlainActivity, EnsureMailboxes, PrepareRestart, ApplyTaskConfig,
     Comment, CompleteMailbox, CommentCancellation, CleanupRun, CheckpointNodeRuntime,
     FinalizeNodeRuntimes, LoadNodeRuntime, LoadCancellationReason, TaskFrame, ProjFrame,
     ProjectionUpdateNodeRuntimeVisit, ProjectionUpdateNode, ProjectionUpdateState,
     ProjectionRecordProcessedReport, Done, Restarted
<1>3. CASE Launch \/ RetryLoop
  BY <1>1, <1>3 DEF Launch, ReuseTerminal, SendFails, EnsureTerminal, BindTerminal, BindFails, Done,
     TaskFrame, RetryLoop, ActivityFails, MarkBlocked, NoteRetry, TimerFires, ClearRetry, Unblock,
     RetryWriteFails, LoopFrame, Restarted
<1>4. CASE TakeReport
  <2>1. UNCHANGED <<msg, req>> /\ sigs' = Tail(sigs) /\ sigs \in Seq(Signals) /\ sigs # <<>>
    BY <1>4 DEF TakeReport, TInv, TypeOK, SigTypeOK
  <2>2. \A i \in DOMAIN sigs' : i + 1 \in DOMAIN sigs /\ sigs'[i] = sigs[i + 1]
    BY <2>1
  <2> QED BY <2>1, <2>2 DEF Legalized, LegalRoute
<1>5. CASE TakeCancel \/ TakeReconcile
  BY <1>1, <1>5 DEF TakeCancel, TakeReconcile
<1>6. CASE Poll
  <2>1. UNCHANGED <<msg, req>> /\ (UNCHANGED sigs \/ sigs' = <<>>)
    BY <1>6 DEF Poll, PollReads, PollChecks, PollCreates, PollFrame
  <2> QED BY <2>1 DEF Legalized, LegalRoute
<1>7. CASE \E r \in ReportIds : Submit(r)
  BY <1>7, SubmitLegal
<1>8. ASSUME NEW r \in ReportIds, AgentReports(r)
      PROVE  Legalized'
  <2>1. /\ msg[r].st = "unsent" /\ UNCHANGED <<req, sigs>>
        /\ \A q \in ReportIds : q # r => msg'[q] = msg[q]
    BY <1>8 DEF AgentReports, TInv, TypeOK, CallTypeOK
  <2>2. req[r].st = "idle"
    BY <2>1 DEF TInv, TypeOK, CallTypeOK
  <2> QED BY <2>1, <2>2 DEF Legalized, LegalRoute
<1>9. CASE OperatorCancels \/ Cancel \/ CancelFails
  BY <1>1, <1>9 DEF OperatorCancels, Cancel, RequestCancellation, FinalizeCancellation,
     CompleteInstead, CancelFails, CancelFrame
<1>10. CASE Crash \/ TerminalDies \/ UNCHANGED vars
  BY <1>1, <1>10 DEF Crash, TerminalDies, vars, Restarted
<1> QED BY <1>2, <1>3, <1>4, <1>5, <1>6, <1>7, <1>8, <1>9, <1>10 DEF Next, Receive

LEMMA InitSettledAgents == Init => Housed /\ Legalized
BY DEF Init, ProjInit, Housed, Legalized, IdleReq

LEMMA AgentsHoused == Spec => [](Housed /\ Legalized)
<1>1. Spec => []TInv
  BY TicketTyping DEF TInv
<1>2. Walk => Ordered
  BY DEF Walk
<1> QED BY <1>1, <1>2, WalkHolds, InitSettledAgents, NextHoused, NextLegal, PTL DEF Spec

-----------------------------------------------------------------------------
(* How each step keeps account of the terminals *)

\* A step that leaves the interpreter where it is.
LEMMA AsideAccounts ==
    ASSUME TInv, Ordered, Housed, Accounted, Unfailing, Faded, UNCHANGED <<inst, pc, tries, cur, runtimes>>,
           \/ UNCHANGED <<phase, fresh>>
           \/ phase' = IF phase = "bind" THEN "again" ELSE phase
    PROVE  Accounted'
<1>1. \A t \in DOMAIN terms' :
         /\ t \in DOMAIN terms /\ terms'[t].node = terms[t].node
         /\ terms'[t].live => terms[t].live
  BY DEF Faded
<1>2. Dead => Dead'
  BY <1>1 DEF Dead
<1>3. inst' = "active" /\ phase' = "bind" => ~BoundLive(cur)'
  <2> SUFFICES ASSUME inst' = "active", phase' = "bind", BoundLive(cur)' PROVE BoundLive(cur)
    BY DEF Accounted
  <2>1. runtimes[cur].term # 0 /\ terms'[runtimes[cur].term].live
    BY DEF BoundLive
  <2>2. runtimes[cur].term \in DOMAIN terms
    <3>1. cur \in Nodes
      BY DEF Ordered, TInv, Located, NodePcs
    <3> QED BY <2>1, <3>1 DEF Housed
  <2> QED BY <1>1, <2>1, <2>2 DEF BoundLive, Faded
<1>4. \A t \in DOMAIN terms' : terms'[t].live => Bound(t)' \/ Adrift(t)'
  BY <1>1 DEF Accounted, Bound, Adrift
<1> QED BY <1>2, <1>3, <1>4 DEF Accounted

\* A step that takes it on, or has it repeat an activity.
LEMMA OnwardAccounts ==
    ASSUME Owned', inst = "active", ~tries, Continue \/ Phase("again"),
           pc \in {"finalize", "cFinalize", "cComment", "completed", "cState"} => Dead'
    PROVE  Accounted'
<1>1. CASE Phase("again")
  BY <1>1 DEF Phase, Accounted, Owned, Bound
<1>2. CASE Continue
  <2>1. phase' = "call" /\ ~tries'
    BY <1>2 DEF Continue, Goto, Enter, Finish, Begin
  <2>2. inst' # "active" => Dead'
    BY <1>2 DEF Continue, Goto, Enter, Finish, Begin
  <2>3. pc' \in {"completed", "cComment", "cState"} => Dead'
    BY <1>2 DEF Continue, Goto, Enter, Finish, Begin, After
  <2> QED BY <2>1, <2>2, <2>3 DEF Accounted, Owned, Bound
<1> QED BY <1>1, <1>2

LEMMA DoneOnward ==
    ASSUME TInv, Unfailing', ~tries, Done \/ Recorded
    PROVE  Continue \/ Phase("again")
BY SpendFails DEF Done, Recorded

\* Outside a launch no terminal is adrift.
LEMMA NoneAdrift ==
    ASSUME Accounted, Unfailing, pc \notin LaunchPcs \/ phase = "call"
    PROVE  Owned
BY DEF Accounted, Owned, Adrift

LEMMA OwnedFades ==
    ASSUME Owned, Faded, \A n \in Nodes : runtimes'[n].term = runtimes[n].term,
           TInv
    PROVE  Owned' /\ (Dead => Dead')
<1>1. \A t \in DOMAIN terms : terms[t].node \in Nodes
  <2>1. \A t \in DOMAIN terms : terms[t] \in Terminals
    BY DEF TInv, TypeOK, TermTypeOK
  <2> QED BY <2>1 DEF Terminals
<1>2. ASSUME NEW t \in DOMAIN terms', terms'[t].live
      PROVE  runtimes'[terms'[t].node].term = t /\ t \in DOMAIN terms /\ terms[t].live
  <2>1. t \in DOMAIN terms /\ terms'[t].node = terms[t].node /\ terms[t].live
    BY <1>2 DEF Faded
  <2>2. runtimes[terms[t].node].term = t
    BY <2>1 DEF Owned, Bound
  <2> QED BY <1>1, <2>1, <2>2
<1> QED BY <1>2 DEF Owned, Bound, Dead

LEMMA ClosedStates ==
    ASSUME TInv, NEW S, terms' = Closed(S)
    PROVE  /\ DOMAIN terms' = DOMAIN terms
           /\ \A t \in DOMAIN terms :
                 /\ terms'[t].node = terms[t].node /\ terms[t].node \in Nodes
                 /\ terms'[t].live => terms[t].live /\ t \notin S
<1>1. DOMAIN terms' = DOMAIN terms
  BY DEF Closed
<1>2. ASSUME NEW t \in DOMAIN terms
      PROVE  /\ terms'[t].node = terms[t].node /\ terms[t].node \in Nodes
             /\ terms'[t].live => terms[t].live /\ t \notin S
  <2>1. terms[t] \in Terminals
    BY DEF TInv, TypeOK, TermTypeOK
  <2>2. terms'[t] = IF t \in S THEN [terms[t] EXCEPT !.live = FALSE] ELSE terms[t]
    BY DEF Closed
  <2> QED BY <2>1, <2>2 DEF Terminals
<1> QED BY <1>1, <1>2

\* What is closed with its handle needs none.
LEMMA ReclaimOwned ==
    ASSUME TInv, NEW S \in SUBSET Nodes, Owned, Reclaim(S, FALSE)
    PROVE  Owned' /\ (S = Nodes => Dead')
<1>1. /\ terms' = Closed({runtimes[n].term : n \in S})
      /\ \A n \in Nodes : n \notin S => runtimes'[n].term = runtimes[n].term
  BY DEF Reclaim, ClearNodeRuntime
<1>2. /\ DOMAIN terms' = DOMAIN terms
      /\ \A t \in DOMAIN terms :
            /\ terms'[t].node = terms[t].node /\ terms[t].node \in Nodes
            /\ terms'[t].live => terms[t].live /\ t \notin {runtimes[n].term : n \in S}
  BY <1>1, ClosedStates
<1>3. \A t \in DOMAIN terms : terms'[t].live => terms[t].node \notin S /\ Bound(t)
  BY <1>2 DEF Owned, Bound
<1> QED BY <1>1, <1>2, <1>3 DEF Owned, Bound, Dead

LEMMA ActivityAccounts ==
    ASSUME ~KeepTerminals, TInv, Ordered, Accounted, Activity, Unfailing, Unfailing'
    PROVE  Accounted'
<1>a. inst = "active" /\ phase \in {"call", "again"} /\ pc \notin LaunchPcs
  BY DEF Activity, PlainActivity, EnsureMailboxes, PrepareRestart, ApplyTaskConfig, Comment,
     CompleteMailbox, CommentCancellation, CleanupRun, CheckpointNodeRuntime,
     FinalizeNodeRuntimes, LoadNodeRuntime, LoadCancellationReason,
     ProjectionUpdateNodeRuntimeVisit, ProjectionUpdateNode, ProjectionUpdateState,
     ProjectionRecordProcessedReport, Act, Running
<1>b. ~tries
  BY DEF Accounted
<1>c. Owned
  BY <1>a, NoneAdrift
<1>d. Done \/ Recorded
  BY DEF Activity, PlainActivity, EnsureMailboxes, PrepareRestart, ApplyTaskConfig, Comment,
     CompleteMailbox, CommentCancellation, CleanupRun, CheckpointNodeRuntime,
     FinalizeNodeRuntimes, LoadNodeRuntime, LoadCancellationReason,
     ProjectionUpdateNodeRuntimeVisit, ProjectionUpdateNode, ProjectionUpdateState,
     ProjectionRecordProcessedReport
<1>e. Continue \/ Phase("again")
  BY <1>b, <1>d, DoneOnward
<1>f. pc \in {"cComment", "completed", "cState"} => Dead
  BY DEF Accounted
<1>1. CASE PrepareRestart \/ CleanupRun
  <2>1. terms' = Closed(DOMAIN terms) /\ pc \in {"prepare", "cleanup"}
    BY <1>1 DEF PrepareRestart, CleanupRun, Act
  <2>2. Owned'
    BY <2>1, ClosedStates DEF Owned
  <2> QED BY <1>a, <1>b, <1>e, <2>1, <2>2, OnwardAccounts
<1>2. CASE CheckpointNodeRuntime
  <2>1. Reclaim({cur}, FALSE) /\ pc = "checkpoint" /\ cur \in Nodes
    BY <1>2 DEF CheckpointNodeRuntime, Act, TInv, Located, NodePcs, Reclaim
  <2>2. Owned'
    BY <1>c, <2>1, ReclaimOwned
  <2> QED BY <1>a, <1>b, <1>e, <2>1, <2>2, OnwardAccounts
<1>3. CASE FinalizeNodeRuntimes
  <2>1. Reclaim(Nodes, FALSE)
    BY <1>3 DEF FinalizeNodeRuntimes, Reclaim
  <2>2. Owned' /\ Dead'
    BY <1>c, <2>1, ReclaimOwned
  <2> QED BY <1>a, <1>b, <1>e, <2>2, OnwardAccounts
<1>4. CASE ~(PrepareRestart \/ CleanupRun \/ CheckpointNodeRuntime \/ FinalizeNodeRuntimes)
  <2>1. UNCHANGED terms /\ pc \notin {"finalize", "cFinalize"}
    BY <1>4 DEF Activity, PlainActivity, EnsureMailboxes, ApplyTaskConfig, Comment,
       CompleteMailbox, CommentCancellation, CancelComment, LoadNodeRuntime, LoadCancellationReason,
       ProjectionUpdateNodeRuntimeVisit, ProjectionUpdateNode, ProjectionUpdateState,
       ProjectionRecordProcessedReport, Act
  <2>2. \A n \in Nodes : runtimes'[n].term = runtimes[n].term
    <3>1. runtimes \in Runtimes
      BY DEF TInv, TypeOK, ProjTypeOK
    <3> QED BY <1>4, <3>1 DEF Activity, PlainActivity, EnsureMailboxes, ApplyTaskConfig, Comment,
       CompleteMailbox, CommentCancellation, TaskFrame, LoadNodeRuntime, LoadCancellationReason,
       ProjectionUpdateNodeRuntimeVisit, ProjectionUpdateNode, ProjectionUpdateState,
       ProjectionRecordProcessedReport, UpdateNode, UpdateNodeRuntimeVisit, Runtimes
  <2>3. Owned' /\ (Dead => Dead')
    BY <1>c, <2>1, <2>2, OwnedFades DEF Faded
  <2> QED BY <1>a, <1>b, <1>e, <1>f, <2>1, <2>3, OnwardAccounts
<1> QED BY <1>1, <1>2, <1>3, <1>4

LEMMA LaunchAccounts ==
    ASSUME RecoverByTitle, TInv, Ordered, Housed, OneAgentPerNode, Accounted, Launch,
           Unfailing, Unfailing'
    PROVE  Accounted'
<1>a. /\ inst = "active" /\ pc \in LaunchPcs /\ cur \in Nodes /\ ~tries
  <2>1. inst = "active" /\ pc \in LaunchPcs
    BY DEF Launch, ReuseTerminal, SendFails, EnsureTerminal, BindTerminal, BindFails, Launching, Act,
       Running, Ordered
  <2> QED BY <2>1 DEF TInv, Located, NodePcs, Accounted
<1>1. CASE ReuseTerminal
  <2>1. BoundLive(cur) /\ phase # "bind" /\ UNCHANGED runtimes
    BY <1>1 DEF ReuseTerminal, Launching, Act, TaskFrame
  <2>2. Owned
    <3> SUFFICES ASSUME NEW t \in DOMAIN terms, terms[t].live, Adrift(t) PROVE Bound(t)
      BY DEF Accounted, Owned
    <3> DEFINE u == runtimes[cur].term
    <3>1. u \in DOMAIN terms /\ terms[u].node = cur /\ terms[u].live
      BY <1>a, <2>1 DEF BoundLive, Housed
    <3>2. terms[t].node = cur
      BY DEF Adrift
    <3> HIDE DEF u
    <3>3. t = u
      BY <3>1, <3>2 DEF OneAgentPerNode
    <3> QED BY <3>2, <3>3 DEF Bound, u
  <2>3. Faded
    BY <1>1 DEF ReuseTerminal, Faded
  <2>4. Owned'
    BY <2>1, <2>2, <2>3, OwnedFades
  <2>5. Continue \/ Phase("again")
    BY <1>a, <1>1, DoneOnward DEF ReuseTerminal
  <2> QED BY <1>a, <2>4, <2>5, OnwardAccounts
<1>2. CASE SendFails \/ BindFails
  BY <1>2, SpendFails DEF SendFails, BindFails
<1>3. CASE EnsureTerminal
  <2>1. ~BoundLive(cur)'
    <3>1. CASE runtimes[cur].term = 0
      BY <1>3, <3>1, EnsureHolds DEF BoundLive
    <3>2. CASE runtimes[cur].term # 0
      <4>1. runtimes[cur].term \in DOMAIN terms /\ ~terms[runtimes[cur].term].live
        BY <1>a, <1>3, <3>2, EnsureHolds DEF Housed, BoundLive
      <4>2. terms'[runtimes[cur].term].live => terms[runtimes[cur].term].live
        BY <1>3, <4>1, EnsureGrows DEF Faded, Grown
      <4> QED BY <1>3, <4>1, <4>2, EnsureHolds DEF BoundLive
    <3> QED BY <3>1, <3>2
  <2>2. ASSUME NEW t \in DOMAIN terms', terms'[t].live
        PROVE  Bound(t)' \/ Adrift(t)'
    <3>1. CASE terms'[t].node = cur
      <4>1. t = fresh'
        BY <1>3, <2>2, <3>1, EnsureHolds DEF Recoverable, OneAgentPerNode
      <4> QED BY <1>3, <3>1, <4>1, EnsureHolds DEF Adrift
    <3>2. CASE terms'[t].node # cur
      <4>1. t \in DOMAIN terms /\ terms'[t].node = terms[t].node /\ terms[t].live
        BY <1>3, <2>2, <3>2, EnsureGrows DEF Faded, Grown
      <4>2. Bound(t)
        BY <3>2, <4>1 DEF Accounted, Adrift
      <4> QED BY <1>3, <4>1, <4>2, EnsureHolds DEF Bound
    <3> QED BY <3>1, <3>2
  <2> QED BY <1>a, <1>3, <2>1, <2>2, EnsureHolds DEF Accounted
<1>4. CASE BindTerminal
  <2>1. /\ phase = "bind" /\ UNCHANGED terms
        /\ runtimes' = [runtimes EXCEPT ![cur].term = fresh]
    BY <1>4 DEF BindTerminal, ReplaceNodeRuntime
  <2>2. \A n \in Nodes : runtimes'[n].term = IF n = cur THEN fresh ELSE runtimes[n].term
    BY <1>a, <2>1 DEF TInv, TypeOK, ProjTypeOK, Runtimes
  <2>3. \A t \in DOMAIN terms : terms[t] \in Terminals
    BY DEF TInv, TypeOK, TermTypeOK
  <2>4. ASSUME NEW t \in DOMAIN terms, terms[t].live
        PROVE  runtimes'[terms[t].node].term = t
    <3>1. terms[t].node \in Nodes
      BY <2>3 DEF Terminals
    <3>2. CASE terms[t].node = cur
      <4>1. ~Bound(t)
        <5> SUFFICES ASSUME Bound(t) PROVE FALSE
          OBVIOUS
        <5>1. runtimes[cur].term = t
          BY <3>2 DEF Bound
        <5>2. t # 0
          BY DEF TInv, TypeOK, TermTypeOK
        <5>3. BoundLive(cur)
          BY <2>4, <5>1, <5>2 DEF BoundLive
        <5> QED BY <1>a, <2>1, <5>3 DEF Accounted
      <4>2. t = fresh
        BY <2>1, <2>4, <4>1 DEF Accounted, Adrift
      <4> QED BY <2>2, <3>1, <3>2, <4>2
    <3>3. CASE terms[t].node # cur
      <4>1. Bound(t)
        BY <2>4, <3>3 DEF Accounted, Adrift
      <4> QED BY <2>2, <3>1, <3>3, <4>1 DEF Bound
    <3> QED BY <3>2, <3>3
  <2>5. Owned'
    BY <2>1, <2>4 DEF Owned, Bound
  <2>6. Continue \/ Phase("again")
    BY <1>a, <1>4, DoneOnward DEF BindTerminal
  <2> QED BY <1>a, <2>5, <2>6, OnwardAccounts
<1> QED BY <1>1, <1>2, <1>3, <1>4 DEF Launch

LEMMA ReceiveAccounts ==
    ASSUME TInv, Ordered, Housed, Legalized, Accounted, Receive, Unfailing
    PROVE  Accounted'
<1>0. UNCHANGED <<runtimes, terms, fresh>> /\ Faded /\ inst = "active"
  BY DEF Receive, TakeCancel, TakeReport, TakeReconcile, Waiting, Faded
<1>1. CASE UNCHANGED <<inst, pc, phase, tries, cur>>
  BY <1>0, <1>1, AsideAccounts
<1>2. CASE /\ pc' \in {"reason", "record", "reconcile"} /\ phase' = "call" /\ ~tries'
           /\ inst' = "active" /\ (pc \notin LaunchPcs \/ phase = "call")
  <2>1. Owned
    BY <1>2, NoneAdrift
  <2> QED BY <1>0, <1>2, <2>1 DEF Accounted, Owned, Bound
<1>3. CASE TakeCancel
  <2>1. phase \in {"call", "again", "bind"}
    BY DEF Accounted
  <2> QED BY <1>0, <1>1, <1>2, <1>3, <2>1 DEF TakeCancel, Goto, Begin
<1>4. CASE TakeReport
  <2>1. CASE UNCHANGED loopVars
    BY <1>1, <2>1
  <2>2. CASE Accepts(Head(sigs)) /\ Goto("record")
    BY <1>0, <1>2, <1>4, <2>2 DEF TakeReport, Waiting, Goto, Begin
  <2>3. Accepts(Head(sigs)) => Head(sigs).next \in Legal[cur]
    <3>1. sigs # <<>> /\ sigs \in Seq(Signals)
      BY <1>4 DEF TakeReport, TInv, TypeOK, SigTypeOK
    <3>2. 1 \in DOMAIN sigs /\ Head(sigs) = sigs[1]
      BY <3>1
    <3> QED BY <3>2 DEF Accepts, Legalized
  <2> QED BY <1>4, <2>1, <2>2, <2>3 DEF TakeReport
<1>5. CASE TakeReconcile
  BY <1>0, <1>2, <1>5 DEF TakeReconcile, Waiting, Goto, Begin
<1> QED BY <1>3, <1>4, <1>5 DEF Receive

LEMMA NextAccounts ==
    ASSUME ~KeepTerminals, RecoverByTitle, TInv, Ordered, Housed, Legalized, OneAgentPerNode,
           Decided, Accounted, [Next]_vars
    PROVE  Accounted'
<1> SUFFICES ASSUME Unfailing' PROVE Accounted'
  BY DEF Accounted
<1>u. Unfailing
  BY FaultsLast
<1>1. CASE Activity
  BY <1>u, <1>1, ActivityAccounts
<1>2. CASE Launch
  BY <1>u, <1>2, LaunchAccounts
<1>3. CASE RetryLoop
  <2>1. phase \in {"call", "again", "bind"}
    BY <1>u DEF Accounted
  <2> QED BY <1>3, <2>1, SpendFails DEF RetryLoop, ActivityFails, MarkBlocked, NoteRetry, TimerFires,
             ClearRetry, Unblock, RetryWriteFails
<1>4. CASE Receive
  BY <1>u, <1>4, ReceiveAccounts
<1>5. CASE Poll
  <2>1. CASE PollReads \/ PollChecks \/ (PollCreates /\ inst = "active")
    <3>1. UNCHANGED <<runtimes, terms, wfVars>>
      BY <2>1 DEF PollReads, PollChecks, PollCreates, PollFrame
    <3> QED BY <1>u, <3>1, AsideAccounts DEF Faded
  <2>2. CASE PollCreates /\ inst # "active"
    <3>1. /\ UNCHANGED <<runtimes, terms>> /\ pc' = "mailboxes" /\ phase' = "call" /\ ~tries'
          /\ inst' = "active"
      BY <2>2 DEF PollCreates, PollFrame, Begin
    <3>2. Dead
      BY <1>u, <2>2 DEF Accounted
    <3> QED BY <3>1, <3>2 DEF Accounted, Dead
  <2> QED BY <1>5, <2>1, <2>2 DEF Poll
<1>6. CASE FinalizeCancellation /\ cx.st = "finalize"
  <2>1. inst # "active" /\ UNCHANGED <<inst, phase, tries, pc, cur, fresh>>
    BY <1>u, <1>6 DEF Decided, FinalizeCancellation, CancelFrame, Unfailing
  <2>2. Dead /\ Faded
    BY <1>u, <1>6, <2>1, ReclaimFades DEF Accounted, FinalizeCancellation, CancelStep, CancelEnds
  <2>3. Dead'
    BY <2>2 DEF Dead, Faded
  <2> QED BY <1>u, <2>1, <2>3 DEF Accounted, Dead
<1>7. CASE OperatorCancels \/ Cancel \/ CancelFails
  <2>1. CASE ~(FinalizeCancellation /\ cx.st = "finalize")
    <3>1. UNCHANGED <<runtimes, terms, wfVars>>
      BY <1>7, <2>1 DEF OperatorCancels, Cancel, RequestCancellation, FinalizeCancellation,
         CompleteInstead, CancelFails, CancelFrame, CancelStep, CancelEnds, CancelComment
    <3> QED BY <1>u, <3>1, AsideAccounts DEF Faded
  <2> QED BY <1>6, <2>1
<1>8. CASE \E r \in ReportIds : AgentReports(r) \/ Submit(r)
  <2>1. UNCHANGED <<runtimes, terms, wfVars>>
    BY <1>8 DEF AgentReports, Submit, ReadRun, CheckReport, SignalReport, SignalRefused, CallFrame
  <2> QED BY <1>u, <2>1, AsideAccounts DEF Faded
<1>9. CASE Crash
  <2>1. /\ UNCHANGED <<inst, pc, tries, cur, runtimes, terms>>
        /\ phase' = IF phase = "bind" THEN "again" ELSE phase
    BY <1>9 DEF Crash
  <2> QED BY <1>u, <2>1, AsideAccounts DEF Faded
<1>10. CASE TerminalDies
  <2>1. UNCHANGED <<inst, pc, phase, fresh, tries, cur, runtimes>> /\ Faded
    BY <1>10, ClosedFades DEF TerminalDies
  <2> QED BY <1>u, <2>1, AsideAccounts
<1>11. CASE UNCHANGED vars
  <2>1. UNCHANGED <<inst, pc, phase, fresh, tries, cur, runtimes, terms>>
    BY <1>11 DEF vars
  <2> QED BY <1>u, <2>1, AsideAccounts DEF Faded
<1> QED BY <1>1, <1>2, <1>3, <1>4, <1>5, <1>7, <1>8, <1>9, <1>10, <1>11 DEF Next

LEMMA InitAccounted ==
    ASSUME ~IsRestart
    PROVE  Init => Accounted
BY DEF Init, Accounted, Dead, LaunchPcs

(* No agent outlives a decided run whose policy closes terminals and whose *)
(* runner recovers lost ones: every live terminal is bound, or about to be *)
(* recovered, until the last cleanup has closed it, wherever the server    *)
(* died.                                                                   *)
THEOREM NoAgentOutlives ==
    ASSUME ~KeepTerminals, ~IsRestart, RecoverByTitle
    PROVE  Spec => []NoAgentLeft
<1>1. Spec => []TInv
  BY TicketTyping DEF TInv
<1>2. Walk => Ordered
  BY DEF Walk
<1>3. Announced => Decided
  BY DEF Announced
<1>4. Spec => []OneAgentPerNode
  BY OneAgentEach
<1>5. Init => Accounted
  BY InitAccounted
<1>6. /\ TInv /\ Ordered /\ Housed /\ Legalized /\ OneAgentPerNode /\ Decided /\ Accounted
      /\ [Next]_vars
      => Accounted'
  BY NextAccounts
<1>7. Decided /\ Accounted => NoAgentLeft
  BY DEF Decided, Accounted, NoAgentLeft, Unfailing, Terminal, Dead
<1> QED BY <1>1, <1>2, <1>3, <1>4, <1>5, <1>6, <1>7, WalkHolds, AnnouncedHolds, AgentsHoused, PTL
        DEF Spec
-----------------------------------------------------------------------------
(* What is published is what is awaited *)

Shown == inst = "active" /\ row.state \in Active

\* An instance, and a poll that is about to make one, have a row.
Begun ==
    /\ inst = "active" \/ en.st # "idle" => row.state # "absent"
    /\ execs = 0 => inst # "active" /\ (~IsRestart => DOMAIN terms = {})

\* The activity at p has had its effect, or one of those in S is awaited.
Since(p, S) == pc \in S \/ (pc = p /\ Settled)

Entering == {"publishVisit", "applyNode", "envNode", "launch"}
Bounded  == {"publishNode", "waiting", "wait", "reconcile"}
Dated    == {"applyNode", "envNode", "launch"} \cup Bounded
Awaiting == {"waiting", "wait", "reconcile"}

\* What the activities since the entry of the node have written is there.
Shows ==
    Shown =>
       /\ Since("publishVisit", Dated) => runtimes[cur].visit = visit
       /\ Since("launch", Bounded) => runtimes[cur].term # 0
       /\ Since("publishNode", Awaiting) => row.node = cur /\ row.visit = visit

\* Visits are published in their order, and a handle is that of a visit.
Aged ==
    /\ \A n \in Nodes : /\ runtimes[n].visit \in 0..lastVisit
                        /\ runtimes[n].visit = 0 => runtimes[n].term = 0
    /\ pc = "loadRuntime" => \A n \in Nodes : runtimes[n].visit # visit

\* The entry of a node knows whether a terminal of an earlier visit is bound.
Loading ==
    Shown /\ Since("loadRuntime", Entering) =>
       /\ loaded # visit
       /\ loaded = 0 => runtimes[cur].term = 0 \/ (pc = "launch" /\ Settled)

\* How a step moves the interpreter: it stays at its activity, carries the
\* activity out, goes on after a retry that succeeded, or turns elsewhere.
Waits  == UNCHANGED <<pc, cur, visit>> /\ (Settled' <=> Settled)
Passes == Continue \/ (UNCHANGED <<pc, cur, visit>> /\ phase' = "clear")
Leaves ==
    /\ UNCHANGED <<cur, visit>> /\ phase' = "call"
    /\ \/ pc' = "done" /\ inst' # "active"
       \/ pc = "wait" /\ pc' \in {"record", "reconcile"}
       \/ pc = "reconcile" /\ pc' = "wait" /\ faults'.db # 0
Works  == Activity \/ ReuseTerminal \/ BindTerminal
Goes   == Waits \/ Leaves \/ (Settled /\ Continue) \/ (Passes /\ Works)

LEMMA ContinueGoes ==
    ASSUME Continue, ~CancelSeen
    PROVE  /\ phase' = "call"
           /\ \/ pc' \in {"loadRuntime", "applyEnd", "done"}
              \/ UNCHANGED <<cur, visit>> /\ pc \in DOMAIN After /\ pc' = After[pc]
BY DEF Continue, Goto, Enter, Finish, Begin, Placed

LEMMA SinceMoves ==
    ASSUME Goes, ~CancelSeen
    PROVE  /\ Since("loadRuntime", Entering)' =>
                 /\ UNCHANGED <<cur, visit>>
                 /\ Since("loadRuntime", Entering) \/ (pc = "loadRuntime" /\ Works)
           /\ Since("publishVisit", Dated)' =>
                 /\ UNCHANGED <<cur, visit>>
                 /\ Since("publishVisit", Dated) \/ (pc = "publishVisit" /\ Works)
           /\ Since("launch", Bounded)' =>
                 /\ UNCHANGED <<cur, visit>>
                 /\ Since("launch", Bounded) \/ (pc = "launch" /\ Works)
           /\ Since("publishNode", Awaiting)' =>
                 /\ UNCHANGED <<cur, visit>>
                 /\ Since("publishNode", Awaiting) \/ (pc = "publishNode" /\ Works)
<1> USE DEF Since, Entering, Dated, Bounded, Awaiting
<1>1. CASE Waits
  BY <1>1 DEF Waits
<1>2. CASE Leaves
  BY <1>2 DEF Leaves, Settled
<1>3. CASE Continue /\ (Settled \/ Works)
  <2>1. /\ phase' = "call"
        /\ \/ pc' \in {"loadRuntime", "applyEnd", "done"}
           \/ UNCHANGED <<cur, visit>> /\ pc \in DOMAIN After /\ pc' = After[pc]
    BY <1>3, ContinueGoes
  <2>2. ~Settled'
    BY <2>1 DEF Settled
  <2>3. CASE pc' \in {"loadRuntime", "applyEnd", "done"}
    BY <2>2, <2>3
  <2>4. CASE UNCHANGED <<cur, visit>> /\ pc \in DOMAIN After /\ pc' = After[pc]
    <3>1. /\ pc' \in Entering => pc \in Entering \cup {"loadRuntime"}
          /\ pc' \in Dated => pc \in Dated \cup {"publishVisit"}
          /\ pc' \in Bounded => pc \in Bounded \cup {"launch"}
          /\ pc' \in Awaiting => pc \in Awaiting \cup {"publishNode"}
      BY <2>4 DEF After
    <3> QED BY <1>3, <2>2, <2>4, <3>1
  <2> QED BY <2>1, <2>3, <2>4
<1>4. CASE UNCHANGED <<pc, cur, visit>> /\ Works
  BY <1>4
<1> QED BY <1>1, <1>2, <1>3, <1>4 DEF Goes, Passes

\* Which action carries out an activity.
LEMMA WorksAt ==
    ASSUME Ordered, Works
    PROVE  /\ pc = "loadRuntime" => LoadNodeRuntime
           /\ pc = "publishVisit" => ProjectionUpdateNodeRuntimeVisit
           /\ pc \in LaunchPcs => ReuseTerminal \/ BindTerminal
           /\ pc = "prepare" => PrepareRestart
           /\ pc = "publishNode" => ProjectionUpdateNode
<1>1. CASE Activity
  BY <1>1 DEF Activity, PlainActivity, EnsureMailboxes, PrepareRestart, ApplyTaskConfig, Comment,
     CompleteMailbox, CommentCancellation, CleanupRun, CheckpointNodeRuntime,
     FinalizeNodeRuntimes, LoadNodeRuntime, LoadCancellationReason,
     ProjectionUpdateNodeRuntimeVisit, ProjectionUpdateNode, ProjectionUpdateState,
     ProjectionRecordProcessedReport, Act
<1>2. CASE ReuseTerminal \/ BindTerminal
  BY <1>2 DEF ReuseTerminal, BindTerminal, Launching, Act, Ordered
<1> QED BY <1>1, <1>2 DEF Works

LEMMA RecordedGoes ==
    ASSUME Recorded, ~CancelSeen, Works
    PROVE  Goes
BY DEF Recorded, Goes, Passes, Phase, Placed

LEMMA PhaseWaits ==
    ASSUME phase \in {"call", "again", "bind"},
           \/ \E ph \in {"again", "bind", "block", "note"} : Phase(ph)
           \/ Failed /\ ~CancelSeen
    PROVE  Goes
BY DEF Failed, Phase, Placed, Goes, Waits, Settled

LEMMA DoneGoes ==
    ASSUME Done, ~CancelSeen, Works, phase \in {"call", "again"}
    PROVE  Goes
BY RecordedGoes, PhaseWaits DEF Done

LEMMA NextGoes ==
    ASSUME TInv, Ordered, CancellationStaged, Shown, [Next]_vars
    PROVE  Goes \/ (PollCreates /\ inst # "active")
<1>c. ~ctxDone /\ ~cancelReq /\ ~CancelSeen
  BY DEF Shown, CancellationStaged, OnRecord, Active, Terminal, CancelSeen
<1>1. CASE Activity
  <2>1. Done \/ Recorded
    BY <1>1 DEF Activity, PlainActivity, EnsureMailboxes, PrepareRestart, ApplyTaskConfig, Comment,
       CompleteMailbox, CommentCancellation, CleanupRun, CheckpointNodeRuntime,
       FinalizeNodeRuntimes, LoadNodeRuntime, LoadCancellationReason,
       ProjectionUpdateNodeRuntimeVisit, ProjectionUpdateNode, ProjectionUpdateState,
       ProjectionRecordProcessedReport
  <2>2. phase \in {"call", "again"}
    BY <1>1 DEF Activity, PlainActivity, EnsureMailboxes, PrepareRestart, ApplyTaskConfig, Comment,
       CompleteMailbox, CommentCancellation, CleanupRun, CheckpointNodeRuntime,
       FinalizeNodeRuntimes, LoadNodeRuntime, LoadCancellationReason,
       ProjectionUpdateNodeRuntimeVisit, ProjectionUpdateNode, ProjectionUpdateState,
       ProjectionRecordProcessedReport, Act
  <2>3. Works
    BY <1>1 DEF Works
  <2> QED BY <1>c, <2>1, <2>2, <2>3, DoneGoes, RecordedGoes
<1>2. CASE ReuseTerminal
  <2>1. Works /\ Done /\ phase \in {"call", "again"}
    BY <1>2 DEF ReuseTerminal, Launching, Act, Works
  <2> QED BY <1>c, <2>1, DoneGoes
<1>3. CASE SendFails \/ EnsureTerminal
  <2>1. phase \in {"call", "again"} /\ (Phase("again") \/ Phase("bind"))
    BY <1>3 DEF SendFails, EnsureTerminal, Launching, Act
  <2> QED BY <2>1, PhaseWaits
<1>4. CASE BindTerminal
  <2>1. Works /\ Recorded
    BY <1>4 DEF BindTerminal, Works
  <2> QED BY <1>c, <2>1, RecordedGoes
<1>5. CASE BindFails
  <2>1. Failed /\ phase = "bind"
    BY <1>5 DEF BindFails
  <2> QED BY <1>c, <2>1, PhaseWaits
<1>6. CASE RetryLoop
  <2>1. CASE ActivityFails
    <3>1. phase \in {"call", "again"} /\ (Failed \/ Phase("block"))
      BY <2>1 DEF ActivityFails
    <3> QED BY <1>c, <3>1, PhaseWaits
  <2>2. CASE MarkBlocked \/ NoteRetry \/ TimerFires
    <3>1. UNCHANGED <<pc, cur, visit>> /\ phase \in {"block", "note", "timer"}
          /\ phase' \in {"note", "timer", "call"}
      BY <1>c, <2>2 DEF MarkBlocked, NoteRetry, TimerFires, Phase, Placed
    <3> QED BY <3>1 DEF Goes, Waits, Settled
  <2>3. CASE ClearRetry \/ Unblock
    <3>1. phase \in {"clear", "unblock"} /\ (Continue \/ Phase("unblock"))
      BY <1>c, <2>3 DEF ClearRetry, Unblock
    <3> QED BY <3>1 DEF Phase, Placed, Goes, Waits, Settled
  <2>4. CASE RetryWriteFails
    <3>1. faults'.db # 0
      BY <2>4 DEF RetryWriteFails, Spend, TInv, TypeOK, FaultTypeOK, FaultKinds
    <3>2. \/ pc = "reconcile" /\ Goto("wait")
          \/ Finish
      BY <1>c, <2>4 DEF RetryWriteFails, Abandon
    <3> QED BY <3>1, <3>2 DEF Goto, Finish, Begin, Placed, Goes, Leaves
  <2> QED BY <1>6, <2>1, <2>2, <2>3, <2>4 DEF RetryLoop
<1>7. CASE Receive
  <2>1. CASE UNCHANGED loopVars
    BY <2>1 DEF Goes, Waits, Settled, loopVars
  <2>2. CASE pc = "wait" /\ (Goto("record") \/ Goto("reconcile") \/ Finish)
    BY <2>2 DEF Goto, Finish, Begin, Placed, Goes, Leaves
  <2> QED BY <1>c, <1>7, <2>1, <2>2 DEF Receive, TakeCancel, TakeReport, TakeReconcile, Waiting
<1>8. CASE Poll
  <2>1. UNCHANGED wfVars \/ (PollCreates /\ inst # "active")
    BY <1>8 DEF Poll, PollReads, PollChecks, PollCreates
  <2> QED BY <2>1 DEF Goes, Waits, Settled, wfVars, loopVars
<1>9. CASE \/ OperatorCancels \/ Cancel \/ CancelFails
           \/ (\E r \in ReportIds : AgentReports(r) \/ Submit(r))
           \/ TerminalDies \/ UNCHANGED vars
  <2>1. UNCHANGED wfVars
    BY <1>9 DEF OperatorCancels, Cancel, RequestCancellation, FinalizeCancellation,
       CompleteInstead, CancelFails, CancelFrame, AgentReports, Submit, ReadRun, CheckReport,
       SignalReport, SignalRefused, CallFrame, TerminalDies, vars
  <2> QED BY <2>1 DEF Goes, Waits, Settled, wfVars, loopVars
<1>10. CASE Crash
  BY <1>10 DEF Crash, Goes, Waits, Settled
<1> QED BY <1>1, <1>2, <1>3, <1>4, <1>5, <1>6, <1>7, <1>8, <1>9, <1>10 DEF Next, Launch

\* Only a poll that starts an execution makes a run shown as active.
LEMMA ShownStep ==
    ASSUME TInv, Ordered, CancellationStaged, Begun, [Next]_vars, Shown'
    PROVE  \/ Shown /\ Goes /\ execs' = execs
           \/ PollCreates /\ inst # "active"
<1>1. CASE PollCreates /\ inst # "active"
  BY <1>1
<1>2. CASE ~(PollCreates /\ inst # "active")
  <2>1. inst' = "active" => inst = "active"
    <3>1. CASE Activity \/ Launch \/ RetryLoop
      BY <3>1, InterpreterKeeps
    <3>2. CASE Receive \/ Poll
      BY <1>2, <3>2 DEF Receive, TakeCancel, TakeReport, TakeReconcile, Goto, Finish, Begin, loopVars,
         Poll, PollReads, PollChecks, PollCreates, wfVars
    <3>3. CASE OperatorCancels \/ Cancel \/ CancelFails
      BY <3>3 DEF OperatorCancels, Cancel, RequestCancellation, FinalizeCancellation,
         CompleteInstead, CancelFails, CancelFrame, wfVars, loopVars
    <3>4. CASE \E r \in ReportIds : AgentReports(r) \/ Submit(r)
      BY <3>4 DEF AgentReports, Submit, ReadRun, CheckReport, SignalReport, SignalRefused,
         CallFrame, wfVars, loopVars
    <3>5. CASE Crash \/ TerminalDies \/ UNCHANGED vars
      BY <3>5 DEF Crash, TerminalDies, vars, wfVars, loopVars
    <3> QED BY <3>1, <3>2, <3>3, <3>4, <3>5 DEF Next
  <2>2. inst = "active" /\ row.state # "absent"
    BY <2>1 DEF Shown, Begun
  <2>3. Shown
    <3>1. RowStep
      BY NextStaged
    <3>2. row.state \in States /\ row'.state \in States
      BY NextType DEF TInv, TypeOK, ProjTypeOK, Rows
    <3> QED BY <2>2, <3>1, <3>2 DEF RowStep, Shown, States
  <2>4. execs' = execs
    <3>1. CASE Activity \/ Launch \/ RetryLoop
      BY <3>1, InterpreterKeeps
    <3>2. CASE Receive \/ Poll
      BY <1>2, <3>2 DEF Receive, TakeCancel, TakeReport, TakeReconcile, execVars,
         Poll, PollReads, PollChecks, PollCreates
    <3>3. CASE OperatorCancels \/ Cancel \/ CancelFails
      BY <3>3 DEF OperatorCancels, Cancel, RequestCancellation, FinalizeCancellation,
         CompleteInstead, CancelFails, ExecFrame, execVars
    <3>4. CASE \E r \in ReportIds : AgentReports(r) \/ Submit(r)
      BY <3>4 DEF AgentReports, Submit, ReadRun, CheckReport, SignalReport, SignalRefused,
         CallFrame, execVars
    <3>5. CASE Crash \/ TerminalDies \/ UNCHANGED vars
      BY <3>5 DEF Crash, TerminalDies, vars, execVars
    <3> QED BY <3>1, <3>2, <3>3, <3>4, <3>5 DEF Next
  <2> QED BY <1>2, <2>3, <2>4, NextGoes
<1> QED BY <1>1, <1>2

\* What a step spends, and on which scenario.
LEMMA NextSpends ==
    ASSUME [Next]_vars
    PROVE  faults' = faults \/ \E k \in FaultKinds : Spend(k)
<1> USE DEF FaultKinds
<1>1. CASE Activity
  BY <1>1 DEF Activity, PlainActivity, EnsureMailboxes, PrepareRestart, ApplyTaskConfig,
     Comment, CompleteMailbox, CommentCancellation, CleanupRun, CheckpointNodeRuntime,
     FinalizeNodeRuntimes, LoadNodeRuntime, LoadCancellationReason,
     ProjectionUpdateNodeRuntimeVisit, ProjectionUpdateNode, ProjectionUpdateState,
     ProjectionRecordProcessedReport, Done
<1>2. CASE Launch \/ RetryLoop
  BY <1>2 DEF Launch, ReuseTerminal, SendFails, EnsureTerminal, BindTerminal, BindFails,
     Done, RetryLoop, ActivityFails, MarkBlocked, NoteRetry, TimerFires, ClearRetry, Unblock,
     RetryWriteFails, ScheduleState
<1>3. CASE Receive \/ Poll \/ OperatorCancels \/ Cancel \/ CancelFails
  BY <1>3 DEF Receive, TakeCancel, TakeReport, TakeReconcile, Poll, PollReads, PollChecks,
     PollCreates, PollFrame, OperatorCancels, Cancel, RequestCancellation, FinalizeCancellation,
     CompleteInstead, CancelFails
<1>4. CASE \E r \in ReportIds : AgentReports(r) \/ Submit(r)
  BY <1>4 DEF AgentReports, Submit, ReadRun, CheckReport, SignalReport, SignalRefused
<1>5. CASE Crash \/ TerminalDies \/ UNCHANGED vars
  BY <1>5 DEF Crash, TerminalDies, vars
<1> QED BY <1>1, <1>2, <1>3, <1>4, <1>5 DEF Next

\* The retry of a failed call is recorded, or terminals do not die.
Mild == faults.db = 0 \/ faults.death = 0

LEMMA NextMild ==
    ASSUME \A s \in Scenarios : s.db = 0 \/ s.death = 0, TInv, Mild, [Next]_vars
    PROVE  Mild' /\ (faults'.death = 0 => faults.death = 0)
<1>1. CASE faults' = faults
  BY <1>1 DEF Mild
<1>2. ASSUME NEW k \in FaultKinds, Spend(k)
      PROVE  Mild' /\ (faults'.death = 0 => faults.death = 0)
  <2>1. PICK s \in Scenarios : \A j \in FaultKinds : faults'[j] <= s[j]
    BY <1>2 DEF Spend
  <2>2. faults \in [FaultKinds -> Nat] /\ faults' \in [FaultKinds -> Nat]
    BY NextType DEF TInv, TypeOK, FaultTypeOK
  <2>3. Mild'
    BY <2>1, <2>2 DEF Mild, FaultKinds
  <2>4. faults'.death \in {faults.death, faults.death + 1}
    BY <1>2, <2>2 DEF Spend, FaultKinds
  <2> QED BY <2>2, <2>3, <2>4 DEF FaultKinds
<1> QED BY <1>1, <1>2, NextSpends

\* Visits are written at the entry of a node, to its own row.
LEMMA VisitsMove ==
    ASSUME TInv, [Next]_vars
    PROVE  \A n \in Nodes : \/ runtimes'[n].visit = runtimes[n].visit
                            \/ /\ pc \in {"publishVisit", "publishNode"} /\ n = cur
                               /\ runtimes'[n].visit = visit
<1>0. runtimes \in Runtimes
  BY DEF TInv, TypeOK, ProjTypeOK
<1>1. CASE UNCHANGED runtimes
  BY <1>1
<1>2. ASSUME NEW S, NEW keep, Reclaim(S, keep)
      PROVE  \A n \in Nodes : runtimes'[n].visit = runtimes[n].visit
  BY <1>0, <1>2 DEF Reclaim, ClearNodeRuntime, Runtimes
<1>3. CASE Activity
  <2>1. CASE CheckpointNodeRuntime \/ FinalizeNodeRuntimes
    BY <1>2, <2>1 DEF CheckpointNodeRuntime, FinalizeNodeRuntimes
  <2>2. CASE ProjectionUpdateNodeRuntimeVisit \/ ProjectionUpdateNode
    <3>1. pc \in {"publishVisit", "publishNode"}
      BY <2>2 DEF ProjectionUpdateNodeRuntimeVisit, ProjectionUpdateNode, Act
    <3>2. UNCHANGED runtimes \/ runtimes' = [runtimes EXCEPT ![cur].visit = visit]
      BY <2>2 DEF ProjectionUpdateNodeRuntimeVisit, ProjectionUpdateNode, UpdateNode,
         UpdateNodeRuntimeVisit
    <3> QED BY <1>0, <3>1, <3>2 DEF Runtimes
  <2> QED BY <1>1, <1>3, <2>1, <2>2 DEF Activity, PlainActivity, EnsureMailboxes, PrepareRestart,
       ApplyTaskConfig, Comment, CompleteMailbox, CommentCancellation, CleanupRun, TaskFrame,
       LoadNodeRuntime, LoadCancellationReason, ProjectionUpdateState,
       ProjectionRecordProcessedReport
<1>4. CASE Launch
  <2>1. CASE BindTerminal
    BY <1>0, <2>1 DEF BindTerminal, ReplaceNodeRuntime, Runtimes
  <2> QED BY <1>1, <1>4, <2>1 DEF Launch, ReuseTerminal, SendFails, EnsureTerminal, BindFails, TaskFrame
<1>5. CASE RetryLoop \/ Receive \/ Poll
  BY <1>1, <1>5 DEF RetryLoop, ActivityFails, MarkBlocked, NoteRetry, TimerFires, ClearRetry,
     Unblock, RetryWriteFails, LoopFrame, Receive, TakeCancel, TakeReport, TakeReconcile, Poll,
     PollReads, PollChecks, PollCreates, PollFrame
<1>6. CASE OperatorCancels \/ Cancel \/ CancelFails
  BY <1>1, <1>2, <1>6 DEF OperatorCancels, Cancel, RequestCancellation,
     FinalizeCancellation, CompleteInstead, CancelFails
<1>7. CASE \E r \in ReportIds : AgentReports(r) \/ Submit(r)
  BY <1>1, <1>7 DEF AgentReports, Submit, ReadRun, CheckReport, SignalReport, SignalRefused
<1>8. CASE Crash \/ TerminalDies \/ UNCHANGED vars
  BY <1>1, <1>8 DEF Crash, TerminalDies, vars
<1> QED BY <1>3, <1>4, <1>5, <1>6, <1>7, <1>8 DEF Next

\* While a run is shown as active, only the interpreter touches the terminals
\* and the handles, or a terminal dies.
LEMMA ShownTouches ==
    ASSUME TInv, CancellationStaged, Shown, [Next]_vars
    PROVE  \/ UNCHANGED <<terms, runtimes>>
           \/ PrepareRestart \/ CleanupRun \/ CheckpointNodeRuntime
           \/ Act("finalize") /\ FinalizeNodeRuntimes
           \/ ProjectionUpdateNodeRuntimeVisit \/ ProjectionUpdateNode
           \/ Launch \/ TerminalDies
<1>c. ~ctxDone /\ pc \notin CancelPcs /\ cx.st = "idle"
  BY DEF Shown, CancellationStaged, OnRecord, Active, Terminal
<1>1. CASE Activity
  BY <1>c, <1>1 DEF Activity, PlainActivity, EnsureMailboxes, ApplyTaskConfig, Comment,
     CompleteMailbox, CommentCancellation, CancelComment, FinalizeNodeRuntimes, Act,
     LoadNodeRuntime, LoadCancellationReason, ProjectionUpdateState,
     ProjectionRecordProcessedReport, TaskFrame
<1>2. CASE RetryLoop \/ Receive \/ Poll
  BY <1>2 DEF RetryLoop, ActivityFails, MarkBlocked, NoteRetry, TimerFires, ClearRetry,
     Unblock, RetryWriteFails, LoopFrame, Receive, TakeCancel, TakeReport, TakeReconcile, Poll,
     PollReads, PollChecks, PollCreates, PollFrame
<1>3. CASE OperatorCancels \/ Cancel \/ CancelFails
  <2>1. CASE OperatorCancels
    BY <2>1 DEF OperatorCancels
  <2>2. CASE Cancel \/ CancelFails
    BY <1>c, <2>2 DEF Cancel, RequestCancellation, FinalizeCancellation, CompleteInstead,
       CancelFails, CancelEnds, CancelStep
  <2> QED BY <1>3, <2>1, <2>2
<1>4. CASE \E r \in ReportIds : AgentReports(r) \/ Submit(r)
  BY <1>4 DEF AgentReports, Submit, ReadRun, CheckReport, SignalReport, SignalRefused, CallFrame
<1>5. CASE Crash \/ UNCHANGED vars
  BY <1>5 DEF Crash, vars
<1> QED BY <1>1, <1>2, <1>3, <1>4, <1>5 DEF Next

\* The row's place in the graph is that of the last node published.
LEMMA PlaceMoves ==
    ASSUME TInv, [Next]_vars
    PROVE  UNCHANGED <<row.node, row.visit>> \/ ProjectionUpdateNode
<1>0. row \in Rows
  BY DEF TInv, TypeOK, ProjTypeOK
<1>1. CASE row' = row \/ \E s, e : row' = Written(s, e)
  BY <1>0, <1>1 DEF Written, Rows
<1>2. ASSUME NEW b, UpdateRetry(b)
      PROVE  UNCHANGED <<row.node, row.visit>>
  BY <1>0, <1>2 DEF UpdateRetry, Rows
<1>3. ASSUME NEW w, BeginCancellation(w)
      PROVE  UNCHANGED <<row.node, row.visit>>
  BY <1>0, <1>3 DEF BeginCancellation, Rows
<1>4. CASE Activity
  <2>1. CASE ProjectionUpdateState
    BY <1>1, <2>1 DEF ProjectionUpdateState, UpdateState
  <2>2. CASE CheckpointNodeRuntime \/ FinalizeNodeRuntimes
    BY <1>1, <2>2 DEF CheckpointNodeRuntime, FinalizeNodeRuntimes, Reclaim, projVars
  <2> QED BY <1>1, <1>4, <2>1, <2>2 DEF Activity, PlainActivity, EnsureMailboxes, PrepareRestart,
       ApplyTaskConfig, Comment, CompleteMailbox, CommentCancellation, CleanupRun, TaskFrame,
       LoadNodeRuntime, LoadCancellationReason, ProjectionUpdateNodeRuntimeVisit,
       ProjectionRecordProcessedReport, projVars
<1>5. CASE Launch
  BY <1>1, <1>5 DEF Launch, ReuseTerminal, SendFails, EnsureTerminal, BindTerminal, BindFails,
     TaskFrame, projVars
<1>6. CASE RetryLoop
  BY <1>1, <1>2, <1>6 DEF RetryLoop, ActivityFails, MarkBlocked, NoteRetry, TimerFires, ClearRetry,
     Unblock, RetryWriteFails, ScheduleState, UpdateState
<1>7. CASE Receive \/ Poll
  <2>1. CASE InsertStart
    BY <1>0, <2>1 DEF InsertStart, Rows
  <2> QED BY <1>1, <1>7, <2>1 DEF Receive, TakeCancel, TakeReport, TakeReconcile, Poll,
       PollReads, PollChecks, PollCreates, projVars
<1>8. CASE OperatorCancels \/ Cancel \/ CancelFails
  BY <1>1, <1>3, <1>8 DEF OperatorCancels, Cancel, RequestCancellation,
     FinalizeCancellation, CompleteInstead, CancelFails, UpdateStateIf, Reclaim, projVars
<1>9. CASE \E r \in ReportIds : AgentReports(r) \/ Submit(r)
  BY <1>1, <1>9 DEF AgentReports, Submit, ReadRun, CheckReport, SignalReport, SignalRefused, projVars
<1>10. CASE Crash \/ TerminalDies \/ UNCHANGED vars
  BY <1>1, <1>10 DEF Crash, TerminalDies, vars, projVars
<1> QED BY <1>4, <1>5, <1>6, <1>7, <1>8, <1>9, <1>10 DEF Next

\* A node is entered with a visit of its own.
LEMMA NextEnters ==
    ASSUME TInv, [Next]_vars
    PROVE  /\ lastVisit' \in {lastVisit, lastVisit + 1}
           /\ pc' = "loadRuntime" => (UNCHANGED <<pc, visit>> \/ visit' = lastVisit + 1)
<1>1. CASE Continue
  BY <1>1 DEF Continue, After, Goto, Enter, Finish, Begin, Placed
<1>2. CASE Abandon \/ Failed \/ (\E ph \in Phases : Phase(ph)) \/ UNCHANGED loopVars
  BY <1>2 DEF Abandon, Failed, Goto, Finish, Begin, Phase, Placed, loopVars
<1>3. CASE Activity \/ Launch
  <2>1. Recorded \/ Done \/ Failed \/ Phase("again") \/ Phase("bind")
    BY <1>3 DEF Activity, PlainActivity, EnsureMailboxes, PrepareRestart, ApplyTaskConfig,
       Comment, CompleteMailbox, CommentCancellation, CleanupRun, CheckpointNodeRuntime,
       FinalizeNodeRuntimes, LoadNodeRuntime, LoadCancellationReason,
       ProjectionUpdateNodeRuntimeVisit, ProjectionUpdateNode, ProjectionUpdateState,
       ProjectionRecordProcessedReport, Launch, ReuseTerminal, SendFails, EnsureTerminal,
       BindTerminal, BindFails
  <2>2. \/ Continue \/ Goto("reason") \/ Failed
        \/ Phase("again") \/ Phase("bind") \/ Phase("clear")
    BY <2>1 DEF Done, Recorded
  <2>3. CASE Goto("reason")
    BY <2>3 DEF Goto, Begin, Placed
  <2> QED BY <1>1, <1>2, <2>2, <2>3
<1>4. CASE RetryLoop
  <2>1. CASE MarkBlocked \/ NoteRetry \/ TimerFires
    BY <2>1 DEF MarkBlocked, NoteRetry, TimerFires, Goto, Begin, Phase, Placed
  <2>2. CASE ActivityFails \/ ClearRetry \/ Unblock \/ RetryWriteFails
    <3>1. Continue \/ Abandon \/ Failed \/ Phase("block") \/ Phase("unblock")
      BY <2>2 DEF ActivityFails, ClearRetry, Unblock, RetryWriteFails
    <3> QED BY <1>1, <1>2, <3>1
  <2> QED BY <1>4, <2>1, <2>2 DEF RetryLoop
<1>5. CASE Receive \/ Poll
  BY <1>5 DEF Receive, TakeCancel, TakeReport, TakeReconcile, Goto, Finish, Begin, Placed, Poll,
     PollReads, PollChecks, PollCreates, wfVars, loopVars
<1>6. CASE OperatorCancels \/ Cancel \/ CancelFails
  BY <1>2, <1>6 DEF OperatorCancels, Cancel, RequestCancellation, FinalizeCancellation,
     CompleteInstead, CancelFails, CancelFrame, wfVars
<1>7. CASE \E r \in ReportIds : AgentReports(r) \/ Submit(r)
  BY <1>2, <1>7 DEF AgentReports, Submit, ReadRun, CheckReport, SignalReport, SignalRefused,
     CallFrame, wfVars
<1>8. CASE Crash \/ TerminalDies \/ UNCHANGED vars
  BY <1>8 DEF Crash, TerminalDies, vars, wfVars, loopVars
<1> QED BY <1>3, <1>4, <1>5, <1>6, <1>7, <1>8 DEF Next

LEMMA NextBegun ==
    ASSUME TInv, CancellationStaged, Begun, [Next]_vars
    PROVE  Begun'
<1>t. /\ row.state \in States /\ row'.state \in States /\ execs \in Nat
      /\ en.st \in {"idle", "check", "create"}
  BY NextType DEF TInv, TypeOK, ProjTypeOK, Rows, CallTypeOK, ExecTypeOK
<1>r. row.state # "absent" => row'.state # "absent"
  <2>1. RowStep
    BY NextStaged
  <2> QED BY <2>1 DEF RowStep
<1>k. ASSUME inst' = "active" => inst = "active", execs' = execs,
             en' = en \/ en' = IdlePoll \/ row'.state # "absent",
             inst = "active" \/ ~Launch
      PROVE  Begun'
  <2>1. inst' = "active" \/ en'.st # "idle" => row'.state # "absent"
    BY <1>k, <1>r DEF Begun, IdlePoll
  <2>2. inst # "active" => DOMAIN terms' = DOMAIN terms
    BY <1>k, NextTends DEF Faded
  <2> QED BY <1>k, <2>1, <2>2 DEF Begun
<1>1. CASE Activity \/ Launch \/ RetryLoop
  <2>1. inst' \in {inst, "finished"} /\ execs' = execs
    BY <1>1, InterpreterKeeps
  <2>2. inst = "active"
    BY <1>1 DEF Activity, PlainActivity, EnsureMailboxes, PrepareRestart, ApplyTaskConfig,
       Comment, CompleteMailbox, CommentCancellation, CleanupRun, CheckpointNodeRuntime,
       FinalizeNodeRuntimes, LoadNodeRuntime, LoadCancellationReason,
       ProjectionUpdateNodeRuntimeVisit, ProjectionUpdateNode, ProjectionUpdateState,
       ProjectionRecordProcessedReport, Launch, ReuseTerminal, SendFails, EnsureTerminal,
       BindTerminal, BindFails, Launching, Act, Running, RetryLoop, ActivityFails, MarkBlocked,
       NoteRetry, TimerFires, ClearRetry, Unblock, RetryWriteFails
  <2>3. row'.state # "absent"
    BY <1>r, <2>2 DEF Begun
  <2> QED BY <1>k, <2>1, <2>2, <2>3
<1>2. CASE Receive
  <2>1. inst = "active" /\ execs' = execs /\ en' = en
    BY <1>2 DEF Receive, TakeCancel, TakeReport, TakeReconcile, Waiting, callVars, execVars
  <2> QED BY <1>k, <2>1
<1>3. CASE Poll
  <2>n. UNCHANGED terms
    BY <1>3 DEF Poll, PollReads, PollChecks, PollCreates, PollFrame, extVars
  <2>1. CASE PollReads
    <3>1. row'.state # "absent" /\ UNCHANGED <<inst, execs>>
      BY <1>t, <2>1 DEF PollReads, InsertStart, wfVars, loopVars, execVars, TInv, TypeOK, ProjTypeOK, Rows
    <3> QED BY <2>n, <3>1 DEF Begun
  <2>2. CASE PollChecks
    <3>1. en.st # "idle" /\ UNCHANGED <<row, inst, execs>>
      BY <2>2 DEF PollChecks, wfVars, loopVars, execVars
    <3> QED BY <2>n, <3>1 DEF Begun
  <2>3. CASE PollCreates
    <3>1. en.st # "idle" /\ UNCHANGED row /\ en' = IdlePoll
          /\ (execs' = execs + 1 \/ UNCHANGED <<inst, execs>>)
      BY <2>3 DEF PollCreates, wfVars, loopVars, execVars
    <3> QED BY <1>t, <2>n, <3>1 DEF Begun, IdlePoll
  <2> QED BY <1>3, <2>1, <2>2, <2>3 DEF Poll
<1>4. CASE OperatorCancels \/ Cancel \/ CancelFails
  <2>1. UNCHANGED <<inst, execs, en>> /\ (inst = "active" \/ ~Launch)
    BY <1>4 DEF OperatorCancels, Cancel, RequestCancellation, FinalizeCancellation,
       CompleteInstead, CancelFails, CancelFrame, ExecFrame, execVars, wfVars, loopVars,
       Launch, ReuseTerminal, SendFails, EnsureTerminal, BindTerminal, BindFails, Launching, Act,
       Running
  <2> QED BY <1>k, <2>1
<1>5. CASE \E r \in ReportIds : AgentReports(r) \/ Submit(r)
  <2>1. UNCHANGED <<inst, execs, en>> /\ (inst = "active" \/ ~Launch)
    BY <1>5 DEF AgentReports, Submit, ReadRun, CheckReport, SignalReport, SignalRefused,
       CallFrame, execVars, wfVars, loopVars,
       Launch, ReuseTerminal, SendFails, EnsureTerminal, BindTerminal, BindFails, Launching, Act,
       Running
  <2> QED BY <1>k, <2>1
<1>6. CASE Crash \/ TerminalDies \/ UNCHANGED vars
  <2>1. UNCHANGED <<inst, execs>> /\ (en' = en \/ en' = IdlePoll) /\ (inst = "active" \/ ~Launch)
    BY <1>6 DEF Crash, Restarted, TerminalDies, vars, callVars, execVars, wfVars, loopVars,
       Launch, ReuseTerminal, SendFails, EnsureTerminal, BindTerminal, BindFails, Launching, Act,
       Running
  <2> QED BY <1>k, <2>1
<1> QED BY <1>1, <1>2, <1>3, <1>4, <1>5, <1>6 DEF Next

LEMMA NextAged ==
    ASSUME TInv, Walk, Housed, Aged, [Next]_vars
    PROVE  Aged'
<1>t. /\ visit \in Nat /\ lastVisit \in Nat /\ runtimes \in Runtimes /\ runtimes' \in Runtimes
      /\ lastVisit' \in {lastVisit, lastVisit + 1}
  BY NextType, NextEnters DEF TInv, TypeOK, LoopTypeOK, ProjTypeOK
<1>c. pc \in NodePcs => visit = lastVisit /\ visit # 0
  BY DEF Walk, Counted
<1>1. ASSUME NEW n \in Nodes
      PROVE  runtimes'[n].visit \in 0..lastVisit
  <2>1. \/ runtimes'[n].visit = runtimes[n].visit
        \/ pc \in {"publishVisit", "publishNode"} /\ runtimes'[n].visit = visit
    BY <1>1, VisitsMove
  <2> QED BY <1>1, <1>t, <1>c, <2>1 DEF Aged, NodePcs
<1>2. ASSUME NEW n \in Nodes, runtimes'[n].visit = 0
      PROVE  runtimes'[n].term = 0
  <2>1. runtimes[n].visit = 0
    <3>1. \/ runtimes'[n].visit = runtimes[n].visit
          \/ pc \in {"publishVisit", "publishNode"} /\ runtimes'[n].visit = visit
      BY <1>2, VisitsMove
    <3> QED BY <1>2, <1>c, <3>1 DEF NodePcs
  <2>2. runtimes[n].term = 0
    BY <1>2, <2>1 DEF Aged
  <2>3. CASE BindTerminal
    <3>1. pc \in LaunchPcs /\ runtimes[cur].visit = visit
          /\ runtimes' = [runtimes EXCEPT ![cur].term = fresh]
      BY <2>3 DEF BindTerminal, ReplaceNodeRuntime, NodeRuntimeVisitIsCurrent, Walk, Ordered
    <3>2. n # cur
      BY <1>c, <2>1, <3>1 DEF NodePcs
    <3> QED BY <1>2, <1>t, <2>2, <3>1, <3>2 DEF Runtimes
  <2>4. CASE ~BindTerminal
    BY <1>2, <2>2, <2>4, NextForgets DEF Forgets
  <2> QED BY <2>3, <2>4
<1>3. ASSUME pc' = "loadRuntime", NEW n \in Nodes
      PROVE  runtimes'[n].visit # visit'
  <2>1. CASE UNCHANGED <<pc, visit>>
    <3>1. runtimes'[n].visit = runtimes[n].visit
      BY <1>3, <2>1, VisitsMove
    <3> QED BY <1>3, <2>1, <3>1 DEF Aged
  <2>2. CASE visit' = lastVisit + 1
    BY <1>1, <1>3, <1>t, <2>2
  <2> QED BY <1>3, <2>1, <2>2, NextEnters
<1>4. \A n \in Nodes : runtimes'[n].visit \in 0..lastVisit'
  BY <1>1, <1>t
<1> QED BY <1>2, <1>3, <1>4 DEF Aged

\* The activities of a node are those of a node.
LEMMA ShownCur ==
    ASSUME TInv, Shown, Since("loadRuntime", Entering) \/ Since("publishVisit", Dated)
    PROVE  cur \in Nodes
BY DEF Since, Entering, Dated, Bounded, TInv, Located, NodePcs

LEMMA TermsMove ==
    ASSUME TInv, CancellationStaged, Shown, [Next]_vars
    PROVE  \/ \A n \in Nodes : runtimes'[n].term = runtimes[n].term
           \/ BindTerminal \/ CheckpointNodeRuntime \/ (Act("finalize") /\ FinalizeNodeRuntimes)
<1>0. runtimes \in Runtimes
  BY DEF TInv, TypeOK, ProjTypeOK
<1>1. CASE ProjectionUpdateNodeRuntimeVisit \/ ProjectionUpdateNode
  BY <1>0, <1>1 DEF ProjectionUpdateNodeRuntimeVisit, ProjectionUpdateNode, UpdateNode,
     UpdateNodeRuntimeVisit, Runtimes
<1>2. CASE Launch /\ ~BindTerminal
  BY <1>2 DEF Launch, ReuseTerminal, SendFails, EnsureTerminal, BindFails, TaskFrame, projVars
<1>3. CASE PrepareRestart \/ CleanupRun \/ TerminalDies
  BY <1>3 DEF PrepareRestart, CleanupRun, TerminalDies, TaskFrame, projVars
<1> QED BY <1>1, <1>2, <1>3, ShownTouches

LEMMA NextShows ==
    ASSUME TInv, CancellationStaged, Ordered, Begun, Housed, Shows, [Next]_vars
    PROVE  Shows'
<1> SUFFICES ASSUME Shown' PROVE Shows'
  BY DEF Shows
<1>1. CASE PollCreates /\ inst # "active"
  <2>1. pc' = "mailboxes" /\ phase' = "call"
    BY <1>1 DEF PollCreates, Begin
  <2> QED BY <2>1 DEF Shows, Since, Dated, Bounded, Awaiting, Settled
<1>2. CASE Shown /\ Goes
  <2>c. ~CancelSeen
    BY <1>2 DEF Shown, CancellationStaged, OnRecord, Active, Terminal, CancelSeen
  <2>t. /\ runtimes \in Runtimes /\ row \in Rows
        /\ pc \in NodePcs => cur \in Nodes
    BY DEF TInv, TypeOK, ProjTypeOK, Located
  <2>p. /\ Since("publishVisit", Dated) => pc \in NodePcs
        /\ Since("launch", Bounded) => pc \in NodePcs \ {"checkpoint"}
    BY DEF Since, Dated, Bounded, NodePcs
  <2>1. ASSUME Since("publishVisit", Dated)'
        PROVE  runtimes'[cur'].visit = visit'
    <3>1. /\ UNCHANGED <<cur, visit>>
          /\ Since("publishVisit", Dated) \/ (pc = "publishVisit" /\ Works)
      BY <1>2, <2>1, <2>c, SinceMoves
    <3>2. CASE Since("publishVisit", Dated)
      <4>1. cur \in Nodes /\ runtimes[cur].visit = visit
        BY <1>2, <2>t, <2>p, <3>2 DEF Shows
      <4> QED BY <3>1, <4>1, VisitsMove
    <3>3. CASE pc = "publishVisit" /\ Works
      <4>1. cur \in Nodes /\ runtimes' = [runtimes EXCEPT ![cur].visit = visit]
        BY <2>t, <3>3, WorksAt DEF ProjectionUpdateNodeRuntimeVisit, UpdateNodeRuntimeVisit, NodePcs
      <4> QED BY <2>t, <3>1, <4>1 DEF Runtimes
    <3> QED BY <3>1, <3>2, <3>3
  <2>2. ASSUME Since("launch", Bounded)'
        PROVE  runtimes'[cur'].term # 0
    <3>1. /\ UNCHANGED <<cur, visit>>
          /\ Since("launch", Bounded) \/ (pc = "launch" /\ Works)
      BY <1>2, <2>2, <2>c, SinceMoves
    <3>2. cur \in Nodes
      BY <2>t, <2>p, <3>1 DEF NodePcs
    <3>3. CASE BindTerminal
      <4>1. phase = "bind" /\ runtimes' = [runtimes EXCEPT ![cur].term = fresh]
        BY <3>3 DEF BindTerminal, ReplaceNodeRuntime
      <4>2. fresh # 0
        BY <4>1 DEF Housed, TInv, TypeOK, TermTypeOK
      <4> QED BY <2>t, <3>1, <3>2, <4>1, <4>2 DEF Runtimes
    <3>4. CASE ~BindTerminal
      <4>1. ~CheckpointNodeRuntime /\ ~Act("finalize")
        BY <2>p, <3>1 DEF CheckpointNodeRuntime, Act, Since, Bounded
      <4>2. runtimes'[cur].term = runtimes[cur].term
        BY <1>2, <3>2, <3>4, <4>1, TermsMove
      <4>3. runtimes[cur].term # 0
        <5>1. CASE Since("launch", Bounded)
          BY <1>2, <5>1 DEF Shows
        <5>2. CASE pc = "launch" /\ Works
          BY <3>4, <5>2, WorksAt DEF ReuseTerminal, BoundLive
        <5> QED BY <3>1, <5>1, <5>2
      <4> QED BY <3>1, <4>2, <4>3
    <3> QED BY <3>3, <3>4
  <2>3. ASSUME Since("publishNode", Awaiting)'
        PROVE  row'.node = cur' /\ row'.visit = visit'
    <3>1. /\ UNCHANGED <<cur, visit>>
          /\ Since("publishNode", Awaiting) \/ (pc = "publishNode" /\ Works)
      BY <1>2, <2>3, <2>c, SinceMoves
    <3>2. CASE ProjectionUpdateNode
      <4>1. row' = [row EXCEPT !.state = "running", !.node = cur, !.visit = visit]
        BY <1>2, <3>2 DEF ProjectionUpdateNode, UpdateNode, Shown
      <4> QED BY <2>t, <3>1, <4>1 DEF Rows
    <3>3. CASE ~ProjectionUpdateNode
      <4>1. Since("publishNode", Awaiting)
        BY <3>1, <3>3, WorksAt
      <4> QED BY <1>2, <3>1, <3>3, <4>1, PlaceMoves DEF Shows
    <3> QED BY <3>2, <3>3
  <2> QED BY <2>1, <2>2, <2>3 DEF Shows
<1> QED BY <1>1, <1>2, ShownStep

\* What is loaded is loaded once for a visit.
LEMMA LoadedMoves ==
    ASSUME TInv, [Next]_vars
    PROVE  loaded' = loaded \/ LoadNodeRuntime \/ (PollCreates /\ inst # "active")
<1>1. CASE Activity
  BY <1>1 DEF Activity, PlainActivity, EnsureMailboxes, PrepareRestart, ApplyTaskConfig,
     Comment, CompleteMailbox, CommentCancellation, CleanupRun, CheckpointNodeRuntime,
     FinalizeNodeRuntimes, LoadCancellationReason,
     ProjectionUpdateNodeRuntimeVisit, ProjectionUpdateNode, ProjectionUpdateState,
     ProjectionRecordProcessedReport, TaskFrame, ProjFrame, dataVars
<1>2. CASE Launch \/ RetryLoop
  BY <1>2 DEF Launch, ReuseTerminal, SendFails, EnsureTerminal, BindTerminal, BindFails, TaskFrame,
     RetryLoop, ActivityFails, MarkBlocked, NoteRetry, TimerFires, ClearRetry, Unblock,
     RetryWriteFails, LoopFrame, dataVars
<1>3. CASE Receive \/ Poll
  BY <1>3 DEF Receive, TakeCancel, TakeReport, TakeReconcile, Poll, PollReads, PollChecks,
     PollCreates, dataVars, wfVars
<1>4. CASE OperatorCancels \/ Cancel \/ CancelFails
  BY <1>4 DEF OperatorCancels, Cancel, RequestCancellation, FinalizeCancellation,
     CompleteInstead, CancelFails, CancelFrame, wfVars, dataVars
<1>5. CASE \E r \in ReportIds : AgentReports(r) \/ Submit(r)
  BY <1>5 DEF AgentReports, Submit, ReadRun, CheckReport, SignalReport, SignalRefused,
     CallFrame, wfVars, dataVars
<1>6. CASE Crash \/ TerminalDies \/ UNCHANGED vars
  BY <1>6 DEF Crash, TerminalDies, vars, wfVars, dataVars
<1> QED BY <1>1, <1>2, <1>3, <1>4, <1>5, <1>6 DEF Next

\* A launch whose result is recorded stays so, or is over.
LEMMA LaunchSettles ==
    ASSUME Goes, ~CancelSeen, Since("loadRuntime", Entering)', pc = "launch",
           Settled \/ BindTerminal
    PROVE  pc' = "launch" /\ Settled'
<1>1. ASSUME Continue
      PROVE  FALSE
  <2>1. pc' \in {"publishNode", "loadRuntime", "applyEnd", "done"} /\ phase' = "call"
    BY <1>1, ContinueGoes DEF After
  <2> QED BY <2>1 DEF Since, Entering, Settled
<1>2. ~Leaves
  BY DEF Leaves, Since, Entering
<1>3. CASE Settled
  <2>1. ~Works
    BY <1>3 DEF Works, Settled, Activity, PlainActivity, EnsureMailboxes, PrepareRestart,
       ApplyTaskConfig, Comment, CompleteMailbox, CommentCancellation, CleanupRun,
       CheckpointNodeRuntime, FinalizeNodeRuntimes, LoadNodeRuntime, LoadCancellationReason,
       ProjectionUpdateNodeRuntimeVisit, ProjectionUpdateNode, ProjectionUpdateState,
       ProjectionRecordProcessedReport, ReuseTerminal, BindTerminal, Launching, Act
  <2> QED BY <1>1, <1>2, <1>3, <2>1 DEF Goes, Waits
<1>4. CASE BindTerminal
  BY <1>1, <1>4 DEF BindTerminal, Recorded, Phase, Settled
<1> QED BY <1>3, <1>4

LEMMA NextLoading ==
    ASSUME TInv, CancellationStaged, Ordered, Begun, Aged, Loading, [Next]_vars
    PROVE  Loading'
<1> SUFFICES ASSUME Shown', Since("loadRuntime", Entering)'
             PROVE  /\ loaded' # visit'
                    /\ loaded' = 0 => runtimes'[cur'].term = 0 \/ (pc' = "launch" /\ Settled')
  BY DEF Loading
<1>1. Shown /\ Goes
  <2>1. CASE PollCreates /\ inst # "active"
    <3>1. pc' = "mailboxes" /\ phase' = "call"
      BY <2>1 DEF PollCreates, Begin
    <3> QED BY <3>1 DEF Since, Entering, Settled
  <2> QED BY <2>1, ShownStep
<1>c. ~CancelSeen
  BY <1>1 DEF Shown, CancellationStaged, OnRecord, Active, Terminal, CancelSeen
<1>2. /\ UNCHANGED <<cur, visit>>
      /\ Since("loadRuntime", Entering) \/ (pc = "loadRuntime" /\ Works)
  BY <1>1, <1>c, SinceMoves
<1>3. cur \in Nodes
  BY <1>2 DEF Since, Entering, TInv, Located, NodePcs
<1>4. CASE LoadNodeRuntime
  <2>1. pc = "loadRuntime" /\ loaded' = runtimes[cur].visit /\ UNCHANGED runtimes
    BY <1>4 DEF LoadNodeRuntime, Act, projVars
  <2> QED BY <1>2, <1>3, <2>1 DEF Aged
<1>5. CASE ~LoadNodeRuntime
  <2>1. Since("loadRuntime", Entering)
    BY <1>2, <1>5, WorksAt
  <2>2. loaded' = loaded
    BY <1>1, <1>5, LoadedMoves DEF Shown
  <2>3. loaded' # visit'
    BY <1>1, <1>2, <2>1, <2>2 DEF Loading
  <2>4. ASSUME loaded' = 0
        PROVE  runtimes'[cur'].term = 0 \/ (pc' = "launch" /\ Settled')
    <3>1. CASE pc = "launch" /\ (Settled \/ BindTerminal)
      BY <1>1, <1>c, <3>1, LaunchSettles
    <3>2. CASE ~(pc = "launch" /\ (Settled \/ BindTerminal))
      <4>1. runtimes[cur].term = 0
        BY <1>1, <2>1, <2>2, <2>4, <3>2 DEF Loading
      <4>2. ~BindTerminal
        BY <2>1, <3>2 DEF BindTerminal, Since, Entering, Settled, Ordered
      <4> QED BY <1>2, <1>3, <4>1, <4>2, NextForgets DEF Forgets
    <3> QED BY <3>1, <3>2
  <2> QED BY <2>3, <2>4
<1> QED BY <1>4, <1>5

LEMMA InitShows == Init => Begun /\ Shows /\ Aged /\ Loading
<1> SUFFICES ASSUME Init PROVE Begun /\ Shows /\ Aged /\ Loading
  OBVIOUS
<1>1. Begun
  BY DEF Init, ProjInit, Begun, IdlePoll
<1>2. Aged
  BY DEF Init, ProjInit, Aged
<1> QED BY <1>1, <1>2 DEF Init, Shows, Loading, Shown

LEMMA ShowsHold == Spec => [](Begun /\ Shows /\ Aged /\ Loading)
<1> DEFINE I == Begun /\ Shows /\ Aged /\ Loading
<1>1. Spec => []TInv
  BY TicketTyping DEF TInv
<1>2. TInv /\ CancellationStaged /\ Walk /\ Housed /\ I /\ [Next]_vars => I'
  BY NextBegun, NextShows, NextAged, NextLoading DEF Walk
<1>3. Spec => []Housed
  BY AgentsHoused, PTL
<1> HIDE DEF I
<1>4. Init => I
  BY InitShows DEF I
<1>5. Spec => []I
  BY <1>1, <1>2, <1>3, <1>4, CancellationHolds, WalkHolds, PTL DEF Spec
<1> QED BY <1>5 DEF I

(* What `run get` shows while a run waits is where the interpreter is: the *)
(* published node and visit are the awaited ones, the node's runtime row   *)
(* is of that visit and holds a terminal, whatever failed, was retried or  *)
(* crashed on the way there and however many executions there were.        *)
THEOREM ShownIsAwaited ==
    Spec => [](inst = "active" /\ pc = "wait" /\ row.state \in Active =>
                  /\ row.node = cur /\ row.visit = visit
                  /\ runtimes[cur].visit = visit /\ runtimes[cur].term # 0)
<1> DEFINE P == inst = "active" /\ pc = "wait" /\ row.state \in Active =>
                  /\ row.node = cur /\ row.visit = visit
                  /\ runtimes[cur].visit = visit /\ runtimes[cur].term # 0
<1>1. Shows => P
  BY DEF Shows, Shown, Since, Dated, Bounded, Awaiting
<1> HIDE DEF P
<1>2. Spec => []P
  BY <1>1, ShowsHold, PTL
<1> QED BY <1>2 DEF P

Prompted(t) == terms[t].visit = visit

\* Left for the launch under way to find, or for the restart to close.
Stray(t) ==
    \/ pc \in LaunchPcs /\ ~Settled /\ terms[t].node = cur /\ Prompted(t)
    \/ IsRestart /\ (pc = "mailboxes" \/ (pc = "prepare" /\ ~Settled))

\* The node launched has the terminal prompted for its visit.
BoundPrompted ==
    Since("launch", Bounded) =>
       /\ Prompted(runtimes[cur].term)
       /\ faults.death = 0 => BoundLive(cur)

\* So has the terminal about to be stored, and there is no other.
FreshPrompted ==
    phase = "bind" =>
       /\ Prompted(fresh) /\ ~BoundLive(cur)
       /\ faults.death = 0 => terms[fresh].live
       /\ RecoverByTitle => \A t \in Recoverable : t = fresh

\* No terminal of an earlier visit can be found by its title.
LivePrompted ==
    RecoverByTitle => \A t \in DOMAIN terms : terms[t].live => Bound(t) \/ Stray(t)

Attended == Shown /\ execs <= 1 => BoundPrompted /\ FreshPrompted /\ LivePrompted

Closers ==
    \/ PrepareRestart \/ CleanupRun \/ CheckpointNodeRuntime \/ Act("finalize")
    \/ SendFails \/ BindFails \/ TerminalDies

\* What a step makes of the terminals while the run is shown as active.
TermsKept ==
    /\ DOMAIN terms \subseteq DOMAIN terms'
    /\ ~EnsureTerminal => DOMAIN terms' = DOMAIN terms
    /\ \A t \in DOMAIN terms :
          /\ terms'[t].node = terms[t].node /\ terms[t].node \in Nodes
          /\ terms'[t].visit \in {terms[t].visit, visit}
          /\ terms'[t].live => terms[t].live
          /\ terms[t].live => terms'[t].live \/ Closers

LEMMA ShownTends ==
    ASSUME TInv, CancellationStaged, Shown, [Next]_vars
    PROVE  TermsKept
<1>t. terms \in Seq(Terminals) /\ \A t \in DOMAIN terms : terms[t] \in Terminals
  BY DEF TInv, TypeOK, TermTypeOK
<1>1. CASE UNCHANGED terms
  BY <1>1, <1>t DEF TermsKept, Terminals
<1>2. ASSUME NEW S, terms' = Closed(S), Closers
      PROVE  TermsKept
  BY <1>2, <1>t DEF Closed, TermsKept, Terminals
<1>3. CASE PrepareRestart \/ CleanupRun \/ TerminalDies \/ SendFails
  BY <1>2, <1>3 DEF PrepareRestart, CleanupRun, TerminalDies, SendFails, Closers
<1>4. CASE CheckpointNodeRuntime \/ (Act("finalize") /\ FinalizeNodeRuntimes)
  BY <1>1, <1>2, <1>4 DEF CheckpointNodeRuntime, FinalizeNodeRuntimes, Reclaim, Closers
<1>5. CASE ReuseTerminal
  <2>1. \/ UNCHANGED terms
        \/ terms' = [terms EXCEPT ![runtimes[cur].term].visit = visit]
    BY <1>5 DEF ReuseTerminal
  <2> QED BY <1>1, <1>t, <2>1 DEF TermsKept, Terminals
<1>6. CASE EnsureTerminal
  BY <1>1, <1>6, <1>t, EnsureGrows DEF Faded, Grown, TermsKept, Terminals, EnsureTerminal
<1>7. CASE BindTerminal \/ BindFails
  BY <1>1, <1>2, <1>7 DEF BindTerminal, BindFails, extVars, Closers
<1>8. CASE ProjectionUpdateNodeRuntimeVisit \/ ProjectionUpdateNode
  BY <1>1, <1>8 DEF ProjectionUpdateNodeRuntimeVisit, ProjectionUpdateNode
<1> QED BY <1>1, <1>3, <1>4, <1>5, <1>6, <1>7, <1>8, ShownTouches DEF Launch

\* A terminal made by a launch is prompted for the visit under way.
LEMMA EnsurePrompts ==
    ASSUME TInv, EnsureTerminal
    PROVE  /\ UNCHANGED <<visit, loaded>>
           /\ \A t \in DOMAIN terms' :
                 \/ t \in DOMAIN terms /\ terms'[t] = terms[t]
                 \/ t = fresh' /\ terms'[t].node = cur /\ terms'[t].visit = visit
           /\ \/ UNCHANGED terms /\ RecoverByTitle /\ fresh' \in Recoverable
              \/ terms'[fresh'].visit = visit
<1>1. UNCHANGED <<visit, loaded>>
  BY DEF EnsureTerminal, Phase, Placed
<1>2. CASE UNCHANGED terms /\ RecoverByTitle /\ fresh' \in Recoverable
  BY <1>1, <1>2
<1>3. CASE /\ terms' = Append(terms, [node |-> cur, live |-> TRUE, visit |-> visit])
           /\ fresh' = Len(terms) + 1
  <2> DEFINE made == [node |-> cur, live |-> TRUE, visit |-> visit]
  <2>1. terms \in Seq(Terminals) /\ made \in Terminals
    <3>1. cur \in Nodes
      BY DEF EnsureTerminal, Launching, Act, TInv, Located, NodePcs
    <3> QED BY <3>1 DEF TInv, TypeOK, TermTypeOK, LoopTypeOK, Terminals
  <2>2. made.node = cur /\ made.visit = visit
    OBVIOUS
  <2> HIDE DEF made
  <2>3. /\ \A i \in DOMAIN terms : Append(terms, made)[i] = terms[i]
        /\ Append(terms, made)[Len(terms) + 1] = made
        /\ DOMAIN Append(terms, made) = DOMAIN terms \cup {Len(terms) + 1}
    BY <2>1
  <2>4. terms' = Append(terms, made)
    BY <1>3 DEF made
  <2> QED BY <1>1, <1>3, <2>2, <2>3, <2>4
<1> QED BY <1>2, <1>3 DEF EnsureTerminal

\* What the interpreter is at while a run is shown as active and only its
\* first execution was made: the hypotheses of the three lemmas that follow.
Attending ==
    /\ TInv /\ Ordered /\ CancellationStaged /\ Housed /\ Loading /\ Shows /\ Shown /\ Goes
    /\ BoundPrompted /\ FreshPrompted /\ LivePrompted
    /\ RecoverByTitle => OneAgentPerNode

LEMMA ShownUncanceled ==
    ASSUME CancellationStaged, Shown
    PROVE  ~CancelSeen
BY DEF Shown, CancellationStaged, OnRecord, Active, Terminal, CancelSeen

\* Handles are stored by BindTerminal and cleared after a transition.
LEMMA HandlesKept ==
    ASSUME Attending, [Next]_vars, ~BindTerminal, pc \notin {"checkpoint", "finalize"}
    PROVE  \A n \in Nodes : runtimes'[n].term = runtimes[n].term
<1>1. ~CheckpointNodeRuntime /\ ~Act("finalize")
  BY DEF CheckpointNodeRuntime, Act
<1> QED BY <1>1, TermsMove DEF Attending

LEMMA BindStores ==
    ASSUME Attending, BindTerminal
    PROVE  /\ pc \in LaunchPcs /\ cur \in Nodes /\ phase = "bind"
           /\ UNCHANGED <<terms, faults>>
           /\ fresh \in DOMAIN terms /\ fresh # 0 /\ terms[fresh].node = cur
           /\ \A n \in Nodes :
                 runtimes'[n].term = IF n = cur THEN fresh ELSE runtimes[n].term
<1>1. /\ phase = "bind" /\ UNCHANGED <<terms, faults>>
      /\ runtimes' = [runtimes EXCEPT ![cur].term = fresh]
  BY DEF BindTerminal, ReplaceNodeRuntime, extVars
<1>2. pc \in LaunchPcs /\ cur \in Nodes
  BY <1>1 DEF Attending, Ordered, TInv, Located, NodePcs
<1>3. fresh \in DOMAIN terms /\ terms[fresh].node = cur /\ fresh # 0
  BY <1>1 DEF Attending, Housed, TInv, TypeOK, TermTypeOK
<1>4. runtimes \in Runtimes
  BY DEF Attending, TInv, TypeOK, ProjTypeOK
<1> QED BY <1>1, <1>2, <1>3, <1>4 DEF Runtimes

LEMMA BoundStays ==
    ASSUME Attending, [Next]_vars, faults'.death = 0 => faults.death = 0
    PROVE  BoundPrompted'
<1> SUFFICES ASSUME Since("launch", Bounded)'
             PROVE  /\ terms'[runtimes'[cur'].term].visit = visit'
                    /\ faults'.death = 0 => /\ runtimes'[cur'].term # 0
                                            /\ terms'[runtimes'[cur'].term].live
  BY DEF BoundPrompted, Prompted, BoundLive
<1>c. ~CancelSeen
  BY ShownUncanceled DEF Attending
<1>1. /\ UNCHANGED <<cur, visit>>
      /\ Since("launch", Bounded) \/ (pc = "launch" /\ Works)
  BY <1>c, SinceMoves DEF Attending
<1>2. pc \in Bounded \cup {"launch"} /\ cur \in Nodes
  BY <1>1 DEF Since, Bounded, Attending, TInv, Located, NodePcs
<1>3. TermsKept
  BY ShownTends DEF Attending
<1>4. CASE BindTerminal
  <2>1. runtimes'[cur'].term = fresh /\ fresh # 0 /\ UNCHANGED <<terms, faults>> /\ phase = "bind"
    BY <1>1, <1>2, <1>4, BindStores
  <2> QED BY <1>1, <2>1 DEF Attending, FreshPrompted, Prompted
<1>5. CASE ~BindTerminal
  <2> DEFINE b == runtimes[cur].term
  <2>1. runtimes'[cur'].term = b
    BY <1>1, <1>2, <1>5, HandlesKept DEF Bounded
  <2>2. CASE ReuseTerminal /\ pc = "launch"
    <3>1. BoundLive(cur) /\ phase \in {"call", "again"}
      BY <2>2 DEF ReuseTerminal, Launching, Act
    <3>2. b # 0 /\ b \in DOMAIN terms /\ terms[b].live
      BY <1>2, <3>1 DEF BoundLive, Attending, Housed
    <3>3. Revisit
      <4>1. loaded # visit /\ (loaded = 0 => b = 0)
        BY <2>2, <3>1 DEF Attending, Loading, Since, Entering, Settled
      <4> QED BY <2>2, <3>2, <4>1 DEF Revisit
    <3>4. terms' = [terms EXCEPT ![b].visit = visit]
      BY <2>2, <3>3 DEF ReuseTerminal
    <3>5. terms \in Seq(Terminals) /\ terms[b] \in Terminals
      BY <3>2 DEF Attending, TInv, TypeOK, TermTypeOK
    <3>6. terms'[b].visit = visit /\ terms'[b].live
      BY <3>2, <3>4, <3>5 DEF Terminals
    <3> QED BY <1>1, <2>1, <3>2, <3>6
  <2>3. CASE ~(ReuseTerminal /\ pc = "launch")
    <3>1. Since("launch", Bounded)
      BY <1>1, <1>5, <2>3, WorksAt DEF Attending
    <3>2. b # 0 /\ b \in DOMAIN terms
      BY <1>2, <3>1 DEF Attending, Shows, Housed
    <3>3. terms'[b].visit = visit
      BY <1>3, <3>1, <3>2 DEF TermsKept, Attending, BoundPrompted, Prompted
    <3>4. ASSUME faults'.death = 0
          PROVE  terms'[b].live
      <4>1. faults.death = 0 /\ BoundLive(cur) /\ terms[b].live
        BY <3>1, <3>4 DEF Attending, BoundPrompted, BoundLive
      <4>2. ~PrepareRestart /\ ~CleanupRun /\ ~CheckpointNodeRuntime /\ ~Act("finalize")
        BY <1>2 DEF PrepareRestart, CleanupRun, CheckpointNodeRuntime, Act, Bounded
      <4>3. ~SendFails
        BY <3>1 DEF SendFails, Revisit, Launching, Act, Since, Bounded, Settled
      <4>4. ~BindFails
        BY <4>1 DEF BindFails, Attending, FreshPrompted
      <4>5. ~TerminalDies
        BY <3>4, <4>1 DEF TerminalDies, Spend, Attending, TInv, TypeOK, FaultTypeOK, FaultKinds
      <4> QED BY <1>3, <3>2, <4>1, <4>2, <4>3, <4>4, <4>5 DEF TermsKept, Closers
    <3> QED BY <1>1, <2>1, <3>2, <3>3, <3>4
  <2> QED BY <2>2, <2>3
<1> QED BY <1>4, <1>5

LEMMA FreshStays ==
    ASSUME Attending, [Next]_vars, faults'.death = 0 => faults.death = 0
    PROVE  FreshPrompted'
<1> SUFFICES ASSUME phase' = "bind"
             PROVE  /\ terms'[fresh'].visit = visit'
                    /\ runtimes'[cur'].term # 0 => ~terms'[runtimes'[cur'].term].live
                    /\ faults'.death = 0 => terms'[fresh'].live
                    /\ RecoverByTitle => \A t \in DOMAIN terms' :
                          terms'[t].live /\ terms'[t].node = cur' => t = fresh'
  BY DEF FreshPrompted, Prompted, BoundLive, Recoverable
<1>1. CASE EnsureTerminal
  <2>1. /\ pc \in LaunchPcs /\ cur \in Nodes /\ ~BoundLive(cur) /\ phase \in {"call", "again"}
        /\ UNCHANGED <<cur, visit, runtimes, faults>>
        /\ fresh' \in DOMAIN terms' /\ terms'[fresh'].node = cur /\ terms'[fresh'].live
    BY <1>1, EnsureHolds, EnsurePrompts DEF Attending
  <2>2. terms'[fresh'].visit = visit'
    <3>1. CASE UNCHANGED terms /\ RecoverByTitle /\ fresh' \in Recoverable
      <4>1. fresh' \in DOMAIN terms /\ terms[fresh'].live /\ terms[fresh'].node = cur
            /\ fresh' # 0
        BY <3>1 DEF Recoverable, Attending, TInv, TypeOK, TermTypeOK
      <4>2. ~Bound(fresh')
        BY <2>1, <4>1 DEF Bound, BoundLive
      <4>3. Stray(fresh')
        BY <3>1, <4>1, <4>2 DEF Attending, LivePrompted
      <4> QED BY <2>1, <3>1, <4>3 DEF Stray, Prompted
    <3>2. CASE terms'[fresh'].visit = visit
      BY <2>1, <3>2
    <3> QED BY <1>1, <3>1, <3>2, EnsurePrompts DEF Attending
  <2>3. runtimes'[cur'].term # 0 => ~terms'[runtimes'[cur'].term].live
    <3>1. ASSUME runtimes[cur].term # 0 PROVE ~terms'[runtimes[cur].term].live
      <4>1. runtimes[cur].term \in DOMAIN terms /\ ~terms[runtimes[cur].term].live
        BY <2>1, <3>1 DEF Attending, Housed, BoundLive
      <4>2. TermsKept
        BY ShownTends DEF Attending
      <4> QED BY <4>1, <4>2 DEF TermsKept
    <3> QED BY <2>1, <3>1
  <2>4. ASSUME RecoverByTitle, NEW t \in DOMAIN terms', terms'[t].live, terms'[t].node = cur'
        PROVE  t = fresh'
    <3>1. SUFFICES ASSUME t # fresh' PROVE FALSE
      OBVIOUS
    <3>2. UNCHANGED terms /\ t \in DOMAIN terms /\ fresh' \in Recoverable
      BY <1>1, <2>1, <2>4, <3>1, EnsureHolds DEF Attending
    <3> QED BY <2>1, <2>4, <3>1, <3>2 DEF Attending, OneAgentPerNode, Recoverable
  <2> QED BY <2>1, <2>2, <2>3, <2>4
<1>2. CASE ~EnsureTerminal
  <2>1. phase = "bind" /\ UNCHANGED <<pc, cur, fresh>>
    BY <1>2, NextBinds DEF Attending
  <2>c. ~CancelSeen
    BY ShownUncanceled DEF Attending
  <2>2. pc \in LaunchPcs /\ cur \in Nodes
    BY <2>1 DEF Attending, Ordered, TInv, Located, NodePcs
  <2>3. UNCHANGED visit
    <3>1. ~Continue
      BY <2>c, ContinueGoes
    <3> QED BY <3>1 DEF Attending, Goes, Waits, Leaves, Passes
  <2>4. ~BindTerminal
    <3>1. ~Recorded
      BY <2>c, ContinueGoes DEF Recorded, Phase
    <3> QED BY <3>1 DEF BindTerminal
  <2>5. runtimes'[cur].term = runtimes[cur].term
    BY <2>2, <2>4, HandlesKept
  <2>6. TermsKept
    BY ShownTends DEF Attending
  <2>7. /\ Prompted(fresh) /\ ~BoundLive(cur) /\ fresh \in DOMAIN terms
        /\ faults.death = 0 => terms[fresh].live
        /\ RecoverByTitle => \A t \in Recoverable : t = fresh
    BY <2>1 DEF Attending, FreshPrompted, Housed
  <2>8. terms'[fresh'].visit = visit'
    BY <2>1, <2>3, <2>6, <2>7 DEF TermsKept, Prompted
  <2>9. runtimes'[cur'].term # 0 => ~terms'[runtimes'[cur'].term].live
    <3>1. runtimes[cur].term # 0 => runtimes[cur].term \in DOMAIN terms /\ ~terms[runtimes[cur].term].live
      BY <2>2, <2>7 DEF Attending, Housed, BoundLive
    <3> QED BY <2>1, <2>5, <2>6, <3>1 DEF TermsKept
  <2>10. ASSUME faults'.death = 0
         PROVE  terms'[fresh'].live
    <3>1. faults.death = 0 /\ terms[fresh].live
      BY <2>7, <2>10
    <3>2. ~PrepareRestart /\ ~CleanupRun /\ ~CheckpointNodeRuntime /\ ~Act("finalize") /\ ~SendFails
      BY <2>1 DEF PrepareRestart, CleanupRun, CheckpointNodeRuntime, SendFails, Launching, Act
    <3>3. ~BindFails
      BY <2>c DEF BindFails, Failed, Phase
    <3>4. ~TerminalDies
      BY <2>10, <3>1 DEF TerminalDies, Spend, Attending, TInv, TypeOK, FaultTypeOK, FaultKinds
    <3> QED BY <2>1, <2>6, <2>7, <3>1, <3>2, <3>3, <3>4 DEF TermsKept, Closers
  <2>11. ASSUME RecoverByTitle, NEW t \in DOMAIN terms', terms'[t].live, terms'[t].node = cur'
         PROVE  t = fresh'
    <3>1. t \in Recoverable
      BY <1>2, <2>1, <2>6, <2>11 DEF TermsKept, Recoverable
    <3> QED BY <2>1, <2>7, <2>11, <3>1
  <2> QED BY <2>8, <2>9, <2>10, <2>11
<1> QED BY <1>1, <1>2

\* Between the restart of a ticket and its first node.
LEMMA RestartMoves ==
    ASSUME Attending, [Next]_vars, Shown', IsRestart,
           pc = "mailboxes" \/ (pc = "prepare" /\ ~Settled)
    PROVE  \/ pc' = "mailboxes" \/ (pc' = "prepare" /\ ~Settled')
           \/ PrepareRestart
<1>c. ~CancelSeen
  BY ShownUncanceled DEF Attending
<1>1. CASE Waits
  BY <1>1 DEF Waits
<1>2. ~Leaves
  BY DEF Leaves, Shown
<1>3. CASE pc = "mailboxes" /\ (Continue \/ Passes)
  <2>1. Continue => pc' = "prepare" /\ phase' = "call"
    BY <1>c, <1>3 DEF Continue, After, Goto, Begin
  <2> QED BY <1>3, <2>1 DEF Passes, Settled
<1>4. CASE pc = "prepare" /\ Works
  BY <1>4, WorksAt DEF Attending
<1> QED BY <1>1, <1>2, <1>3, <1>4 DEF Attending, Goes

LEMMA LiveStays ==
    ASSUME Attending, [Next]_vars, Shown', Mild',
           faults'.death = 0 => faults.death = 0
    PROVE  LivePrompted'
<1> SUFFICES ASSUME RecoverByTitle, NEW t \in DOMAIN terms', terms'[t].live,
                    ~(/\ pc' \in LaunchPcs /\ ~Settled' /\ terms'[t].node = cur'
                      /\ terms'[t].visit = visit'),
                    ~(IsRestart /\ (pc' = "mailboxes" \/ (pc' = "prepare" /\ ~Settled')))
             PROVE  runtimes'[terms'[t].node].term = t
  BY DEF LivePrompted, Bound, Stray, Prompted
<1>c. ~CancelSeen
  BY ShownUncanceled DEF Attending
<1>k. TermsKept
  BY ShownTends DEF Attending
<1>1. CASE t \notin DOMAIN terms
  <2>1. EnsureTerminal
    BY <1>1, <1>k DEF TermsKept
  <2>2. /\ pc' \in LaunchPcs /\ phase' = "bind" /\ UNCHANGED <<cur, visit>>
        /\ terms'[t].node = cur /\ terms'[t].visit = visit
    BY <1>1, <2>1, EnsureHolds, EnsurePrompts DEF Attending
  <2> QED BY <2>2 DEF Settled
<1>2. CASE t \in DOMAIN terms
  <2>1. /\ terms[t].live /\ terms'[t].node = terms[t].node /\ terms[t].node \in Nodes
        /\ terms'[t].visit \in {terms[t].visit, visit} /\ t # 0
    BY <1>2, <1>k DEF TermsKept, Attending, TInv, TypeOK, TermTypeOK
  <2>2. Bound(t) \/ Stray(t)
    BY <1>2, <2>1 DEF Attending, LivePrompted
  \* a handle that is stored stays stored
  <2>3. CASE Bound(t)
    <3>1. CASE BindTerminal
      <4>1. terms[t].node # cur
        BY <2>1, <2>3, <3>1, BindStores DEF Attending, FreshPrompted, BoundLive, Bound
      <4> QED BY <2>1, <2>3, <3>1, <4>1, BindStores DEF Bound
    <3>2. ASSUME NEW S \in SUBSET Nodes, NEW keep, Reclaim(S, keep)
          PROVE  runtimes'[terms'[t].node].term = t
      <4>1. CASE UNCHANGED <<terms, projVars>>
        BY <2>3, <4>1 DEF Bound, projVars
      <4>2. CASE /\ terms' = Closed({runtimes[n].term : n \in S})
                 /\ ClearNodeRuntime(S, TRUE)
        <5>1. t \notin {runtimes[n].term : n \in S}
          BY <1>2, <4>2, ClosedStates DEF Attending
        <5>2. terms[t].node \notin S
          BY <2>3, <5>1 DEF Bound
        <5> QED BY <2>1, <2>3, <4>2, <5>2 DEF ClearNodeRuntime, Bound
      <4> QED BY <3>2, <4>1, <4>2 DEF Reclaim
    <3>3. CASE CheckpointNodeRuntime
      <4>1. {cur} \in SUBSET Nodes /\ Reclaim({cur}, KeepTerminals)
        BY <3>3 DEF CheckpointNodeRuntime, Act, Attending, TInv, Located, NodePcs
      <4> QED BY <3>2, <4>1
    <3>4. CASE FinalizeNodeRuntimes
      BY <3>2, <3>4 DEF FinalizeNodeRuntimes
    <3> QED BY <2>1, <2>3, <3>1, <3>3, <3>4, TermsMove DEF Bound, Attending
  \* what was left for a launch is found by it, and stored
  <2>4. CASE ~Bound(t) /\ pc \in LaunchPcs /\ ~Settled /\ terms[t].node = cur /\ Prompted(t)
    <3>1. ~BoundLive(cur)
      <4>1. SUFFICES ASSUME BoundLive(cur) PROVE Bound(t)
        BY <2>4
      <4>2. /\ runtimes[cur].term \in DOMAIN terms /\ terms[runtimes[cur].term].live
            /\ terms[runtimes[cur].term].node = cur
        BY <2>1, <2>4, <4>1 DEF BoundLive, Attending, Housed
      <4> QED BY <1>2, <2>1, <2>4, <4>2 DEF Attending, OneAgentPerNode, Bound
    <3>2. ~Waits
      BY <2>1, <2>4 DEF Waits, Prompted
    <3>3. ~Leaves
      <4>1. pc # "wait" /\ ~(pc' = "done" /\ inst' # "active")
        BY <2>4 DEF Shown
      <4>2. ~(pc = "reconcile" /\ faults'.db # 0)
        BY <3>1 DEF Mild, Attending, BoundPrompted, Since, Bounded
      <4> QED BY <4>1, <4>2 DEF Leaves
    <3>4. ReuseTerminal \/ BindTerminal
      BY <2>4, <3>2, <3>3, WorksAt DEF Attending, Goes
    <3>5. BindTerminal
      BY <3>1, <3>4 DEF ReuseTerminal
    <3>6. t = fresh
      BY <1>2, <2>1, <2>4, <3>5, BindStores DEF Attending, FreshPrompted, Recoverable
    <3> QED BY <2>1, <2>4, <3>5, <3>6, BindStores
  \* a restart closes what the attempt before it has left
  <2>5. CASE IsRestart /\ (pc = "mailboxes" \/ (pc = "prepare" /\ ~Settled))
    <3>1. PrepareRestart
      BY <2>5, RestartMoves
    <3>2. t \notin DOMAIN terms
      BY <1>2, <3>1, ClosedStates DEF PrepareRestart, Attending
    <3> QED BY <1>2, <3>2
  <2> QED BY <2>2, <2>3, <2>4, <2>5 DEF Stray
<1> QED BY <1>1, <1>2

LEMMA NextAttended ==
    ASSUME TInv, Ordered, CancellationStaged, Begun, Housed, Shows, Loading, Attended, Mild',
           RecoverByTitle => OneAgentPerNode,
           faults'.death = 0 => faults.death = 0, [Next]_vars
    PROVE  Attended'
<1> SUFFICES ASSUME Shown', execs' <= 1
             PROVE  BoundPrompted' /\ FreshPrompted' /\ LivePrompted'
  BY DEF Attended
<1>1. CASE Shown /\ Goes /\ execs' = execs
  <2>1. Attending
    BY <1>1 DEF Attending, Attended
  <2> QED BY <2>1, BoundStays, FreshStays, LiveStays
<1>2. CASE PollCreates /\ inst # "active"
  <2>1. pc' = "mailboxes" /\ phase' = "call" /\ execs' = execs + 1 /\ UNCHANGED terms
    BY <1>2 DEF PollCreates, PollFrame, Begin, extVars
  <2>2. ~IsRestart => DOMAIN terms = {}
    <3>1. execs = 0
      BY <2>1 DEF TInv, TypeOK, ExecTypeOK
    <3> QED BY <3>1 DEF Begun
  <2>3. BoundPrompted' /\ FreshPrompted'
    BY <2>1 DEF BoundPrompted, FreshPrompted, Since, Bounded, Settled
  <2>4. LivePrompted'
    BY <2>1, <2>2 DEF LivePrompted, Stray
  <2> QED BY <2>3, <2>4
<1> QED BY <1>1, <1>2, ShownStep

LEMMA NextLaunchesOnceOnly ==
    TInv /\ (RecoverByTitle => OneAgentPerNode) /\ [Next]_vars => (RecoverByTitle => OneAgentPerNode)'
BY NextLaunchesOnce

(* What `run get` shows while a run waits is what the interpreter waits    *)
(* for: besides node and visit, the terminal bound to the node was         *)
(* prompted for that very visit, in the first execution of an attempt.     *)
(* The hypothesis excludes one disaster: a terminal dies, its replacement  *)
(* can be neither stored nor closed, and the retry of that launch cannot   *)
(* be recorded; the next visit of the node then finds that terminal by its *)
(* title and binds it, prompted though it was for the visit before.        *)
THEOREM PublishedNodeIsAwaited ==
    ASSUME \A s \in Scenarios : s.db = 0 \/ s.death = 0
    PROVE  Spec => []PublishedIsAwaited
<1> DEFINE Once == RecoverByTitle => OneAgentPerNode
           J    == Mild /\ Attended /\ Once
           K    == Begun /\ Shows /\ Aged /\ Loading
<1>1. Spec => []TInv
  BY TicketTyping DEF TInv
<1>2. Spec => []Housed
  BY AgentsHoused, PTL
<1>3. Spec => []K
  BY ShowsHold
<1>4. Init => J
  BY InitLaunchesOnce DEF Init, Mild, Attended, Shown, FaultKinds
<1>5. TInv /\ Walk /\ CancellationStaged /\ Housed /\ K /\ J /\ [Next]_vars => J'
  <2> SUFFICES ASSUME TInv, Walk, CancellationStaged, Housed, K, J, [Next]_vars
               PROVE  J'
    OBVIOUS
  <2>1. Mild' /\ (faults'.death = 0 => faults.death = 0)
    BY NextMild
  <2>2. Attended'
    BY <2>1, NextAttended DEF Walk
  <2>3. Once'
    BY NextLaunchesOnceOnly
  <2> QED BY <2>1, <2>2, <2>3
<1>6. K /\ J => PublishedIsAwaited
  BY DEF PublishedIsAwaited, Shows, Shown, Attended, BoundPrompted, Prompted, Since, Dated,
     Bounded, Awaiting
<1> HIDE DEF J, K
<1> QED BY <1>1, <1>2, <1>3, <1>4, <1>5, <1>6, CancellationHolds, WalkHolds, PTL DEF Spec
===============================================================================
