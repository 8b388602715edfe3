-------------------------- MODULE TemporalRun_proofs ---------------------------
(***************************************************************************)
(* One run attempt under the Temporal executor, for every workflow graph,  *)
(* policy and choice of faults: a report moves the run once, Temporal       *)
(* decides it once, and a cancellation leaves no agent at work.             *)
(*                                                                         *)
(* The invariant follows the interpreter's program counter: what the       *)
(* activities before it have done, and what the retry loop around it still *)
(* owes.  The last part of it is about a projection that was not lost and  *)
(* a worker that did not die (Undisturbed): otherwise terminals are hidden.*)
(***************************************************************************)
EXTENDS TemporalRun, SequenceTheorems, TLAPS

AtNode == {"loadRuntime", "publishVisit", "applyNode", "envNode", "launch", "publishNode",
           "waiting", "wait", "reconcile"}
Ending == {"applyEnd", "envEnd", "cleanup", "finalize", "completed"}

(* The effect of the activity is there, and only the loop's own writes are *)
(* left.                                                                   *)
Wrapped == {"clear", "unblock"}

(* One execution, and the interpreter runs as long as it is open. *)
OpenInv ==
    /\ execs \in {0, 1} /\ (status = "none" <=> execs = 0)
    /\ en.st = "create" => status = "none"
    /\ status = "running" <=> pc # "done"
    /\ phase = "bind" => pc \in LaunchPcs

(* Visits grow, and a node is entered before a report is taken there. *)
VisitInv ==
    /\ visit \in Nat /\ lastVisit = visit
    /\ status = "none" => taken = {}
    /\ \A t \in taken : t.id \in seen /\ t.visit \in Nat /\ t.visit <= visit
    /\ pc \in AtNode => \A t \in taken : t.visit < visit
    /\ ReportsConsumedOnce

(* The graph was carried out when its end is applied, and the projection   *)
(* says so after that.                                                     *)
Applied == <<"applyEnd", visit>> \in effects
EndInv ==
    /\ pc \in Ending \ {"applyEnd"} \/ (pc = "applyEnd" /\ phase \in Wrapped) => Applied
    /\ status = "completed" => Applied
    /\ status = "running" => mem.state \notin Terminal
    /\ en.st \in {"node", "state"} => en.snap.mem.state \notin Terminal
    /\ status = "none" => row.state \notin Terminal
    /\ row.state = "completed" => Applied /\ pc \in {"completed", "done"} \cup CancelPcs
    /\ row.state = "canceled" => status = "canceled" \/ pc = "cState"

(* While no row is lost and no worker dies, a run that was started has its *)
(* row, and no poll restores one.                                          *)
Undisturbed == faults.crash + faults.loss = 0
RowInv ==
    Undisturbed => /\ status # "none" \/ en.st = "create" => row.state # "absent"
                   /\ en.st \notin {"node", "state"}

(* ... every terminal at work is bound to a node of the run, or about to   *)
(* be, and none is at work past the cleanup of a cancellation.             *)
AtWork(t) == terms[t].live /\ terms[t].visit # 0
Bound(t)  == \E n \in Nodes : runtimes[n].term = t
Housed ==
    /\ \A n \in Nodes : runtimes[n].term \in {0} \cup DOMAIN terms
    /\ phase = "bind" => cur \in Nodes /\ fresh \in DOMAIN terms /\ ~BoundLive(cur)
Minded == \A t \in DOMAIN terms : AtWork(t) => Bound(t) \/ (phase = "bind" /\ t = fresh)
Cleaned ==
    \/ pc \in {"cComment", "cState"} \/ (pc = "cFinalize" /\ phase \in Wrapped)
    \/ status = "canceled"
Silent == \A t \in DOMAIN terms : ~AtWork(t)
AgentsInv == Undisturbed => Housed /\ Minded /\ (Cleaned => Silent)

(* The ticket was told. *)
ToldInv ==
    pc = "cState" \/ (pc = "cComment" /\ phase \in Wrapped) \/ status = "canceled"
       => <<"cComment", 0>> \in effects

USE DEF CancelPcs, PlainPcs, TaskPcs, LaunchPcs, Pcs, Phases,
        projVars, svcVars, sigVars, loopVars, workVars, memVars, extVars, callVars

-----------------------------------------------------------------------------
(* Types, variable group by variable group *)

(* The pcs inside a node visit, and those that carry out a report.         *)
NodePcs  == {"loadRuntime", "publishVisit", "applyNode", "envNode", "launch", "publishNode",
             "waiting", "wait", "reconcile", "record", "summary", "feedback", "complete",
             "checkpoint"}
TransPcs == {"record", "summary", "feedback", "complete", "checkpoint"}

Located ==
    /\ pc \in NodePcs  => cur \in Nodes
    /\ pc \in TransPcs => rep \in [id : ReportIds, next : Targets]

Statuses  == {"none", "running", "completed", "canceled"}
Terminals == [node : Nodes, live : BOOLEAN, visit : Nat]

SvcT  == status \in Statuses /\ execs \in 0..MaxExecs /\ cancelReq \in BOOLEAN
SigT  == sigs \in Seq(Signals) /\ reconcile \in BOOLEAN /\ said \in Errors
LoopT ==
    /\ ctxDone \in BOOLEAN /\ pc \in Pcs /\ phase \in Phases
    /\ tries \in BOOLEAN /\ blocked \in BOOLEAN
    /\ cur \in Nodes \cup {NoNode} /\ visit \in Nat /\ lastVisit \in Nat
WorkT ==
    /\ rep \in [id : ReportIds, next : Targets] \cup {NoReport}
    /\ loaded \in Nat /\ fresh \in Nat
MemT  == mem \in Rows /\ binds \in Runtimes /\ seen \subseteq ReportIds /\ taken \subseteq Taken
ExtT  ==
    /\ terms \in Seq(Terminals)
    /\ effects \subseteq (TaskPcs \cup {"prepare", "cComment"}) \X Nat
    /\ cancelText \in Errors
CallT ==
    /\ msg \in [ReportIds -> [st : {"unsent", "sending", "accepted", "duplicate", "rejected"},
                              node : Nodes \cup {NoNode}, next : Targets \cup {NoNode}]]
    /\ req \in [ReportIds -> [st : {"idle", "checked"}, visit : Nat]]
    /\ en \in [st : {"idle", "create", "node", "state", "check", "signal"},
               snap : Snapshots, term : Nat]
    /\ cx \in [Reasons -> {"idle", "mark", "signal", "cancel"}]
FaultT == faults \in [FaultKinds -> Nat]

(* A report under way names a node and a target. *)
Messaged ==
    /\ \A r \in ReportIds : msg[r].st # "unsent" => msg[r].node \in Nodes /\ msg[r].next \in Targets
    /\ \A r \in ReportIds : req[r].st = "checked" => msg[r].st = "sending"

TInv ==
    /\ ProjTypeOK /\ SvcT /\ SigT /\ LoopT /\ Located /\ WorkT /\ MemT /\ ExtT
    /\ CallT /\ Messaged /\ FaultT

LEMMA TypesHold == TInv => TypeOK
<1>1. ASSUME TInv PROVE {cancelReq, reconcile, ctxDone, tries, blocked} \subseteq BOOLEAN
  BY <1>1, Zenon DEF TInv, SvcT, SigT, LoopT
<1>2. ASSUME TInv PROVE {visit, lastVisit, loaded, fresh} \subseteq Nat
  BY <1>2, Zenon DEF TInv, LoopT, WorkT
<1> QED  BY <1>1, <1>2, Zenon DEF TypeOK, TInv, SvcT, SigT, LoopT, WorkT, MemT, ExtT, CallT, FaultT,
            Statuses, Terminals

LEMMA InitTypes == Init => TInv
<1> SUFFICES ASSUME Init PROVE TInv  OBVIOUS
<1>1. ProjTypeOK
  BY DEF Init, ProjInit, ProjTypeOK, Rows, Runtimes, States, Active, Terminal, Errors
<1>2. SvcT /\ LoopT /\ WorkT /\ FaultT
  <2>0. 0 \in 0..MaxExecs  BY FaultAssumption
  <2>1. SvcT    BY <2>0, Zenon DEF Init, SvcT, Statuses
  <2>2. LoopT   BY DEF Init, LoopT
  <2>3. WorkT   BY DEF Init, WorkT
  <2>4. FaultT  BY DEF Init, FaultT
  <2> QED  BY <2>1, <2>2, <2>3, <2>4
<1>3. NoRow \in Rows /\ NoBinds \in Runtimes
  BY DEF NoRow, NoBinds, Rows, Runtimes, States, Active, Terminal, Errors
<1>4. MemT /\ SigT
  <2>1. MemT  BY <1>3 DEF Init, MemT
  <2>2. <<>> \in Seq(Signals) /\ "none" \in Errors  BY DEF Errors
  <2>3. SigT  BY <2>2 DEF Init, SigT
  <2> QED  BY <2>1, <2>3
<1>5. ExtT
  <2>1. [node |-> StartTarget, live |-> TRUE, visit |-> 0] \in Terminals
    BY GraphAssumption DEF Terminals
  <2>2. terms \in Seq(Terminals)
    BY <2>1 DEF Init
  <2>3. effects = {} /\ cancelText = "none"  BY DEF Init
  <2> QED  BY <2>2, <2>3 DEF ExtT, Errors
<1>6. CallT
  BY <1>3 DEF Init, CallT, Unsent, IdleReq, IdlePoll, NoSnapshot, Snapshots
<1>7. Messaged /\ Located
  BY DEF Init, Messaged, Located, NodePcs, TransPcs, Unsent, IdleReq
<1> QED  BY <1>1, <1>2, <1>4, <1>5, <1>6, <1>7 DEF TInv

LEMMA AfterFacts ==
    ASSUME NEW p \in DOMAIN After
    PROVE  /\ p \in Pcs \ {"completed", "cState", "done", "wait", "envStart", "checkpoint"}
           /\ After[p] \in Pcs \ {"done"}
           /\ After[p] \in NodePcs => p \in NodePcs
           /\ After[p] \in TransPcs => p \in TransPcs
           /\ After[p] \in CancelPcs => p \in CancelPcs
           /\ p \in CancelPcs => After[p] \in CancelPcs
           /\ After[p] \in AtNode => p \in AtNode
           /\ After[p] \in Ending => p \in Ending /\ After[p] # "applyEnd"
           /\ After[p] = "cComment" => p = "cFinalize"
           /\ After[p] = "cState" => p = "cComment"
           /\ After[p] # "cFinalize"
BY DEF After, NodePcs, TransPcs, AtNode, Ending

LEMMA EnterType ==
    ASSUME LoopT, UNCHANGED ctxDone, NEW n \in Nodes, Enter(n)
    PROVE  LoopT' /\ Located'
<1>1. /\ pc' = "loadRuntime" /\ phase' = "call" /\ tries' = FALSE /\ blocked' = FALSE
      /\ cur' = n /\ visit' = lastVisit + 1 /\ lastVisit' = lastVisit + 1
  BY DEF Enter, Begin
<1>2. lastVisit + 1 \in Nat
  BY DEF LoopT
<1>3. pc' \in Pcs /\ phase' \in Phases
  BY <1>1
<1>4. LoopT'
  BY <1>1, <1>2, <1>3 DEF LoopT
<1> QED  BY <1>1, <1>4 DEF Located, NodePcs, TransPcs

LEMMA BeginType ==
    ASSUME LoopT, UNCHANGED ctxDone, NEW p \in Pcs, Begin(p), Placed
    PROVE  LoopT'
BY DEF LoopT, Begin, Placed

LEMMA PhaseType ==
    ASSUME LoopT, Located, UNCHANGED <<ctxDone, rep>>, NEW ph \in Phases, Phase(ph)
    PROVE  LoopT' /\ Located'
BY DEF LoopT, Located, Phase, Placed

LEMMA AdvanceType ==
    ASSUME LoopT, Located, UNCHANGED <<ctxDone, rep>>, Advance
    PROVE  LoopT' /\ Located'
<1>1. CASE pc \in DOMAIN After /\ Begin(After[pc]) /\ Placed
  <2>1. After[pc] \in Pcs /\ pc' = After[pc] /\ cur' = cur
    BY <1>1, AfterFacts DEF Begin, Placed
  <2>2. LoopT'
    BY <1>1, <2>1, BeginType
  <2> QED  BY <1>1, <2>1, <2>2, AfterFacts DEF Located
<1>2. CASE pc = "envStart" /\ Enter(StartTarget)
  BY <1>2, EnterType, GraphAssumption
<1>3. CASE pc = "checkpoint" /\ rep.next # EndNode /\ Enter(rep.next)
  <2>1. rep.next \in Nodes
    BY <1>3 DEF Located, TransPcs, Targets
  <2> QED  BY <1>3, <2>1, EnterType
<1>4. CASE pc = "checkpoint" /\ rep.next = EndNode /\ Begin("applyEnd") /\ Placed
  <2>1. LoopT' /\ pc' = "applyEnd"
    BY <1>4, BeginType DEF Begin
  <2> QED  BY <2>1 DEF Located, NodePcs, TransPcs
<1> QED  BY <1>1, <1>2, <1>3, <1>4 DEF Advance

-----------------------------------------------------------------------------
(* Types of what an activity and the loop around it write *)

StepT == LoopT /\ Located /\ MemT /\ status \in Statuses

LEMMA MemAfterType ==
    ASSUME LoopT, NEW m \in Rows
    PROVE  MemAfter(m) \in Rows
<1>1. CASE pc = "publishNode"
  <2>1. MemAfter(m) = [m EXCEPT !.state = "running", !.node = cur, !.visit = visit]
    BY <1>1 DEF MemAfter
  <2> QED  BY <2>1 DEF LoopT, Rows, States, Active
<1>2. CASE pc = "waiting"
  <2>1. MemAfter(m) = [m EXCEPT !.state = "waiting"]  BY <1>2 DEF MemAfter
  <2> QED  BY <2>1 DEF Rows, States, Active
<1>3. CASE pc = "completed"
  <2>1. MemAfter(m) = [m EXCEPT !.state = "completed"]  BY <1>3 DEF MemAfter
  <2> QED  BY <2>1 DEF Rows, States, Terminal
<1>4. CASE pc = "cState"
  <2>1. MemAfter(m) = [m EXCEPT !.state = "canceled"]  BY <1>4 DEF MemAfter
  <2> QED  BY <2>1 DEF Rows, States, Terminal
<1>5. CASE pc \notin {"publishNode", "waiting", "completed", "cState"}
  BY <1>5 DEF MemAfter
<1> QED  BY <1>1, <1>2, <1>3, <1>4, <1>5

LEMMA DroppedType ==
    ASSUME binds \in Runtimes, NEW ns
    PROVE  Dropped(ns) \in Runtimes
BY DEF Dropped, Runtimes

LEMMA BindsAfterType ==
    ASSUME LoopT, binds \in Runtimes, fresh' \in Nat
    PROVE  BindsAfter \in Runtimes
<1>1. CASE pc \in LaunchPcs
  <2>1. BindsAfter = [binds EXCEPT ![cur] = [visit |-> visit, term |-> fresh']]
    BY <1>1 DEF BindsAfter
  <2> QED  BY <2>1 DEF LoopT, Runtimes
<1>2. CASE pc \notin LaunchPcs
  <2>1. BindsAfter \in {Dropped({cur}), Dropped(Nodes), binds}
    BY <1>2 DEF BindsAfter
  <2> QED  BY <2>1, DroppedType
<1> QED  BY <1>1, <1>2

LEMMA CanceledType ==
    ASSUME LoopT, said \in Errors, status \in Statuses, UNCHANGED <<ctxDone, rep>>,
           NEW m \in Rows, Canceled(m)
    PROVE  LoopT' /\ Located' /\ mem' \in Rows /\ status' \in Statuses
<1>1. LoopT' /\ pc' = "cFinalize"
  BY BeginType DEF Canceled, Begin
<1>2. mem' \in Rows
  BY DEF Canceled, Rows, States
<1>3. Located'
  BY <1>1 DEF Located, NodePcs, TransPcs
<1> QED  BY <1>1, <1>2, <1>3 DEF Canceled

LEMMA ProceedType ==
    ASSUME StepT, said \in Errors, fresh' \in Nat, UNCHANGED <<ctxDone, rep>>,
           NEW m \in Rows, Proceed(m)
    PROVE  StepT'
<1> USE DEF StepT
<1>1. MemAfter(m) \in Rows
  BY MemAfterType
<1>2. binds' \in Runtimes /\ seen' \subseteq ReportIds /\ taken' \subseteq Taken
  BY BindsAfterType DEF Proceed, MemT
<1>3. CASE /\ pc \in {"completed", "cState"}
           /\ status' = IF pc = "cState" THEN "canceled" ELSE "completed"
           /\ mem' = MemAfter(m) /\ Begin("done") /\ Placed
  <2>1. LoopT' /\ pc' = "done"
    BY <1>3, BeginType DEF Begin
  <2>2. status' \in Statuses
    BY <1>3 DEF Statuses
  <2> QED  BY <1>1, <1>2, <1>3, <2>1, <2>2 DEF MemT, Located, NodePcs, TransPcs
<1>4. CASE CancelSeen /\ pc # "completed" /\ Canceled(MemAfter(m))
  BY <1>1, <1>2, <1>4, CanceledType DEF MemT
<1>5. CASE ~CancelSeen /\ Advance /\ mem' = MemAfter(m) /\ UNCHANGED status
  BY <1>1, <1>2, <1>5, AdvanceType DEF MemT
<1> QED  BY <1>3, <1>4, <1>5 DEF Proceed

LEMMA GiveUpType ==
    ASSUME StepT, said \in Errors, UNCHANGED <<ctxDone, rep>>, GiveUp
    PROVE  StepT'
<1>1. mem \in Rows
  BY DEF StepT, MemT
<1>2. LoopT' /\ Located' /\ mem' \in Rows /\ status' \in Statuses
  BY <1>1, CanceledType DEF GiveUp, StepT
<1> QED  BY <1>2 DEF GiveUp, StepT, MemT

LEMMA RetryingType ==
    ASSUME NEW m \in Rows
    PROVE  Retrying(m) \in Rows
BY DEF Retrying, Rows, Errors

LEMMA PhaseKept ==
    ASSUME StepT, UNCHANGED <<ctxDone, rep, status, binds, seen, taken>>, mem' \in Rows,
           NEW ph \in Phases, Phase(ph)
    PROVE  StepT'
<1>1. LoopT' /\ Located'
  BY PhaseType DEF StepT
<1> QED  BY <1>1 DEF StepT, MemT

LEMMA RecordedType ==
    ASSUME StepT, said \in Errors, fresh' \in Nat, UNCHANGED <<ctxDone, rep>>, Recorded
    PROVE  StepT'
<1>1. mem \in Rows
  BY DEF StepT, MemT
<1>2. CASE Proceed(mem)  BY <1>1, <1>2, ProceedType
<1>3. CASE GiveUp        BY <1>3, GiveUpType
<1>4. CASE Phase("clear") /\ UNCHANGED <<memVars, status>>
  BY <1>1, <1>4, PhaseKept
<1> QED  BY <1>2, <1>3, <1>4 DEF Recorded

LEMMA FailedType ==
    ASSUME StepT, said \in Errors, UNCHANGED <<ctxDone, rep>>, Failed(mem)
    PROVE  StepT'
<1>1. mem \in Rows
  BY DEF StepT, MemT
<1>2. CASE GiveUp        BY <1>2, GiveUpType
<1>3. CASE Phase("note") /\ mem' = Retrying(mem) /\ UNCHANGED <<binds, seen, taken, status>>
  BY <1>1, <1>3, PhaseKept, RetryingType
<1> QED  BY <1>2, <1>3 DEF Failed

LEMMA SpendType ==
    ASSUME FaultT, NEW k \in FaultKinds, Spend(k)
    PROVE  FaultT'
BY DEF FaultT, Spend

LEMMA DoneType ==
    ASSUME StepT, FaultT, said \in Errors, fresh' \in Nat, UNCHANGED <<ctxDone, rep>>, Done
    PROVE  StepT' /\ FaultT'
<1>1. CASE Recorded /\ UNCHANGED faults
  BY <1>1, RecordedType DEF FaultT
<1>2. CASE Spend("fail") /\ Failed(mem)
  BY <1>2, FailedType, SpendType DEF FaultKinds
<1> QED  BY <1>1, <1>2 DEF Done

LEMMA FrameAct ==
    ASSUME TInv, ActFrame, StepT', FaultT', ProjTypeOK', WorkT', ExtT'
    PROVE  TInv'
<1>1. UNCHANGED <<execs, cancelReq, sigs, reconcile, said, msg, req, en, cx>>
  BY DEF ActFrame
<1>2. CallT' /\ Messaged'
  BY <1>1 DEF TInv, CallT, Messaged
<1>3. SigT' /\ execs' \in 0..MaxExecs /\ cancelReq' \in BOOLEAN
  BY <1>1, Zenon DEF TInv, SigT, SvcT
<1> QED  BY <1>2, <1>3, Zenon DEF TInv, SvcT, StepT

LEMMA UpdateStateType ==
    ASSUME row \in Rows, NEW s \in States, NEW e \in Errors, UpdateState(s, e)
    PROVE  row' \in Rows
BY DEF UpdateState, Written, Rows

LEMMA UpdateRetryType ==
    ASSUME row \in Rows, NEW b \in BOOLEAN, UpdateRetry(b)
    PROVE  row' \in Rows
BY DEF UpdateRetry, Rows

LEMMA UpdateNodeType ==
    ASSUME row \in Rows, runtimes \in Runtimes,
           NEW n \in Nodes, NEW v \in Nat, UpdateNode("running", n, v)
    PROVE  row' \in Rows /\ runtimes' \in Runtimes
<1>1. CASE row.state \in Active
  <2>1. row' = [row EXCEPT !.state = "running", !.node = n, !.visit = v]
    BY <1>1 DEF UpdateNode
  <2>2. row' \in Rows
    BY <2>1 DEF Rows, States, Active
  <2>3. runtimes' \in Runtimes
    BY <1>1 DEF UpdateNode, Runtimes
  <2> QED  BY <2>2, <2>3
<1>2. CASE row.state \notin Active
  BY <1>2 DEF UpdateNode
<1> QED  BY <1>1, <1>2

LEMMA TermFacts ==
    ASSUME terms \in Seq(Terminals)
    PROVE  /\ Len(terms) \in Nat /\ DOMAIN terms = 1..Len(terms)
           /\ \A t \in DOMAIN terms : terms[t] \in Terminals
           /\ \A t \in DOMAIN terms : terms[t].node \in Nodes /\ terms[t].visit \in Nat
                                      /\ terms[t].live \in BOOLEAN
<1>1. /\ Len(terms) \in Nat /\ DOMAIN terms = 1..Len(terms)
      /\ terms \in [1..Len(terms) -> Terminals]
  BY LenProperties
<1> QED  BY <1>1 DEF Terminals

LEMMA ClosedType ==
    ASSUME terms \in Seq(Terminals), NEW S
    PROVE  Closed(S) \in Seq(Terminals)
<1> DEFINE one(t) == IF t \in S THEN [terms[t] EXCEPT !.live = FALSE] ELSE terms[t]
<1>1. /\ Len(terms) \in Nat /\ DOMAIN terms = 1..Len(terms)
      /\ terms \in [1..Len(terms) -> Terminals]
  BY LenProperties
<1>2. \A t \in 1..Len(terms) : one(t) \in Terminals
  BY <1>1 DEF Terminals
<1>3. [t \in 1..Len(terms) |-> one(t)] \in [1..Len(terms) -> Terminals]
  BY <1>2
<1>4. [t \in 1..Len(terms) |-> one(t)] \in Seq(Terminals)
  BY <1>1, <1>3, SeqDef
<1> QED  BY <1>1, <1>4 DEF Closed

LEMMA ReclaimType ==
    ASSUME terms \in Seq(Terminals), runtimes \in Runtimes, NEW ns, NEW keep, Reclaim(ns, keep)
    PROVE  terms' \in Seq(Terminals) /\ runtimes' \in Runtimes
<1>1. terms' \in Seq(Terminals)
  BY ClosedType DEF Reclaim
<1>2. runtimes' \in Runtimes
  BY DEF Reclaim, ClearNodeRuntime, Runtimes
<1> QED  BY <1>1, <1>2

-----------------------------------------------------------------------------
(* Every activity keeps TInv *)

LEMMA Opened ==
    ASSUME TInv
    PROVE  /\ StepT /\ said \in Errors /\ row \in Rows /\ runtimes \in Runtimes
           /\ processed \subseteq ReportIds /\ terms \in Seq(Terminals)
           /\ fresh \in Nat /\ loaded \in Nat /\ visit \in Nat
BY DEF TInv, StepT, SvcT, SigT, ProjTypeOK, ExtT, WorkT, LoopT

LEMMA EffectsType ==
    ASSUME ExtT, NEW p \in TaskPcs \cup {"prepare", "cComment"}, NEW v \in Nat,
           effects' = effects \cup {<<p, v>>}
    PROVE  effects' \subseteq (TaskPcs \cup {"prepare", "cComment"}) \X Nat
BY DEF ExtT

LEMMA PlainType == ASSUME TInv, PlainActivity PROVE TInv'
<1>1. StepT'
  BY Opened, RecordedType DEF PlainActivity, ActFrame
<1>2. FaultT' /\ ProjTypeOK' /\ WorkT' /\ ExtT'
  BY DEF PlainActivity, TInv, FaultT, ProjTypeOK, WorkT, ExtT
<1> QED  BY <1>1, <1>2, FrameAct DEF PlainActivity

LEMMA TaskType == ASSUME TInv, TaskActivity PROVE TInv'
<1>1. StepT' /\ FaultT'
  BY Opened, DoneType DEF TaskActivity, ActFrame, TInv
<1>2. PICK p \in TaskPcs : effects' = effects \cup {<<p, visit>>}
  BY DEF TaskActivity
<1>3. effects' \subseteq (TaskPcs \cup {"prepare", "cComment"}) \X Nat
  BY <1>2, Opened, EffectsType DEF TInv
<1>4. ProjTypeOK' /\ WorkT' /\ ExtT'
  BY <1>3 DEF TaskActivity, TInv, ProjTypeOK, WorkT, ExtT
<1> QED  BY <1>1, <1>4, FrameAct DEF TaskActivity

LEMMA PrepareType == ASSUME TInv, PrepareRestart PROVE TInv'
<1>1. StepT' /\ FaultT'
  BY Opened, DoneType DEF PrepareRestart, ActFrame, TInv
<1>2. terms' \in Seq(Terminals)
  BY Opened, ClosedType DEF PrepareRestart
<1>3. effects' \subseteq (TaskPcs \cup {"prepare", "cComment"}) \X Nat
  BY Opened, EffectsType DEF TInv, PrepareRestart
<1>4. ProjTypeOK' /\ WorkT' /\ ExtT'
  BY <1>2, <1>3 DEF PrepareRestart, TInv, ProjTypeOK, WorkT, ExtT
<1> QED  BY <1>1, <1>4, FrameAct DEF PrepareRestart

LEMMA LoadType == ASSUME TInv, LoadNodeRuntime PROVE TInv'
<1>1. StepT'
  BY Opened, RecordedType DEF LoadNodeRuntime, ActFrame
<1>2. cur \in Nodes
  BY DEF LoadNodeRuntime, Act, TInv, Located, NodePcs
<1>3. loaded' \in Nat
  BY <1>2, Opened DEF LoadNodeRuntime, Runtimes
<1>4. FaultT' /\ ProjTypeOK' /\ WorkT' /\ ExtT'
  BY <1>3 DEF LoadNodeRuntime, TInv, FaultT, ProjTypeOK, WorkT, ExtT
<1> QED  BY <1>1, <1>4, FrameAct DEF LoadNodeRuntime

LEMMA ProjectionType == ASSUME TInv, ProjectionActivity PROVE TInv'
<1>1. StepT' /\ FaultT'
  BY Opened, DoneType DEF ProjectionActivity, ActFrame, TInv
<1>2. pc \in NodePcs => cur \in Nodes
  BY DEF TInv, Located
<1>3. ProjTypeOK'
  <2>1. CASE Act("publishVisit") /\ UpdateNodeRuntimeVisit(cur, visit) /\ UNCHANGED <<row, processed>>
    <3>1. runtimes' \in Runtimes
      BY <2>1, Opened DEF UpdateNodeRuntimeVisit, Runtimes
    <3> QED  BY <2>1, <3>1, Opened DEF ProjTypeOK
  <2>2. CASE Act("publishNode") /\ UpdateNode("running", cur, visit) /\ UNCHANGED processed
    <3>1. cur \in Nodes
      BY <1>2, <2>2 DEF Act, NodePcs
    <3>2. row' \in Rows /\ runtimes' \in Runtimes
      BY <2>2, <3>1, Opened, UpdateNodeType
    <3> QED  BY <2>2, <3>2, Opened DEF ProjTypeOK
  <2>3. CASE UpdateState("waiting", "none") /\ UNCHANGED <<runtimes, processed>>
    <3>1. row' \in Rows
      BY <2>3, Opened, UpdateStateType DEF States, Active, Errors
    <3> QED  BY <2>3, <3>1, Opened DEF ProjTypeOK
  <2>4. CASE Act("record") /\ RecordProcessedReport(rep.id) /\ UNCHANGED <<row, runtimes>>
    <3>1. rep.id \in ReportIds
      BY <2>4 DEF Act, TInv, Located, TransPcs
    <3> QED  BY <2>4, <3>1, Opened DEF ProjTypeOK, RecordProcessedReport
  <2>5. CASE UpdateState("completed", "none") /\ UNCHANGED <<runtimes, processed>>
    <3>1. row' \in Rows
      BY <2>5, Opened, UpdateStateType DEF States, Terminal, Errors
    <3> QED  BY <2>5, <3>1, Opened DEF ProjTypeOK
  <2>6. CASE UpdateState("canceled", "none") /\ UNCHANGED <<runtimes, processed>>
    <3>1. row' \in Rows
      BY <2>6, Opened, UpdateStateType DEF States, Terminal, Errors
    <3> QED  BY <2>6, <3>1, Opened DEF ProjTypeOK
  <2> QED  BY <2>1, <2>2, <2>3, <2>4, <2>5, <2>6 DEF ProjectionActivity
<1>4. WorkT' /\ ExtT'
  BY DEF ProjectionActivity, TInv, WorkT, ExtT
<1> QED  BY <1>1, <1>3, <1>4, FrameAct DEF ProjectionActivity

LEMMA ReclaimActType == ASSUME TInv, ReclaimActivity PROVE TInv'
<1>1. StepT' /\ FaultT'
  BY Opened, DoneType DEF ReclaimActivity, ActFrame, TInv
<1>2. terms' \in Seq(Terminals) /\ runtimes' \in Runtimes
  BY Opened, ReclaimType DEF ReclaimActivity
<1>3. ProjTypeOK' /\ WorkT' /\ ExtT'
  BY <1>2 DEF ReclaimActivity, TInv, ProjTypeOK, WorkT, ExtT
<1> QED  BY <1>1, <1>3, FrameAct DEF ReclaimActivity

LEMMA CleanupType == ASSUME TInv, CleanupRun PROVE TInv'
<1>1. StepT' /\ FaultT'
  BY Opened, DoneType DEF CleanupRun, ActFrame, TInv
<1>2. terms' \in Seq(Terminals)
  BY Opened, ClosedType DEF CleanupRun
<1>3. ProjTypeOK' /\ WorkT' /\ ExtT'
  BY <1>2 DEF CleanupRun, TInv, ProjTypeOK, WorkT, ExtT
<1> QED  BY <1>1, <1>3, FrameAct DEF CleanupRun

LEMMA CommentType == ASSUME TInv, CommentCancellation PROVE TInv'
<1>1. StepT' /\ FaultT'
  BY Opened, DoneType DEF CommentCancellation, ActFrame, TInv
<1>2. effects' \subseteq (TaskPcs \cup {"prepare", "cComment"}) \X Nat
  BY EffectsType DEF TInv, CommentCancellation
<1>3. cancelText' \in Errors
  BY Opened DEF TInv, ExtT, CommentCancellation
<1>4. ProjTypeOK' /\ WorkT' /\ ExtT'
  BY <1>2, <1>3 DEF CommentCancellation, TInv, ProjTypeOK, WorkT, ExtT
<1> QED  BY <1>1, <1>4, FrameAct DEF CommentCancellation

LEMMA LaunchingFacts ==
    ASSUME TInv, Launching
    PROVE  cur \in Nodes /\ pc \in LaunchPcs /\ phase = "call" /\ Running
           /\ runtimes[cur].term \in Nat
<1>1. pc \in LaunchPcs /\ phase = "call" /\ Running
  BY DEF Launching, Act
<1>2. cur \in Nodes
  BY <1>1 DEF TInv, Located, NodePcs
<1> QED  BY <1>1, <1>2, Opened DEF Runtimes

LEMMA VisitedType ==
    ASSUME terms \in Seq(Terminals), NEW t, NEW v \in Nat
    PROVE  /\ [terms EXCEPT ![t].visit = v] \in Seq(Terminals)
           /\ DOMAIN [terms EXCEPT ![t].visit = v] = DOMAIN terms
<1>1. /\ Len(terms) \in Nat /\ DOMAIN terms = 1..Len(terms)
      /\ terms \in [1..Len(terms) -> Terminals]
  BY LenProperties
<1>2. [terms EXCEPT ![t].visit = v] \in [1..Len(terms) -> Terminals]
  BY <1>1 DEF Terminals
<1> QED  BY <1>1, <1>2, SeqDef

LEMMA ReuseType == ASSUME TInv, ReuseTerminal PROVE TInv'
<1>1. fresh' \in Nat
  BY LaunchingFacts DEF ReuseTerminal
<1>2. StepT' /\ FaultT'
  BY <1>1, Opened, DoneType DEF ReuseTerminal, ActFrame, TInv
<1>3. terms' \in Seq(Terminals)
  BY Opened, VisitedType DEF ReuseTerminal
<1>4. ProjTypeOK' /\ WorkT' /\ ExtT'
  BY <1>1, <1>3 DEF ReuseTerminal, TInv, ProjTypeOK, WorkT, ExtT
<1> QED  BY <1>2, <1>4, FrameAct DEF ReuseTerminal

LEMMA EnsureType == ASSUME TInv, EnsureTerminal PROVE TInv'
<1>1. mem \in Rows
  BY Opened DEF StepT, MemT
<1>2. StepT'
  BY <1>1, Opened, PhaseKept DEF EnsureTerminal, ActFrame
<1>3. terms' \in Seq(Terminals) /\ fresh' \in Nat
  <2>1. Len(terms) \in Nat /\ DOMAIN terms = 1..Len(terms)
    BY Opened, TermFacts
  <2>2. CASE fresh' \in Recoverable /\ UNCHANGED terms
    BY <2>1, <2>2, Opened DEF Recoverable
  <2>3. CASE /\ terms' = Append(terms, [node |-> cur, live |-> TRUE, visit |-> visit])
             /\ fresh' = Len(terms) + 1
    <3>1. [node |-> cur, live |-> TRUE, visit |-> visit] \in Terminals
      BY LaunchingFacts, Opened DEF EnsureTerminal, Terminals
    <3> QED  BY <2>1, <2>3, <3>1, Opened, AppendProperties
  <2> QED  BY <2>2, <2>3 DEF EnsureTerminal
<1>4. FaultT' /\ ProjTypeOK' /\ WorkT' /\ ExtT'
  BY <1>3 DEF EnsureTerminal, TInv, FaultT, ProjTypeOK, WorkT, ExtT
<1> QED  BY <1>2, <1>4, FrameAct DEF EnsureTerminal

LEMMA StepTKept ==
    ASSUME StepT, UNCHANGED <<ctxDone, rep, pc, phase, tries, blocked, cur, visit, lastVisit>>,
           UNCHANGED <<status, mem, binds, seen, taken>>
    PROVE  StepT'
BY DEF StepT, LoopT, Located, MemT

LEMMA SendType == ASSUME TInv, SendFails PROVE TInv'
<1>1. StepT'
  BY Opened, StepTKept DEF SendFails, ActFrame
<1>2. FaultT'
  BY SpendType DEF SendFails, TInv, FaultKinds
<1>3. terms' \in Seq(Terminals)
  BY Opened, ClosedType DEF SendFails
<1>4. ProjTypeOK' /\ WorkT' /\ ExtT'
  BY <1>3 DEF SendFails, TInv, ProjTypeOK, WorkT, ExtT
<1> QED  BY <1>1, <1>2, <1>4, FrameAct DEF SendFails

LEMMA BindType == ASSUME TInv, BindTerminal PROVE TInv'
<1>1. StepT'
  BY Opened, RecordedType, FailedType DEF BindTerminal, ActFrame
<1>2. terms' \in Seq(Terminals)
  BY Opened, ClosedType DEF BindTerminal
<1>3. runtimes' \in Runtimes
  BY Opened DEF BindTerminal, ReplaceNodeRuntime, Runtimes
<1>4. FaultT' /\ ProjTypeOK' /\ WorkT' /\ ExtT'
  BY <1>2, <1>3 DEF BindTerminal, TInv, FaultT, ProjTypeOK, WorkT, ExtT
<1> QED  BY <1>1, <1>4, FrameAct DEF BindTerminal

LEMMA StaleType == ASSUME TInv, StaleLaunch PROVE TInv'
<1>1. StepT'
  BY Opened, FailedType DEF StaleLaunch, ActFrame
<1>2. FaultT' /\ ProjTypeOK' /\ WorkT' /\ ExtT'
  BY DEF StaleLaunch, TInv, FaultT, ProjTypeOK, WorkT, ExtT
<1> QED  BY <1>1, <1>2, FrameAct DEF StaleLaunch

LEMMA ActivityType == ASSUME TInv, Activity PROVE TInv'
BY PlainType, TaskType, PrepareType, LoadType, ProjectionType, ReclaimActType, CleanupType,
   CommentType, ReuseType, EnsureType, SendType, BindType, StaleType DEF Activity

LEMMA RetryLoopType == ASSUME TInv, RetryLoop PROVE TInv'
<1>0. mem \in Rows /\ StepT /\ row \in Rows /\ said \in Errors /\ fresh \in Nat
  BY Opened DEF StepT, MemT
<1>1. CASE ActivityFails
  <2>1. StepT'
    <3>1. CASE Failed(mem)
      BY <1>1, <3>1, Opened, FailedType DEF ActivityFails, LoopFrame, ActFrame
    <3>2. CASE /\ phase' = "block" /\ blocked' = TRUE /\ UNCHANGED <<pc, tries>> /\ Placed
               /\ mem' = [mem EXCEPT !.state = "blocked"]
               /\ UNCHANGED <<binds, seen, taken, status>>
      <4>1. mem' \in Rows
        BY <1>0, <3>2 DEF Rows, States, Active
      <4>2. LoopT' /\ Located'
        BY <1>0, <1>1, <3>2 DEF ActivityFails, LoopFrame, ActFrame, StepT, LoopT, Located, Placed
      <4> QED  BY <1>0, <3>2, <4>1, <4>2 DEF StepT, MemT
    <3> QED  BY <1>1, <3>1, <3>2 DEF ActivityFails
  <2>2. FaultT' /\ ProjTypeOK' /\ WorkT' /\ ExtT'
    BY <1>1, SpendType DEF ActivityFails, LoopFrame, TInv, FaultKinds, ProjTypeOK, WorkT, ExtT
  <2> QED  BY <1>1, <2>1, <2>2, FrameAct DEF ActivityFails, LoopFrame
<1>2. CASE MarkBlocked
  <2>1. StepT'
    BY <1>0, <1>2, RetryingType, PhaseKept DEF MarkBlocked, LoopFrame, ActFrame
  <2>2. row' \in Rows
    BY <1>0, <1>2, UpdateStateType DEF MarkBlocked, States, Active, Errors
  <2>3. FaultT' /\ ProjTypeOK' /\ WorkT' /\ ExtT'
    BY <1>2, <2>2 DEF MarkBlocked, LoopFrame, TInv, FaultT, ProjTypeOK, WorkT, ExtT
  <2> QED  BY <1>2, <2>1, <2>3, FrameAct DEF MarkBlocked, LoopFrame
<1>3. CASE NoteRetry
  <2>1. StepT'
    BY <1>0, <1>3, PhaseKept DEF NoteRetry, LoopFrame, ActFrame
  <2>2. row' \in Rows
    BY <1>0, <1>3, UpdateRetryType DEF NoteRetry
  <2>3. FaultT' /\ ProjTypeOK' /\ WorkT' /\ ExtT'
    BY <1>3, <2>2 DEF NoteRetry, LoopFrame, TInv, FaultT, ProjTypeOK, WorkT, ExtT
  <2> QED  BY <1>3, <2>1, <2>3, FrameAct DEF NoteRetry, LoopFrame
<1>4. CASE TimerFires
  <2>1. StepT'
    BY <1>0, <1>4 DEF TimerFires, LoopFrame, ActFrame, StepT, LoopT, Located, MemT, Placed
  <2>2. FaultT' /\ ProjTypeOK' /\ WorkT' /\ ExtT'
    BY <1>4 DEF TimerFires, LoopFrame, TInv, FaultT, ProjTypeOK, WorkT, ExtT
  <2> QED  BY <1>4, <2>1, <2>2, FrameAct DEF TimerFires, LoopFrame
<1>5. CASE ClearRetry
  <2> DEFINE m == [mem EXCEPT !.retry = FALSE, !.err = "none"]
  <2>0. m \in Rows
    BY <1>0 DEF Rows, Errors
  <2>1. StepT'
    <3>1. CASE Proceed(m)
      BY <1>0, <1>5, <2>0, <3>1, ProceedType DEF ClearRetry, ActFrame
    <3>2. CASE Phase("unblock") /\ mem' = m /\ UNCHANGED <<binds, seen, taken, status>>
      BY <1>0, <1>5, <2>0, <3>2, PhaseKept DEF ClearRetry, ActFrame
    <3> QED  BY <1>5, <3>1, <3>2 DEF ClearRetry
  <2>2. row' \in Rows
    BY <1>0, <1>5, UpdateRetryType DEF ClearRetry
  <2>3. FaultT' /\ ProjTypeOK' /\ WorkT' /\ ExtT'
    BY <1>5, <2>2 DEF ClearRetry, TInv, FaultT, ProjTypeOK, WorkT, ExtT
  <2> QED  BY <1>5, <2>1, <2>3, FrameAct DEF ClearRetry
<1>6. CASE Unblock
  <2>0. [mem EXCEPT !.state = "waiting"] \in Rows
    BY <1>0 DEF Rows, States, Active
  <2>1. StepT'
    BY <1>0, <1>6, <2>0, ProceedType DEF Unblock, ActFrame
  <2>2. row' \in Rows
    BY <1>0, <1>6, UpdateStateType DEF Unblock, States, Active, Errors
  <2>3. FaultT' /\ ProjTypeOK' /\ WorkT' /\ ExtT'
    BY <1>6, <2>2 DEF Unblock, TInv, FaultT, ProjTypeOK, WorkT, ExtT
  <2> QED  BY <1>6, <2>1, <2>3, FrameAct DEF Unblock
<1>7. CASE WriteFails
  <2>1. mem' \in Rows
    BY <1>0, <1>7, RetryingType DEF WriteFails
  <2>2. StepT'
    BY <1>0, <1>7, <2>1 DEF WriteFails, LoopFrame, StepT, LoopT, Located, MemT
  <2>3. FaultT' /\ ProjTypeOK' /\ WorkT' /\ ExtT'
    BY <1>7, SpendType DEF WriteFails, LoopFrame, TInv, FaultKinds, ProjTypeOK, WorkT, ExtT
  <2> QED  BY <1>7, <2>2, <2>3, FrameAct DEF WriteFails, LoopFrame
<1>8. CASE LoopCanceled
  <2>1. StepT'
    BY <1>0, <1>8, GiveUpType DEF LoopCanceled, LoopFrame, ActFrame
  <2>2. FaultT' /\ ProjTypeOK' /\ WorkT' /\ ExtT'
    BY <1>8 DEF LoopCanceled, LoopFrame, TInv, FaultT, ProjTypeOK, WorkT, ExtT
  <2> QED  BY <1>8, <2>1, <2>2, FrameAct DEF LoopCanceled, LoopFrame
<1> QED  BY <1>1, <1>2, <1>3, <1>4, <1>5, <1>6, <1>7, <1>8 DEF RetryLoop

-----------------------------------------------------------------------------
(* ... and so does everything around the interpreter *)

LEMMA TakeCancelType == ASSUME TInv, TakeCancel PROVE TInv'
<1>1. ctxDone' = TRUE
  BY DEF TakeCancel
<1>2. LoopT' /\ Located' /\ MemT' /\ status' \in Statuses
  <2>1. CASE GiveUp
    <3>1. LoopT' /\ pc' = "cFinalize"
      BY <1>1, <2>1 DEF GiveUp, Canceled, Begin, Placed, TInv, LoopT
    <3>2. mem' \in Rows
      BY <2>1 DEF GiveUp, Canceled, TInv, MemT, SigT, Rows, States
    <3> QED  BY <2>1, <3>1, <3>2 DEF GiveUp, Canceled, TInv, MemT, SvcT, Located, NodePcs, TransPcs
  <2>2. CASE UNCHANGED <<memVars, status, pc, phase, tries, blocked>> /\ Placed
    <3>1. LoopT'
      BY <1>1, <2>2 DEF Placed, TInv, LoopT
    <3> QED  BY <2>2, <3>1 DEF TakeCancel, Placed, TInv, MemT, SvcT, Located
  <2> QED  BY <2>1, <2>2 DEF TakeCancel
<1>3. execs' = execs /\ cancelReq' = cancelReq /\ UNCHANGED <<sigs, reconcile, said>>
  BY DEF TakeCancel, CallFrame
<1>4. SvcT' /\ SigT'
  BY <1>2, <1>3, Zenon DEF TInv, SvcT, SigT
<1>5. ProjTypeOK' /\ WorkT' /\ ExtT' /\ CallT' /\ Messaged' /\ FaultT'
  BY DEF TakeCancel, CallFrame, TInv, ProjTypeOK, WorkT, ExtT, CallT, Messaged, FaultT
<1> QED  BY <1>2, <1>4, <1>5 DEF TInv

LEMMA TakeReportType == ASSUME TInv, TakeReport PROVE TInv'
<1> DEFINE s == Head(sigs)
<1>1. s \in Signals /\ Tail(sigs) \in Seq(Signals)
  BY HeadTailProperties DEF TakeReport, TInv, SigT
<1>2. s.id \in ReportIds /\ s.next \in Targets /\ s.visit \in Nat
  BY <1>1 DEF Signals
<1>3. LoopT' /\ Located' /\ MemT' /\ WorkT'
  <2>1. CASE /\ Accepts(s)
             /\ rep' = [id |-> s.id, next |-> s.next]
             /\ seen' = seen \cup {s.id}
             /\ taken' = taken \cup {[id |-> s.id, visit |-> visit, next |-> s.next]}
             /\ Begin("record") /\ Placed
    <3>1. LoopT' /\ pc' = "record" /\ cur' = cur
      BY <2>1, BeginType DEF TakeReport, TInv, Begin, Placed
    <3>2. cur \in Nodes
      BY DEF TakeReport, Waiting, TInv, Located, NodePcs
    <3>3. rep' \in [id : ReportIds, next : Targets]
      BY <1>2, <2>1
    <3>4. MemT'
      BY <1>2, <2>1 DEF TakeReport, TInv, MemT, LoopT, Taken
    <3> QED  BY <3>1, <3>2, <3>3, <3>4 DEF TakeReport, TInv, Located, WorkT
  <2>2. CASE UNCHANGED <<rep, seen, taken, pc, phase, tries, blocked>> /\ Placed
    BY <2>2 DEF TakeReport, TInv, LoopT, Located, MemT, WorkT, Placed
  <2> QED  BY <2>1, <2>2 DEF TakeReport
<1>4. SvcT' /\ SigT'
  BY <1>1, Zenon DEF TakeReport, CallFrame, TInv, SvcT, SigT
<1>5. ProjTypeOK' /\ ExtT' /\ CallT' /\ Messaged' /\ FaultT'
  BY DEF TakeReport, CallFrame, TInv, ProjTypeOK, ExtT, CallT, Messaged, FaultT
<1> QED  BY <1>3, <1>4, <1>5 DEF TInv

LEMMA TakeReconcileType == ASSUME TInv, TakeReconcile PROVE TInv'
<1>1. LoopT' /\ pc' = "reconcile" /\ cur' = cur
  BY BeginType DEF TakeReconcile, TInv, Begin, Placed
<1>2. cur \in Nodes
  BY DEF TakeReconcile, Waiting, TInv, Located, NodePcs
<1>3. Located'
  BY <1>1, <1>2 DEF Located, TransPcs
<1>4. SvcT' /\ SigT'
  BY Zenon DEF TakeReconcile, CallFrame, TInv, SvcT, SigT
<1>5. MemT' /\ WorkT' /\ ProjTypeOK' /\ ExtT' /\ CallT' /\ Messaged' /\ FaultT'
  BY DEF TakeReconcile, CallFrame, TInv, MemT, WorkT, ProjTypeOK, ExtT, CallT, Messaged, FaultT
<1> QED  BY <1>1, <1>3, <1>4, <1>5 DEF TInv

(* What the calls leave alone. *)
InterpreterKept ==
    UNCHANGED <<loopVars, workVars, seen, taken, extVars>>

LEMMA InterpreterKeptType ==
    ASSUME TInv, InterpreterKept, mem' \in Rows, binds' \in Runtimes
    PROVE  LoopT' /\ Located' /\ WorkT' /\ MemT' /\ ExtT'
BY DEF TInv, InterpreterKept, LoopT, Located, WorkT, MemT, ExtT

LEMMA AnswerType ==
    ASSUME CallT, Messaged, NEW r \in ReportIds, msg[r].st = "sending", UNCHANGED <<en, cx>>,
           NEW st \in {"accepted", "duplicate", "rejected"}, Answer(r, st)
    PROVE  CallT' /\ Messaged'
<1>1. msg' = [msg EXCEPT ![r].st = st] /\ req' = [req EXCEPT ![r] = IdleReq]
  BY DEF Answer
<1>2. /\ msg \in [ReportIds -> [st : {"unsent", "sending", "accepted", "duplicate", "rejected"},
                                node : Nodes \cup {NoNode}, next : Targets \cup {NoNode}]]
      /\ req \in [ReportIds -> [st : {"idle", "checked"}, visit : Nat]]
  BY DEF CallT
<1>3. /\ msg' \in [ReportIds -> [st : {"unsent", "sending", "accepted", "duplicate", "rejected"},
                                 node : Nodes \cup {NoNode}, next : Targets \cup {NoNode}]]
      /\ msg'[r].node = msg[r].node /\ msg'[r].next = msg[r].next
      /\ \A q \in ReportIds \ {r} : msg'[q] = msg[q]
  BY <1>1, <1>2
<1>4. /\ req' \in [ReportIds -> [st : {"idle", "checked"}, visit : Nat]]
      /\ req'[r].st = "idle"
      /\ \A q \in ReportIds \ {r} : req'[q] = req[q]
  BY <1>1, <1>2 DEF IdleReq
<1>5. CallT'
  BY <1>3, <1>4 DEF CallT
<1>6. \A q \in ReportIds : msg'[q].st # "unsent" => msg'[q].node \in Nodes /\ msg'[q].next \in Targets
  BY <1>3 DEF Messaged
<1>7. \A q \in ReportIds : req'[q].st = "checked" => msg'[q].st = "sending"
  BY <1>3, <1>4 DEF Messaged
<1> QED  BY <1>5, <1>6, <1>7 DEF Messaged

LEMMA SubmitType ==
    ASSUME TInv, NEW r \in ReportIds, AgentReports(r) \/ Submit(r)
    PROVE  TInv'
<1>1. /\ UNCHANGED <<projVars, svcVars, reconcile, said, loopVars, workVars, memVars,
                     extVars, en, cx>>
      /\ FaultT'
  BY SpendType DEF AgentReports, Submit, CheckReport, SignalReport, SignalLost, ReqFrame, TInv,
                   FaultT, FaultKinds
<1>2. InterpreterKept /\ mem \in Rows /\ binds \in Runtimes
  BY <1>1 DEF InterpreterKept, TInv, MemT
<1>3. LoopT' /\ Located' /\ WorkT' /\ MemT' /\ ExtT' /\ ProjTypeOK' /\ SvcT'
  <2>1. SvcT' /\ ProjTypeOK'
    BY <1>1, Zenon DEF TInv, SvcT, ProjTypeOK
  <2> QED  BY <1>1, <1>2, <2>1, InterpreterKeptType
<1>4. CallT' /\ Messaged' /\ sigs' \in Seq(Signals)
  <2>0. CallT /\ Messaged /\ sigs \in Seq(Signals) /\ mem \in Rows
    BY DEF TInv, SigT, MemT
  <2>1. CASE AgentReports(r)
    <3>1. PICK t \in DOMAIN terms, next \in Targets :
             msg' = [msg EXCEPT ![r] = [st |-> "sending", node |-> terms[t].node, next |-> next]]
      BY <2>1 DEF AgentReports
    <3>2. terms[t].node \in Nodes
      BY Opened, TermFacts
    <3>3. sigs' = sigs /\ req' = req /\ req[r].st # "checked"
      BY <2>0, <2>1 DEF AgentReports, Messaged
    <3>4. CallT'
      BY <1>1, <2>0, <3>1, <3>2, <3>3 DEF CallT
    <3>5. Messaged'
      BY <2>0, <3>1, <3>2, <3>3 DEF CallT, Messaged
    <3> QED  BY <2>0, <3>3, <3>4, <3>5
  <2>2. CASE CheckReport(r)
    <3>1. msg[r].st = "sending" /\ sigs' = sigs
      BY <2>2 DEF CheckReport
    <3>2. CASE Answer(r, "duplicate") \/ Answer(r, "rejected")
      BY <1>1, <2>0, <3>1, <3>2, AnswerType
    <3>3. CASE UNCHANGED msg /\ req' = [req EXCEPT ![r] = [st |-> "checked", visit |-> mem.visit]]
      BY <1>1, <2>0, <3>1, <3>3 DEF CallT, Messaged, Rows
    <3> QED  BY <2>2, <3>2, <3>3 DEF CheckReport
  <2>3. ASSUME req[r].st = "checked"
        PROVE  Append(sigs, [id |-> r, node |-> msg[r].node, visit |-> req[r].visit,
                             next |-> msg[r].next]) \in Seq(Signals)
    <3>1. msg[r].node \in Nodes /\ msg[r].next \in Targets /\ req[r].visit \in Nat
      BY <2>0, <2>3 DEF CallT, Messaged
    <3>2. [id |-> r, node |-> msg[r].node, visit |-> req[r].visit, next |-> msg[r].next] \in Signals
      BY <3>1 DEF Signals
    <3> QED  BY <2>0, <3>2, AppendProperties
  <2>4. CASE SignalReport(r)
    <3>1. sigs' \in Seq(Signals)
      BY <2>0, <2>3, <2>4 DEF SignalReport
    <3>2. Answer(r, "accepted") \/ Answer(r, "duplicate")
      BY <2>4 DEF SignalReport
    <3>3. req[r].st = "checked"
      BY <2>4 DEF SignalReport
    <3>4. msg[r].st = "sending"
      BY <2>0, <3>3 DEF Messaged
    <3>5. CallT' /\ Messaged'
      BY <1>1, <2>0, <3>2, <3>4, AnswerType
    <3> QED  BY <3>1, <3>5
  <2>5. CASE SignalLost(r)
    <3>1. sigs' \in Seq(Signals)
      BY <2>0, <2>3, <2>5 DEF SignalLost
    <3>2. CallT' /\ Messaged'
      BY <1>1, <2>0, <2>5 DEF SignalLost, CallT, Messaged, IdleReq
    <3> QED  BY <3>1, <3>2
  <2> QED  BY <2>1, <2>2, <2>4, <2>5 DEF Submit
<1>5. SigT'
  BY <1>1, <1>4, Zenon DEF TInv, SigT
<1> QED  BY <1>1, <1>3, <1>4, <1>5 DEF TInv

EnT == en \in [st : {"idle", "create", "node", "state", "check", "signal"},
               snap : Snapshots, term : Nat]

LEMMA PollType ==
    ASSUME TInv, PollFrame, UNCHANGED <<processed, status, execs, mem, binds>>,
           row' \in Rows, runtimes' \in Runtimes, reconcile' \in BOOLEAN, EnT'
    PROVE  TInv'
<1>1. InterpreterKept /\ mem' \in Rows /\ binds' \in Runtimes
  BY DEF PollFrame, InterpreterKept, TInv, MemT
<1>2. SvcT' /\ SigT'
  BY Zenon DEF PollFrame, TInv, SvcT, SigT
<1>3. CallT' /\ Messaged' /\ FaultT' /\ ProjTypeOK'
  BY DEF PollFrame, TInv, CallT, Messaged, FaultT, ProjTypeOK, EnT
<1> QED  BY <1>1, <1>2, <1>3, InterpreterKeptType DEF TInv

LEMMA SnapshotTypes ==
    /\ NoRow \in Rows /\ NoBinds \in Runtimes /\ NoSnapshot \in Snapshots
    /\ IdlePoll \in [st : {"idle"}, snap : Snapshots, term : {0}]
<1>1. NoRow \in Rows /\ NoBinds \in Runtimes
  BY DEF NoRow, NoBinds, Rows, Runtimes, States, Active, Terminal, Errors
<1> QED  BY <1>1 DEF NoSnapshot, Snapshots, IdlePoll

LEMMA AskType ==
    ASSUME NEW st \in {"idle", "create", "node", "state", "check", "signal"},
           NEW s \in Snapshots, Ask(st, s)
    PROVE  EnT'
BY DEF Ask, EnT

LEMMA IdleEnType == ASSUME en' = IdlePoll PROVE EnT'
BY SnapshotTypes DEF EnT

LEMMA InsertStartType == ASSUME row \in Rows, InsertStart PROVE row' \in Rows
BY DEF InsertStart, Rows, States, Active

LEMMA RediscoveredType ==
    ASSUME terms \in Seq(Terminals), NEW s \in Snapshots, NEW rts \in Runtimes,
           NEW x \in Rediscovered(s, rts)
    PROVE  x \in Runtimes
<1>1. s.mem \in Rows /\ s.binds \in Runtimes
  BY DEF Snapshots
<1>2. CASE x = rts  BY <1>2
<1>3. CASE s.mem.node \in Nodes /\ \E t \in TitledLive(s.mem.node) :
              x = [rts EXCEPT ![s.mem.node] = [visit |-> s.binds[s.mem.node].visit, term |-> t]]
  <2>1. PICK t \in TitledLive(s.mem.node) :
           x = [rts EXCEPT ![s.mem.node] = [visit |-> s.binds[s.mem.node].visit, term |-> t]]
    BY <1>3
  <2>2. t \in Nat
    BY TermFacts DEF TitledLive
  <2>3. s.binds[s.mem.node].visit \in Nat
    BY <1>1, <1>3 DEF Runtimes
  <2> QED  BY <1>3, <2>1, <2>2, <2>3 DEF Runtimes
<1> QED  BY <1>2, <1>3 DEF Rediscovered

LEMMA StateForType == StateForStatus \in Terminal /\ StateForStatus \in States
BY DEF StateForStatus, States, Terminal

LEMMA RestoreType ==
    ASSUME terms \in Seq(Terminals), NEW s \in Snapshots, NEW answered, Restore(s, answered)
    PROVE  row' \in Rows /\ runtimes' \in Runtimes
<1>1. s.mem \in Rows /\ s.binds \in Runtimes
  BY DEF Snapshots
<1>2. CASE ~answered
  <2>1. /\ runtimes' = NoBinds
        /\ \/ row' = [NoRow EXCEPT !.state = StateForStatus]
           \/ row' = [NoRow EXCEPT !.state = s.mem.state]
    BY <1>2 DEF Restore
  <2> QED  BY <1>1, <2>1, SnapshotTypes, StateForType DEF Rows
<1>3. CASE answered
  <2>1. runtimes' \in Rediscovered(s, s.binds) \/ runtimes' = s.binds
    BY <1>3 DEF Restore
  <2>2. runtimes' \in Runtimes
    BY <1>1, <2>1, RediscoveredType
  <2>3. PICK d \in States : row' = [s.mem EXCEPT !.state = d, !.retry = d \notin Terminal /\ @]
    <3>1. CASE status # "running"
      BY <1>3, <3>1, StateForType DEF Restore
    <3>2. CASE status = "running"
      BY <1>1, <1>3, <3>2 DEF Restore, Rows
    <3> QED  BY <3>1, <3>2
  <2>4. row' \in Rows
    BY <1>1, <2>3 DEF Rows
  <2> QED  BY <2>2, <2>4
<1> QED  BY <1>2, <1>3

LEMMA EnsureRunType == ASSUME TInv, EnsureRun PROVE TInv'
<1>0. /\ row \in Rows /\ runtimes \in Runtimes /\ mem \in Rows /\ binds \in Runtimes
      /\ Query \in Snapshots /\ reconcile \in BOOLEAN /\ terms \in Seq(Terminals) /\ EnT
      /\ en.snap \in Snapshots /\ en.snap.mem \in Rows /\ en.snap.binds \in Runtimes
  BY DEF TInv, ProjTypeOK, MemT, Query, Snapshots, SigT, ExtT, CallT, EnT
<1>1. CASE PollUnstarted
  <2>1. row' \in Rows /\ EnT'
    BY <1>0, <1>1, InsertStartType, SnapshotTypes, AskType DEF PollUnstarted
  <2> QED  BY <1>0, <1>1, <2>1, PollType DEF PollUnstarted
<1>2. CASE ExecuteWorkflow
  <2>1. CASE status \in {"none", "canceled"} /\ execs < MaxExecs
    <3>1. /\ status' = "running" /\ execs' = execs + 1
          /\ mem' = [NoRow EXCEPT !.state = "starting"] /\ binds' = NoBinds
          /\ seen' = {} /\ cancelReq' = FALSE /\ ctxDone' = FALSE
          /\ sigs' = <<>> /\ reconcile' = FALSE /\ said' = "none"
          /\ Begin("mailboxes") /\ Placed
          /\ UNCHANGED <<projVars, workVars, extVars, msg, req, cx, taken, faults>>
          /\ en' = IdlePoll
      BY <1>2, <2>1 DEF ExecuteWorkflow
    <3>2. execs' \in 0..MaxExecs
      BY <2>1, <3>1, FaultAssumption DEF TInv, SvcT
    <3>3. SvcT'
      <4>1. status' \in Statuses  BY <3>1 DEF Statuses
      <4> QED  BY <3>1, <3>2, <4>1, Zenon DEF SvcT
    <3>4. LoopT' /\ pc' = "mailboxes"
      BY <3>1 DEF Begin, Placed, TInv, LoopT
    <3>5. SigT'
      <4>1. <<>> \in Seq(Signals) /\ "none" \in Errors  BY DEF Errors
      <4> QED  BY <3>1, <4>1 DEF SigT
    <3>6. MemT'
      <4>1. [NoRow EXCEPT !.state = "starting"] \in Rows
        BY SnapshotTypes DEF Rows, States, Active
      <4> QED  BY <3>1, <4>1, SnapshotTypes DEF TInv, MemT
    <3>7. Located'
      BY <3>4 DEF Located, NodePcs, TransPcs
    <3>8. EnT'
      BY <3>1, IdleEnType
    <3>9. WorkT' /\ ExtT' /\ CallT' /\ Messaged' /\ FaultT' /\ ProjTypeOK'
      BY <3>1, <3>8 DEF TInv, WorkT, ExtT, CallT, Messaged, FaultT, ProjTypeOK, EnT
    <3> QED  BY <3>3, <3>4, <3>5, <3>6, <3>7, <3>9 DEF TInv
  <2>2. CASE ~(status \in {"none", "canceled"} /\ execs < MaxExecs)
    BY <1>0, <1>2, <2>2, IdleEnType, PollType DEF ExecuteWorkflow, PollFrame
  <2> QED  BY <2>1, <2>2
<1>3. CASE PollClosed
  <2>1. row' \in Rows /\ runtimes' \in Runtimes
    <3>1. CASE row.state = "absent"
      BY <1>0, <1>3, <3>1, RestoreType DEF PollClosed
    <3>2. CASE row.state # "absent"
      BY <1>0, <1>3, <3>2, StateForType, UpdateStateType DEF PollClosed, Errors
    <3> QED  BY <3>1, <3>2
  <2> QED  BY <1>0, <1>3, <2>1, PollType DEF PollClosed, EnT
<1>4. CASE PollMissing
  <2>1. row' \in Rows /\ EnT'
    BY <1>0, <1>4, InsertStartType, AskType DEF PollMissing
  <2> QED  BY <1>0, <1>4, <2>1, PollType DEF PollMissing
<1>5. CASE RestoreNode
  <2>1. EnT'
    BY <1>0, <1>5, AskType DEF RestoreNode
  <2>2. row' \in Rows
    BY <1>0, <1>5 DEF RestoreNode, Rows
  <2>3. runtimes' \in Runtimes
    BY <1>0, <1>5 DEF RestoreNode, Runtimes
  <2> QED  BY <1>0, <1>5, <2>1, <2>2, <2>3, PollType DEF RestoreNode
<1>6. CASE RestoreState
  <2>1. EnT'
    BY <1>6, SnapshotTypes, AskType DEF RestoreState
  <2>2. en.snap.mem.state \in States /\ en.snap.mem.err \in Errors /\ en.snap.mem.retry \in BOOLEAN
    BY <1>0 DEF Rows
  <2>3. PICK w \in Rows : row' = [w EXCEPT !.retry = IF en.snap.mem.state \in Terminal
                                                      THEN @ ELSE en.snap.mem.retry]
    <3>1. Written(en.snap.mem.state, en.snap.mem.err) \in Rows
      BY <1>0, <2>2 DEF Written, Rows
    <3> QED  BY <1>0, <1>6, <3>1 DEF RestoreState
  <2>4. row' \in Rows
    BY <2>2, <2>3 DEF Rows
  <2>5. runtimes' \in Runtimes
    BY <1>0, <1>6, RediscoveredType DEF RestoreState
  <2> QED  BY <1>0, <1>6, <2>1, <2>4, <2>5, PollType DEF RestoreState
<1>7. CASE PollRunning
  <2>1. EnT'
    <3>1. CASE en' = IdlePoll
      BY <3>1, IdleEnType
    <3>2. CASE mem.node # NoNode /\ en' = [IdlePoll EXCEPT !.st = "signal", !.term = binds[mem.node].term]
      <4>1. binds[mem.node].term \in Nat
        BY <1>0, <3>2 DEF Rows, Runtimes
      <4> QED  BY <3>2, <4>1, SnapshotTypes DEF EnT
    <3> QED  BY <1>7, <3>1, <3>2 DEF PollRunning
  <2> QED  BY <1>0, <1>7, <2>1, PollType DEF PollRunning
<1>8. CASE SignalReconcile
  <2>1. reconcile' \in BOOLEAN
    BY <1>8 DEF SignalReconcile
  <2> QED  BY <1>0, <1>8, <2>1, IdleEnType, PollType DEF SignalReconcile
<1>9. CASE CheckTooLate
  BY <1>0, <1>9, IdleEnType, PollType DEF CheckTooLate
<1> QED  BY <1>1, <1>2, <1>3, <1>4, <1>5, <1>6, <1>7, <1>8, <1>9 DEF EnsureRun

LEMMA CancelType ==
    ASSUME TInv, NEW why \in Reasons, GetForCancel(why) \/ Serve(why)
    PROVE  TInv'
<1>0. row \in Rows /\ why \in Errors
  BY Opened DEF Errors
<1>1. CancelFrame /\ FaultT' /\ cx' \in [Reasons -> {"idle", "mark", "signal", "cancel"}]
  BY SpendType DEF GetForCancel, Serve, MarkCanceling, SignalReason, CancelWorkflow, CancelFails,
                   NotRunning, TInv, FaultT, FaultKinds, CallT
<1>2. row' \in Rows
  <2>1. row' = row \/ UpdateState("canceling", why) \/ UpdateState(StateForStatus, why)
    BY DEF GetForCancel, Serve, MarkCanceling, SignalReason, CancelWorkflow, CancelFails, NotRunning
  <2> QED  BY <1>0, <2>1, StateForType, UpdateStateType DEF States
<1>3. said' \in Errors /\ cancelReq' \in BOOLEAN
  <2>1. said' \in {said, why}
    BY DEF GetForCancel, Serve, MarkCanceling, SignalReason, CancelWorkflow, CancelFails, NotRunning
  <2>2. cancelReq' = cancelReq \/ cancelReq' = TRUE
    BY Zenon DEF GetForCancel, Serve, MarkCanceling, SignalReason, CancelWorkflow, CancelFails, NotRunning
  <2> QED  BY <1>0, <2>1, <2>2, Zenon DEF TInv, SigT, SvcT
<1>4. InterpreterKept /\ mem' \in Rows /\ binds' \in Runtimes
  BY <1>1 DEF CancelFrame, InterpreterKept, TInv, MemT
<1>5. SvcT' /\ SigT'
  BY <1>1, <1>3, Zenon DEF CancelFrame, TInv, SvcT, SigT
<1>6. CallT' /\ Messaged' /\ ProjTypeOK'
  BY <1>1, <1>2 DEF CancelFrame, TInv, CallT, Messaged, ProjTypeOK
<1> QED  BY <1>1, <1>4, <1>5, <1>6, InterpreterKeptType DEF TInv

LEMMA InterruptedType ==
    ASSUME TInv, Interrupted
    PROVE  SvcT' /\ SigT' /\ StepT' /\ WorkT' /\ ExtT' /\ CallT' /\ Messaged'
<1>1. /\ UNCHANGED <<execs, cancelReq, sigVars, ctxDone, workVars, extVars, msg>>
      /\ req' = [r \in ReportIds |-> IdleReq] /\ en' = IdlePoll
      /\ cx' = [w \in Reasons |-> "idle"]
  BY DEF Interrupted
<1>2. StepT'
  <2>1. CASE phase = "bind"
    BY <1>1, <2>1, Opened, FailedType DEF Interrupted
  <2>2. CASE phase # "bind"
    BY <1>1, <2>2, Opened, StepTKept DEF Interrupted, Placed
  <2> QED  BY <2>1, <2>2
<1>3. SvcT' /\ SigT'
  BY <1>1, <1>2, Zenon DEF TInv, SvcT, SigT, StepT
<1>4. CallT' /\ Messaged'
  BY <1>1, IdleEnType DEF TInv, CallT, Messaged, EnT, IdleReq
<1>5. WorkT' /\ ExtT'
  BY <1>1 DEF TInv, WorkT, ExtT
<1> QED  BY <1>2, <1>3, <1>4, <1>5

LEMMA FaultsType == ASSUME TInv, Crash \/ Recover \/ TerminalDies PROVE TInv'
<1>1. CASE Crash
  <2>1. FaultT' /\ ProjTypeOK'
    BY <1>1, SpendType DEF Crash, TInv, FaultKinds, ProjTypeOK
  <2> QED  BY <1>1, <2>1, InterruptedType DEF Crash, TInv, StepT
<1>2. CASE Recover
  <2>1. SvcT' /\ SigT' /\ StepT' /\ WorkT' /\ ExtT' /\ CallT' /\ Messaged' /\ FaultT'
    BY <1>2, InterruptedType, SpendType DEF Recover, TInv, FaultKinds
  <2>2. [mem |-> mem', binds |-> binds'] \in Snapshots
    BY <2>1 DEF StepT, MemT, Snapshots
  <2>3. row' \in Rows /\ runtimes' \in Runtimes
    <3>1. CASE \E answered \in BOOLEAN : Restore([mem |-> mem', binds |-> binds'], answered)
      BY <2>2, <3>1, Opened, RestoreType
    <3>2. CASE row' = NoRow /\ runtimes' = NoBinds
      BY <3>2, SnapshotTypes
    <3> QED  BY <1>2, <3>1, <3>2 DEF Recover
  <2>4. ProjTypeOK'
    BY <1>2, <2>3 DEF Recover, ProjTypeOK
  <2> QED  BY <2>1, <2>4 DEF TInv, StepT
<1>3. CASE TerminalDies
  <2>1. terms' \in Seq(Terminals)
    BY <1>3, Opened, ClosedType DEF TerminalDies
  <2>2. FaultT'
    BY <1>3, SpendType DEF TerminalDies, TInv, FaultKinds
  <2>3. ExtT'
    BY <1>3, <2>1 DEF TerminalDies, TInv, ExtT
  <2>4. SvcT' /\ SigT'
    BY <1>3, Zenon DEF TerminalDies, TInv, SvcT, SigT
  <2>5. LoopT' /\ Located' /\ WorkT' /\ MemT' /\ CallT' /\ Messaged' /\ ProjTypeOK'
    BY <1>3 DEF TerminalDies, TInv, LoopT, Located, WorkT, MemT, CallT, Messaged, ProjTypeOK
  <2> QED  BY <2>2, <2>3, <2>4, <2>5 DEF TInv
<1> QED  BY <1>1, <1>2, <1>3

LEMMA StutterType == ASSUME TInv, UNCHANGED vars PROVE TInv'
<1>1. SvcT' /\ SigT'
  BY Zenon DEF vars, TInv, SvcT, SigT
<1>2. ProjTypeOK' /\ LoopT' /\ Located' /\ WorkT' /\ MemT' /\ ExtT' /\ CallT' /\ Messaged' /\ FaultT'
  BY DEF vars, TInv, ProjTypeOK, LoopT, Located, WorkT, MemT, ExtT, CallT, Messaged, FaultT
<1> QED  BY <1>1, <1>2 DEF TInv

LEMMA NextType == ASSUME TInv, [Next]_vars PROVE TInv'
<1>1. CASE Receive
  BY <1>1, TakeCancelType, TakeReportType, TakeReconcileType DEF Receive
<1>2. CASE UNCHANGED vars
  BY <1>2, StutterType
<1> QED  BY <1>1, <1>2, ActivityType, RetryLoopType, EnsureRunType, SubmitType, CancelType,
            FaultsType DEF Next

(* The types of the rows, of Temporal's history and of everything in       *)
(* flight, through every restore of one from another.                      *)
THEOREM Typed == Spec => []TypeOK
<1>1. TInv /\ [Next]_vars => TInv'
  BY NextType
<1>2. Spec => []TInv
  BY <1>1, InitTypes, PTL DEF Spec
<1> QED  BY <1>2, TypesHold, PTL

-----------------------------------------------------------------------------
(* The moves of the interpreter, whatever the action that makes them *)

Same ==
    /\ UNCHANGED <<status, execs, pc, phase, cur, visit, lastVisit, seen, taken>>
    /\ mem'.state = mem.state

(* The activity under way has had its effect. *)
Past ==
    \/ phase = "bind" \/ phase \in Wrapped
    \/ /\ phase = "call"
       /\ pc = "applyEnd"  => <<"applyEnd", visit>> \in effects'
       /\ pc = "cComment"  => <<"cComment", 0>> \in effects'
       /\ pc = "cFinalize" => terms' = Closed({runtimes[n].term : n \in Nodes})

Onward ==
    /\ Running /\ Past /\ ~CancelSeen /\ Advance
    /\ mem'.state \in {mem.state, "running", "waiting"}
    /\ UNCHANGED <<status, execs, seen, taken>>
Decided ==
    /\ Running /\ pc \in {"completed", "cState"} /\ Begin("done") /\ Placed
    /\ status' = IF pc = "cState" THEN "canceled" ELSE "completed"
    /\ UNCHANGED <<execs, seen, taken>>
Left ==
    /\ status = "running" /\ pc \notin CancelPcs /\ Begin("cFinalize") /\ Placed
    /\ mem'.state = "canceling"
    /\ UNCHANGED <<status, execs, seen, taken>>
Again ==
    /\ Running /\ pc' = pc /\ Placed
    /\ phase' \in Wrapped => Past
    /\ phase' = "bind" => pc \in LaunchPcs
    /\ mem'.state \in {mem.state, "blocked"}
    /\ UNCHANGED <<status, execs, seen, taken>>
Started ==
    /\ en.st = "create" /\ status' = "running" /\ execs' = execs + 1
    /\ mem'.state = "starting" /\ seen' = {} /\ UNCHANGED taken
    /\ Begin("mailboxes") /\ Placed
Accepted ==
    /\ Waiting /\ Begin("record") /\ Placed
    /\ \E id \in ReportIds \ seen, next \in Targets :
          /\ seen' = seen \cup {id}
          /\ taken' = taken \cup {[id |-> id, visit |-> visit, next |-> next]}
    /\ UNCHANGED <<status, execs, mem>>
Woken ==
    /\ Waiting /\ Begin("reconcile") /\ Placed
    /\ UNCHANGED <<status, execs, mem, seen, taken>>

Moved == Same \/ Onward \/ Decided \/ Left \/ Again \/ Started \/ Accepted \/ Woken

LEMMA ProceedMove ==
    ASSUME LoopT, Running, Past, UNCHANGED execs, said \in Errors, NEW m \in Rows,
           m.state \in {mem.state, "waiting"}, Proceed(m)
    PROVE  Moved
<1>1. MemAfter(m) \in Rows /\ UNCHANGED <<seen, taken>>
  BY MemAfterType DEF Proceed
<1>2. CASE /\ pc \in {"completed", "cState"}
           /\ status' = IF pc = "cState" THEN "canceled" ELSE "completed"
           /\ mem' = MemAfter(m) /\ Begin("done") /\ Placed
  BY <1>1, <1>2 DEF Moved, Decided
<1>3. CASE CancelSeen /\ pc # "completed" /\ Canceled(MemAfter(m))
  <2>1. mem'.state = "canceling"
    BY <1>1, <1>3 DEF Canceled, Rows
  <2> QED  BY <1>1, <1>3, <2>1 DEF Canceled, CancelSeen, Running, Moved, Left
<1>4. CASE ~CancelSeen /\ Advance /\ mem' = MemAfter(m) /\ UNCHANGED status
  <2>1. pc \notin {"completed", "cState"}
    BY <1>4, AfterFacts DEF Advance
  <2>2. MemAfter(m).state \in {m.state, "running", "waiting"}
    BY <2>1 DEF MemAfter, Rows
  <2> QED  BY <1>1, <1>4, <2>2 DEF Moved, Onward
<1> QED  BY <1>2, <1>3, <1>4 DEF Proceed

LEMMA GiveUpMove ==
    ASSUME status = "running", UNCHANGED execs, mem \in Rows, pc \notin CancelPcs, GiveUp
    PROVE  Left
BY DEF GiveUp, Canceled, Left, Rows

LEMMA RecordedMove ==
    ASSUME LoopT, Running, Past, UNCHANGED execs, said \in Errors, mem \in Rows, Recorded
    PROVE  Moved
<1>1. CASE Proceed(mem)  BY <1>1, ProceedMove
<1>2. CASE CancelSeen /\ GiveUp
  BY <1>2, GiveUpMove DEF CancelSeen, Running, Moved
<1>3. CASE Phase("clear") /\ UNCHANGED <<memVars, status>>
  BY <1>3 DEF Phase, Moved, Again
<1> QED  BY <1>1, <1>2, <1>3 DEF Recorded

LEMMA FailedMove ==
    ASSUME Running, UNCHANGED execs, mem \in Rows, Failed(mem)
    PROVE  Moved /\ status' = status /\ mem'.state \in {mem.state, "canceling"}
           /\ phase' # "bind"
<1>1. CASE CancelSeen /\ GiveUp
  <2>1. Left
    BY <1>1, GiveUpMove DEF CancelSeen, Running
  <2> QED  BY <2>1 DEF Moved, Left, Begin
<1>2. CASE Phase("note") /\ mem' = Retrying(mem) /\ UNCHANGED <<binds, seen, taken, status>>
  <2>1. mem'.state = mem.state
    BY <1>2 DEF Retrying, Rows
  <2> QED  BY <1>2, <2>1 DEF Phase, Moved, Again, Wrapped
<1> QED  BY <1>1, <1>2 DEF Failed

LEMMA DoneMove ==
    ASSUME LoopT, Running, Past, UNCHANGED execs, said \in Errors, mem \in Rows, Done
    PROVE  Moved
BY RecordedMove, FailedMove DEF Done

LEMMA ActivityMove == ASSUME TInv, Activity PROVE Moved
<1>0. LoopT /\ said \in Errors /\ mem \in Rows
  BY DEF TInv, SigT, MemT
<1>1. UNCHANGED execs
  BY DEF Activity, PlainActivity, TaskActivity, PrepareRestart, LoadNodeRuntime,
         ProjectionActivity, ReclaimActivity, CleanupRun, CommentCancellation, ReuseTerminal,
         EnsureTerminal, SendFails, BindTerminal, StaleLaunch, ActFrame
<1>2. CASE PlainActivity
  <2>1. Running /\ Past
    BY <1>2 DEF PlainActivity, Act, Past
  <2> QED  BY <1>0, <1>1, <1>2, <2>1, RecordedMove DEF PlainActivity
<1>3. CASE TaskActivity
  <2>1. Running /\ Past
    BY <1>3 DEF TaskActivity, Act, Past
  <2> QED  BY <1>0, <1>1, <1>3, <2>1, DoneMove DEF TaskActivity
<1>4. CASE PrepareRestart
  <2>1. Running /\ Past
    BY <1>4 DEF PrepareRestart, Act, Past
  <2> QED  BY <1>0, <1>1, <1>4, <2>1, DoneMove DEF PrepareRestart
<1>5. CASE LoadNodeRuntime
  <2>1. Running /\ Past
    BY <1>5 DEF LoadNodeRuntime, Act, Past
  <2> QED  BY <1>0, <1>1, <1>5, <2>1, RecordedMove DEF LoadNodeRuntime
<1>6. CASE ProjectionActivity
  <2>1. Running /\ Past
    BY <1>6 DEF ProjectionActivity, Act, Past
  <2> QED  BY <1>0, <1>1, <1>6, <2>1, DoneMove DEF ProjectionActivity
<1>7. CASE ReclaimActivity
  <2>1. Running /\ Past
    BY <1>7 DEF ReclaimActivity, Reclaim, Act, Past
  <2> QED  BY <1>0, <1>1, <1>7, <2>1, DoneMove DEF ReclaimActivity
<1>8. CASE CleanupRun
  <2>1. Running /\ Past
    BY <1>8 DEF CleanupRun, Act, Past
  <2> QED  BY <1>0, <1>1, <1>8, <2>1, DoneMove DEF CleanupRun
<1>9. CASE CommentCancellation
  <2>1. Running /\ Past
    BY <1>9 DEF CommentCancellation, Act, Past
  <2> QED  BY <1>0, <1>1, <1>9, <2>1, DoneMove DEF CommentCancellation
<1>10. CASE ReuseTerminal
  <2>1. Running /\ Past
    BY <1>10, LaunchingFacts DEF ReuseTerminal, Past
  <2> QED  BY <1>0, <1>1, <1>10, <2>1, DoneMove DEF ReuseTerminal
<1>11. CASE EnsureTerminal
  <2>1. Running /\ pc \in LaunchPcs
    BY <1>11, LaunchingFacts DEF EnsureTerminal
  <2> QED  BY <1>1, <1>11, <2>1 DEF EnsureTerminal, Phase, Wrapped, Moved, Again
<1>12. CASE SendFails
  BY <1>1, <1>12 DEF SendFails, Moved, Same
<1>13. CASE BindTerminal
  <2>1. Running /\ Past
    BY <1>13 DEF BindTerminal, Past
  <2> QED  BY <1>0, <1>1, <1>13, <2>1, RecordedMove, FailedMove DEF BindTerminal
<1>14. CASE StaleLaunch
  <2>1. Running
    BY <1>14 DEF StaleLaunch, Act
  <2> QED  BY <1>0, <1>1, <1>14, <2>1, FailedMove DEF StaleLaunch
<1> QED  BY <1>2, <1>3, <1>4, <1>5, <1>6, <1>7, <1>8, <1>9, <1>10, <1>11, <1>12, <1>13, <1>14
         DEF Activity

LEMMA RetryLoopMove == ASSUME TInv, RetryLoop PROVE Moved
<1>0. LoopT /\ said \in Errors /\ mem \in Rows
  BY DEF TInv, SigT, MemT
<1>1. UNCHANGED execs /\ Running
  BY DEF RetryLoop, ActivityFails, MarkBlocked, NoteRetry, TimerFires, ClearRetry, Unblock,
         WriteFails, LoopCanceled, LoopFrame, ActFrame, Loop
<1>2. CASE ActivityFails
  <2>1. CASE Failed(mem)  BY <1>0, <1>1, <2>1, FailedMove
  <2>2. CASE /\ phase' = "block" /\ blocked' = TRUE /\ UNCHANGED <<pc, tries>> /\ Placed
             /\ mem' = [mem EXCEPT !.state = "blocked"]
             /\ UNCHANGED <<binds, seen, taken, status>>
    BY <1>0, <1>1, <2>2 DEF Wrapped, Moved, Again, Rows
  <2> QED  BY <1>2, <2>1, <2>2 DEF ActivityFails
<1>3. CASE MarkBlocked
  BY <1>0, <1>1, <1>3 DEF MarkBlocked, Phase, Retrying, Rows, Wrapped, Moved, Again
<1>4. CASE NoteRetry
  BY <1>0, <1>1, <1>4 DEF NoteRetry, Phase, Wrapped, Moved, Again
<1>5. CASE TimerFires
  BY <1>0, <1>1, <1>5 DEF TimerFires, Wrapped, Moved, Again
<1>6. CASE ClearRetry
  <2> DEFINE m == [mem EXCEPT !.retry = FALSE, !.err = "none"]
  <2>1. m \in Rows /\ m.state = mem.state /\ Past
    BY <1>0, <1>6 DEF ClearRetry, Loop, Past, Wrapped, Rows, Errors
  <2>2. CASE Proceed(m)
    BY <1>0, <1>1, <2>1, <2>2, ProceedMove
  <2>3. CASE Phase("unblock") /\ mem' = m /\ UNCHANGED <<binds, seen, taken, status>>
    BY <1>1, <2>1, <2>3 DEF Phase, Moved, Again
  <2> QED  BY <1>6, <2>2, <2>3 DEF ClearRetry
<1>7. CASE Unblock
  <2>1. [mem EXCEPT !.state = "waiting"] \in Rows /\ Past
    BY <1>0, <1>7 DEF Unblock, Loop, Past, Wrapped, Rows, States, Active
  <2>2. [mem EXCEPT !.state = "waiting"].state = "waiting"
    BY <1>0 DEF Rows
  <2> QED  BY <1>0, <1>1, <1>7, <2>1, <2>2, ProceedMove DEF Unblock
<1>8. CASE WriteFails
  BY <1>0, <1>1, <1>8 DEF WriteFails, Retrying, Rows, Moved, Same
<1>9. CASE LoopCanceled
  BY <1>0, <1>1, <1>9, GiveUpMove DEF LoopCanceled, CancelSeen, Running, Moved
<1> QED  BY <1>2, <1>3, <1>4, <1>5, <1>6, <1>7, <1>8, <1>9 DEF RetryLoop

LEMMA ReceiveMove == ASSUME TInv, Receive PROVE Moved
<1>0. mem \in Rows
  BY DEF TInv, MemT
<1>1. UNCHANGED execs
  BY DEF Receive, TakeCancel, TakeReport, TakeReconcile, CallFrame
<1>2. CASE TakeCancel
  <2>1. CASE pc = "wait" /\ GiveUp
    BY <1>0, <1>1, <1>2, <2>1, GiveUpMove DEF TakeCancel, Moved
  <2>2. CASE UNCHANGED <<memVars, status, pc, phase, tries, blocked>> /\ Placed
    BY <1>1, <2>2 DEF Placed, Moved, Same
  <2> QED  BY <1>2, <2>1, <2>2 DEF TakeCancel
<1>3. CASE TakeReport
  <2>1. Head(sigs) \in Signals
    BY <1>3, HeadTailProperties DEF TakeReport, TInv, SigT
  <2>2. Head(sigs).id \in ReportIds /\ Head(sigs).next \in Targets
    BY <2>1 DEF Signals
  <2>3. UNCHANGED <<status, mem>>
    BY <1>3 DEF TakeReport
  <2>4. CASE Accepts(Head(sigs)) /\ Begin("record")
    BY <1>1, <1>3, <2>2, <2>3, <2>4 DEF TakeReport, Accepts, Moved, Accepted
  <2>5. CASE UNCHANGED <<rep, seen, taken, pc, phase, tries, blocked>> /\ Placed
    BY <1>1, <2>3, <2>5 DEF Placed, Moved, Same
  <2> QED  BY <1>3, <2>4, <2>5 DEF TakeReport
<1>4. CASE TakeReconcile
  BY <1>1, <1>4 DEF TakeReconcile, Moved, Woken
<1> QED  BY <1>2, <1>3, <1>4 DEF Receive

LEMMA CallsMove ==
    ASSUME TInv,
           \/ \E r \in ReportIds : AgentReports(r) \/ Submit(r)
           \/ \E why \in Reasons : GetForCancel(why) \/ Serve(why)
           \/ EnsureRun /\ ~ExecuteWorkflow
           \/ TerminalDies
           \/ UNCHANGED vars
    PROVE  Same
BY DEF AgentReports, Submit, CheckReport, SignalReport, SignalLost, ReqFrame, GetForCancel, Serve,
       MarkCanceling, SignalReason, CancelWorkflow, CancelFails, NotRunning, CancelFrame,
       EnsureRun, PollUnstarted, PollClosed, PollMissing, RestoreNode, RestoreState, PollRunning,
       SignalReconcile, CheckTooLate, PollFrame, TerminalDies, vars, Same

LEMMA ExecuteMove == ASSUME TInv, ExecuteWorkflow PROVE Moved
<1>1. CASE status \in {"none", "canceled"} /\ execs < MaxExecs
  <2>1. mem'.state = "starting"
    BY <1>1 DEF ExecuteWorkflow, NoRow
  <2> QED  BY <1>1, <2>1 DEF ExecuteWorkflow, Moved, Started
<1>2. CASE ~(status \in {"none", "canceled"} /\ execs < MaxExecs)
  BY <1>2 DEF ExecuteWorkflow, Moved, Same
<1> QED  BY <1>1, <1>2

LEMMA InterruptedMove ==
    ASSUME TInv, OpenInv, Interrupted
    PROVE  /\ Moved /\ status' = status /\ mem'.state \in {mem.state, "canceling"}
           /\ effects' = effects
<1>1. UNCHANGED <<execs, effects>> /\ mem \in Rows
  BY DEF Interrupted, TInv, MemT
<1>2. CASE phase = "bind"
  <2>1. Running
    BY <1>2 DEF OpenInv, Running, TInv, SvcT, Statuses
  <2> QED  BY <1>1, <1>2, <2>1, FailedMove DEF Interrupted
<1>3. CASE phase # "bind"
  BY <1>1, <1>3 DEF Interrupted, Placed, Moved, Same
<1> QED  BY <1>2, <1>3

LEMMA Moves == ASSUME TInv, OpenInv, [Next]_vars PROVE Moved
<1>1. CASE Crash \/ Recover
  BY <1>1, InterruptedMove DEF Crash, Recover
<1>2. Same => Moved
  BY DEF Moved
<1> QED  BY <1>1, <1>2, ActivityMove, RetryLoopMove, ReceiveMove, CallsMove, ExecuteMove, Zenon
         DEF Next

LEMMA EffectsGrow == ASSUME [Next]_vars PROVE effects \subseteq effects'
<1>1. CASE Activity
  BY <1>1 DEF Activity, PlainActivity, TaskActivity, PrepareRestart, LoadNodeRuntime,
         ProjectionActivity, ReclaimActivity, CleanupRun, CommentCancellation, ReuseTerminal,
         EnsureTerminal, SendFails, BindTerminal, StaleLaunch
<1>2. CASE RetryLoop
  BY <1>2 DEF RetryLoop, ActivityFails, MarkBlocked, NoteRetry, TimerFires, ClearRetry, Unblock,
         WriteFails, LoopCanceled, LoopFrame
<1>3. CASE Receive
  BY <1>3 DEF Receive, TakeCancel, TakeReport, TakeReconcile, CallFrame
<1>4. CASE EnsureRun
  BY <1>4 DEF EnsureRun, ExecuteWorkflow, PollUnstarted, PollClosed, PollMissing, RestoreNode,
         RestoreState, PollRunning, SignalReconcile, CheckTooLate, PollFrame
<1>5. CASE \E r \in ReportIds : AgentReports(r) \/ Submit(r)
  BY <1>5 DEF AgentReports, Submit, CheckReport, SignalReport, SignalLost, ReqFrame
<1>6. CASE \E why \in Reasons : GetForCancel(why) \/ Serve(why)
  BY <1>6 DEF GetForCancel, Serve, MarkCanceling, SignalReason, CancelWorkflow, CancelFails,
         NotRunning, CancelFrame
<1>7. CASE Crash \/ Recover \/ TerminalDies \/ UNCHANGED vars
  BY <1>7 DEF Crash, Recover, Interrupted, TerminalDies, vars
<1> QED  BY <1>1, <1>2, <1>3, <1>4, <1>5, <1>6, <1>7 DEF Next

-----------------------------------------------------------------------------
(* One execution, whose visits are taken once each *)

(* Only a poll moves a poll. *)
LEMMA EnKept ==
    ASSUME [Next]_vars, ~EnsureRun, ~Crash, ~Recover
    PROVE  en' = en
<1>1. CASE Activity \/ RetryLoop \/ Receive
  BY <1>1 DEF Activity, PlainActivity, TaskActivity, PrepareRestart, LoadNodeRuntime,
         ProjectionActivity, ReclaimActivity, CleanupRun, CommentCancellation, ReuseTerminal,
         EnsureTerminal, SendFails, BindTerminal, StaleLaunch, ActFrame,
         RetryLoop, ActivityFails, MarkBlocked, NoteRetry, TimerFires, ClearRetry, Unblock,
         WriteFails, LoopCanceled, LoopFrame, Receive, TakeCancel, TakeReport, TakeReconcile, CallFrame
<1>2. CASE \/ \E r \in ReportIds : AgentReports(r) \/ Submit(r)
           \/ \E why \in Reasons : GetForCancel(why) \/ Serve(why)
           \/ TerminalDies \/ UNCHANGED vars
  BY <1>2 DEF AgentReports, Submit, CheckReport, SignalReport, SignalLost, ReqFrame, GetForCancel,
         Serve, MarkCanceling, SignalReason, CancelWorkflow, CancelFails, NotRunning, CancelFrame,
         TerminalDies, vars
<1> QED  BY <1>1, <1>2, Zenon DEF Next

(* Only a poll that saw no execution comes to start one. *)
LEMMA CreateMove ==
    ASSUME TInv, [Next]_vars, en'.st = "create"
    PROVE  \/ en' = en /\ ~ExecuteWorkflow
           \/ status = "none" /\ status' = "none"
<1>0. ~ExecuteWorkflow /\ en' # IdlePoll
  BY DEF ExecuteWorkflow, IdlePoll
<1>1. CASE EnsureRun
  <2>1. CASE PollUnstarted
    BY <2>1 DEF PollUnstarted
  <2>2. CASE PollClosed
    BY <1>0, <2>2 DEF PollClosed
  <2>3. CASE PollMissing \/ RestoreNode \/ RestoreState
    BY <2>3 DEF PollMissing, RestoreNode, RestoreState, Ask
  <2>4. CASE PollRunning
    BY <1>0, <2>4 DEF PollRunning, IdlePoll
  <2>5. CASE SignalReconcile \/ CheckTooLate
    BY <1>0, <2>5 DEF SignalReconcile, CheckTooLate
  <2> QED  BY <1>0, <1>1, <2>1, <2>2, <2>3, <2>4, <2>5 DEF EnsureRun
<1>2. CASE Crash \/ Recover
  BY <1>2 DEF Crash, Recover, Interrupted, IdlePoll
<1> QED  BY <1>0, <1>1, <1>2, EnKept

LEMMA RunningGoesOn ==
    ASSUME TInv, OpenInv, Moved
    PROVE  \/ Started
           \/ /\ execs' = execs
              /\ status' = "none" <=> status = "none"
              /\ status' = "running" <=> pc' # "done"
              /\ phase' = "bind" => pc' \in LaunchPcs
<1> USE DEF OpenInv
<1>1. CASE Same     BY <1>1 DEF Same
<1>2. CASE Onward
  <2>1. pc' # "done" /\ phase' = "call"
    <3>1. CASE pc \in DOMAIN After /\ Begin(After[pc])
      BY <3>1, AfterFacts DEF Begin
    <3>2. CASE ~(pc \in DOMAIN After /\ Begin(After[pc]))
      BY <1>2, <3>2 DEF Onward, Advance, Enter, Begin
    <3> QED  BY <3>1, <3>2
  <2> QED  BY <1>2, <2>1 DEF Onward, Running
<1>3. CASE Decided  BY <1>3 DEF Decided, Running, Begin
<1>4. CASE Left     BY <1>4 DEF Left, Begin
<1>5. CASE Again    BY <1>5 DEF Again, Running
<1>6. CASE Accepted \/ Woken
  BY <1>6 DEF Accepted, Woken, Waiting, Begin
<1> QED  BY <1>1, <1>2, <1>3, <1>4, <1>5, <1>6 DEF Moved

LEMMA ExecsKept ==
    ASSUME TInv, OpenInv, [Next]_vars, execs' # execs
    PROVE  ExecuteWorkflow
<1>1. ~(Crash \/ Recover)
  BY DEF Crash, Recover, Interrupted
<1>2. Same => execs' = execs
  BY DEF Same
<1>3. ~(Activity \/ RetryLoop \/ Receive)
  BY DEF Activity, PlainActivity, TaskActivity, PrepareRestart, LoadNodeRuntime,
         ProjectionActivity, ReclaimActivity, CleanupRun, CommentCancellation, ReuseTerminal,
         EnsureTerminal, SendFails, BindTerminal, StaleLaunch, ActFrame,
         RetryLoop, ActivityFails, MarkBlocked, NoteRetry, TimerFires, ClearRetry, Unblock,
         WriteFails, LoopCanceled, LoopFrame, Receive, TakeCancel, TakeReport, TakeReconcile, CallFrame
<1> QED  BY <1>1, <1>2, <1>3, CallsMove, Zenon DEF Next

LEMMA OpenStep == ASSUME TInv, OpenInv, [Next]_vars PROVE OpenInv'
<1>1. CASE Started
  <2>1. status = "none" /\ execs = 0 /\ en.st = "create"
    BY <1>1 DEF Started, OpenInv
  <2>2. en'.st # "create"
    <3>1. execs' # execs
      BY <1>1, <2>1 DEF Started
    <3>2. ExecuteWorkflow
      BY <3>1, ExecsKept
    <3>3. en' = IdlePoll
      BY <3>2 DEF ExecuteWorkflow
    <3> QED  BY <3>3 DEF IdlePoll
  <2>3. execs' = 1 /\ status' = "running" /\ pc' = "mailboxes" /\ phase' = "call"
    BY <1>1, <2>1 DEF Started, Begin
  <2>4. execs' \in {0, 1} /\ execs' # 0 /\ status' # "none" /\ pc' # "done" /\ phase' # "bind"
    BY <2>3
  <2> QED  BY <2>2, <2>3, <2>4, Zenon DEF OpenInv
<1>2. CASE ~Started
  <2>1. /\ execs' = execs
        /\ status' = "none" <=> status = "none"
        /\ status' = "running" <=> pc' # "done"
        /\ phase' = "bind" => pc' \in LaunchPcs
    BY <1>2, Moves, RunningGoesOn
  <2>2. en'.st = "create" => status' = "none"
    BY <2>1, CreateMove DEF OpenInv
  <2> QED  BY <2>1, <2>2 DEF OpenInv
<1> QED  BY <1>1, <1>2

LEMMA VisitStep == ASSUME TInv, OpenInv, VisitInv, [Next]_vars PROVE VisitInv'
<1> USE DEF VisitInv
<1>0. Moved /\ visit \in Nat /\ taken \subseteq Taken
  BY Moves DEF TInv, LoopT, MemT
<1>1. CASE Same
  BY <1>1 DEF Same, ReportsConsumedOnce
<1>2. CASE Onward
  <2>1. taken' = taken /\ seen' = seen /\ status' = status
    BY <1>2 DEF Onward
  <2>2. CASE Placed
    <3>1. pc' \in AtNode => pc \in AtNode
      <4>1. CASE pc \in DOMAIN After /\ Begin(After[pc])
        BY <4>1, AfterFacts DEF Begin
      <4>2. CASE ~(pc \in DOMAIN After /\ Begin(After[pc])) /\ Begin("applyEnd")
        BY <4>2 DEF Begin, AtNode
      <4>3. CASE Enter(StartTarget) \/ Enter(rep.next)
        BY <2>2, <4>3, <1>0 DEF Enter, Placed
      <4> QED  BY <1>2, <4>1, <4>2, <4>3 DEF Onward, Advance
    <3> QED  BY <2>1, <2>2, <3>1 DEF Placed, ReportsConsumedOnce
  <2>3. CASE \E n : Enter(n)
    <3>1. visit' = visit + 1 /\ lastVisit' = visit'
      BY <2>3 DEF Enter
    <3>2. \A t \in taken : t.visit \in Nat /\ t.visit < visit'
      BY <1>0, <3>1
    <3> QED  BY <1>0, <2>1, <3>1, <3>2 DEF ReportsConsumedOnce
  <2> QED  BY <1>2, <2>2, <2>3 DEF Onward, Advance
<1>3. CASE Decided
  BY <1>3 DEF Decided, Begin, Placed, Running, AtNode, ReportsConsumedOnce
<1>4. CASE Left
  BY <1>4 DEF Left, Begin, Placed, AtNode, ReportsConsumedOnce
<1>5. CASE Again
  BY <1>5 DEF Again, Placed, ReportsConsumedOnce
<1>6. CASE Started
  <2>1. taken = {}
    BY <1>6 DEF Started, OpenInv
  <2> QED  BY <1>6, <2>1 DEF Started, Begin, Placed, ReportsConsumedOnce
<1>7. CASE Accepted
  <2>1. PICK id \in ReportIds \ seen, next \in Targets :
           /\ seen' = seen \cup {id}
           /\ taken' = taken \cup {[id |-> id, visit |-> visit, next |-> next]}
    BY <1>7 DEF Accepted
  <2>2. \A t \in taken : t.visit < visit /\ t.id # id
    BY <1>7, <2>1 DEF Accepted, Waiting, AtNode
  <2>3. status' = "running" /\ pc' = "record" /\ visit' = visit /\ lastVisit' = lastVisit
    BY <1>7 DEF Accepted, Waiting, Begin, Placed
  <2>4. ReportsConsumedOnce'
    <3> SUFFICES ASSUME NEW a \in taken', NEW b \in taken', a.id = b.id \/ a.visit = b.visit
                 PROVE  a = b
      BY DEF ReportsConsumedOnce
    <3> DEFINE it == [id |-> id, visit |-> visit, next |-> next]
    <3>1. it.id = id /\ it.visit = visit
      OBVIOUS
    <3>2. \A t \in taken : t.visit \in Nat /\ t.visit < visit /\ t.id # id
      BY <2>2
    <3>3. a \in taken /\ b \in taken => a = b
      BY DEF ReportsConsumedOnce
    <3> HIDE DEF it
    <3>4. a \in taken \cup {it} /\ b \in taken \cup {it}
      BY <2>1 DEF it
    <3> QED  BY <1>0, <3>1, <3>2, <3>3, <3>4
  <2>5. \A t \in taken' : t.id \in seen' /\ t.visit \in Nat /\ t.visit <= visit'
    BY <1>0, <2>1, <2>3
  <2> QED  BY <1>0, <2>3, <2>4, <2>5 DEF AtNode
<1>8. CASE Woken
  BY <1>8 DEF Woken, Waiting, Begin, Placed, AtNode, ReportsConsumedOnce
<1> QED  BY <1>0, <1>1, <1>2, <1>3, <1>4, <1>5, <1>6, <1>7, <1>8 DEF Moved

-----------------------------------------------------------------------------
(* The end of the graph, and what the projection says of it *)

LEMMA AppliedStep ==
    ASSUME TInv, OpenInv, EndInv, Moved, effects \subseteq effects'
    PROVE  /\ pc' \in Ending \ {"applyEnd"} \/ (pc' = "applyEnd" /\ phase' \in Wrapped) => Applied'
           /\ status' = "completed" => Applied'
           /\ status' = "running" => mem'.state \notin Terminal
<1> USE DEF EndInv
<1>0. Applied /\ visit' = visit => Applied'
  BY DEF Applied
<1>1. CASE Same     BY <1>0, <1>1 DEF Same
<1>2. CASE Onward
  <2>1. status' = "running" /\ mem'.state \notin Terminal
    BY <1>2 DEF Onward, Running, Terminal
  <2>2. CASE pc \in DOMAIN After /\ Begin(After[pc]) /\ Placed
    <3>1. pc' = After[pc] /\ phase' = "call" /\ visit' = visit
      BY <2>2 DEF Begin, Placed
    <3>2. CASE pc' \in Ending
      <4>1. pc \in Ending /\ pc' # "applyEnd"
        BY <2>2, <3>1, <3>2, AfterFacts
      <4>2. CASE pc = "applyEnd"
        <5>1. phase # "bind"
          BY <4>2 DEF OpenInv
        <5>2. Applied'
          BY <1>0, <1>2, <3>1, <4>2, <5>1 DEF Onward, Past, Applied
        <5> QED  BY <2>1, <5>2
      <4>3. CASE pc # "applyEnd"
        BY <1>0, <2>1, <3>1, <4>1, <4>3
      <4> QED  BY <4>2, <4>3
    <3>3. CASE pc' \notin Ending
      BY <2>1, <3>1, <3>3 DEF Ending
    <3> QED  BY <3>2, <3>3
  <2>3. CASE ~(pc \in DOMAIN After /\ Begin(After[pc]) /\ Placed)
    BY <1>2, <2>1, <2>3 DEF Onward, Advance, Enter, Begin, Ending, Wrapped
  <2> QED  BY <2>2, <2>3
<1>3. CASE Decided
  BY <1>0, <1>3 DEF Decided, Begin, Placed, Ending
<1>4. CASE Left
  BY <1>4 DEF Left, Begin, Ending, Terminal
<1>5. CASE Again
  <2>1. status' = "running" /\ mem'.state \notin Terminal /\ pc' = pc /\ visit' = visit
    BY <1>5 DEF Again, Running, Terminal, Placed
  <2>2. ASSUME pc = "applyEnd", phase' \in Wrapped PROVE Applied'
    <3>1. phase # "bind"
      BY <2>2 DEF OpenInv
    <3> QED  BY <1>0, <1>5, <2>1, <2>2, <3>1 DEF Again, Past, Applied
  <2> QED  BY <1>0, <2>1, <2>2
<1>6. CASE Started
  BY <1>6 DEF Started, Begin, Ending, Terminal
<1>7. CASE Accepted \/ Woken
  BY <1>7 DEF Accepted, Woken, Waiting, Begin, Ending
<1> QED  BY <1>1, <1>2, <1>3, <1>4, <1>5, <1>6, <1>7 DEF Moved

(* Past the last write of the graph there is only the way out. *)
LEMMA WayOut ==
    ASSUME TInv, OpenInv, Moved, status # "none", pc \in {"completed", "done"} \cup CancelPcs
    PROVE  /\ pc' \in {"completed", "done"} \cup CancelPcs
           /\ visit' = visit
           /\ pc = "cState" => pc' = "cState" \/ status' = "canceled"
           /\ status = "canceled" => status' = "canceled"
<1>1. CASE Same     BY <1>1 DEF Same
<1>2. CASE Onward
  <2>1. pc \in DOMAIN After /\ Begin(After[pc]) /\ Placed
    BY <1>2 DEF Onward, Advance
  <2>2. pc \in CancelPcs /\ pc # "cState"
    BY <1>2, <2>1, AfterFacts DEF Onward, Running
  <2>3. After[pc] \in CancelPcs
    BY <2>1, <2>2, AfterFacts
  <2> QED  BY <1>2, <2>1, <2>2, <2>3 DEF Onward, Running, Begin, Placed
<1>3. CASE Decided  BY <1>3 DEF Decided, Begin, Placed, Running
<1>4. CASE Left     BY <1>4 DEF Left, Begin, Placed
<1>5. CASE Again    BY <1>5 DEF Again, Placed
<1>6. CASE Started  BY <1>6 DEF Started, OpenInv
<1>7. CASE Accepted \/ Woken
  BY <1>7 DEF Accepted, Woken, Waiting
<1> QED  BY <1>1, <1>2, <1>3, <1>4, <1>5, <1>6, <1>7 DEF Moved

LEMMA UpdateStateMove ==
    ASSUME row \in Rows, NEW s \in States, NEW e \in Errors, UpdateState(s, e)
    PROVE  row'.state \in {row.state, s}
BY DEF UpdateState, Written, Rows

RowMoved ==
    \/ row'.state = row.state
    \/ row'.state \notin Terminal
    \/ Act("completed") /\ row'.state = "completed"
    \/ Act("cState") /\ row'.state = "canceled"
    \/ status \in {"completed", "canceled"} /\ status' = status /\ row'.state = status

LEMMA ActivityRow == ASSUME TInv, Activity \/ RetryLoop \/ Receive PROVE RowMoved
<1>0. row \in Rows
  BY DEF TInv, ProjTypeOK
<1>1. CASE ProjectionActivity
  <2>1. CASE UNCHANGED row  BY <2>1 DEF RowMoved
  <2>2. CASE UpdateNode("running", cur, visit)
    BY <1>0, <2>2 DEF UpdateNode, Rows, Terminal, RowMoved
  <2>3. CASE UpdateState("waiting", "none")
    BY <1>0, <2>3, UpdateStateMove DEF States, Active, Terminal, Errors, RowMoved
  <2>4. CASE Act("completed") /\ UpdateState("completed", "none")
    BY <1>0, <2>4, UpdateStateMove DEF States, Terminal, Errors, RowMoved
  <2>5. CASE Act("cState") /\ UpdateState("canceled", "none")
    BY <1>0, <2>5, UpdateStateMove DEF States, Terminal, Errors, RowMoved
  <2> QED  BY <1>1, <2>1, <2>2, <2>3, <2>4, <2>5 DEF ProjectionActivity
<1>2. CASE Activity /\ ~ProjectionActivity
  BY <1>2 DEF Activity, PlainActivity, TaskActivity, PrepareRestart, LoadNodeRuntime,
         ReclaimActivity, CleanupRun, CommentCancellation, ReuseTerminal,
         EnsureTerminal, SendFails, BindTerminal, StaleLaunch, RowMoved
<1>3. CASE MarkBlocked
  BY <1>0, <1>3, UpdateStateMove DEF MarkBlocked, States, Active, Terminal, Errors, RowMoved
<1>4. CASE NoteRetry
  BY <1>0, <1>4 DEF NoteRetry, UpdateRetry, Rows, RowMoved
<1>5. CASE ClearRetry
  BY <1>0, <1>5 DEF ClearRetry, UpdateRetry, Rows, RowMoved
<1>6. CASE Unblock
  BY <1>0, <1>6, UpdateStateMove DEF Unblock, States, Active, Terminal, Errors, RowMoved
<1>7. CASE ActivityFails \/ TimerFires \/ WriteFails \/ LoopCanceled \/ Receive
  BY <1>7 DEF ActivityFails, TimerFires, WriteFails, LoopCanceled, Receive, TakeCancel, TakeReport,
              TakeReconcile, RowMoved
<1> QED  BY <1>1, <1>2, <1>3, <1>4, <1>5, <1>6, <1>7 DEF RetryLoop

LEMMA RestoreMove ==
    ASSUME NEW s \in Snapshots, NEW answered, Restore(s, answered), status # "none",
           status \in Statuses,
           status = "running" => answered /\ s.mem.state \notin Terminal
    PROVE  row'.state \notin Terminal \/ (status \in {"completed", "canceled"} /\ row'.state = status)
<1>1. s.mem \in Rows /\ s.mem.state \in States
  BY DEF Snapshots, Rows
<1>2. CASE status = "running"
  <2>1. row'.state = s.mem.state
    BY <1>1, <1>2 DEF Restore, Rows
  <2> QED  BY <1>2, <2>1
<1>3. CASE status # "running"
  <2>1. status \in {"completed", "canceled"} /\ StateForStatus = status
    BY <1>3 DEF Statuses, StateForStatus
  <2>2. CASE answered
    BY <1>1, <1>3, <2>1, <2>2 DEF Restore, Rows
  <2>3. CASE ~answered
    BY <1>3, <2>1, <2>3 DEF Restore, NoRow
  <2> QED  BY <2>1, <2>2, <2>3
<1> QED  BY <1>2, <1>3

LEMMA EnsureRow == ASSUME TInv, OpenInv, EndInv, EnsureRun PROVE RowMoved
<1>0. /\ row \in Rows /\ status \in Statuses /\ Query \in Snapshots /\ Query.mem = mem
      /\ en.snap \in Snapshots /\ en.snap.mem \in Rows
  BY DEF TInv, ProjTypeOK, SvcT, Query, MemT, Snapshots, CallT
<1>1. CASE PollClosed
  <2>1. status' = status /\ status \in {"completed", "canceled"}
    BY <1>1 DEF PollClosed
  <2>2. CASE row.state = "absent"
    <3>1. PICK answered \in BOOLEAN : Restore(Query, answered)
      BY <1>1, <2>2 DEF PollClosed
    <3> QED  BY <1>0, <2>1, <3>1, RestoreMove DEF RowMoved
  <2>3. CASE row.state # "absent"
    BY <1>0, <1>1, <2>1, <2>3, UpdateStateMove, StateForType
       DEF PollClosed, Errors, StateForStatus, RowMoved
  <2> QED  BY <2>2, <2>3
<1>2. CASE PollUnstarted \/ PollMissing
  BY <1>0, <1>2 DEF PollUnstarted, PollMissing, InsertStart, Rows, Terminal, RowMoved
<1>3. CASE RestoreNode
  <2>1. en.snap.mem.state \notin Terminal
    BY <1>3 DEF RestoreNode, EndInv
  <2> QED  BY <1>0, <1>3, <2>1 DEF RestoreNode, Rows, RowMoved
<1>4. CASE RestoreState
  <2>1. en.snap.mem.state \notin Terminal
    BY <1>4 DEF RestoreState, EndInv
  <2>2. PICK w \in {row, Written(en.snap.mem.state, en.snap.mem.err)} :
           row' = [w EXCEPT !.retry = IF en.snap.mem.state \in Terminal
                                       THEN @ ELSE en.snap.mem.retry]
    BY <1>4 DEF RestoreState
  <2>3. w.state \in {row.state, en.snap.mem.state} /\ row'.state = w.state
    BY <1>0, <2>2 DEF Written, Rows
  <2> QED  BY <2>1, <2>3 DEF RowMoved
<1>5. CASE ExecuteWorkflow \/ PollRunning \/ SignalReconcile \/ CheckTooLate
  BY <1>5 DEF ExecuteWorkflow, PollRunning, SignalReconcile, CheckTooLate, RowMoved
<1> QED  BY <1>1, <1>2, <1>3, <1>4, <1>5 DEF EnsureRun

LEMMA CancelRow ==
    ASSUME TInv, NEW why \in Reasons, GetForCancel(why) \/ Serve(why)
    PROVE  RowMoved
<1>1. row \in Rows /\ why \in Errors /\ status' = status /\ status \in Statuses
  BY DEF TInv, ProjTypeOK, SvcT, Errors, GetForCancel, Serve, MarkCanceling, SignalReason, CancelWorkflow,
         CancelFails, CancelFrame
<1>2. CASE UpdateState("canceling", why)
  BY <1>1, <1>2, UpdateStateMove DEF States, Terminal, RowMoved
<1>3. CASE status # "running" /\ status # "none" /\ UpdateState(StateForStatus, why)
  BY <1>1, <1>3, UpdateStateMove, StateForType DEF Statuses, StateForStatus, RowMoved
<1>4. CASE UNCHANGED row
  BY <1>4 DEF RowMoved
<1> QED  BY <1>2, <1>3, <1>4 DEF GetForCancel, Serve, MarkCanceling, SignalReason, CancelWorkflow,
                                CancelFails, NotRunning

LEMMA RecoverRow == ASSUME TInv, OpenInv, EndInv, Recover PROVE RowMoved
<1>1. status' = status /\ mem'.state \in {mem.state, "canceling"}
  BY InterruptedMove DEF Recover
<1>2. [mem |-> mem', binds |-> binds'] \in Snapshots
  BY InterruptedType DEF Recover, StepT, MemT, Snapshots
<1>3. CASE row' = NoRow
  BY <1>3 DEF NoRow, Terminal, RowMoved
<1>4. CASE \E answered \in BOOLEAN : /\ status = "running" => answered
                                     /\ status # "none"
                                     /\ Restore([mem |-> mem', binds |-> binds'], answered)
  <2>1. status = "running" => mem'.state \notin Terminal
    BY <1>1 DEF EndInv, Terminal
  <2> QED  BY <1>1, <1>2, <1>4, <2>1, RestoreMove DEF TInv, SvcT, RowMoved
<1> QED  BY <1>3, <1>4 DEF Recover, Found

LEMMA RowMoves == ASSUME TInv, OpenInv, EndInv, [Next]_vars PROVE RowMoved
<1>1. CASE \/ \E r \in ReportIds : AgentReports(r) \/ Submit(r)
           \/ Crash \/ TerminalDies \/ UNCHANGED vars
  BY <1>1 DEF AgentReports, Submit, CheckReport, SignalReport, SignalLost, ReqFrame, Crash,
              TerminalDies, vars, RowMoved
<1> QED  BY <1>1, ActivityRow, EnsureRow, CancelRow, RecoverRow, Zenon DEF Next

LEMMA SnapMove ==
    ASSUME TInv, OpenInv, EndInv, [Next]_vars, en'.st \in {"node", "state"}
    PROVE  en'.snap.mem.state \notin Terminal
<1>1. CASE EnsureRun
  <2>1. en' # IdlePoll /\ ~ExecuteWorkflow
    BY <1>1 DEF IdlePoll, ExecuteWorkflow
  <2>2. CASE PollClosed
    BY <2>2 DEF PollClosed, EndInv
  <2>3. CASE PollMissing
    BY <2>3 DEF PollMissing, Ask, Query, EndInv
  <2>4. CASE RestoreNode
    BY <2>4 DEF RestoreNode, Ask, EndInv
  <2>5. CASE PollUnstarted \/ RestoreState
    BY <2>5 DEF PollUnstarted, RestoreState, Ask
  <2>6. CASE PollRunning
    BY <2>1, <2>6 DEF PollRunning, IdlePoll
  <2>7. CASE SignalReconcile \/ CheckTooLate
    BY <2>1, <2>7 DEF SignalReconcile, CheckTooLate
  <2> QED  BY <1>1, <2>1, <2>2, <2>3, <2>4, <2>5, <2>6, <2>7 DEF EnsureRun
<1>2. CASE Crash \/ Recover
  BY <1>2 DEF Crash, Recover, Interrupted, IdlePoll
<1>3. CASE ~EnsureRun /\ ~Crash /\ ~Recover
  BY <1>3, EnKept DEF EndInv
<1> QED  BY <1>1, <1>2, <1>3

LEMMA EndStep == ASSUME TInv, OpenInv, EndInv, [Next]_vars PROVE EndInv'
<1>0. Moved /\ effects \subseteq effects' /\ RowMoved /\ status \in Statuses
  BY Moves, EffectsGrow, RowMoves DEF TInv, SvcT
<1>1. /\ pc' \in Ending \ {"applyEnd"} \/ (pc' = "applyEnd" /\ phase' \in Wrapped) => Applied'
      /\ status' = "completed" => Applied'
      /\ status' = "running" => mem'.state \notin Terminal
  BY <1>0, AppliedStep
<1>2. en'.st \in {"node", "state"} => en'.snap.mem.state \notin Terminal
  BY SnapMove
<1>3. status' = "none" => row'.state \notin Terminal
  <2> SUFFICES ASSUME status' = "none" PROVE row'.state \notin Terminal  OBVIOUS
  <2>1. status = "none" /\ pc = "done"
    BY <1>0, RunningGoesOn DEF Started, OpenInv
  <2> QED  BY <1>0, <2>1 DEF RowMoved, Act, EndInv
<1>4. /\ row'.state = "completed" => Applied' /\ pc' \in {"completed", "done"} \cup CancelPcs
      /\ row'.state = "canceled" => status' = "canceled" \/ pc' = "cState"
  <2>1. CASE row'.state = row.state
    <3>1. row.state \in Terminal => status # "none"
      BY DEF EndInv
    <3>2. Applied /\ visit' = visit => Applied'
      BY <1>0 DEF Applied
    <3>3. CASE row.state = "completed"
      BY <1>0, <2>1, <3>1, <3>2, <3>3, WayOut DEF EndInv, Terminal
    <3>4. CASE row.state = "canceled"
      <4>1. pc = "cState" \/ (status = "canceled" /\ pc = "done")
        BY <3>4 DEF EndInv, OpenInv
      <4> QED  BY <1>0, <2>1, <3>1, <3>4, <4>1, WayOut DEF Terminal
    <3> QED  BY <2>1, <3>3, <3>4
  <2>2. CASE row'.state \notin Terminal
    BY <2>2 DEF Terminal
  <2>3. CASE Act("completed") /\ row'.state = "completed"
    <3>1. pc = "completed" /\ status # "none" /\ Applied
      BY <2>3 DEF Act, Running, EndInv, Ending
    <3> QED  BY <1>0, <2>3, <3>1, WayOut DEF Applied
  <2>4. CASE Act("cState") /\ row'.state = "canceled"
    <3>1. pc = "cState" /\ status # "none"
      BY <2>4 DEF Act, Running
    <3> QED  BY <1>0, <2>4, <3>1, WayOut
  <2>5. CASE status \in {"completed", "canceled"} /\ status' = status /\ row'.state = status
    <3>1. pc = "done" /\ status # "none"
      BY <2>5 DEF OpenInv
    <3> QED  BY <1>0, <1>1, <2>5, <3>1, WayOut
  <2> QED  BY <1>0, <2>1, <2>2, <2>3, <2>4, <2>5 DEF RowMoved
<1> QED  BY <1>1, <1>2, <1>3, <1>4 DEF EndInv

-----------------------------------------------------------------------------
(* Terminals, while no row is lost and no worker dies *)

LEMMA UndisturbedStep ==
    ASSUME TInv, [Next]_vars, Undisturbed'
    PROVE  Undisturbed /\ ~Crash /\ ~Recover
<1>1. faults \in [FaultKinds -> Nat] /\ faults' \in [FaultKinds -> Nat]
  BY NextType DEF TInv, FaultT
<1>2. /\ faults.crash \in Nat /\ faults.loss \in Nat
      /\ faults'.crash \in Nat /\ faults'.loss \in Nat
  BY <1>1 DEF FaultKinds
<1>3. ~Crash
  <2> SUFFICES ASSUME Crash PROVE FALSE  OBVIOUS
  <2>1. faults'.crash = faults.crash + 1
    BY <1>1 DEF Crash, Spend, FaultKinds
  <2> QED  BY <1>2, <2>1 DEF Undisturbed
<1>4. ~Recover
  <2> SUFFICES ASSUME Recover PROVE FALSE  OBVIOUS
  <2>1. faults'.loss = faults.loss + 1
    BY <1>1 DEF Recover, Spend, FaultKinds
  <2> QED  BY <1>2, <2>1 DEF Undisturbed
<1>5. Spend("fail") \/ Spend("call") \/ Spend("death") => Undisturbed
  <2> SUFFICES ASSUME Spend("fail") \/ Spend("call") \/ Spend("death") PROVE Undisturbed
    OBVIOUS
  <2>1. faults'.crash = faults.crash /\ faults'.loss = faults.loss
    BY <1>1 DEF Spend, FaultKinds
  <2> QED  BY <2>1 DEF Undisturbed
<1>6. UNCHANGED faults => Undisturbed
  BY DEF Undisturbed
<1>7. CASE Activity
  <2>1. UNCHANGED faults \/ Spend("fail")
    BY <1>7 DEF Activity, PlainActivity, TaskActivity, PrepareRestart, LoadNodeRuntime,
         ProjectionActivity, ReclaimActivity, CleanupRun, CommentCancellation, ReuseTerminal,
         EnsureTerminal, SendFails, BindTerminal, StaleLaunch, Done
  <2> QED  BY <1>3, <1>4, <1>5, <1>6, <2>1
<1>8. CASE RetryLoop \/ Receive
  <2>1. UNCHANGED faults \/ Spend("fail")
    BY <1>8 DEF RetryLoop, ActivityFails, MarkBlocked, NoteRetry, TimerFires, ClearRetry, Unblock,
         WriteFails, LoopCanceled, Receive, TakeCancel, TakeReport, TakeReconcile, CallFrame
  <2> QED  BY <1>3, <1>4, <1>5, <1>6, <2>1
<1>9. CASE EnsureRun
  <2>1. UNCHANGED faults
    BY <1>9 DEF EnsureRun, ExecuteWorkflow, PollUnstarted, PollClosed, PollMissing, RestoreNode,
         RestoreState, PollRunning, SignalReconcile, CheckTooLate, PollFrame
  <2> QED  BY <1>3, <1>4, <1>6, <2>1
<1>10. CASE \/ \E r \in ReportIds : AgentReports(r) \/ Submit(r)
            \/ \E why \in Reasons : GetForCancel(why) \/ Serve(why)
            \/ TerminalDies \/ UNCHANGED vars
  <2>1. UNCHANGED faults \/ Spend("call") \/ Spend("death")
    BY <1>10 DEF AgentReports, Submit, CheckReport, SignalReport, SignalLost, ReqFrame, GetForCancel,
         Serve, MarkCanceling, SignalReason, CancelWorkflow, CancelFails, NotRunning, CancelFrame,
         TerminalDies, vars
  <2> QED  BY <1>3, <1>4, <1>5, <1>6, <2>1
<1> QED  BY <1>3, <1>4, <1>7, <1>8, <1>9, <1>10, Zenon DEF Next

LEMMA RowKept ==
    ASSUME TInv, [Next]_vars, en.st \notin {"node", "state"}, ~Recover, row.state # "absent"
    PROVE  row'.state # "absent"
<1>0. row \in Rows
  BY DEF TInv, ProjTypeOK
<1>1. \A s \in States \ {"absent"} : \A e \in Errors : UpdateState(s, e) => row'.state # "absent"
  BY <1>0, UpdateStateMove
<1>2. StateForStatus \in States \ {"absent"} /\ "none" \in Errors /\ "conflict" \in Errors
      /\ {"waiting", "completed", "canceled", "blocked", "canceling"} \subseteq States \ {"absent"}
  BY DEF StateForStatus, States, Active, Terminal, Errors
<1>3. CASE ProjectionActivity
  <2>1. CASE UpdateNode("running", cur, visit)
    BY <1>0, <2>1 DEF UpdateNode, Rows
  <2>2. CASE ~UpdateNode("running", cur, visit)
    BY <1>1, <1>2, <1>3, <2>2 DEF ProjectionActivity
  <2> QED  BY <2>1, <2>2
<1>4. CASE Activity /\ ~ProjectionActivity
  BY <1>4 DEF Activity, PlainActivity, TaskActivity, PrepareRestart, LoadNodeRuntime,
         ReclaimActivity, CleanupRun, CommentCancellation, ReuseTerminal,
         EnsureTerminal, SendFails, BindTerminal, StaleLaunch
<1>5. CASE MarkBlocked \/ Unblock
  BY <1>1, <1>2, <1>5 DEF MarkBlocked, Unblock
<1>6. CASE NoteRetry \/ ClearRetry
  BY <1>0, <1>6 DEF NoteRetry, ClearRetry, UpdateRetry, Rows
<1>7. CASE ActivityFails \/ TimerFires \/ WriteFails \/ LoopCanceled \/ Receive
  BY <1>7 DEF ActivityFails, TimerFires, WriteFails, LoopCanceled, Receive, TakeCancel, TakeReport,
              TakeReconcile
<1>8. CASE EnsureRun
  <2>1. CASE PollClosed
    BY <1>1, <1>2, <2>1 DEF PollClosed
  <2>2. CASE PollUnstarted \/ PollMissing
    BY <2>2 DEF PollUnstarted, PollMissing, InsertStart
  <2>3. CASE ExecuteWorkflow \/ PollRunning \/ SignalReconcile \/ CheckTooLate
    BY <2>3 DEF ExecuteWorkflow, PollRunning, SignalReconcile, CheckTooLate
  <2> QED  BY <1>8, <2>1, <2>2, <2>3 DEF EnsureRun, RestoreNode, RestoreState
<1>9. CASE \E why \in Reasons : GetForCancel(why) \/ Serve(why)
  <2>1. PICK why \in Reasons : GetForCancel(why) \/ Serve(why)
    BY <1>9
  <2>2. why \in Errors
    BY DEF Errors
  <2>3. row' = row \/ UpdateState("canceling", why) \/ UpdateState(StateForStatus, why)
    BY <2>1 DEF GetForCancel, Serve, MarkCanceling, SignalReason, CancelWorkflow, CancelFails, NotRunning
  <2> QED  BY <1>1, <1>2, <2>2, <2>3
<1>10. CASE \/ \E r \in ReportIds : AgentReports(r) \/ Submit(r)
            \/ Crash \/ TerminalDies \/ UNCHANGED vars
  BY <1>10 DEF AgentReports, Submit, CheckReport, SignalReport, SignalLost, ReqFrame, Crash,
               TerminalDies, vars
<1> QED  BY <1>3, <1>4, <1>5, <1>6, <1>7, <1>8, <1>9, <1>10, Zenon DEF Next, RetryLoop

LEMMA IdlePollFacts == IdlePoll.st = "idle"
BY DEF IdlePoll

LEMMA RowStep == ASSUME TInv, OpenInv, RowInv, [Next]_vars PROVE RowInv'
<1> SUFFICES ASSUME Undisturbed'
             PROVE  /\ status' # "none" \/ en'.st = "create" => row'.state # "absent"
                    /\ en'.st \notin {"node", "state"}
  BY DEF RowInv
<1>0. /\ Undisturbed /\ ~Crash /\ ~Recover
      /\ status # "none" \/ en.st = "create" => row.state # "absent"
      /\ en.st \notin {"node", "state"}
  BY UndisturbedStep DEF RowInv
<1>1. CASE EnsureRun
  <2>1. CASE PollUnstarted
    <3>1. row'.state # "absent" /\ en'.st = "create"
      BY <2>1 DEF PollUnstarted, InsertStart, Ask, TInv, ProjTypeOK, Rows
    <3> QED  BY <3>1
  <2>2. CASE ExecuteWorkflow
    <3>1. row' = row /\ en'.st = "idle" /\ en.st = "create"
      BY <2>2 DEF ExecuteWorkflow, IdlePoll
    <3> QED  BY <1>0, <3>1
  <2>3. CASE PollClosed
    <3>1. row.state # "absent" /\ en' = en
      BY <1>0, <2>3 DEF PollClosed
    <3> QED  BY <1>0, <3>1, RowKept
  <2>4. CASE PollMissing \/ RestoreNode \/ RestoreState
    BY <1>0, <2>4 DEF PollMissing, RestoreNode, RestoreState
  <2>5. CASE PollRunning \/ SignalReconcile \/ CheckTooLate
    <3>1. row' = row /\ status' = status
      BY <2>5 DEF PollRunning, SignalReconcile, CheckTooLate
    <3>2. CASE en' = IdlePoll
      BY <1>0, <3>1, <3>2, IdlePollFacts
    <3>3. CASE en' # IdlePoll
      <4>1. en' = [IdlePoll EXCEPT !.st = "signal", !.term = binds[mem.node].term]
        BY <2>5, <3>3 DEF PollRunning, SignalReconcile, CheckTooLate
      <4> QED  BY <1>0, <3>1, <4>1 DEF IdlePoll
    <3> QED  BY <3>2, <3>3
  <2> QED  BY <1>1, <2>1, <2>2, <2>3, <2>4, <2>5 DEF EnsureRun
<1>2. CASE ~EnsureRun
  <2>1. en' = en
    BY <1>0, <1>2, EnKept
  <2>2. status' # "none" => status # "none"
    <3>1. ~Started
      <4>1. Started => execs' # execs
        <5>1. execs \in Nat
          BY FaultAssumption DEF OpenInv
        <5> QED  BY <5>1 DEF Started
      <4> QED  BY <1>2, <4>1, ExecsKept DEF EnsureRun
    <3> QED  BY <3>1, Moves, RunningGoesOn
  <2> QED  BY <1>0, <2>1, <2>2, RowKept
<1> QED  BY <1>1, <1>2

(* What a step does to terminals and to the rows that name them. *)
RowsKept == \A n \in Nodes : runtimes'[n].term = runtimes[n].term
Calm     == phase # "bind" /\ phase' # "bind"
Faded ==
    /\ terms' = terms \/ \E S : terms' = Closed(S)
    /\ RowsKept
    /\ phase' = "bind" => phase = "bind" /\ fresh' = fresh /\ cur' = cur
    /\ phase = "bind" => phase' = "bind"
Reclaimed ==
    /\ Calm
    /\ \E ns \in SUBSET Nodes :
          /\ terms' = Closed({runtimes[n].term : n \in ns})
          /\ \A n \in Nodes : runtimes'[n].term = IF n \in ns THEN 0 ELSE runtimes[n].term
Prompted ==
    /\ Calm /\ RowsKept /\ pc \in LaunchPcs /\ cur \in Nodes /\ BoundLive(cur)
    /\ terms' = [terms EXCEPT ![runtimes[cur].term].visit = visit]
Opening ==
    /\ phase = "call" /\ phase' = "bind" /\ pc \in LaunchPcs /\ cur \in Nodes /\ cur' = cur
    /\ RowsKept /\ ~BoundLive(cur)
    /\ \/ terms' = terms /\ fresh' \in DOMAIN terms
       \/ /\ terms' = Append(terms, [node |-> cur, live |-> TRUE, visit |-> visit])
          /\ fresh' = Len(terms) + 1
Binding ==
    /\ phase = "bind" /\ phase' # "bind" /\ cur \in Nodes /\ terms' = terms
    /\ runtimes' = [runtimes EXCEPT ![cur].term = fresh]
Refused ==
    /\ phase = "bind" /\ phase' # "bind" /\ RowsKept /\ terms' = Closed({fresh})

TermsMoved == Faded \/ Reclaimed \/ Prompted \/ Opening \/ Binding \/ Refused

LEMMA RecordedPhase == Recorded => phase' # "bind"
BY DEF Recorded, Proceed, GiveUp, Canceled, Advance, Enter, Begin, Phase

LEMMA FailedPhase == Failed(mem) => phase' # "bind"
BY DEF Failed, GiveUp, Canceled, Begin, Phase

LEMMA DonePhase == Done => phase' # "bind"
BY RecordedPhase, FailedPhase DEF Done

LEMMA ActivityTerms == ASSUME TInv, OpenInv, Activity PROVE TermsMoved
<1>0. runtimes \in Runtimes /\ (pc \in NodePcs => cur \in Nodes)
  BY DEF TInv, ProjTypeOK, Located
<1> DEFINE Quiet == Calm /\ RowsKept /\ (terms' = terms \/ \E S : terms' = Closed(S))
<1>1. Quiet => TermsMoved
  BY DEF TermsMoved, Faded, Calm
<1>2. CASE PlainActivity
  BY <1>1, <1>2, RecordedPhase DEF PlainActivity, Act, Calm, RowsKept
<1>3. CASE TaskActivity
  BY <1>1, <1>3, DonePhase DEF TaskActivity, Act, Calm, RowsKept
<1>4. CASE PrepareRestart
  BY <1>1, <1>4, DonePhase DEF PrepareRestart, Act, Calm, RowsKept
<1>5. CASE LoadNodeRuntime
  BY <1>1, <1>5, RecordedPhase DEF LoadNodeRuntime, Act, Calm, RowsKept
<1>6. CASE ProjectionActivity
  <2>1. Calm /\ terms' = terms
    BY <1>6, DonePhase DEF ProjectionActivity, Act, Calm
  <2>2. RowsKept
    BY <1>0, <1>6 DEF ProjectionActivity, UpdateNodeRuntimeVisit, UpdateNode, RowsKept, Runtimes
  <2> QED  BY <1>1, <2>1, <2>2
<1>7. CASE ReclaimActivity
  <2>1. Calm
    BY <1>7, DonePhase DEF ReclaimActivity, Act, Calm
  <2>2. PICK ns \in SUBSET Nodes, keep \in BOOLEAN : Reclaim(ns, keep)
    <3>1. KeepTerminals \in BOOLEAN /\ KeepAtEnd \in BOOLEAN
      BY SwitchAssumption, Zenon DEF KeepAtEnd
    <3>2. Act("checkpoint") => {cur} \in SUBSET Nodes
      BY <1>0 DEF Act, NodePcs
    <3> QED  BY <1>7, <3>1, <3>2 DEF ReclaimActivity
  <2>3. CASE keep
    <3>1. terms' = terms /\ RowsKept
      BY <2>2, <2>3 DEF Reclaim, ClearNodeRuntime, RowsKept
    <3> QED  BY <1>1, <2>1, <3>1
  <2>4. CASE ~keep
    <3>1. /\ terms' = Closed({runtimes[n].term : n \in ns})
          /\ \A n \in Nodes : runtimes'[n].term = IF n \in ns THEN 0 ELSE runtimes[n].term
      BY <1>0, <2>2, <2>4 DEF Reclaim, ClearNodeRuntime, Runtimes
    <3> QED  BY <2>1, <3>1 DEF TermsMoved, Reclaimed
  <2> QED  BY <2>3, <2>4
<1>8. CASE CleanupRun
  BY <1>1, <1>8, DonePhase DEF CleanupRun, Act, Calm, RowsKept
<1>9. CASE CommentCancellation
  BY <1>1, <1>9, DonePhase DEF CommentCancellation, Act, Calm, RowsKept
<1>10. CASE ReuseTerminal
  <2>1. Calm /\ cur \in Nodes /\ pc \in LaunchPcs /\ BoundLive(cur) /\ RowsKept
    BY <1>10, DonePhase, LaunchingFacts DEF ReuseTerminal, Calm, RowsKept
  <2> QED  BY <1>1, <1>10, <2>1 DEF ReuseTerminal, TermsMoved, Prompted
<1>11. CASE EnsureTerminal
  <2>1. /\ cur \in Nodes /\ pc \in LaunchPcs /\ ~BoundLive(cur) /\ RowsKept
        /\ phase = "call" /\ phase' = "bind" /\ cur' = cur
    BY <1>11, LaunchingFacts DEF EnsureTerminal, Phase, Placed, RowsKept
  <2> QED  BY <1>11, <2>1 DEF EnsureTerminal, Recoverable, TermsMoved, Opening
<1>12. CASE SendFails
  <2>1. Calm /\ RowsKept
    BY <1>12, LaunchingFacts DEF SendFails, Calm, RowsKept
  <2> QED  BY <1>1, <1>12, <2>1 DEF SendFails
<1>13. CASE BindTerminal
  <2>1. cur \in Nodes /\ phase = "bind" /\ phase' # "bind"
    BY <1>0, <1>13, RecordedPhase, FailedPhase DEF BindTerminal, OpenInv, NodePcs
  <2>2. CASE ReplaceNodeRuntime(cur, visit, fresh) /\ UNCHANGED terms
    BY <2>1, <2>2 DEF ReplaceNodeRuntime, TermsMoved, Binding
  <2>3. CASE terms' = Closed({fresh}) /\ UNCHANGED runtimes
    BY <2>1, <2>3 DEF TermsMoved, Refused, RowsKept
  <2> QED  BY <1>13, <2>2, <2>3 DEF BindTerminal
<1>14. CASE StaleLaunch
  BY <1>1, <1>14, FailedPhase DEF StaleLaunch, Act, Calm, RowsKept
<1> QED  BY <1>2, <1>3, <1>4, <1>5, <1>6, <1>7, <1>8, <1>9, <1>10, <1>11, <1>12, <1>13, <1>14
         DEF Activity

LEMMA TermsMove ==
    ASSUME TInv, OpenInv, RowInv, Undisturbed', [Next]_vars
    PROVE  TermsMoved
<1>0. Undisturbed /\ ~Crash /\ ~Recover
  BY UndisturbedStep
<1>1. CASE Activity  BY <1>1, ActivityTerms
<1>2. CASE RetryLoop
  <2>1. terms' = terms /\ RowsKept
    BY <1>2 DEF RetryLoop, ActivityFails, MarkBlocked, NoteRetry, TimerFires, ClearRetry, Unblock,
         WriteFails, LoopCanceled, LoopFrame, RowsKept
  <2>2. Calm
    <3>1. phase # "bind"
      BY <1>2 DEF RetryLoop, ActivityFails, MarkBlocked, NoteRetry, TimerFires, ClearRetry, Unblock,
         WriteFails, LoopCanceled, Loop
    <3>2. \A m : Proceed(m) => phase' # "bind"
      BY DEF Proceed, Canceled, Advance, Enter, Begin
    <3>3. GiveUp => phase' # "bind"
      BY DEF GiveUp, Canceled, Begin
    <3>4. phase' # "bind"
      BY <1>2, <3>1, <3>2, <3>3, FailedPhase
         DEF RetryLoop, ActivityFails, MarkBlocked, NoteRetry, TimerFires, ClearRetry, Unblock,
             WriteFails, LoopCanceled, Phase
    <3> QED  BY <3>1, <3>4 DEF Calm
  <2> QED  BY <2>1, <2>2 DEF Calm, TermsMoved, Faded
<1>3. CASE Receive
  <2>1. terms' = terms /\ RowsKept /\ fresh' = fresh
    BY <1>3 DEF Receive, TakeCancel, TakeReport, TakeReconcile, CallFrame, RowsKept
  <2>2. CASE pc = "wait"
    <3>1. phase # "bind"
      BY <2>2 DEF OpenInv
    <3>2. phase' # "bind"
      BY <1>3, <2>2, <3>1 DEF Receive, TakeCancel, TakeReport, TakeReconcile, GiveUp, Canceled, Begin
    <3> QED  BY <2>1, <3>1, <3>2 DEF TermsMoved, Faded
  <2>3. CASE pc # "wait"
    <3>1. phase' = phase /\ cur' = cur
      BY <1>3, <2>3 DEF Receive, TakeCancel, TakeReport, TakeReconcile, Waiting, Placed
    <3> QED  BY <2>1, <3>1 DEF TermsMoved, Faded
  <2> QED  BY <2>2, <2>3
<1>4. CASE ExecuteWorkflow
  <2>1. terms' = terms /\ RowsKept /\ fresh' = fresh
    BY <1>4 DEF ExecuteWorkflow, RowsKept
  <2>2. CASE status \in {"none", "canceled"} /\ execs < MaxExecs
    <3>1. phase # "bind" /\ phase' # "bind"
      BY <1>4, <2>2 DEF ExecuteWorkflow, Begin, OpenInv
    <3> QED  BY <2>1, <3>1 DEF TermsMoved, Faded
  <2>3. CASE ~(status \in {"none", "canceled"} /\ execs < MaxExecs)
    <3>1. phase' = phase /\ cur' = cur
      BY <1>4, <2>3 DEF ExecuteWorkflow
    <3> QED  BY <2>1, <3>1 DEF TermsMoved, Faded
  <2> QED  BY <2>2, <2>3
<1>5. CASE EnsureRun /\ ~ExecuteWorkflow
  <2>1. terms' = terms /\ fresh' = fresh /\ phase' = phase /\ cur' = cur
    BY <1>5 DEF EnsureRun, PollUnstarted, PollClosed, PollMissing, RestoreNode,
         RestoreState, PollRunning, SignalReconcile, CheckTooLate, PollFrame
  <2>2. runtimes' = runtimes
    BY <1>0, <1>5 DEF RowInv, EnsureRun, PollUnstarted, PollClosed, PollMissing, RestoreNode,
         RestoreState, PollRunning, SignalReconcile, CheckTooLate
  <2> QED  BY <2>1, <2>2 DEF RowsKept, TermsMoved, Faded
<1>6. CASE \/ \E r \in ReportIds : AgentReports(r) \/ Submit(r)
           \/ \E why \in Reasons : GetForCancel(why) \/ Serve(why)
           \/ UNCHANGED vars
  <2>1. UNCHANGED <<terms, runtimes, fresh, phase, cur>>
    BY <1>6 DEF AgentReports, Submit, CheckReport, SignalReport, SignalLost, ReqFrame, GetForCancel,
         Serve, MarkCanceling, SignalReason, CancelWorkflow, CancelFails, NotRunning, CancelFrame, vars
  <2> QED  BY <2>1 DEF RowsKept, TermsMoved, Faded
<1>7. CASE TerminalDies
  <2>1. (\E S : terms' = Closed(S)) /\ UNCHANGED <<runtimes, fresh, phase, cur>>
    BY <1>7 DEF TerminalDies
  <2> QED  BY <2>1 DEF RowsKept, TermsMoved, Faded
<1> QED  BY <1>0, <1>1, <1>2, <1>3, <1>4, <1>5, <1>6, <1>7, Zenon DEF Next

LEMMA ClosedFacts ==
    ASSUME terms \in Seq(Terminals), NEW S
    PROVE  /\ DOMAIN Closed(S) = DOMAIN terms
           /\ \A t \in DOMAIN terms :
                 /\ Closed(S)[t].live => terms[t].live /\ t \notin S
                 /\ Closed(S)[t].visit = terms[t].visit
<1>1. \A t \in DOMAIN terms : terms[t] \in Terminals
  BY TermFacts
<1> QED  BY <1>1 DEF Closed, Terminals

(* Whoever is at work after a step was so before it, or is prompted now.   *)
LEMMA WorkedBefore ==
    ASSUME TInv, OpenInv, TermsMoved
    PROVE  /\ DOMAIN terms \subseteq DOMAIN terms'
           /\ \A t \in DOMAIN terms' :
                 AtWork(t)' => \/ t \in DOMAIN terms /\ AtWork(t)
                               \/ Prompted /\ t = runtimes[cur].term
                               \/ Opening /\ t = fresh'
           /\ \A n \in Nodes : ~BoundLive(n) /\ runtimes[n].term \in {0} \cup DOMAIN terms
                 /\ runtimes'[n].term = runtimes[n].term /\ ~Prompted => ~BoundLive(n)'
<1>0. /\ terms \in Seq(Terminals) /\ Len(terms) \in Nat /\ DOMAIN terms = 1..Len(terms)
      /\ visit \in Nat /\ 0 \notin DOMAIN terms
  BY Opened, TermFacts
<1>1. CASE terms' = terms
  BY <1>1 DEF AtWork, BoundLive
<1>2. CASE \E S : terms' = Closed(S)
  <2>1. /\ DOMAIN terms' = DOMAIN terms
        /\ \A t \in DOMAIN terms : /\ terms'[t].live => terms[t].live
                                   /\ terms'[t].visit = terms[t].visit
    BY <1>0, <1>2, ClosedFacts
  <2> QED  BY <2>1 DEF AtWork, BoundLive
<1>3. CASE Prompted
  <2>1. /\ DOMAIN terms' = DOMAIN terms
        /\ \A t \in DOMAIN terms \ {runtimes[cur].term} : terms'[t] = terms[t]
    BY <1>3 DEF Prompted
  <2> QED  BY <1>3, <2>1 DEF AtWork
<1>4. CASE Opening /\ terms' # terms
  <2>1. terms' = Append(terms, [node |-> cur, live |-> TRUE, visit |-> visit])
        /\ fresh' = Len(terms) + 1
    BY <1>4 DEF Opening
  <2>2. [node |-> cur, live |-> TRUE, visit |-> visit] \in Terminals
    BY <1>0, <1>4 DEF Opening, Terminals
  <2>3. /\ DOMAIN terms' = 1..(Len(terms) + 1)
        /\ \A t \in DOMAIN terms : terms'[t] = terms[t]
    BY <1>0, <2>1, <2>2, AppendProperties
  <2>4. \A t \in DOMAIN terms' : t \in DOMAIN terms \/ t = fresh'
    BY <1>0, <2>1, <2>3
  <2>5. \A t \in DOMAIN terms : AtWork(t)' => AtWork(t)
    BY <2>3 DEF AtWork
  <2>6. \A n \in Nodes : ~BoundLive(n) /\ runtimes[n].term \in {0} \cup DOMAIN terms
           /\ runtimes'[n].term = runtimes[n].term => ~BoundLive(n)'
    BY <2>3 DEF BoundLive
  <2>7. DOMAIN terms \subseteq DOMAIN terms'
    BY <1>0, <2>3
  <2> QED  BY <1>4, <2>4, <2>5, <2>6, <2>7
<1> QED  BY <1>1, <1>2, <1>3, <1>4 DEF TermsMoved, Faded, Reclaimed, Binding, Refused

LEMMA HousedStep ==
    ASSUME TInv, OpenInv, Housed, TermsMoved
    PROVE  Housed'
<1>0. /\ DOMAIN terms \subseteq DOMAIN terms'
      /\ \A n \in Nodes : ~BoundLive(n) /\ runtimes[n].term \in {0} \cup DOMAIN terms
            /\ runtimes'[n].term = runtimes[n].term /\ ~Prompted => ~BoundLive(n)'
      /\ \A n \in Nodes : runtimes[n].term \in {0} \cup DOMAIN terms
      /\ phase = "bind" => cur \in Nodes /\ fresh \in DOMAIN terms /\ ~BoundLive(cur)
      /\ runtimes \in Runtimes
  BY WorkedBefore, Opened DEF Housed
<1>1. CASE Faded
  <2>1. \A n \in Nodes : runtimes'[n].term \in {0} \cup DOMAIN terms'
    BY <1>0, <1>1 DEF Faded, RowsKept
  <2>2. ASSUME phase' = "bind" PROVE cur' \in Nodes /\ fresh' \in DOMAIN terms' /\ ~BoundLive(cur)'
    <3>1. phase = "bind" /\ cur' = cur /\ fresh' = fresh /\ ~Prompted
      BY <1>1, <2>2 DEF Faded, Prompted, Calm
    <3>2. cur \in Nodes /\ ~BoundLive(cur) /\ runtimes'[cur].term = runtimes[cur].term
      BY <1>0, <1>1, <3>1 DEF Faded, RowsKept
    <3>3. \A n \in Nodes : n = cur => ~BoundLive(n)'
      BY <1>0, <3>1, <3>2
    <3> QED  BY <1>0, <3>1, <3>2, <3>3 DEF BoundLive
  <2> QED  BY <2>1, <2>2 DEF Housed
<1>2. CASE Reclaimed \/ Prompted \/ Refused
  BY <1>0, <1>2 DEF Reclaimed, Prompted, Refused, Calm, RowsKept, Housed
<1>3. CASE Opening
  <2>1. \A n \in Nodes : runtimes'[n].term \in {0} \cup DOMAIN terms'
    BY <1>0, <1>3 DEF Opening, RowsKept
  <2>2. fresh' \in DOMAIN terms'
    <3>1. CASE terms' = terms /\ fresh' \in DOMAIN terms  BY <3>1
    <3>2. CASE /\ terms' = Append(terms, [node |-> cur, live |-> TRUE, visit |-> visit])
               /\ fresh' = Len(terms) + 1
      <4>1. [node |-> cur, live |-> TRUE, visit |-> visit] \in Terminals
        BY <1>3, Opened DEF Opening, Terminals
      <4> QED  BY <3>2, <4>1, Opened, TermFacts, AppendProperties
    <3> QED  BY <1>3, <3>1, <3>2 DEF Opening
  <2>3. cur' = cur /\ cur \in Nodes /\ ~Prompted /\ ~BoundLive(cur)
        /\ runtimes'[cur].term = runtimes[cur].term
    BY <1>3 DEF Opening, Prompted, RowsKept, Calm
  <2>4. \A n \in Nodes : n = cur => ~BoundLive(n)'
    BY <1>0, <2>3
  <2> QED  BY <2>1, <2>2, <2>3, <2>4 DEF Housed, BoundLive
<1>4. CASE Binding
  <2>1. \A n \in Nodes : runtimes'[n].term \in {runtimes[n].term, fresh}
    BY <1>0, <1>4 DEF Binding, Runtimes
  <2> QED  BY <1>0, <1>4, <2>1 DEF Binding, Housed
<1> QED  BY <1>1, <1>2, <1>3, <1>4 DEF TermsMoved

LEMMA MindedStep ==
    ASSUME TInv, OpenInv, Housed, Minded, TermsMoved
    PROVE  Minded'
<1> SUFFICES ASSUME NEW t \in DOMAIN terms', AtWork(t)'
             PROVE  (\E n \in Nodes : runtimes'[n].term = t) \/ (phase' = "bind" /\ t = fresh')
  BY DEF Minded, Bound
<1>0. terms \in Seq(Terminals) /\ runtimes \in Runtimes /\ 0 \notin DOMAIN terms
  BY Opened, TermFacts
<1>1. CASE Prompted /\ t = runtimes[cur].term
  BY <1>1 DEF Prompted, RowsKept
<1>2. CASE Opening /\ t = fresh'
  BY <1>2 DEF Opening
<1>3. CASE t \in DOMAIN terms /\ AtWork(t)
  <2>1. (\E n \in Nodes : runtimes[n].term = t) \/ (phase = "bind" /\ t = fresh)
    BY <1>3 DEF Minded, Bound
  <2>2. CASE Faded
    BY <2>1, <2>2 DEF Faded, RowsKept
  <2>3. CASE Reclaimed
    <3>1. PICK ns \in SUBSET Nodes :
             /\ terms' = Closed({runtimes[n].term : n \in ns})
             /\ \A n \in Nodes : runtimes'[n].term = IF n \in ns THEN 0 ELSE runtimes[n].term
      BY <2>3 DEF Reclaimed
    <3>2. t \notin {runtimes[n].term : n \in ns}
      BY <1>0, <1>3, <3>1, ClosedFacts DEF AtWork
    <3>3. PICK n \in Nodes : runtimes[n].term = t
      BY <2>1, <2>3 DEF Reclaimed, Calm
    <3> QED  BY <3>1, <3>2, <3>3
  <2>4. CASE Prompted \/ Opening
    BY <2>1, <2>4 DEF Prompted, Opening, Calm, RowsKept
  <2>5. CASE Binding
    <3>1. CASE t = fresh
      <4>1. runtimes'[cur].term = fresh /\ cur \in Nodes
        BY <1>0, <2>5 DEF Binding, Runtimes
      <4> QED  BY <3>1, <4>1
    <3>2. CASE t # fresh
      <4>1. PICK n \in Nodes : runtimes[n].term = t
        BY <2>1, <3>2
      <4>2. n # cur
        BY <1>0, <1>3, <2>5, <4>1 DEF Binding, Housed, BoundLive, AtWork
      <4>3. runtimes'[n] = runtimes[n]
        BY <1>0, <2>5, <4>2 DEF Binding, Runtimes
      <4> QED  BY <4>1, <4>3
    <3> QED  BY <3>1, <3>2
  <2>6. CASE Refused
    <3>1. t # fresh
      BY <1>0, <1>3, <2>6, ClosedFacts DEF Refused, AtWork
    <3> QED  BY <2>1, <2>6, <3>1 DEF Refused, RowsKept
  <2> QED  BY <2>2, <2>3, <2>4, <2>5, <2>6 DEF TermsMoved
<1> QED  BY <1>1, <1>2, <1>3, WorkedBefore

(* The cleanup of cFinalize is the only way past it. *)
LEMMA CleanedBy ==
    ASSUME TInv, OpenInv, Moved, ~Cleaned, Cleaned'
    PROVE  phase = "call" /\ terms' = Closed({runtimes[n].term : n \in Nodes})
<1> USE DEF Cleaned
<1>0. pc = "cFinalize" => phase # "bind"
  BY DEF OpenInv
<1>1. CASE Same     BY <1>1 DEF Same
<1>2. CASE Onward
  <2>1. pc \in DOMAIN After /\ pc' = After[pc] /\ phase' = "call" /\ status' = "running"
    BY <1>2 DEF Onward, Advance, Enter, Begin, Running, Wrapped
  <2>2. pc = "cFinalize" /\ phase \notin Wrapped
    BY <2>1, AfterFacts DEF Wrapped
  <2> QED  BY <1>0, <1>2, <2>2 DEF Onward, Past
<1>3. CASE Decided  BY <1>3 DEF Decided, Begin
<1>4. CASE Left     BY <1>4 DEF Left, Begin, Wrapped
<1>5. CASE Again
  <2>1. pc = "cFinalize" /\ phase' \in Wrapped /\ phase \notin Wrapped
    BY <1>5 DEF Again, Running
  <2> QED  BY <1>0, <1>5, <2>1 DEF Again, Past
<1>6. CASE Started  BY <1>6 DEF Started, Begin
<1>7. CASE Accepted \/ Woken
  BY <1>7 DEF Accepted, Woken, Waiting, Begin
<1> QED  BY <1>1, <1>2, <1>3, <1>4, <1>5, <1>6, <1>7 DEF Moved

LEMMA SilentStep ==
    ASSUME TInv, OpenInv, Minded, Cleaned => Silent, TermsMoved, Moved, Cleaned'
    PROVE  Silent'
<1> SUFFICES ASSUME NEW t \in DOMAIN terms', AtWork(t)' PROVE FALSE
  BY DEF Silent
<1>0. terms \in Seq(Terminals)
  BY Opened
<1>1. CASE Cleaned
  <2>1. pc \notin LaunchPcs
    BY <1>1 DEF Cleaned, OpenInv
  <2>2. t \in DOMAIN terms /\ AtWork(t)
    BY <2>1, WorkedBefore DEF Prompted, Opening
  <2> QED  BY <1>1, <2>2 DEF Silent
<1>2. CASE ~Cleaned
  <2>1. phase = "call" /\ terms' = Closed({runtimes[n].term : n \in Nodes})
    BY <1>2, CleanedBy
  <2>2. /\ t \in DOMAIN terms /\ AtWork(t)
        /\ t \notin {runtimes[n].term : n \in Nodes}
    BY <1>0, <2>1, ClosedFacts DEF AtWork
  <2> QED  BY <2>1, <2>2 DEF Minded, Bound
<1> QED  BY <1>1, <1>2

LEMMA AgentsStep ==
    ASSUME TInv, OpenInv, RowInv, AgentsInv, [Next]_vars
    PROVE  AgentsInv'
<1> SUFFICES ASSUME Undisturbed' PROVE Housed' /\ Minded' /\ (Cleaned' => Silent')
  BY DEF AgentsInv
<1>1. TermsMoved /\ Moved
  BY TermsMove, Moves
<1>2. Housed /\ Minded /\ (Cleaned => Silent)
  BY UndisturbedStep DEF AgentsInv
<1> QED  BY <1>1, <1>2, HousedStep, MindedStep, SilentStep

LEMMA ToldStep == ASSUME TInv, OpenInv, ToldInv, [Next]_vars PROVE ToldInv'
<1>0. Moved /\ effects \subseteq effects'
  BY Moves, EffectsGrow
<1> DEFINE Told == <<"cComment", 0>> \in effects
           Due  == pc = "cState" \/ (pc = "cComment" /\ phase \in Wrapped) \/ status = "canceled"
<1>1. Due => Told
  BY DEF ToldInv
<1>2. Told => Told'
  BY <1>0
<1>3. pc = "cComment" => phase # "bind"
  BY DEF OpenInv
<1>4. Due' => Told'
  <2>1. CASE Same
    <3>1. Due' => Due
      BY <2>1 DEF Same
    <3> QED  BY <1>1, <1>2, <3>1
  <2>2. CASE Onward
    <3>1. status' = "running" /\ phase' = "call"
      BY <2>2 DEF Onward, Running, Advance, Enter, Begin
    <3>2. CASE pc' = "cState"
      <4>1. pc \in DOMAIN After /\ pc' = After[pc]
        BY <2>2, <3>2 DEF Onward, Advance, Enter, Begin
      <4>2. pc = "cComment"
        BY <3>2, <4>1, AfterFacts
      <4> QED  BY <1>1, <1>2, <1>3, <2>2, <4>2 DEF Onward, Past
    <3> QED  BY <3>1, <3>2 DEF Wrapped
  <2>3. CASE Decided
    <3>1. Due' => Due
      BY <2>3 DEF Decided, Begin
    <3> QED  BY <1>1, <1>2, <3>1
  <2>4. CASE Left \/ Accepted \/ Woken \/ Started
    BY <2>4 DEF Left, Accepted, Woken, Started, Waiting, Begin
  <2>5. CASE Again
    <3>1. status' = "running" /\ pc' = pc
      BY <2>5 DEF Again, Running
    <3>2. pc = "cComment" /\ phase' \in Wrapped => Told'
      BY <1>1, <1>2, <1>3, <2>5 DEF Again, Past
    <3>3. pc = "cState" => Told'
      BY <1>1, <1>2
    <3> QED  BY <3>1, <3>2, <3>3
  <2> QED  BY <1>0, <2>1, <2>2, <2>3, <2>4, <2>5 DEF Moved
<1> QED  BY <1>4 DEF ToldInv

-----------------------------------------------------------------------------
(* The properties *)

TemporalInv == TInv /\ OpenInv /\ VisitInv /\ EndInv /\ RowInv /\ AgentsInv /\ ToldInv

LEMMA InitTemporal == Init => TemporalInv
<1> SUFFICES ASSUME Init PROVE TemporalInv  OBVIOUS
<1>1. TInv
  BY InitTypes
<1>2. OpenInv /\ VisitInv
  BY DEF Init, OpenInv, VisitInv, IdlePoll, AtNode, ReportsConsumedOnce
<1>3. row.state = "absent" /\ en.st = "idle" /\ status = "none" /\ pc = "done" /\ phase = "call"
  BY DEF Init, ProjInit, IdlePoll
<1>4. EndInv /\ RowInv /\ ToldInv
  BY <1>3 DEF EndInv, RowInv, ToldInv, Ending, Terminal
<1>5. \A t \in DOMAIN terms : ~AtWork(t)
  BY DEF Init, AtWork
<1>6. AgentsInv
  BY <1>3, <1>5 DEF Init, ProjInit, AgentsInv, Housed, Minded, Cleaned
<1> QED  BY <1>1, <1>2, <1>4, <1>6 DEF TemporalInv

LEMMA TemporalInductive == Spec => []TemporalInv
<1>1. TemporalInv /\ [Next]_vars => TemporalInv'
  BY NextType, OpenStep, VisitStep, EndStep, RowStep, AgentsStep, ToldStep DEF TemporalInv
<1> QED  BY <1>1, InitTemporal, PTL DEF Spec

(* A report moves the run once and a visit is left by one report, however  *)
(* often signals are sent again, in every graph and with any number of     *)
(* agents that report.                                                     *)
THEOREM OneReportAVisit == Spec => []ReportsConsumedOnce
<1>1. TemporalInv => ReportsConsumedOnce
  BY DEF TemporalInv, VisitInv
<1> QED  BY <1>1, TemporalInductive, PTL

(* Temporal decides a run once, and the projection repeats what it decided,*)
(* after any losses of the rows, crashes and racing cancellations, and     *)
(* though Temporal would start a second execution if it were asked to.     *)
THEOREM TemporalDecides == Spec => []DecisionIsTemporals
<1>1. TemporalInv => DecisionIsTemporals
  BY DEF TemporalInv, OpenInv, EndInv, Applied, DecisionIsTemporals
<1> QED  BY <1>1, TemporalInductive, PTL

(* A canceled execution has told the ticket, and unless a row was lost or  *)
(* a worker died no agent is left at work, whatever the machine keeps and  *)
(* whichever terminals died or were found again by their titles.           *)
THEOREM CancellationClearsUp == Spec => []CanceledLeavesNothing
<1>1. TemporalInv => CanceledLeavesNothing
  <2> SUFFICES ASSUME TemporalInv, status = "canceled", Undisturbed
               PROVE  /\ \A t \in DOMAIN terms : terms[t].visit # 0 => ~terms[t].live
                      /\ <<"cComment", 0>> \in effects
    BY DEF CanceledLeavesNothing, Undisturbed
  <2>1. Silent
    BY DEF TemporalInv, AgentsInv, Cleaned
  <2> QED  BY <2>1 DEF TemporalInv, ToldInv, Silent, AtWork
<1> QED  BY <1>1, TemporalInductive, PTL
===============================================================================
