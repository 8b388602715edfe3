-------------------------- MODULE RunTimeline_proofs --------------------------
(***************************************************************************)
(* What holds of one attempt's step rows and sessions for every graph,     *)
(* every number of steps, sessions and operators, and any number of        *)
(* attempts that time out and write late: finished steps and registered    *)
(* sessions stand, decisions stand, a cancellation is announced with a     *)
(* reason that was given, and the timeline rebuilt from Temporal is the    *)
(* one the table had.                                                      *)
(***************************************************************************)
EXTENDS RunTimeline, WellFoundedInduction, TLAPS

(* Where the workflow stands, and what a late attempt may be writing. *)
Placed ==
    /\ pc \in {"startOpen", "startDone"} => k = 0
    /\ pc \in Visiting \cup {"startOpen", "startDone"} => target \in Nodes /\ k < MaxStep
    /\ late.op = "step" => late.s \in Statuses
    /\ late.op = "node" => late.s \in Nodes
    /\ late.op \in {"state", "lookup", "derive"} =>
          late.s \in {"waiting", "blocked", "completed", "canceled"}

(* A cancellation is on record, or has got further. *)
Recorded == ctxDone \/ \E why \in Callers : call[why] \in {"recorded", "told"}

(* While every attempt has written: the row is decided at the end only,    *)
(* a canceled workflow has its cancellation on record, and a blocked one   *)
(* waits where a conflict can meet it.                                     *)
Decided ==
    slow = 0 =>
       /\ late = NoWrite
       /\ pc # "closed" => row.state \notin Terminal
       /\ pc # "closed" /\ Recorded => row.state = "canceling"
       /\ pc \in {"clear", "canceled"} => ctxDone
       /\ blocked => pc \in {"startDone", "launch", "next", "endDone"}

(* ... the table has at most one open step, the current one, ...           *)
Numbered ==
    slow = 0 =>
       /\ \A i \in Sequences0 : i > k => steps[i] = "none"
       /\ \A i \in Sequences0 : steps[i] \in Open => i = k
       /\ pc \in {"startOpen", "open", "endOpen"} => steps[k] = "none"
       /\ pc \in {"startDone", "visit", "launch", "bind", "node", "waiting", "wait",
                  "close", "endDone"} => steps[k] \in Open
       /\ pc \in {"next", "completed"} => steps[k] \in Finished

(* ... and the workflow's memory and its history differ from it only in    *)
(* how far an open step has got, until the last write, after which what    *)
(* is rebuilt from each of them is the table.                              *)
Alike(tbl) ==
    \A i \in Sequences0 : tbl[i] = steps[i] \/ {tbl[i], steps[i]} \subseteq Open

Told ==
    slow = 0 =>
       /\ pc # "closed" => Alike(mem) /\ Alike(told)
       /\ pc = "closed" => /\ OpenSteps(steps) = {}
                           /\ Derived(mem, Outcome) = steps
                           /\ Derived(told, Outcome) = steps

(* Reasons spread from the record to the workflow: the row shows one that  *)
(* was recorded, and cancellation is requested after the signal.           *)
Spread ==
    /\ row.state = "canceling" => row.err \in Given
    /\ heard = "none" \/ heard \in Given
    /\ ctxDone \/ (\E why \in Callers : call[why] = "told") => heard \in Given
    /\ pc \in {"clear", "canceled"} => ctxDone
    /\ \A why \in Callers : call[why] # "idle" => row.state # "absent"

TimelineInv == TypeOK /\ Placed /\ Spread /\ Decided /\ Numbered /\ Told

-----------------------------------------------------------------------------
(* Step tables *)

(* A non-empty set of step sequences has a greatest member. *)
LEMMA Greatest ==
    ASSUME NEW S, S \subseteq Sequences0, S # {}
    PROVE  \E i \in S : \A j \in S : j <= i
<1> DEFINE Below == {p \in Nat \X Nat : p[1] < p[2]}
           Room  == {MaxStep - i : i \in S}
<1>1. IsWellFoundedOn(Below, Nat)
  BY NatLessThanWellFounded DEF OpToRel
<1>2. Room \subseteq Nat /\ Room # {}
  <2>1. ASSUME NEW i \in S  PROVE MaxStep - i \in Nat
    BY TimelineAssumption DEF Sequences0
  <2> QED  BY <2>1
<1>3. PICK m \in Room : \A y \in Room : <<y, m>> \notin Below
  <2> HIDE DEF Below, Room
  <2> QED  BY <1>1, <1>2, WFMin
<1>4. PICK i \in S : m = MaxStep - i
  BY <1>3
<1>5. ASSUME NEW j \in S
      PROVE  j <= i
  <2>1. i \in 0..MaxStep /\ j \in 0..MaxStep /\ MaxStep \in Nat
    BY TimelineAssumption DEF Sequences0
  <2>2. MaxStep - j \in Room /\ MaxStep - j \in Nat /\ m \in Nat
    BY <2>1, <1>4
  <2>3. ~(MaxStep - j < m)
    BY <1>3, <2>2
  <2> QED  BY <2>1, <2>3, <1>4
<1> QED  BY <1>5

(* updateLatestStep works on an open step, ... *)
LEMMA LatestIsOpen ==
    ASSUME NEW tbl, OpenSteps(tbl) # {}
    PROVE  /\ Latest(tbl) \in Sequences0 /\ tbl[Latest(tbl)] \in Open
           /\ \A j \in OpenSteps(tbl) : j <= Latest(tbl)
<1>1. OpenSteps(tbl) \subseteq Sequences0
  BY DEF OpenSteps
<1>2. \E i \in OpenSteps(tbl) : \A j \in OpenSteps(tbl) : j <= i
  BY <1>1, Greatest
<1>3. Latest(tbl) \in OpenSteps(tbl) /\ \A j \in OpenSteps(tbl) : j <= Latest(tbl)
  BY <1>2 DEF Latest
<1> QED  BY <1>3 DEF OpenSteps

(* ... leaves the others alone, and gives a table again. *)
LEMMA SetLatestKeeps ==
    ASSUME NEW tbl \in Tables, NEW s \in Statuses
    PROVE  /\ SetLatest(tbl, s) \in Tables
           /\ \A i \in Sequences0 : tbl[i] \notin Open => SetLatest(tbl, s)[i] = tbl[i]
           /\ \A i \in Sequences0 : SetLatest(tbl, s)[i] \in {tbl[i], s}
<1>1. CASE OpenSteps(tbl) = {}
  BY <1>1 DEF SetLatest
<1>2. CASE OpenSteps(tbl) # {}
  <2>1. Latest(tbl) \in Sequences0 /\ tbl[Latest(tbl)] \in Open
    BY <1>2, LatestIsOpen
  <2>2. SetLatest(tbl, s) = [tbl EXCEPT ![Latest(tbl)] = s]
    BY <1>2 DEF SetLatest
  <2> QED  BY <2>1, <2>2 DEF Tables
<1> QED  BY <1>1, <1>2

LEMMA DerivedKeeps ==
    ASSUME NEW tbl \in Tables, NEW s
    PROVE  /\ Derived(tbl, s) \in Tables
           /\ \A i \in Sequences0 : tbl[i] \notin Open => Derived(tbl, s)[i] = tbl[i]
<1>1. StepStatus(s) \in Statuses
  BY DEF StepStatus, Statuses, Open, Finished
<1> QED  BY <1>1, SetLatestKeeps DEF Derived

LEMMA HistoryKeeps ==
    ASSUME NEW tbl \in Tables, NEW s
    PROVE  FromHistory(tbl, s) \in Tables
<1>1. {"waiting", "blocked", "canceled"} \subseteq Statuses
  BY DEF Statuses, Open, Finished
<1> QED  BY <1>1, SetLatestKeeps DEF FromHistory

(* upsertStep never changes a finished step. *)
LEMMA MergedKeeps ==
    ASSUME NEW old \in Statuses, NEW new \in Statuses
    PROVE  Merged(old, new) \in Statuses /\ (old \in Finished => Merged(old, new) = old)
BY DEF Merged

-----------------------------------------------------------------------------
(* What a step does *)

FlowOK   == /\ pc \in Pcs /\ k \in Sequences0 /\ target \in Nodes \cup {EndNode}
            /\ {ctxDone, blocked} \subseteq BOOLEAN
TablesOK == steps \in Tables /\ mem \in Tables /\ told \in Tables
LateOK   == /\ late \in [op : {"none", "step", "node", "state", "lookup", "derive"},
                         k : Sequences0, s : Statuses \cup States \cup Nodes]
            /\ slow \in 0..MaxSlow
SessOK   == /\ session \in [Nodes -> Sessions \cup {NoSession}]
            /\ bound \in [Nodes -> [Sessions -> Nat]]
            /\ prev \in Sessions \cup {NoSession}
CallsOK  == call \in [Callers -> Stages] /\ heard \in Callers

LEMMA TypeParts == TypeOK <=> ProjTypeOK /\ FlowOK /\ TablesOK /\ LateOK /\ SessOK /\ CallsOK
BY DEF TypeOK, FlowOK, TablesOK, LateOK, SessOK, CallsOK

Standing(pos, seq, node) ==
    /\ pos \in {"startOpen", "startDone"} => seq = 0
    /\ pos \in Visiting \cup {"startOpen", "startDone"} => node \in Nodes /\ seq < MaxStep
Writing ==
    /\ late.op = "step" => late.s \in Statuses
    /\ late.op = "node" => late.s \in Nodes
    /\ late.op \in {"state", "lookup", "derive"} =>
          late.s \in {"waiting", "blocked", "completed", "canceled"}

LEMMA PlacedParts == Placed <=> Standing(pc, k, target) /\ Writing
BY DEF Placed, Standing, Writing

(* The fence: what a decided or canceling row may turn into. *)
RowMoved ==
    /\ row.state \in Terminal => row'.state = row.state
    /\ row.state = "canceling" => row'.state \in Terminal \cup {"canceling"}
    /\ row.state # "absent" => row'.state # "absent"

FinishedKept == \A i \in Sequences0 : steps[i] \in Finished => steps'[i] = steps[i]

LEMMA UpdateStateMoves ==
    ASSUME ProjTypeOK, NEW s \in {"waiting", "blocked", "canceling", "completed", "canceled"},
           NEW e \in Errors, UpdateState(s, e)
    PROVE  row' \in Rows /\ RowMoved
<1>1. row \in Rows
  BY DEF ProjTypeOK
<1>2. CASE Fenced(s)
  BY <1>1, <1>2 DEF UpdateState, RowMoved, Terminal
<1>3. CASE ~Fenced(s)
  <2>1. row' = Written(s, e)
    BY <1>3 DEF UpdateState
  <2>2. row' \in Rows /\ row'.state = s
    BY <1>1, <2>1 DEF Written, Rows, States, Active, Terminal, Errors
  <2> QED  BY <1>1, <1>3, <2>2 DEF Fenced, RowMoved, Terminal
<1> QED  BY <1>2, <1>3

LEMMA UpdateNodeMoves ==
    ASSUME ProjTypeOK, NEW n \in Nodes, NEW v \in Nat, UpdateNode("running", n, v)
    PROVE  row' \in Rows /\ runtimes' \in Runtimes /\ RowMoved
<1>1. row \in Rows /\ runtimes \in Runtimes
  BY DEF ProjTypeOK
<1>2. CASE row.state \in Active
  <2>1. /\ row' = [row EXCEPT !.state = "running", !.node = n, !.visit = v]
        /\ runtimes' = [runtimes EXCEPT ![n].visit = v]
    BY <1>2 DEF UpdateNode
  <2>2. row' \in Rows
    BY <1>1, <2>1 DEF Rows, States, Active
  <2>3. runtimes' \in Runtimes
    BY <1>1, <2>1 DEF Runtimes
  <2>4. row'.state = "running"
    BY <1>1, <2>1 DEF Rows
  <2> QED  BY <1>2, <2>2, <2>3, <2>4 DEF RowMoved, Active, Terminal
<1>3. CASE row.state \notin Active
  BY <1>1, <1>3 DEF UpdateNode, RowMoved
<1> QED  BY <1>2, <1>3

(* ProjectionUpsertStep, whether its write is made, lost or late. *)
LEMMA UpsertMoves ==
    ASSUME TablesOK, LateOK, Writing, NEW i \in Sequences0, NEW s \in Statuses, NEW next,
           UpsertStep(i, s, next)
    PROVE  TablesOK' /\ LateOK' /\ Writing' /\ FinishedKept /\ rows' = rows /\ pc' \in {pc, next}
<1>1. told' \in Tables
  <2>1. told' = [told EXCEPT ![i] = Merged(told[i], s)]
    BY DEF UpsertStep
  <2>2. Merged(told[i], s) \in Statuses
    BY MergedKeeps DEF TablesOK, Tables
  <2> QED  BY <2>1, <2>2 DEF TablesOK, Tables
<1>2. rows' = rows
  BY DEF UpsertStep, rows
<1>3. CASE /\ steps' = [steps EXCEPT ![i] = Merged(steps[i], s)]
           /\ mem' = [mem EXCEPT ![i] = s] /\ pc' = next
           /\ UNCHANGED <<late, slow>>
  <2>1. Merged(steps[i], s) \in Statuses /\ (steps[i] \in Finished => Merged(steps[i], s) = steps[i])
    BY MergedKeeps DEF TablesOK, Tables
  <2>2. steps' \in Tables /\ FinishedKept
    BY <1>3, <2>1 DEF TablesOK, Tables, FinishedKept
  <2>3. mem' \in Tables
    BY <1>3 DEF TablesOK, Tables
  <2> QED  BY <1>1, <1>2, <1>3, <2>2, <2>3 DEF TablesOK, LateOK, Writing
<1>4. CASE /\ slow < MaxSlow /\ slow' = slow + 1
           /\ mem' = [mem EXCEPT ![i] = s] /\ pc' = next
           /\ UNCHANGED <<late, steps>>
  <2>1. mem' \in Tables
    BY <1>4 DEF TablesOK, Tables
  <2>2. slow' \in 0..MaxSlow
    BY <1>4, TimelineAssumption DEF LateOK
  <2> QED  BY <1>1, <1>2, <1>4, <2>1, <2>2 DEF TablesOK, LateOK, Writing, FinishedKept
<1>5. CASE TimesOut("step", i, s)
  <2>1. /\ slow' \in 0..MaxSlow /\ late' = [op |-> "step", k |-> i, s |-> s]
        /\ UNCHANGED <<pc, steps, mem>>
    BY <1>5, TimelineAssumption DEF LateOK, TimesOut
  <2> QED  BY <1>1, <1>2, <2>1 DEF TablesOK, LateOK, Writing, FinishedKept
<1> QED  BY <1>3, <1>4, <1>5 DEF UpsertStep

(* ProjectionUpdateState, likewise. *)
LEMMA WriteMoves ==
    ASSUME ProjTypeOK, TablesOK, LateOK, Writing,
           NEW s \in {"waiting", "blocked", "completed", "canceled"},
           NEW memory \in Tables, NEW next, WriteState(s, "none", memory, next)
    PROVE  /\ ProjTypeOK' /\ TablesOK' /\ LateOK' /\ Writing'
           /\ RowMoved /\ FinishedKept /\ pc' \in {pc, next}
<1>1. told' \in Tables
  BY HistoryKeeps DEF WriteState, TablesOK
<1>2. UNCHANGED <<runtimes, processed>>
  BY DEF WriteState
<1>3. CASE /\ UpdateState(s, "none")
           /\ steps' = IF Fenced(s) THEN steps ELSE Derived(steps, s)
           /\ mem' = memory /\ pc' = next
           /\ UNCHANGED <<late, slow>>
  <2>1. row' \in Rows /\ RowMoved
    BY <1>3, UpdateStateMoves DEF Errors
  <2>2. steps' \in Tables /\ FinishedKept
    <3>1. Derived(steps, s) \in Tables
          /\ \A i \in Sequences0 : steps[i] \notin Open => Derived(steps, s)[i] = steps[i]
      BY DerivedKeeps DEF TablesOK
    <3> QED  BY <1>3, <3>1 DEF TablesOK, FinishedKept, Open, Finished
  <2> QED  BY <1>1, <1>2, <1>3, <2>1, <2>2 DEF TablesOK, LateOK, Writing, ProjTypeOK
<1>4. CASE TimesOut("state", 0, s) /\ UNCHANGED row
  <2>1. /\ slow' \in 0..MaxSlow /\ late' = [op |-> "state", k |-> 0, s |-> s]
        /\ UNCHANGED <<pc, steps, mem, row>>
    BY <1>4, TimelineAssumption DEF LateOK, TimesOut
  <2>2. LateOK' /\ Writing'
    BY <2>1, TimelineAssumption DEF LateOK, Writing, States, Active, Terminal, Sequences0
  <2> QED  BY <1>1, <1>2, <2>1, <2>2 DEF TablesOK, FinishedKept, ProjTypeOK, RowMoved, Terminal
<1> QED  BY <1>3, <1>4 DEF WriteState

-----------------------------------------------------------------------------
(* Types and positions, and what no step undoes *)

SessionMoved ==
    \A n \in Nodes : session'[n] # session[n]
       => \/ session'[n] = NoSession /\ pc \in {"next", "clear"}
          \/ session'[n] \in Sessions /\ bound'[n][session'[n]] = runtimes[n].visit

TInv  == TypeOK /\ Placed
Moved == RowMoved /\ FinishedKept /\ SessionMoved

Core  == /\ ProjTypeOK /\ FlowOK /\ TablesOK /\ LateOK /\ SessOK
         /\ Standing(pc, k, target) /\ Writing

LEMMA Parts == TInv <=> /\ ProjTypeOK /\ FlowOK /\ TablesOK /\ LateOK /\ SessOK /\ CallsOK
                        /\ Standing(pc, k, target) /\ Writing
BY TypeParts, PlacedParts DEF TInv

LEMMA PartsAfter == Core' /\ CallsOK' => TInv'
BY DEF TInv, TypeOK, Placed, Core, Standing, Writing, FlowOK, TablesOK, LateOK, SessOK, CallsOK

LEMMA RowsRest ==
    ASSUME rows' = rows
    PROVE  RowMoved /\ (ProjTypeOK => ProjTypeOK')
BY DEF rows, RowMoved, ProjTypeOK, Terminal

LEMMA StepsRest ==
    ASSUME steps' = steps, mem' = mem, told' = told
    PROVE  FinishedKept /\ (TablesOK => TablesOK')
BY DEF FinishedKept, TablesOK

LEMMA LateRest ==
    ASSUME late' = late, slow' = slow
    PROVE  (LateOK => LateOK') /\ (Writing => Writing')
BY DEF LateOK, Writing

LEMMA SessRest ==
    ASSUME sessVars' = sessVars
    PROVE  SessionMoved /\ (SessOK => SessOK')
BY DEF sessVars, SessionMoved, SessOK

(* The workflow opens and closes steps. *)
LEMMA UpsertStep_Type ==
    ASSUME TInv,
           OpenStart \/ CloseStart \/ OpenVisit \/ CloseVisit \/ OpenEnd \/ CloseEnd
    PROVE  Core' /\ Moved
<1>0. /\ ProjTypeOK /\ FlowOK /\ TablesOK /\ LateOK /\ SessOK
      /\ Standing(pc, k, target) /\ Writing
      /\ {"running", "succeeded", "failed"} \subseteq Statuses /\ 0 \in Sequences0
  BY Parts, TimelineAssumption DEF Statuses, Open, Finished, Sequences0
<1>1. sessVars' = sessVars /\ \E i \in Sequences0, s \in Statuses, next \in Pcs : UpsertStep(i, s, next)
  BY <1>0 DEF OpenStart, CloseStart, OpenVisit, CloseVisit, OpenEnd, CloseEnd, FlowOK, Pcs, Visiting
<1>2. TablesOK' /\ LateOK' /\ Writing' /\ FinishedKept /\ rows' = rows /\ pc' \in Pcs
  BY <1>0, <1>1, UpsertMoves DEF FlowOK
<1>3. FlowOK' /\ Standing(pc', k', target')
  <2>1. CASE OpenStart
    <3>1. pc' \in {pc, "startDone"}
      BY <2>1, <1>0, UpsertMoves DEF OpenStart
    <3> QED  BY <2>1, <3>1, <1>0, <1>2 DEF OpenStart, At, flow, FlowOK, Standing, Visiting
  <2>2. CASE CloseStart
    <3>1. pc' \in {pc, "open"} /\ pc = "startDone" /\ k' = (IF pc' = "open" THEN 1 ELSE k)
      BY <2>2, <1>0, UpsertMoves DEF CloseStart, At
    <3>2. UNCHANGED <<target, ctxDone, blocked>>
      BY <2>2 DEF CloseStart
    <3>4. target \in Nodes
      BY <3>1, <1>0 DEF Standing
    <3> QED  BY <3>1, <3>2, <3>4, <1>0, <1>2, TimelineAssumption DEF FlowOK, Standing, Visiting, Sequences0
  <2>3. CASE OpenVisit
    <3>1. pc' \in {pc, "visit"} /\ k \in Sequences0
      BY <2>3, <1>0, UpsertMoves DEF OpenVisit, FlowOK
    <3> QED  BY <2>3, <3>1, <1>0, <1>2 DEF OpenVisit, At, flow, FlowOK, Standing, Visiting
  <2>4. CASE CloseVisit
    <3>1. pc' \in {pc, "next"} /\ k \in Sequences0
      BY <2>4, <1>0, UpsertMoves DEF CloseVisit, FlowOK
    <3> QED  BY <2>4, <3>1, <1>0, <1>2 DEF CloseVisit, At, flow, FlowOK, Standing, Visiting
  <2>5. CASE OpenEnd
    <3>1. pc' \in {pc, "endDone"} /\ k \in Sequences0
      BY <2>5, <1>0, UpsertMoves DEF OpenEnd, FlowOK
    <3> QED  BY <2>5, <3>1, <1>0, <1>2 DEF OpenEnd, At, flow, FlowOK, Standing, Visiting
  <2>6. CASE CloseEnd
    <3>1. pc' \in {pc, "completed"} /\ k \in Sequences0
      BY <2>6, <1>0, UpsertMoves DEF CloseEnd, FlowOK
    <3> QED  BY <2>6, <3>1, <1>0, <1>2 DEF CloseEnd, At, flow, FlowOK, Standing, Visiting
  <2> QED  BY <2>1, <2>2, <2>3, <2>4, <2>5, <2>6
<1> QED  BY <1>0, <1>1, <1>2, <1>3, RowsRest, SessRest, Parts, PlacedParts, TypeParts
         DEF Moved, Core, Standing, Writing, FlowOK, TablesOK, LateOK, SessOK

(* The workflow writes the state of the run. *)
LEMMA WriteState_Type ==
    ASSUME TInv, PublishWaiting \/ Complete \/ Unblock \/ WriteCanceled
    PROVE  Core' /\ Moved
<1>0. /\ ProjTypeOK /\ FlowOK /\ TablesOK /\ LateOK /\ SessOK
      /\ Standing(pc, k, target) /\ Writing
      /\ mem \in Tables /\ SetLatest(mem, "waiting") \in Tables
  <2>1. "waiting" \in Statuses /\ (TablesOK => mem \in Tables)
    BY DEF Statuses, Open, TablesOK
  <2> QED  BY <2>1, Parts, SetLatestKeeps
<1>1. /\ sessVars' = sessVars /\ k' = k /\ target' = target /\ ctxDone' = ctxDone
      /\ blocked' \in BOOLEAN
  <2>1. CASE PublishWaiting \/ Complete \/ WriteCanceled
    BY <2>1, <1>0 DEF PublishWaiting, Complete, WriteCanceled, flow, FlowOK
  <2>2. CASE Unblock
    <3>1. blocked' \in BOOLEAN
      BY <2>2, Zenon DEF Unblock
    <3> QED  BY <2>2, <3>1 DEF Unblock
  <2> QED  BY <2>1, <2>2
<1>2. /\ ProjTypeOK' /\ TablesOK' /\ LateOK' /\ Writing' /\ RowMoved /\ FinishedKept
      /\ \/ pc' = pc
         \/ pc = "waiting" /\ pc' = "wait"
         \/ pc' = "closed"
  <2>1. CASE PublishWaiting
    BY <2>1, <1>0, WriteMoves DEF PublishWaiting, At
  <2>2. CASE Complete
    BY <2>2, <1>0, WriteMoves DEF Complete
  <2>3. CASE Unblock
    BY <2>3, <1>0, WriteMoves DEF Unblock
  <2>4. CASE WriteCanceled
    BY <2>4, <1>0, WriteMoves DEF WriteCanceled
  <2> QED  BY <2>1, <2>2, <2>3, <2>4
<1>3. FlowOK' /\ Standing(pc', k', target')
  BY <1>0, <1>1, <1>2 DEF FlowOK, Standing, Pcs, Visiting
<1>4. SessionMoved /\ SessOK'
  BY <1>0, <1>1, SessRest
<1> QED  BY <1>2, <1>3, <1>4 DEF Moved, Core, Standing, Writing, FlowOK, TablesOK, LateOK, SessOK

(* Its other activities, and what it decides without one. *)
LEMMA Workflow_Type ==
    ASSUME TInv, \/ BindVisit \/ Launch \/ StoreHandle \/ PublishNode \/ TakeReport
                 \/ NextVisit \/ Block \/ Abandon \/ ClearCanceled
    PROVE  Core' /\ Moved
<1>0. /\ ProjTypeOK /\ FlowOK /\ TablesOK /\ LateOK /\ SessOK
      /\ Standing(pc, k, target) /\ Writing /\ k \in Nat
  BY Parts, TimelineAssumption DEF FlowOK, Sequences0
<1>1. CASE BindVisit
  <2>1. target \in Nodes /\ runtimes' = [runtimes EXCEPT ![target].visit = k]
    BY <1>1, <1>0 DEF BindVisit, At, UpdateNodeRuntimeVisit, Standing, Visiting
  <2>2. runtimes' \in Runtimes /\ row' = row /\ processed' = processed
    BY <2>1, <1>0, <1>1 DEF BindVisit, ProjTypeOK, Runtimes
  <2>3. ProjTypeOK' /\ RowMoved
    BY <2>2, <1>0 DEF ProjTypeOK, RowMoved, Terminal
  <2>4. FlowOK' /\ Standing(pc', k', target')
    BY <1>1, <1>0 DEF BindVisit, At, flow, FlowOK, Standing, Pcs, Visiting
  <2>5. TablesOK' /\ FinishedKept /\ LateOK' /\ Writing' /\ SessOK' /\ SessionMoved
    BY <1>1, <1>0, StepsRest, LateRest, SessRest DEF BindVisit
  <2> QED  BY <2>3, <2>4, <2>5 DEF Moved, Core, Standing, Writing, FlowOK, TablesOK, LateOK, SessOK
<1>2. CASE Launch
  <2>1. ProjTypeOK' /\ RowMoved
    BY <1>2, <1>0, RowsRest DEF Launch
  <2>2. target \in Nodes
    BY <1>2, <1>0 DEF Launch, At, Standing, Visiting
  <2>3. SessOK' /\ SessionMoved
    BY <1>2, <1>0, <2>2 DEF Launch, SessOK, SessionMoved
  <2>4. FlowOK' /\ Standing(pc', k', target')
    BY <1>2, <1>0 DEF Launch, At, flow, FlowOK, Standing, Pcs, Visiting
  <2>5. TablesOK' /\ FinishedKept /\ LateOK' /\ Writing'
    BY <1>2, <1>0, StepsRest, LateRest DEF Launch
  <2> QED  BY <2>1, <2>3, <2>4, <2>5 DEF Moved, Core, Standing, Writing, FlowOK, TablesOK, LateOK, SessOK
<1>3. CASE StoreHandle
  <2>1. target \in Nodes /\ runtimes' = [runtimes EXCEPT ![target].term = 1]
    BY <1>3, <1>0 DEF StoreHandle, ReplaceNodeRuntime, Standing, Visiting
  <2>2. runtimes' \in Runtimes /\ row' = row /\ processed' = processed
    BY <2>1, <1>0, <1>3 DEF StoreHandle, ProjTypeOK, Runtimes
  <2>3. ProjTypeOK' /\ RowMoved
    BY <2>2, <1>0 DEF ProjTypeOK, RowMoved, Terminal
  <2>4. session' = session
    BY <1>3, <1>0, <2>1 DEF StoreHandle, SessionKept, SessOK
  <2>5. SessOK' /\ SessionMoved
    BY <1>3, <1>0, <2>4 DEF StoreHandle, SessOK, SessionMoved
  <2>6. FlowOK' /\ Standing(pc', k', target')
    BY <1>3, <1>0 DEF StoreHandle, flow, FlowOK, Standing, Pcs, Visiting
  <2>7. TablesOK' /\ FinishedKept /\ LateOK' /\ Writing'
    BY <1>3, <1>0, StepsRest, LateRest DEF StoreHandle
  <2> QED  BY <2>3, <2>5, <2>6, <2>7 DEF Moved, Core, Standing, Writing, FlowOK, TablesOK, LateOK, SessOK
<1>4. CASE PublishNode
  <2>0. target \in Nodes /\ pc = "node" /\ UNCHANGED <<processed, flow, told, sessVars>>
    BY <1>4, <1>0 DEF PublishNode, At, Standing, Visiting
  <2>1. SessOK' /\ SessionMoved
    BY <2>0, <1>0, SessRest
  <2>2. CASE /\ UpdateNode("running", target, k) /\ pc' = "waiting"
             /\ UNCHANGED <<steps, mem, late, slow>>
    <3>1. ProjTypeOK' /\ RowMoved
      BY <2>0, <2>2, <1>0, UpdateNodeMoves DEF ProjTypeOK
    <3>2. FlowOK' /\ Standing(pc', k', target')
      BY <2>0, <2>2, <1>0 DEF flow, FlowOK, Standing, Pcs, Visiting
    <3>3. TablesOK' /\ FinishedKept /\ LateOK' /\ Writing'
      BY <2>0, <2>2, <1>0, StepsRest, LateRest
    <3> QED  BY <2>1, <3>1, <3>2, <3>3 DEF Moved, Core, Standing, Writing, FlowOK, TablesOK, LateOK, SessOK
  <2>3. CASE TimesOut("node", k, target) /\ UNCHANGED <<row, runtimes>>
    <3>1. ProjTypeOK' /\ RowMoved
      BY <2>0, <2>3, <1>0, RowsRest DEF rows
    <3>2. FlowOK' /\ Standing(pc', k', target')
      BY <2>0, <2>3, <1>0 DEF TimesOut, flow, FlowOK, Standing
    <3>3. TablesOK' /\ FinishedKept
      BY <2>0, <2>3, <1>0, StepsRest DEF TimesOut
    <3>4. /\ late' = [op |-> "node", k |-> k, s |-> target]
          /\ slow' \in 0..MaxSlow
      BY <2>3, <1>0, TimelineAssumption DEF TimesOut, LateOK
    <3>5. LateOK' /\ Writing'
      BY <3>4, <2>0, <1>0 DEF LateOK, Writing, FlowOK
    <3> QED  BY <2>1, <3>1, <3>2, <3>3, <3>5 DEF Moved, Core, Standing, Writing, FlowOK, TablesOK, LateOK, SessOK
  <2> QED  BY <1>4, <2>2, <2>3 DEF PublishNode
<1>5. CASE TakeReport
  <2>1. ProjTypeOK' /\ RowMoved /\ SessOK' /\ SessionMoved
    BY <1>5, <1>0, RowsRest, SessRest DEF TakeReport
  <2>2. FlowOK' /\ Standing(pc', k', target')
    BY <1>5, <1>0 DEF TakeReport, At, flow, FlowOK, Standing, Pcs, Visiting
  <2>3. TablesOK' /\ FinishedKept /\ LateOK' /\ Writing'
    BY <1>5, <1>0, StepsRest, LateRest DEF TakeReport
  <2> QED  BY <2>1, <2>2, <2>3 DEF Moved, Core, Standing, Writing, FlowOK, TablesOK, LateOK, SessOK
<1>6. CASE NextVisit
  <2>0. /\ pc = "next" /\ k < MaxStep /\ target \in Nodes
        /\ UNCHANGED <<row, processed, ctxDone, blocked, steps, mem, told, late, slow, bound, prev>>
    BY <1>6, <1>0 DEF NextVisit, At, Standing, Visiting
  <2>1. PICK n \in Nodes \cup {EndNode} :
           /\ n # EndNode => k + 1 < MaxStep
           /\ target' = n /\ pc' = IF n = EndNode THEN "endOpen" ELSE "open"
    BY <1>6 DEF NextVisit
  <2>2. FlowOK' /\ Standing(pc', k', target')
    <3>1. k' = k + 1 /\ k' \in Sequences0
      BY <1>6, <2>0, <1>0, TimelineAssumption DEF NextVisit, Sequences0
    <3> QED  BY <2>0, <2>1, <3>1, <1>0 DEF FlowOK, Standing, Pcs, Visiting
  <2>3. PICK clearTerminal \in BOOLEAN, clearSession \in BOOLEAN :
           /\ ClearNodeRuntime({target}, clearTerminal)
           /\ session' = IF clearSession THEN [session EXCEPT ![target] = NoSession] ELSE session
    BY <1>6 DEF NextVisit
  <2>4. runtimes' \in Runtimes
    BY <2>3, <1>0 DEF ClearNodeRuntime, ProjTypeOK, Runtimes
  <2>5. ProjTypeOK' /\ RowMoved
    BY <2>0, <2>4, <1>0 DEF ProjTypeOK, RowMoved, Terminal
  <2>6. SessOK' /\ SessionMoved
    BY <2>0, <2>3, <1>0 DEF SessOK, SessionMoved
  <2>7. TablesOK' /\ FinishedKept /\ LateOK' /\ Writing'
    BY <2>0, <1>0, StepsRest, LateRest
  <2> QED  BY <2>2, <2>5, <2>6, <2>7 DEF Moved, Core, Standing, Writing, FlowOK, TablesOK, LateOK, SessOK
<1>7. CASE Block
  <2>0. /\ blocked' = TRUE /\ UNCHANGED <<runtimes, processed, pc, k, target, ctxDone, late, slow, sessVars>>
        /\ UpdateState("blocked", "conflict")
        /\ mem' = SetLatest(mem, "blocked") /\ told' = FromHistory(told, "blocked")
        /\ steps' = IF Fenced("blocked") THEN steps ELSE Derived(steps, "blocked")
    BY <1>7 DEF Block
  <2>1. ProjTypeOK' /\ RowMoved
    BY <2>0, <1>0, UpdateStateMoves DEF ProjTypeOK, Errors
  <2>2. FlowOK' /\ Standing(pc', k', target')
    BY <2>0, <1>0 DEF FlowOK, Standing
  <2>3. TablesOK' /\ FinishedKept
    <3>1. mem' \in Tables /\ told' \in Tables
      BY <2>0, <1>0, SetLatestKeeps, HistoryKeeps DEF TablesOK, Statuses, Open
    <3>2. Derived(steps, "blocked") \in Tables
          /\ \A i \in Sequences0 : steps[i] \notin Open => Derived(steps, "blocked")[i] = steps[i]
      BY <1>0, DerivedKeeps DEF TablesOK
    <3> QED  BY <2>0, <1>0, <3>1, <3>2 DEF TablesOK, FinishedKept, Open, Finished
  <2>4. LateOK' /\ Writing' /\ SessOK' /\ SessionMoved
    BY <2>0, <1>0, LateRest, SessRest
  <2> QED  BY <2>1, <2>2, <2>3, <2>4 DEF Moved, Core, Standing, Writing, FlowOK, TablesOK, LateOK, SessOK
<1>8. CASE Abandon
  <2>1. ProjTypeOK' /\ RowMoved /\ SessOK' /\ SessionMoved
    BY <1>8, <1>0, RowsRest, SessRest DEF Abandon
  <2>2. FlowOK' /\ Standing(pc', k', target')
    BY <1>8, <1>0 DEF Abandon, FlowOK, Standing, Pcs, Visiting
  <2>3. TablesOK' /\ FinishedKept /\ LateOK' /\ Writing'
    BY <1>8, <1>0, StepsRest, LateRest DEF Abandon
  <2> QED  BY <2>1, <2>2, <2>3 DEF Moved, Core, Standing, Writing, FlowOK, TablesOK, LateOK, SessOK
<1>9. CASE ClearCanceled
  <2>1. runtimes' \in Runtimes /\ row' = row /\ processed' = processed
    BY <1>9, <1>0 DEF ClearCanceled, ClearNodeRuntime, ProjTypeOK, Runtimes
  <2>2. ProjTypeOK' /\ RowMoved
    BY <2>1, <1>0 DEF ProjTypeOK, RowMoved, Terminal
  <2>3. SessOK' /\ SessionMoved
    BY <1>9, <1>0 DEF ClearCanceled, SessOK, SessionMoved
  <2>4. FlowOK' /\ Standing(pc', k', target')
    BY <1>9, <1>0 DEF ClearCanceled, flow, FlowOK, Standing, Pcs, Visiting
  <2>5. TablesOK' /\ FinishedKept /\ LateOK' /\ Writing'
    BY <1>9, <1>0, StepsRest, LateRest DEF ClearCanceled
  <2> QED  BY <2>2, <2>3, <2>4, <2>5 DEF Moved, Core, Standing, Writing, FlowOK, TablesOK, LateOK, SessOK
<1> QED  BY <1>1, <1>2, <1>3, <1>4, <1>5, <1>6, <1>7, <1>8, <1>9

(* Attempts that timed out, statement by statement. *)
LEMMA Late_Type ==
    ASSUME TInv, LateRow \/ LateLookup \/ LateDerive
    PROVE  Core' /\ Moved
<1>0. /\ ProjTypeOK /\ FlowOK /\ TablesOK /\ LateOK /\ SessOK
      /\ Standing(pc, k, target) /\ Writing /\ NoWrite.op = "none"
      /\ NoWrite \in [op : {"none", "step", "node", "state", "lookup", "derive"},
                      k : Sequences0, s : Statuses \cup States \cup Nodes]
  BY Parts, TimelineAssumption DEF NoWrite, Sequences0, Statuses
<1>1. UNCHANGED <<processed, pc, flow, mem, told, slow, sessVars>>
  BY DEF LateRow, LateLookup, LateDerive, LateFrame
<1>2. FlowOK' /\ Standing(pc', k', target') /\ SessOK' /\ SessionMoved
      /\ mem' \in Tables /\ told' \in Tables
  BY <1>0, <1>1, SessRest DEF FlowOK, flow, Standing, TablesOK
<1>3. ASSUME late' = NoWrite
      PROVE  LateOK' /\ Writing'
  BY <1>0, <1>1, <1>3 DEF LateOK, Writing
<1>4. CASE LateRow /\ late.op = "step"
  <2>1. steps' = [steps EXCEPT ![late.k] = Merged(steps[late.k], late.s)] /\ late' = NoWrite
        /\ UNCHANGED <<row, runtimes>>
    BY <1>4 DEF LateRow
  <2>2. late.k \in Sequences0 /\ late.s \in Statuses
    BY <1>4, <1>0 DEF LateOK, Writing
  <2>3. Merged(steps[late.k], late.s) \in Statuses
        /\ (steps[late.k] \in Finished => Merged(steps[late.k], late.s) = steps[late.k])
    BY <2>2, <1>0, MergedKeeps DEF TablesOK, Tables
  <2>4. steps' \in Tables /\ FinishedKept
    BY <2>1, <2>2, <2>3, <1>0 DEF TablesOK, Tables, FinishedKept
  <2>5. ProjTypeOK' /\ RowMoved
    BY <2>1, <1>0, <1>1, RowsRest DEF rows
  <2> QED  BY <1>2, <1>3, <2>1, <2>4, <2>5 DEF Moved, Core, Standing, Writing, FlowOK, TablesOK, LateOK, SessOK
<1>5. CASE LateRow /\ late.op = "node"
  <2>1. /\ late' = NoWrite /\ steps' = steps
        /\ UpdateNode("running", late.s, late.k)
    BY <1>5 DEF LateRow
  <2>2. late.s \in Nodes /\ late.k \in Nat
    BY <1>5, <1>0, TimelineAssumption DEF LateOK, Writing, Sequences0
  <2>3. ProjTypeOK' /\ RowMoved
    BY <2>1, <2>2, <1>0, <1>1, UpdateNodeMoves DEF ProjTypeOK
  <2>4. TablesOK' /\ FinishedKept
    BY <2>1, <1>0, <1>1, StepsRest
  <2> QED  BY <1>2, <1>3, <2>1, <2>3, <2>4 DEF Moved, Core, Standing, Writing, FlowOK, TablesOK, LateOK, SessOK
<1>6. CASE LateRow /\ late.op = "state"
  <2>1. /\ UpdateState(late.s, "none") /\ UNCHANGED <<runtimes, steps>>
        /\ late' \in {NoWrite, [late EXCEPT !.op = "lookup"]}
    BY <1>6 DEF LateRow
  <2>2. late.s \in {"waiting", "blocked", "completed", "canceled"}
    BY <1>6, <1>0 DEF Writing
  <2>3. ProjTypeOK' /\ RowMoved
    BY <2>1, <2>2, <1>0, <1>1, UpdateStateMoves DEF ProjTypeOK, Errors
  <2>4. TablesOK' /\ FinishedKept
    BY <2>1, <1>0, <1>1, StepsRest
  <2>5. LateOK' /\ Writing'
    BY <2>1, <2>2, <1>0, <1>1, <1>3 DEF LateOK, Writing
  <2> QED  BY <1>2, <2>3, <2>4, <2>5 DEF Moved, Core, Standing, Writing, FlowOK, TablesOK, LateOK, SessOK
<1>7. CASE LateLookup
  <2>1. /\ late.op = "lookup" /\ UNCHANGED <<row, runtimes, steps>>
        /\ \/ late' = NoWrite
           \/ OpenSteps(steps) # {} /\ late' = [late EXCEPT !.op = "derive", !.k = Latest(steps)]
    BY <1>7 DEF LateLookup
  <2>2. OpenSteps(steps) # {} => Latest(steps) \in Sequences0
    BY LatestIsOpen
  <2>3. LateOK' /\ Writing'
    BY <2>1, <2>2, <1>0, <1>1, <1>3 DEF LateOK, Writing
  <2>4. ProjTypeOK' /\ RowMoved /\ TablesOK' /\ FinishedKept
    BY <2>1, <1>0, <1>1, RowsRest, StepsRest DEF rows
  <2> QED  BY <1>2, <2>3, <2>4 DEF Moved, Core, Standing, Writing, FlowOK, TablesOK, LateOK, SessOK
<1>8. CASE LateDerive
  <2>1. /\ late' = NoWrite /\ UNCHANGED <<row, runtimes>>
        /\ steps' = [steps EXCEPT ![late.k] = IF steps[late.k] \in Open THEN StepStatus(late.s)
                                              ELSE steps[late.k]]
    BY <1>8 DEF LateDerive
  <2>2. late.k \in Sequences0 /\ StepStatus(late.s) \in Statuses
    BY <1>0 DEF LateOK, StepStatus, Statuses, Open, Finished
  <2>3. steps' \in Tables /\ FinishedKept
    BY <2>1, <2>2, <1>0 DEF TablesOK, Tables, FinishedKept, Open, Finished
  <2>4. ProjTypeOK' /\ RowMoved
    BY <2>1, <1>0, <1>1, RowsRest DEF rows
  <2> QED  BY <1>2, <1>3, <2>1, <2>3, <2>4 DEF Moved, Core, Standing, Writing, FlowOK, TablesOK, LateOK, SessOK
<1> QED  BY <1>4, <1>5, <1>6, <1>7, <1>8 DEF LateRow

(* The outcome of a closed workflow, written by an operator or a poll. *)
LEMMA OutcomeMoves ==
    ASSUME ProjTypeOK, TablesOK, NEW e \in Errors, WriteOutcome(e)
    PROVE  row' \in Rows /\ RowMoved /\ steps' \in Tables /\ FinishedKept
<1>1. Outcome \in {"canceled", "completed"}
  BY DEF Outcome
<1>2. row' \in Rows /\ RowMoved
  BY <1>1, UpdateStateMoves DEF WriteOutcome
<1>3. Derived(steps, Outcome) \in Tables
      /\ \A i \in Sequences0 : steps[i] \notin Open => Derived(steps, Outcome)[i] = steps[i]
  BY DerivedKeeps DEF TablesOK
<1>4. steps' \in {steps, Derived(steps, Outcome)}
  BY DEF WriteOutcome
<1> QED  BY <1>2, <1>3, <1>4 DEF TablesOK, FinishedKept, Open, Finished

(* An operator's call moves one stage on. *)
LEMMA OperatorMoves ==
    ASSUME TInv, NEW why \in Callers,
           FindActive(why) \/ RecordReason(why) \/ FindClosed(why)
           \/ SignalReason(why) \/ RequestCancel(why)
    PROVE  Core' /\ CallsOK' /\ Moved
<1>0. /\ ProjTypeOK /\ FlowOK /\ TablesOK /\ LateOK /\ SessOK /\ CallsOK
      /\ Standing(pc, k, target) /\ Writing /\ row \in Rows /\ why \in Errors
  BY Parts DEF ProjTypeOK, Callers, Errors
<1>1. UNCHANGED <<runtimes, processed, pc, k, target, blocked, mem, told, late, slow, sessVars>>
  BY DEF FindActive, RecordReason, FindClosed, SignalReason, RequestCancel, Beside, rows, flow
<1>2. LateOK' /\ Writing' /\ mem' \in Tables /\ told' \in Tables /\ SessOK' /\ SessionMoved
  BY <1>0, <1>1, LateRest, SessRest DEF TablesOK
<1>3. FlowOK' /\ Standing(pc', k', target')
  <2>1. ctxDone' \in BOOLEAN
    BY <1>0 DEF FindActive, RecordReason, FindClosed, SignalReason, RequestCancel, flow, FlowOK
  <2> QED  BY <1>0, <1>1, <2>1 DEF FlowOK, Standing
<1>4. CallsOK'
  <2>1. PICK at \in Stages : call' = [call EXCEPT ![why] = at]
    BY DEF FindActive, RecordReason, FindClosed, SignalReason, RequestCancel, Stages
  <2>2. heard' \in {heard, why}
    BY DEF FindActive, RecordReason, FindClosed, SignalReason, RequestCancel
  <2> QED  BY <1>0, <2>1, <2>2 DEF CallsOK
<1>5. row' \in Rows /\ RowMoved /\ steps' \in Tables /\ FinishedKept
  <2>1. CASE FindActive(why) \/ SignalReason(why) \/ RequestCancel(why)
    <3>1. UNCHANGED <<rows, steps>>
      BY <2>1 DEF FindActive, SignalReason, RequestCancel
    <3> QED  BY <3>1, <1>0, RowsRest DEF rows, FinishedKept, TablesOK
  <2>2. CASE RecordReason(why)
    <3>1. UpdateState("canceling", why) /\ steps' = steps
      BY <2>2 DEF RecordReason
    <3> QED  BY <3>1, <1>0, UpdateStateMoves DEF FinishedKept, TablesOK
  <2>3. CASE FindClosed(why)
    BY <2>3, <1>0, OutcomeMoves DEF FindClosed
  <2> QED  BY <2>1, <2>2, <2>3
<1>6. ProjTypeOK'
  BY <1>0, <1>1, <1>5 DEF ProjTypeOK
<1> QED  BY <1>2, <1>3, <1>4, <1>5, <1>6 DEF Moved, Core, Standing, Writing, FlowOK, TablesOK, LateOK, SessOK

(* Callers next to the workflow. *)
LEMMA Beside_Type ==
    ASSUME TInv,
           \/ Insert \/ Reconcile
           \/ \E n \in Nodes, x \in Sessions : Register(n, x)
    PROVE  Core' /\ CallsOK' /\ Moved
<1>0. /\ ProjTypeOK /\ FlowOK /\ TablesOK /\ LateOK /\ SessOK /\ CallsOK
      /\ Standing(pc, k, target) /\ Writing /\ row \in Rows
  BY Parts DEF ProjTypeOK
<1>1. UNCHANGED <<pc, mem, told, late, slow, callVars>>
  BY DEF Insert, Reconcile, Register, Beside
<1>2. LateOK' /\ Writing' /\ mem' \in Tables /\ told' \in Tables /\ CallsOK'
  BY <1>0, <1>1, LateRest DEF TablesOK, CallsOK, callVars
<1>3. CASE Insert
  <2>1. UNCHANGED <<runtimes, processed, flow, steps, sessVars>>
    BY <1>3 DEF Insert
  <2>2. row' \in Rows /\ RowMoved
    BY <1>3, <1>0 DEF Insert, InsertStart, Rows, States, Active, Terminal, RowMoved
  <2>3. ProjTypeOK'
    BY <2>1, <2>2, <1>0 DEF ProjTypeOK
  <2>4. FlowOK' /\ Standing(pc', k', target') /\ SessOK' /\ SessionMoved
    BY <2>1, <1>0, <1>1, SessRest DEF FlowOK, flow, Standing
  <2>5. TablesOK' /\ FinishedKept
    BY <2>1, <1>0, <1>1, StepsRest
  <2> QED  BY <1>2, <2>2, <2>3, <2>4, <2>5 DEF Moved, Core, Standing, Writing, FlowOK, TablesOK, LateOK, SessOK
<1>5. CASE Reconcile
  <2>1. WriteOutcome("none") /\ UNCHANGED <<runtimes, processed, flow, sessVars>>
    BY <1>5 DEF Reconcile
  <2>2. row' \in Rows /\ RowMoved /\ steps' \in Tables /\ FinishedKept
    BY <2>1, <1>0, OutcomeMoves DEF Errors
  <2>3. ProjTypeOK'
    BY <2>1, <2>2, <1>0 DEF ProjTypeOK
  <2>4. FlowOK' /\ Standing(pc', k', target') /\ SessOK' /\ SessionMoved
    BY <2>1, <1>0, <1>1, SessRest DEF FlowOK, flow, Standing
  <2> QED  BY <1>2, <2>2, <2>3, <2>4 DEF Moved, Core, Standing, Writing, FlowOK, TablesOK, LateOK, SessOK
<1>6. ASSUME NEW n \in Nodes, NEW x \in Sessions, Register(n, x)
      PROVE  Core' /\ CallsOK' /\ Moved
  <2>1. UNCHANGED <<rows, flow, steps, prev>>
    BY <1>6 DEF Register
  <2> DEFINE visit == IF bound[n][x] = 0 THEN runtimes[n].visit ELSE bound[n][x]
  <2>2. /\ bound' = [bound EXCEPT ![n][x] = visit]
        /\ session' = IF visit = runtimes[n].visit THEN [session EXCEPT ![n] = x] ELSE session
    BY <1>6 DEF Register
  <2>3. session' \in [Nodes -> Sessions \cup {NoSession}]
    BY <2>2, <1>0 DEF SessOK
  <2>4. SessionMoved
    <3> SUFFICES ASSUME NEW m \in Nodes, session'[m] # session[m]
                 PROVE  session'[m] \in Sessions /\ bound'[m][session'[m]] = runtimes[m].visit
      BY DEF SessionMoved
    <3>1. m = n /\ session'[m] = x /\ visit = runtimes[n].visit
      BY <2>2, <1>0 DEF SessOK
    <3>2. bound'[n][x] = visit
      BY <2>2, <1>0 DEF SessOK
    <3> QED  BY <3>1, <3>2
  <2>5. bound' \in [Nodes -> [Sessions -> Nat]]
    <3>1. visit \in Nat
      BY <1>0 DEF SessOK, ProjTypeOK, Runtimes
    <3>2. [bound[n] EXCEPT ![x] = visit] \in [Sessions -> Nat]
      BY <3>1, <1>0 DEF SessOK
    <3> QED  BY <2>2, <3>2, <1>0 DEF SessOK
  <2>6. TablesOK' /\ FinishedKept /\ ProjTypeOK' /\ RowMoved
    BY <2>1, <1>0, <1>1, StepsRest, RowsRest
  <2>7. FlowOK' /\ Standing(pc', k', target')
    BY <2>1, <1>0, <1>1 DEF FlowOK, flow, Standing
  <2> QED  BY <1>2, <2>1, <2>3, <2>4, <2>5, <2>6, <2>7, <1>0 DEF Moved, Core, Standing, Writing, FlowOK, TablesOK, LateOK, SessOK
<1> QED  BY <1>3, <1>5, <1>6

LEMMA Step_Type ==
    ASSUME TInv, [Next]_vars
    PROVE  TInv' /\ Moved
<1>1. CASE UNCHANGED vars
  <2>1. TInv'
    BY <1>1 DEF TInv, Placed, TypeOK, ProjTypeOK, vars, rows, flow, sessVars, callVars
  <2>2. Moved
    BY <1>1, RowsRest, StepsRest, SessRest DEF Moved, vars
  <2> QED  BY <2>1, <2>2
<1>2. CASE Next
  <2>1. CASE (Workflow \/ LateRow \/ LateLookup \/ LateDerive) /\ UNCHANGED callVars
    <3>1. Core' /\ Moved
      BY <2>1, UpsertStep_Type, WriteState_Type, Workflow_Type, Late_Type, Zenon DEF Workflow
    <3>2. CallsOK'
      BY <2>1, Parts DEF CallsOK, callVars
    <3> QED  BY <3>1, <3>2, PartsAfter
  <2>2. CASE Operator
    BY <2>2, OperatorMoves, PartsAfter DEF Operator
  <2>3. CASE Insert \/ Reconcile \/ \E n \in Nodes, x \in Sessions : Register(n, x)
    BY <2>3, Beside_Type, PartsAfter
  <2> QED  BY <1>2, <2>1, <2>2, <2>3 DEF Next
<1> QED  BY <1>1, <1>2

LEMMA Init_Type == Init => TInv
<1> SUFFICES ASSUME Init  PROVE TInv
  OBVIOUS
<1>1. /\ 0 \in Sequences0 /\ 0 < MaxStep /\ 0 \in 0..MaxSlow
      /\ "none" \in Statuses /\ "startOpen" \in Pcs
  BY TimelineAssumption DEF Sequences0, Statuses, Pcs
<1>2. ProjTypeOK
  BY DEF Init, ProjInit, ProjTypeOK, Rows, Runtimes, States, Errors
<1>3. FlowOK /\ Standing(pc, k, target)
  BY <1>1 DEF Init, FlowOK, Standing
<1>4. TablesOK
  BY <1>1 DEF Init, TablesOK, Tables, Empty
<1>5. LateOK /\ Writing
  BY <1>1 DEF Init, LateOK, Writing, NoWrite
<1>6. SessOK
  BY DEF Init, SessOK
<1>7. CallsOK
  BY DEF Init, CallsOK, Callers, Stages
<1> QED  BY <1>2, <1>3, <1>4, <1>5, <1>6, <1>7, Parts

(* Type correctness, with the position of the workflow and what a late     *)
(* attempt may be writing (TicketWorkflow's order of activities).          *)
THEOREM Typed == Spec => [](TypeOK /\ Placed)
<1>1. TInv /\ [Next]_vars => TInv'
  BY Step_Type
<1>2. TInv <=> TypeOK /\ Placed
  BY DEF TInv
<1> QED  BY Init_Type, <1>1, <1>2, PTL DEF Spec

(* A finished step keeps its outcome through retries, lost and late        *)
(* writes, for any number of attempts that time out (upsertStep,           *)
(* updateStateCAS).                                                        *)
THEOREM StepsStand == Spec => FinishedStepsStand
<1>1. TInv /\ [Next]_vars => [FinishedKept]_vars
  BY Step_Type DEF Moved
<1>2. [FinishedKept]_vars => [\A i \in Sequences0 : steps[i] \in Finished => steps'[i] = steps[i]]_vars
  BY DEF FinishedKept
<1>0. TInv <=> TypeOK /\ Placed
  BY DEF TInv
<1> QED  BY Typed, <1>0, <1>1, <1>2, PTL DEF Spec, FinishedStepsStand

(* A session is replaced by one registered for the visit its node is at,   *)
(* or cleared by the policy, never by a terminal that is stored late       *)
(* (replaceNodeRuntime against registerNodeSession).                       *)
THEOREM SessionsStand == Spec => RegisteredSessionStands
<1>1. TInv /\ [Next]_vars => [SessionMoved]_vars
  BY Step_Type DEF Moved
<1>2. [SessionMoved]_vars =>
         [\A n \in Nodes : session'[n] # session[n]
             => \/ session'[n] = NoSession /\ pc \in {"next", "clear"}
                \/ session'[n] \in Sessions /\ bound'[n][session'[n]] = runtimes[n].visit]_vars
  BY DEF SessionMoved
<1>0. TInv <=> TypeOK /\ Placed
  BY DEF TInv
<1> QED  BY Typed, <1>0, <1>1, <1>2, PTL DEF Spec, RegisteredSessionStands

(* The fence holds among the callers of an attempt as it does among        *)
(* statements in any order: no late write, cancellation or reconciliation  *)
(* undoes a decision (updateStateCAS, updateNode, beginCancellation).      *)
THEOREM AttemptDecisionsStand == Spec => DecisionsStand
<1>1. TInv /\ [Next]_vars =>
         [/\ row.state \in Terminal => row'.state = row.state
          /\ row.state = "canceling" => row'.state \in Terminal \cup {"canceling"}]_projVars
  BY Step_Type DEF Moved, RowMoved
<1>0. TInv <=> TypeOK /\ Placed
  BY DEF TInv
<1> QED  BY Typed, <1>0, <1>1, PTL DEF Spec, DecisionsStand

-----------------------------------------------------------------------------
(* When every attempt writes *)

(* Then no attempt is late, and the two writers do all they describe. *)
LEMMA Prompt ==
    ASSUME TInv, [Next]_vars, slow' = 0
    PROVE  slow = 0
<1>1. slow \in Nat
  BY TimelineAssumption DEF TInv, TypeOK
<1>2. slow' = slow \/ slow' = slow + 1
  <2>1. CASE UNCHANGED vars
    BY <2>1 DEF vars
  <2>2. CASE \/ OpenStart \/ CloseStart \/ OpenVisit \/ CloseVisit \/ OpenEnd \/ CloseEnd
    BY <2>2 DEF OpenStart, CloseStart, OpenVisit, CloseVisit, OpenEnd, CloseEnd, UpsertStep, TimesOut
  <2>3. CASE PublishWaiting \/ Complete \/ Unblock \/ WriteCanceled
    BY <2>3 DEF PublishWaiting, Complete, Unblock, WriteCanceled, WriteState, TimesOut
  <2>4. CASE \/ BindVisit \/ Launch \/ StoreHandle \/ PublishNode \/ TakeReport
             \/ NextVisit \/ Block \/ Abandon \/ ClearCanceled
    BY <2>4 DEF BindVisit, Launch, StoreHandle, PublishNode, TakeReport, NextVisit, Block,
                Abandon, ClearCanceled, TimesOut
  <2>5. CASE LateRow \/ LateLookup \/ LateDerive
    BY <2>5 DEF LateRow, LateLookup, LateDerive, LateFrame
  <2>6. CASE \/ Insert \/ Operator \/ Reconcile
             \/ \E n \in Nodes, x \in Sessions : Register(n, x)
    BY <2>6 DEF Insert, Operator, FindActive, RecordReason, FindClosed, SignalReason, RequestCancel,
                Reconcile, Register, Beside
  <2>7. CASE Next
    BY <2>2, <2>3, <2>4, <2>5, <2>6, <2>7, Zenon DEF Next, Workflow
  <2> QED  BY <2>1, <2>7
<1> QED  BY <1>1, <1>2

LEMMA PromptUpsert ==
    ASSUME slow = 0, slow' = 0, NEW i, NEW s, NEW next, UpsertStep(i, s, next)
    PROVE  /\ steps' = [steps EXCEPT ![i] = Merged(@, s)]
           /\ mem' = [mem EXCEPT ![i] = s] /\ pc' = next
           /\ told' = [told EXCEPT ![i] = Merged(@, s)]
           /\ late' = late /\ rows' = rows
BY DEF UpsertStep, TimesOut, rows

LEMMA PromptWrite ==
    ASSUME slow = 0, slow' = 0, NEW s, NEW e, NEW memory, NEW next, WriteState(s, e, memory, next)
    PROVE  /\ UpdateState(s, e)
           /\ steps' = IF Fenced(s) THEN steps ELSE Derived(steps, s)
           /\ mem' = memory /\ pc' = next
           /\ told' = FromHistory(told, s)
           /\ late' = late
BY DEF WriteState, TimesOut

(* The moves of the three tables. *)
Opened ==
    /\ pc \in {"startOpen", "open", "endOpen"} /\ k' = k
    /\ pc' \in {"startDone", "visit", "endDone"}
    /\ steps' = [steps EXCEPT ![k] = Merged(@, "running")]
    /\ mem' = [mem EXCEPT ![k] = "running"]
    /\ told' = [told EXCEPT ![k] = Merged(@, "running")]
Ended(s) ==
    /\ \/ pc = "startDone" /\ pc' = "open" /\ k' = k + 1
       \/ pc = "close" /\ pc' = "next" /\ k' = k
       \/ pc = "endDone" /\ pc' = "completed" /\ k' = k
    /\ steps' = [steps EXCEPT ![k] = Merged(@, s)]
    /\ mem' = [mem EXCEPT ![k] = s]
    /\ told' = [told EXCEPT ![k] = Merged(@, s)]
Tuned(s) ==
    /\ pc # "closed" /\ k' = k
    /\ pc' = pc \/ (pc = "waiting" /\ pc' = "wait")
    /\ steps' \in {steps, SetLatest(steps, s)}
    /\ mem' = SetLatest(mem, s) /\ told' = SetLatest(told, s)
Completed ==
    /\ pc = "completed" /\ pc' = "closed" /\ k' = k /\ ~ctxDone /\ ctxDone' = ctxDone
    /\ steps' \in {steps, Derived(steps, "completed")}
    /\ mem' = mem /\ told' = FromHistory(told, "completed")
Canceled ==
    /\ pc = "canceled" /\ pc' = "closed" /\ k' = k /\ ctxDone /\ ctxDone' = ctxDone
    /\ steps' = Derived(steps, "canceled")
    /\ mem' = mem /\ told' = FromHistory(told, "canceled")
Onward ==
    /\ pc = "next" /\ pc' \in {"open", "endOpen"} /\ k' = k + 1
    /\ UNCHANGED <<steps, mem, told>>
Steady ==
    /\ k' = k /\ UNCHANGED <<steps, mem, told>>
    /\ \/ pc' = pc
       \/ pc # "closed" /\ pc' \in {"clear", "canceled"}
       \/ /\ pc \in {"visit", "launch", "bind", "node", "wait"}
          /\ pc' \in {"launch", "bind", "node", "waiting", "close"}
    /\ pc = "closed" => ctxDone' = ctxDone
Settled ==
    /\ pc = "closed" /\ UNCHANGED <<pc, k, mem, told, ctxDone>>
    /\ \E s : steps' \in {steps, Derived(steps, s)}

TablesMoved ==
    \/ Opened \/ Completed \/ Canceled \/ Onward \/ Steady \/ Settled
    \/ \E s \in {"succeeded", "failed"} : Ended(s)
    \/ \E s \in {"waiting", "blocked"} : Tuned(s)

LEMMA WorkflowTables ==
    ASSUME TInv, Decided, Workflow, slow = 0, slow' = 0
    PROVE  TablesMoved
<1>0. /\ late = NoWrite /\ Standing(pc, k, target)
      /\ pc \in {"clear", "canceled"} => ctxDone
      /\ pc # "closed" /\ ctxDone => row.state = "canceling"
  BY Parts DEF Decided, Recorded
<1>1. CASE OpenStart \/ OpenVisit \/ OpenEnd
  <2>1. Opened
    BY <1>1, <1>0, PromptUpsert DEF OpenStart, OpenVisit, OpenEnd, At, Opened, Standing, flow
  <2> QED  BY <2>1 DEF TablesMoved
<1>2. CASE CloseStart
  <2>1. pc = "startDone" /\ UpsertStep(0, "succeeded", "open") /\ k = 0
        /\ k' = (IF pc' = "open" THEN 1 ELSE k)
    BY <1>2, <1>0 DEF CloseStart, At, Standing
  <2>2. Ended("succeeded")
    BY <2>1, PromptUpsert DEF Ended
  <2> QED  BY <2>2 DEF TablesMoved
<1>3. CASE CloseVisit
  <2>1. PICK s \in {"succeeded", "failed"} : UpsertStep(k, s, "next")
    BY <1>3 DEF CloseVisit
  <2>2. pc = "close" /\ k' = k
    BY <1>3 DEF CloseVisit, At, flow
  <2>3. Ended(s)
    BY <2>1, <2>2, PromptUpsert DEF Ended
  <2> QED  BY <2>3 DEF TablesMoved
<1>4. CASE CloseEnd
  <2>1. pc = "endDone" /\ k' = k /\ UpsertStep(k, "succeeded", "completed")
    BY <1>4 DEF CloseEnd, At, flow
  <2>2. Ended("succeeded")
    BY <2>1, PromptUpsert DEF Ended
  <2> QED  BY <2>2 DEF TablesMoved
<1>5. CASE PublishWaiting \/ Unblock
  <2>1. /\ k' = k /\ pc # "closed"
        /\ \/ pc = "waiting" /\ WriteState("waiting", "none", SetLatest(mem, "waiting"), "wait")
           \/ WriteState("waiting", "none", SetLatest(mem, "waiting"), pc)
    BY <1>5 DEF PublishWaiting, Unblock, At, flow, Decided
  <2>2. Tuned("waiting")
    <3>1. FromHistory(told, "waiting") = SetLatest(told, "waiting")
      BY DEF FromHistory
    <3>2. Derived(steps, "waiting") = SetLatest(steps, "waiting")
      BY DEF Derived, StepStatus
    <3> QED  BY <2>1, <3>1, <3>2, PromptWrite DEF Tuned
  <2> QED  BY <2>2 DEF TablesMoved
<1>6. CASE Block
  <2>1. Tuned("blocked")
    <3>1. FromHistory(told, "blocked") = SetLatest(told, "blocked")
      BY DEF FromHistory
    <3>2. Derived(steps, "blocked") = SetLatest(steps, "blocked")
      BY DEF Derived, StepStatus
    <3> QED  BY <1>6, <3>1, <3>2 DEF Block, At, Tuned
  <2> QED  BY <2>1 DEF TablesMoved
<1>7. CASE Complete
  <2>1. Completed
    BY <1>7, PromptWrite DEF Complete, At, flow, Completed
  <2> QED  BY <2>1 DEF TablesMoved
<1>8. CASE WriteCanceled
  <2>1. pc = "canceled" /\ ctxDone /\ ~Fenced("canceled") /\ ctxDone' = ctxDone /\ k' = k
    BY <1>8, <1>0 DEF WriteCanceled, Fenced, Terminal, flow
  <2>2. Canceled
    BY <1>8, <2>1, PromptWrite DEF WriteCanceled, Canceled
  <2> QED  BY <2>2 DEF TablesMoved
<1>9. CASE NextVisit
  <2>1. Onward
    BY <1>9 DEF NextVisit, At, Onward
  <2> QED  BY <2>1 DEF TablesMoved
<1>10. CASE \/ BindVisit \/ Launch \/ StoreHandle \/ PublishNode \/ TakeReport
            \/ Abandon \/ ClearCanceled
  <2>1. Steady
    BY <1>10 DEF BindVisit, Launch, StoreHandle, PublishNode, TakeReport, Abandon, ClearCanceled,
                 At, flow, TimesOut, Steady
  <2> QED  BY <2>1 DEF TablesMoved
<1> QED  BY <1>1, <1>2, <1>3, <1>4, <1>5, <1>6, <1>7, <1>8, <1>9, <1>10, Zenon DEF Workflow

LEMMA StepTables ==
    ASSUME TInv, Decided, [Next]_vars, slow' = 0
    PROVE  TablesMoved
<1>0. slow = 0 /\ late.op = "none"
  BY Prompt DEF Decided, NoWrite
<1>1. CASE UNCHANGED vars
  BY <1>1 DEF vars, flow, Steady, TablesMoved
<1>2. CASE Workflow
  BY <1>0, <1>2, WorkflowTables
<1>3. CASE LateRow \/ LateLookup \/ LateDerive
  BY <1>0, <1>3 DEF LateRow, LateLookup, LateDerive
<1>4. CASE Insert \/ \E n \in Nodes, x \in Sessions : Register(n, x)
  BY <1>4 DEF Insert, Register, Beside, flow, Steady, TablesMoved
<1>5. CASE Reconcile \/ \E why \in Callers : FindClosed(why)
  <2>1. Settled
    BY <1>5 DEF Reconcile, FindClosed, WriteOutcome, Beside, flow, Settled
  <2> QED  BY <2>1 DEF TablesMoved
<1>6. ASSUME NEW why \in Callers,
             FindActive(why) \/ RecordReason(why) \/ SignalReason(why) \/ RequestCancel(why)
      PROVE  TablesMoved
  <2>1. Steady
    BY <1>6 DEF FindActive, RecordReason, SignalReason, RequestCancel, Beside, flow, Steady
  <2> QED  BY <2>1 DEF TablesMoved
<1>7. CASE Operator
  BY <1>5, <1>6, <1>7 DEF Operator
<1> QED  BY <1>1, <1>2, <1>3, <1>4, <1>5, <1>7, Zenon DEF Next

(* What the workflow does to a cancellation: it neither asks for one nor   *)
(* cleans up without one, and writes no canceling row.                     *)
LEMMA WorkflowCancels ==
    ASSUME Workflow \/ LateRow \/ LateLookup \/ LateDerive
    PROVE  /\ ctxDone' = ctxDone
           /\ pc' \in {"clear", "canceled"} => pc \in {"clear", "canceled"} \/ ctxDone
<1>1. CASE \/ OpenStart \/ CloseStart \/ OpenVisit \/ CloseVisit \/ OpenEnd \/ CloseEnd
  <2>1. ctxDone' = ctxDone
    BY <1>1 DEF OpenStart, CloseStart, OpenVisit, CloseVisit, OpenEnd, CloseEnd, flow
  <2>2. \E i, s, next : /\ UpsertStep(i, s, next)
                        /\ next \in {"startDone", "open", "visit", "next", "endDone", "completed"}
    BY <1>1 DEF OpenStart, CloseStart, OpenVisit, CloseVisit, OpenEnd, CloseEnd
  <2>3. pc' \in {pc, "startDone", "open", "visit", "next", "endDone", "completed"}
    BY <2>2 DEF UpsertStep, TimesOut
  <2> QED  BY <2>1, <2>3
<1>2. CASE \/ PublishWaiting \/ Complete \/ Unblock \/ WriteCanceled
  <2>1. ctxDone' = ctxDone
    BY <1>2 DEF PublishWaiting, Complete, Unblock, WriteCanceled, flow
  <2>2. \E s, e, memory, next : WriteState(s, e, memory, next) /\ next \in {pc, "wait", "closed"}
    BY <1>2 DEF PublishWaiting, Complete, Unblock, WriteCanceled
  <2>3. pc' \in {pc, "wait", "closed"}
    BY <2>2 DEF WriteState, TimesOut
  <2> QED  BY <2>1, <2>3
<1>3. CASE \/ BindVisit \/ Launch \/ StoreHandle \/ PublishNode \/ TakeReport
           \/ NextVisit \/ Block \/ Abandon \/ ClearCanceled
  BY <1>3 DEF BindVisit, Launch, StoreHandle, PublishNode, TakeReport, NextVisit, Block,
              Abandon, ClearCanceled, TimesOut, flow
<1>4. CASE LateRow \/ LateLookup \/ LateDerive
  BY <1>4 DEF LateRow, LateLookup, LateDerive, LateFrame, flow
<1> QED  BY <1>1, <1>2, <1>3, <1>4, Zenon DEF Workflow

LEMMA WorkflowWrites ==
    ASSUME TInv, Workflow \/ LateRow \/ LateLookup \/ LateDerive
    PROVE  row' = row \/ row'.state # "canceling"
<1>0. row \in Rows /\ Writing
  BY Parts DEF ProjTypeOK
<1>1. ASSUME NEW s, s # "canceling", NEW e, UpdateState(s, e)
      PROVE  row' = row \/ row'.state # "canceling"
  BY <1>0, <1>1 DEF UpdateState, Written, Rows
<1>2. ASSUME NEW n, NEW v, UpdateNode("running", n, v)
      PROVE  row' = row \/ row'.state # "canceling"
  BY <1>0, <1>2 DEF UpdateNode, Rows
<1>3. CASE \/ OpenStart \/ CloseStart \/ OpenVisit \/ CloseVisit \/ OpenEnd \/ CloseEnd
  <2>1. \E i, s, next : UpsertStep(i, s, next)
    BY <1>3 DEF OpenStart, CloseStart, OpenVisit, CloseVisit, OpenEnd, CloseEnd
  <2> QED  BY <2>1 DEF UpsertStep, rows
<1>4. CASE \/ PublishWaiting \/ Complete \/ Unblock \/ WriteCanceled
  <2>1. \E s, e, memory, next : WriteState(s, e, memory, next) /\ s # "canceling"
    BY <1>4 DEF PublishWaiting, Complete, Unblock, WriteCanceled
  <2> QED  BY <1>1, <2>1 DEF WriteState
<1>5. CASE PublishNode
  BY <1>2, <1>5 DEF PublishNode
<1>6. CASE Block
  BY <1>1, <1>6 DEF Block
<1>7. CASE \/ BindVisit \/ Launch \/ StoreHandle \/ TakeReport
           \/ NextVisit \/ Abandon \/ ClearCanceled
  BY <1>7 DEF BindVisit, Launch, StoreHandle, TakeReport, NextVisit, Abandon, ClearCanceled, rows
<1>8. CASE LateRow \/ LateLookup \/ LateDerive
  <2>1. late.op = "state" => late.s # "canceling"
    BY <1>0 DEF Writing
  <2>2. \/ row' = row
        \/ UpdateNode("running", late.s, late.k)
        \/ UpdateState(late.s, "none") /\ late.s # "canceling"
    BY <1>8, <2>1 DEF LateRow, LateLookup, LateDerive
  <2> QED  BY <1>1, <1>2, <2>2
<1> QED  BY <1>3, <1>4, <1>5, <1>6, <1>7, <1>8, Zenon DEF Workflow

(* Decided, unfolded for a step after which every attempt has written. *)
DecidedNow ==
    /\ late = NoWrite
    /\ pc # "closed" => row.state \notin Terminal
    /\ pc # "closed" /\ Recorded => row.state = "canceling"
    /\ pc \in {"clear", "canceled"} => ctxDone
    /\ blocked => pc \in {"startDone", "launch", "next", "endDone"}

LEMMA Decided_Workflow ==
    ASSUME TInv, DecidedNow, slow = 0, slow' = 0, RowMoved, UNCHANGED callVars,
           Workflow \/ LateRow \/ LateLookup \/ LateDerive
    PROVE  DecidedNow'
<1>00. ctxDone' = ctxDone
  BY WorkflowCancels
<1>0. /\ slow = 0 /\ late = NoWrite /\ late.op = "none" /\ row \in Rows
      /\ pc # "closed" => row.state \notin Terminal
      /\ pc # "closed" /\ Recorded => row.state = "canceling"
      /\ pc \in {"clear", "canceled"} => ctxDone
      /\ blocked => pc \in {"startDone", "launch", "next", "endDone"}
      /\ Recorded' <=> Recorded
  BY <1>00, Parts DEF DecidedNow, NoWrite, ProjTypeOK, Recorded, callVars
<1>1. RowMoved
  OBVIOUS
<1>3. CASE \/ OpenStart \/ CloseStart \/ OpenVisit \/ CloseVisit \/ OpenEnd \/ CloseEnd
  <2>1. /\ late' = late /\ rows' = rows /\ ctxDone' = ctxDone /\ blocked' = blocked
        /\ pc' \in {"startDone", "visit", "next", "endDone", "completed", "open"}
        /\ pc # "closed" /\ ~ctxDone
        /\ pc \in {"startDone", "endDone"} => ~blocked
    BY <1>0, <1>3, PromptUpsert
       DEF OpenStart, CloseStart, OpenVisit, CloseVisit, OpenEnd, CloseEnd, At, flow
  <2>2. row' = row
    BY <2>1 DEF rows
  <2> QED  BY <1>0, <1>1, <1>3, <2>1, <2>2
           DEF DecidedNow, OpenStart, CloseStart, OpenVisit, CloseVisit, OpenEnd, CloseEnd, At
<1>4. CASE PublishWaiting \/ Unblock
  <2>1. /\ late' = late /\ UpdateState("waiting", "none") /\ ~ctxDone /\ ctxDone' = ctxDone
        /\ pc # "closed"
        /\ \/ pc = "waiting" /\ pc' = "wait" /\ blocked' = blocked
           \/ pc' = pc /\ blocked' = FALSE
    <3>1. CASE PublishWaiting
      BY <1>0, <3>1, PromptWrite DEF PublishWaiting, At, flow
    <3>2. CASE Unblock
      BY <1>0, <3>2, PromptWrite DEF Unblock
    <3> QED  BY <1>4, <3>1, <3>2
  <2>2. row'.state \in {row.state, "waiting"}
    BY <2>1, <1>0 DEF UpdateState, Written, Rows
  <2> QED  BY <1>0, <1>1, <2>1, <2>2 DEF DecidedNow, RowMoved, Terminal
<1>5. CASE Complete \/ WriteCanceled
  <2>1. /\ late' = late /\ pc' = "closed" /\ blocked' = blocked
        /\ pc \in {"completed", "canceled"}
    BY <1>0, <1>5, PromptWrite DEF Complete, WriteCanceled, At, flow
  <2> QED  BY <1>0, <1>1, <2>1 DEF DecidedNow
<1>6. CASE \/ BindVisit \/ Launch \/ StoreHandle \/ TakeReport
           \/ NextVisit \/ ClearCanceled
  <2>1. /\ late' = late /\ row' = row /\ ctxDone' = ctxDone /\ blocked' = blocked
        /\ pc # "closed"
        /\ pc' \in {"launch", "bind", "node", "close", "open", "endOpen", "canceled"}
        /\ pc' = "canceled" => pc = "clear"
        /\ ~blocked
    BY <1>0, <1>6 DEF BindVisit, Launch, StoreHandle, TakeReport, NextVisit, ClearCanceled,
                      At, flow, rows
  <2> QED  BY <1>0, <1>1, <2>1 DEF DecidedNow
<1>7. CASE PublishNode
  <2>1. /\ late' = late /\ ctxDone' = ctxDone /\ blocked' = blocked
        /\ pc = "node" /\ pc' = "waiting" /\ ~ctxDone /\ UpdateNode("running", target, k)
    BY <1>0, <1>7 DEF PublishNode, At, flow, TimesOut
  <2>2. row'.state \in {row.state, "running"}
    BY <2>1, <1>0 DEF UpdateNode, Rows
  <2> QED  BY <1>0, <1>1, <2>1, <2>2 DEF DecidedNow, RowMoved, Terminal
<1>8. CASE Block
  <2>1. /\ late' = late /\ ctxDone' = ctxDone /\ pc' = pc /\ ~ctxDone
        /\ pc \in {"startDone", "launch", "next", "endDone"}
        /\ UpdateState("blocked", "conflict")
    BY <1>8 DEF Block, At
  <2>2. row'.state \in {row.state, "blocked"}
    BY <2>1, <1>0 DEF UpdateState, Written, Rows
  <2> QED  BY <1>0, <1>1, <2>1, <2>2 DEF DecidedNow, RowMoved, Terminal
<1>9. CASE Abandon
  BY <1>0, <1>9 DEF DecidedNow, Abandon, rows
<1>10. CASE LateRow \/ LateLookup \/ LateDerive
  BY <1>0, <1>10 DEF LateRow, LateLookup, LateDerive
<1> QED  BY <1>3, <1>4, <1>5, <1>6, <1>7, <1>8, <1>9, <1>10, Zenon DEF Workflow

LEMMA Decided_Beside ==
    ASSUME TInv, DecidedNow, Spread, slow = 0, RowMoved,
           Insert \/ Operator \/ Reconcile \/ \E n \in Nodes, x \in Sessions : Register(n, x)
    PROVE  DecidedNow'
<1>0. row \in Rows /\ CallsOK
  BY Parts DEF ProjTypeOK
<1>1. CASE Insert \/ \E n \in Nodes, x \in Sessions : Register(n, x)
  <2>1. UNCHANGED <<pc, late, ctxDone, blocked, callVars>>
    BY <1>1 DEF Insert, Register, Beside, flow
  <2>2. row'.state \in {row.state, "starting"}
    BY <1>1, <1>0 DEF Insert, InsertStart, Register, rows, Rows
  <2> QED  BY <2>1, <2>2 DEF DecidedNow, Recorded, callVars, RowMoved, Terminal
<1>2. CASE Reconcile
  BY <1>2 DEF Reconcile, Beside, flow, DecidedNow
<1>3. ASSUME NEW why \in Callers,
             FindActive(why) \/ RecordReason(why) \/ FindClosed(why)
             \/ SignalReason(why) \/ RequestCancel(why)
      PROVE  DecidedNow'
  <2>1. UNCHANGED <<pc, late, blocked>>
    BY <1>3 DEF FindActive, RecordReason, FindClosed, SignalReason, RequestCancel, Beside, flow
  <2>2. CASE FindActive(why)
    <3>1. UNCHANGED <<row, ctxDone>> /\ call' = [call EXCEPT ![why] = "found"]
      BY <2>2 DEF FindActive, rows, flow
    <3>2. Recorded' => Recorded
      BY <3>1, <1>0 DEF Recorded, CallsOK
    <3> QED  BY <2>1, <3>1, <3>2 DEF DecidedNow
  <2>3. CASE RecordReason(why)
    <3>1. /\ UpdateState("canceling", why) /\ ctxDone' = ctxDone /\ call[why] = "found"
          /\ call' = [call EXCEPT ![why] = "recorded"]
      BY <2>3 DEF RecordReason, flow
    <3>2. row.state # "absent" => row.state \in Terminal \/ row'.state = "canceling"
      BY <3>1, <1>0 DEF UpdateState, Fenced, Written, Rows
    <3> QED  BY <2>1, <3>1, <3>2 DEF DecidedNow, Spread, Terminal
  <2>4. CASE FindClosed(why)
    BY <2>1, <2>4 DEF FindClosed, flow, DecidedNow
  <2>5. CASE SignalReason(why) \/ RequestCancel(why)
    <3>1. row' = row /\ Recorded /\ (pc \in {"clear", "canceled"} /\ ctxDone => ctxDone')
      BY <2>5 DEF SignalReason, RequestCancel, rows, flow, Recorded
    <3> QED  BY <2>1, <3>1 DEF DecidedNow
  <2> QED  BY <1>3, <2>2, <2>3, <2>4, <2>5
<1> QED  BY <1>1, <1>2, <1>3 DEF Operator

LEMMA Decided_Step ==
    ASSUME TInv, Decided, Spread, [Next]_vars
    PROVE  Decided'
<1> SUFFICES ASSUME slow' = 0
             PROVE  DecidedNow'
  BY DEF Decided, DecidedNow
<1>0. slow = 0 /\ DecidedNow
  BY Prompt DEF Decided, DecidedNow
<1>1. RowMoved
  BY Step_Type DEF Moved
<1>2. CASE UNCHANGED vars
  BY <1>0, <1>2 DEF DecidedNow, vars, rows, flow, callVars, Recorded
<1> QED  BY <1>0, <1>1, <1>2, Decided_Workflow, Decided_Beside DEF Next

(* What an operator's call has put on record stays a reason given. *)
LEMMA Spread_Step ==
    ASSUME TInv, Spread, [Next]_vars
    PROVE  Spread'
<1>0. row \in Rows /\ CallsOK
  BY Parts DEF ProjTypeOK
<1>1. RowMoved
  BY Step_Type DEF Moved
<1>2. CASE UNCHANGED vars
  BY <1>2 DEF Spread, Given, vars, rows, flow, callVars
<1>3. CASE (Workflow \/ LateRow \/ LateLookup \/ LateDerive) /\ UNCHANGED callVars
  <2>1. ctxDone' = ctxDone /\ (pc' \in {"clear", "canceled"} => pc \in {"clear", "canceled"} \/ ctxDone)
    BY <1>3, WorkflowCancels
  <2>2. row' = row \/ row'.state # "canceling"
    BY <1>3, WorkflowWrites
  <2> QED  BY <1>1, <1>3, <2>1, <2>2 DEF Spread, Given, callVars, RowMoved
<1>4. CASE Insert \/ \E n \in Nodes, x \in Sessions : Register(n, x)
  <2>1. UNCHANGED <<pc, ctxDone, callVars>>
    BY <1>4 DEF Insert, Register, Beside, flow
  <2>2. row' = row \/ row'.state = "starting"
    BY <1>4, <1>0 DEF Insert, InsertStart, Register, rows, Rows
  <2> QED  BY <1>1, <2>1, <2>2 DEF Spread, Given, callVars, RowMoved
<1>5. CASE Reconcile
  <2>1. UNCHANGED <<pc, ctxDone, callVars>> /\ UpdateState(Outcome, "none") /\ Outcome # "canceling"
    BY <1>5 DEF Reconcile, WriteOutcome, Beside, flow, Outcome
  <2>2. row' = row \/ row'.state # "canceling"
    BY <2>1, <1>0 DEF UpdateState, Written, Rows
  <2> QED  BY <1>1, <2>1, <2>2 DEF Spread, Given, callVars, RowMoved
<1>6. ASSUME NEW why \in Callers,
             FindActive(why) \/ RecordReason(why) \/ FindClosed(why)
             \/ SignalReason(why) \/ RequestCancel(why)
      PROVE  Spread'
  <2>0. pc' = pc /\ "none" \in Callers
    BY <1>6 DEF FindActive, RecordReason, FindClosed, SignalReason, RequestCancel, Beside, Callers
  <2>1. CASE FindActive(why)
    <3>1. /\ UNCHANGED <<row, ctxDone, heard>> /\ call' = [call EXCEPT ![why] = "found"]
          /\ call[why] = "idle" /\ row.state \in Active
      BY <2>1 DEF FindActive, rows, flow
    <3>2. Given' = Given /\ \A w \in Callers : call'[w] = "told" => call[w] = "told"
      BY <3>1, <1>0 DEF Given, CallsOK
    <3> QED  BY <2>0, <3>1, <3>2 DEF Spread, Active
  <2>2. CASE RecordReason(why)
    <3>1. /\ UNCHANGED <<ctxDone, heard>> /\ call' = [call EXCEPT ![why] = "recorded"]
          /\ call[why] = "found" /\ UpdateState("canceling", why)
      BY <2>2 DEF RecordReason, flow
    <3>2. /\ Given' = Given \cup {why}
          /\ \A w \in Callers : call'[w] = "told" => call[w] = "told"
      BY <3>1, <1>0 DEF Given, CallsOK
    <3>3. row' = row \/ row'.err = why
      BY <3>1, <1>0 DEF UpdateState, Written, Rows
    <3>4. \A w \in Callers : call'[w] # "idle" => call[w] # "idle"
      BY <3>1, <1>0 DEF CallsOK
    <3> QED  BY <1>1, <2>0, <3>1, <3>2, <3>3, <3>4 DEF Spread, RowMoved
  <2>3. CASE FindClosed(why)
    <3>1. /\ UNCHANGED <<ctxDone, heard>> /\ call' = [call EXCEPT ![why] = "done"]
          /\ call[why] \in {"recorded", "told"} /\ UpdateState(Outcome, why)
          /\ Outcome # "canceling"
      BY <2>3 DEF FindClosed, WriteOutcome, Outcome, flow
    <3>2. Given' = Given /\ \A w \in Callers : call'[w] = "told" => call[w] = "told"
      BY <3>1, <1>0 DEF Given, CallsOK
    <3>3. row' = row \/ row'.state # "canceling"
      BY <3>1, <1>0 DEF UpdateState, Written, Rows
    <3>4. \A w \in Callers : call'[w] # "idle" => call[w] # "idle"
      BY <3>1, <1>0 DEF CallsOK
    <3> QED  BY <1>1, <2>0, <3>1, <3>2, <3>3, <3>4 DEF Spread, RowMoved
  <2>4. CASE SignalReason(why)
    <3>1. /\ UNCHANGED <<row, ctxDone>> /\ call' = [call EXCEPT ![why] = "told"]
          /\ call[why] = "recorded"
          /\ heard' = IF why # "none" /\ pc \notin {"clear", "canceled"} THEN why ELSE heard
      BY <2>4 DEF SignalReason, rows, flow
    <3>2. Given' = Given /\ why \in Given
      BY <3>1, <1>0 DEF Given, CallsOK
    <3>3. heard' \in Given
      BY <3>1, <3>2 DEF Spread
    <3>4. \A w \in Callers : call'[w] # "idle" => call[w] # "idle"
      BY <3>1, <1>0 DEF CallsOK
    <3> QED  BY <2>0, <3>1, <3>2, <3>3, <3>4 DEF Spread
  <2>5. CASE RequestCancel(why)
    <3>1. /\ UNCHANGED <<row, heard>> /\ call' = [call EXCEPT ![why] = "done"]
          /\ call[why] = "told" /\ ctxDone' = TRUE
      BY <2>5 DEF RequestCancel, rows
    <3>2. Given' = Given /\ \A w \in Callers : call'[w] # "idle" => call[w] # "idle"
      BY <3>1, <1>0 DEF Given, CallsOK
    <3> QED  BY <2>0, <3>1, <3>2 DEF Spread
  <2> QED  BY <1>6, <2>1, <2>2, <2>3, <2>4, <2>5
<1> QED  BY <1>2, <1>3, <1>4, <1>5, <1>6 DEF Next, Operator

-----------------------------------------------------------------------------
(* One open step, alike in all three tables *)

Single(tbl) == \A i \in Sequences0 : tbl[i] \in Open => i = k

(* With one open step, setting the latest is setting the current one. *)
LEMMA SetCurrent ==
    ASSUME NEW tbl \in Tables, k \in Sequences0, Single(tbl), NEW s
    PROVE  SetLatest(tbl, s) = IF tbl[k] \in Open THEN [tbl EXCEPT ![k] = s] ELSE tbl
<1>1. CASE tbl[k] \in Open
  <2>1. OpenSteps(tbl) # {}
    BY <1>1 DEF OpenSteps
  <2>2. Latest(tbl) = k
    BY <2>1, LatestIsOpen DEF Single
  <2> QED  BY <1>1, <2>1, <2>2 DEF SetLatest
<1>2. CASE tbl[k] \notin Open
  <2>1. OpenSteps(tbl) = {}
    BY <1>2 DEF OpenSteps, Single
  <2> QED  BY <1>2, <2>1 DEF SetLatest
<1> QED  BY <1>1, <1>2

LEMMA AlikeIsSingle ==
    ASSUME Single(steps), NEW tbl, Alike(tbl)
    PROVE  /\ Single(tbl)
           /\ \A i \in Sequences0 : tbl[i] \in Open <=> steps[i] \in Open
           /\ \A i \in Sequences0 : i # k => tbl[i] = steps[i]
BY DEF Single, Alike

(* Tables without an open step are left alone, and alike means equal. *)
LEMMA NoneOpen ==
    ASSUME steps \in Tables, NEW tbl \in Tables, Alike(tbl), OpenSteps(steps) = {}
    PROVE  tbl = steps /\ \A s : SetLatest(tbl, s) = tbl /\ Derived(tbl, s) = tbl
<1>1. \A i \in Sequences0 : steps[i] \notin Open
  BY DEF OpenSteps
<1>2. \A i \in Sequences0 : tbl[i] = steps[i]
  BY <1>1 DEF Alike
<1>3. tbl = steps
  BY <1>2 DEF Tables
<1> QED  BY <1>3 DEF SetLatest, Derived

LEMMA Tuned_Tables ==
    ASSUME TInv, slow = 0, Numbered, Told, NEW s \in {"waiting", "blocked"}, Tuned(s)
    PROVE  /\ \A i \in Sequences0 : steps'[i] = steps[i] \/ {steps'[i], steps[i]} \subseteq Open
           /\ Alike(mem)' /\ Alike(told)'
<1>0. /\ k \in Sequences0 /\ steps \in Tables /\ mem \in Tables /\ told \in Tables
      /\ Single(steps) /\ Alike(mem) /\ Alike(told) /\ s \in Open
  BY Parts DEF FlowOK, TablesOK, Numbered, Told, Tuned, Single, Open
<1>1. /\ steps' \in {steps, IF steps[k] \in Open THEN [steps EXCEPT ![k] = s] ELSE steps}
      /\ mem' = IF mem[k] \in Open THEN [mem EXCEPT ![k] = s] ELSE mem
      /\ told' = IF told[k] \in Open THEN [told EXCEPT ![k] = s] ELSE told
  BY <1>0, SetCurrent, AlikeIsSingle DEF Tuned
<1>2. \A i \in Sequences0 : steps'[i] = steps[i] \/ {steps'[i], steps[i]} \subseteq Open
  BY <1>0, <1>1 DEF Tables
<1>3. \A i \in Sequences0 : mem'[i] = mem[i] \/ {mem'[i], mem[i]} \subseteq Open
  BY <1>0, <1>1 DEF Tables
<1>4. \A i \in Sequences0 : told'[i] = told[i] \/ {told'[i], told[i]} \subseteq Open
  BY <1>0, <1>1 DEF Tables
<1> QED  BY <1>0, <1>2, <1>3, <1>4 DEF Alike

LEMMA Write_Tables ==
    ASSUME TInv, slow = 0, Numbered, Told, pc # "closed",
           NEW s \in {"running", "succeeded", "failed"},
           steps[k] = "none" \/ steps[k] \in Open, s = "running" => steps[k] = "none",
           steps' = [steps EXCEPT ![k] = Merged(@, s)],
           mem' = [mem EXCEPT ![k] = s],
           told' = [told EXCEPT ![k] = Merged(@, s)]
    PROVE  /\ steps' = [steps EXCEPT ![k] = s]
           /\ Alike(mem)' /\ Alike(told)'
<1>0. /\ k \in Sequences0 /\ steps \in Tables /\ mem \in Tables /\ told \in Tables
      /\ Alike(mem) /\ Alike(told)
  BY Parts DEF FlowOK, TablesOK, Told
<1>1. ASSUME NEW x, x = "none" \/ x \in Open, s = "running" => x = "none"
      PROVE  Merged(x, s) = s
  BY <1>1 DEF Merged, Rank, Open, Finished
<1>2. told[k] = "none" \/ told[k] \in Open
  BY <1>0 DEF Alike, Open
<1>3. s = "running" => told[k] = "none"
  BY <1>0 DEF Alike, Open
<1>4. Merged(steps[k], s) = s /\ Merged(told[k], s) = s
  BY <1>1, <1>2, <1>3
<1>5. steps' = [steps EXCEPT ![k] = s] /\ told' = [told EXCEPT ![k] = s]
  BY <1>4
<1> QED  BY <1>0, <1>5 DEF Alike, Tables

LEMMA Numbered_Step ==
    ASSUME TInv, Decided, Numbered, Told, [Next]_vars
    PROVE  Numbered'
<1> SUFFICES ASSUME slow' = 0
             PROVE  /\ \A i \in Sequences0 : i > k' => steps'[i] = "none"
                    /\ \A i \in Sequences0 : steps'[i] \in Open => i = k'
                    /\ pc' \in {"startOpen", "open", "endOpen"} => steps'[k'] = "none"
                    /\ pc' \in {"startDone", "visit", "launch", "bind", "node", "waiting", "wait",
                                "close", "endDone"} => steps'[k'] \in Open
                    /\ pc' \in {"next", "completed"} => steps'[k'] \in Finished
  BY DEF Numbered
<1>0. /\ slow = 0 /\ k \in Nat /\ k \in Sequences0 /\ steps \in Tables /\ Sequences0 \subseteq Nat
      /\ k' \in Sequences0 /\ k' \in Nat
      /\ \A i \in Sequences0 : i > k => steps[i] = "none"
      /\ \A i \in Sequences0 : steps[i] \in Open => i = k
      /\ pc \in {"startOpen", "open", "endOpen"} => steps[k] = "none"
      /\ pc \in {"startDone", "visit", "launch", "bind", "node", "waiting", "wait",
                 "close", "endDone"} => steps[k] \in Open
      /\ pc \in {"next", "completed"} => steps[k] \in Finished
  <2>1. k \in Sequences0 /\ k' \in Sequences0 /\ steps \in Tables
    BY Step_Type DEF TInv, TypeOK
  <2>2. Sequences0 \subseteq Nat
    BY TimelineAssumption DEF Sequences0
  <2> QED  BY <2>1, <2>2, Prompt DEF Numbered
<1>1. CASE Opened
  <2>1. steps' = [steps EXCEPT ![k] = "running"] /\ k' = k /\ pc' \in {"startDone", "visit", "endDone"}
    BY <1>0, <1>1, Write_Tables DEF Opened
  <2> QED  BY <1>0, <2>1 DEF Tables, Open
<1>2. ASSUME NEW s \in {"succeeded", "failed"}, Ended(s)
      PROVE  /\ \A i \in Sequences0 : i > k' => steps'[i] = "none"
             /\ \A i \in Sequences0 : steps'[i] \in Open => i = k'
             /\ pc' \in {"startOpen", "open", "endOpen"} => steps'[k'] = "none"
             /\ pc' \in {"startDone", "visit", "launch", "bind", "node", "waiting", "wait",
                         "close", "endDone"} => steps'[k'] \in Open
             /\ pc' \in {"next", "completed"} => steps'[k'] \in Finished
  <2>1. steps' = [steps EXCEPT ![k] = s]
    BY <1>0, <1>2, Write_Tables DEF Ended
  <2>2. \/ k' = k + 1 /\ pc' = "open"
        \/ k' = k /\ pc' \in {"next", "completed"}
    BY <1>2 DEF Ended
  <2> QED  BY <1>0, <2>1, <2>2 DEF Tables, Open, Finished
<1>3. ASSUME NEW s \in {"waiting", "blocked"}, Tuned(s)
      PROVE  /\ \A i \in Sequences0 : i > k' => steps'[i] = "none"
             /\ \A i \in Sequences0 : steps'[i] \in Open => i = k'
             /\ pc' \in {"startOpen", "open", "endOpen"} => steps'[k'] = "none"
             /\ pc' \in {"startDone", "visit", "launch", "bind", "node", "waiting", "wait",
                         "close", "endDone"} => steps'[k'] \in Open
             /\ pc' \in {"next", "completed"} => steps'[k'] \in Finished
  <2>1. \A i \in Sequences0 : steps'[i] = steps[i] \/ {steps'[i], steps[i]} \subseteq Open
    BY <1>0, <1>3, Tuned_Tables
  <2>2. k' = k /\ (pc' = pc \/ (pc = "waiting" /\ pc' = "wait"))
    BY <1>3 DEF Tuned
  <2>3. /\ "none" \notin Open /\ \A x \in Finished : x \notin Open
    BY DEF Open, Finished
  <2> QED  BY <1>0, <2>1, <2>2, <2>3
<1>4. CASE Completed \/ Canceled \/ Settled
  <2>1. k' = k /\ pc' = "closed"
    BY <1>4 DEF Completed, Canceled, Settled
  <2>2. \A i \in Sequences0 : steps[i] \notin Open => steps'[i] = steps[i]
    BY <1>0, <1>4, DerivedKeeps DEF Completed, Canceled, Settled
  <2> QED  BY <1>0, <2>1, <2>2 DEF Open
<1>5. CASE Onward
  BY <1>0, <1>5 DEF Onward, Open, Finished
<1>6. CASE Steady
  BY <1>0, <1>6 DEF Steady
<1> QED  BY <1>1, <1>2, <1>3, <1>4, <1>5, <1>6, StepTables DEF TablesMoved

LEMMA Told_Step ==
    ASSUME TInv, Decided, Numbered, Told, [Next]_vars
    PROVE  Told'
<1> SUFFICES ASSUME slow' = 0
             PROVE  /\ pc' # "closed" => Alike(mem)' /\ Alike(told)'
                    /\ pc' = "closed" => /\ OpenSteps(steps') = {}
                                         /\ Derived(mem', Outcome') = steps'
                                         /\ Derived(told', Outcome') = steps'
  BY DEF Told
<1>0. /\ slow = 0 /\ k \in Sequences0 /\ steps \in Tables /\ mem \in Tables /\ told \in Tables
      /\ pc # "closed" => Alike(mem) /\ Alike(told)
      /\ pc = "closed" => /\ OpenSteps(steps) = {}
                          /\ Derived(mem, Outcome) = steps
                          /\ Derived(told, Outcome) = steps
      /\ Single(steps)
  BY Prompt, Parts DEF Told, FlowOK, TablesOK, Numbered, Single
<1>1. CASE Opened
  <2>1. Alike(mem)' /\ Alike(told)'
    BY <1>0, <1>1, Write_Tables DEF Opened, Numbered
  <2> QED  BY <1>1, <2>1 DEF Opened
<1>2. ASSUME NEW s \in {"succeeded", "failed"}, Ended(s)
      PROVE  Alike(mem)' /\ Alike(told)' /\ pc' # "closed"
  BY <1>0, <1>2, Write_Tables DEF Ended, Numbered
<1>3. ASSUME NEW s \in {"waiting", "blocked"}, Tuned(s)
      PROVE  Alike(mem)' /\ Alike(told)' /\ pc' # "closed"
  BY <1>0, <1>3, Tuned_Tables DEF Tuned
<1>4. CASE Completed
  <2>1. OpenSteps(steps) = {}
    BY <1>0, <1>4 DEF Completed, Numbered, OpenSteps, Single, Open, Finished
  <2>2. Alike(steps)
    BY DEF Alike
  <2>3. mem = steps /\ told = steps /\ \A s : Derived(steps, s) = steps
    BY <1>0, <1>4, <2>1, <2>2, NoneOpen DEF Completed
  <2>4. FromHistory(told, "completed") = told
    BY DEF FromHistory
  <2> QED  BY <1>4, <2>1, <2>3, <2>4 DEF Completed
<1>5. CASE Canceled
  <2>1. /\ steps' = SetLatest(steps, "canceled") /\ mem' = mem
        /\ told' = SetLatest(told, "canceled") /\ Outcome' = "canceled"
        /\ Alike(mem) /\ Alike(told) /\ pc' = "closed"
    BY <1>0, <1>5 DEF Canceled, Derived, StepStatus, FromHistory, Outcome
  <2>2. ASSUME NEW tbl \in Tables, Alike(tbl)
        PROVE  SetLatest(tbl, "canceled") = steps'
    <3>1. /\ SetLatest(tbl, "canceled") = IF tbl[k] \in Open THEN [tbl EXCEPT ![k] = "canceled"] ELSE tbl
          /\ steps' = IF steps[k] \in Open THEN [steps EXCEPT ![k] = "canceled"] ELSE steps
      BY <1>0, <2>1, <2>2, SetCurrent, AlikeIsSingle
    <3>2. /\ \A i \in Sequences0 : i # k => tbl[i] = steps[i]
          /\ tbl[k] \in Open <=> steps[k] \in Open
          /\ tbl[k] \notin Open => tbl[k] = steps[k]
      BY <1>0, <2>2, AlikeIsSingle DEF Alike
    <3>3. SetLatest(tbl, "canceled") \in Tables /\ steps' \in Tables
      BY <1>0, <2>1, SetLatestKeeps DEF Statuses, Finished
    <3>4. \A i \in Sequences0 : SetLatest(tbl, "canceled")[i] = steps'[i]
      BY <3>1, <3>2, <1>0 DEF Tables
    <3> QED  BY <3>3, <3>4 DEF Tables
  <2>3. OpenSteps(steps') = {}
    <3>1. steps' = IF steps[k] \in Open THEN [steps EXCEPT ![k] = "canceled"] ELSE steps
      BY <1>0, <2>1, SetCurrent
    <3> QED  BY <1>0, <3>1 DEF OpenSteps, Single, Tables, Open
  <2>4. \A tbl : Derived(tbl, "canceled") = SetLatest(tbl, "canceled")
    BY DEF Derived, StepStatus
  <2>5. SetLatest(steps', "canceled") = steps'
    BY <2>3 DEF SetLatest
  <2> QED  BY <1>0, <2>1, <2>2, <2>3, <2>4, <2>5
<1>6. CASE Settled
  <2>1. \E s : steps' \in {steps, Derived(steps, s)}
    BY <1>6 DEF Settled
  <2>2. steps' = steps
    BY <1>0, <1>6, <2>1 DEF Settled, Derived, SetLatest
  <2> QED  BY <1>0, <1>6, <2>2 DEF Settled, Outcome
<1>7. CASE Onward
  BY <1>0, <1>7 DEF Onward, Alike
<1>8. CASE Steady
  BY <1>0, <1>8 DEF Steady, Alike, Outcome
<1> QED  BY <1>1, <1>2, <1>3, <1>4, <1>5, <1>6, <1>7, <1>8, StepTables DEF TablesMoved

LEMMA Timeline_Init == Init => TimelineInv
<1> SUFFICES ASSUME Init  PROVE TimelineInv
  OBVIOUS
<1>1. TInv
  BY Init_Type
<1>2. Decided
  BY DEF Init, ProjInit, Decided, Recorded, Terminal
<1>3. Numbered
  BY <1>1, TimelineAssumption DEF Init, Numbered, Empty, Open, Sequences0
<1>4. Told
  BY DEF Init, Told, Alike
<1>5. Spread
  BY DEF Init, ProjInit, Spread, Callers
<1> QED  BY <1>1, <1>2, <1>3, <1>4, <1>5 DEF TimelineInv, TInv

(* A run is canceled for a reason somebody gave, on its row and in what    *)
(* the workflow announces, for any number of operators whose calls         *)
(* overlap, fail half-way and meet late writes of the workflow             *)
(* (CancelRun, cancelReasonCh).                                            *)
THEOREM AttemptReasonAnnounced == Spec => []ReasonAnnounced
<1>1. Init => TInv /\ Spread
  BY Timeline_Init DEF TimelineInv, TInv
<1>2. TInv /\ Spread /\ [Next]_vars => TInv' /\ Spread'
  BY Step_Type, Spread_Step
<1>3. Spread => ReasonAnnounced
  BY DEF Spread, ReasonAnnounced
<1> QED  BY <1>1, <1>2, <1>3, PTL DEF Spec

(* Losing the database loses no step: when every attempt has written, what *)
(* restoreProjection rebuilds from the query's answer, and from history,   *)
(* is the table, for any graph, number of steps and time of cancellation   *)
(* or block.                                                               *)
THEOREM RebuiltIsLost == Spec => []RebuiltTimelineAgrees
<1>1. TimelineInv /\ [Next]_vars => TimelineInv'
  BY Step_Type, Spread_Step, Decided_Step, Numbered_Step, Told_Step DEF TimelineInv, TInv
<1>2. TimelineInv => RebuiltTimelineAgrees
  <2> SUFFICES ASSUME TimelineInv, pc = "closed", slow = 0
               PROVE  Rebuilt(mem) = steps /\ Rebuilt(told) = steps
    BY DEF RebuiltTimelineAgrees
  <2>1. mem \in Tables /\ told \in Tables
        /\ Derived(mem, Outcome) = steps /\ Derived(told, Outcome) = steps
    BY DEF TimelineInv, TypeOK, Told
  <2>2. ASSUME NEW tbl \in Tables
        PROVE  [i \in Sequences0 |-> Merged("none", tbl[i])] = tbl
    <3>1. \A x \in Statuses : Merged("none", x) = x
      BY DEF Merged, Rank, Statuses, Open, Finished
    <3> QED  BY <3>1 DEF Tables
  <2> QED  BY <2>1, <2>2 DEF Rebuilt
<1> QED  BY Timeline_Init, <1>1, <1>2, PTL DEF Spec
===============================================================================
