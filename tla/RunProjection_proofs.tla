------------------------- MODULE RunProjection_proofs -------------------------
(***************************************************************************)
(* What the SQL of the projection guarantees for every run, whatever its   *)
(* workflow, and whichever order its callers come in: those of either      *)
(* engine, and, for the reason of a cancellation, the embedded one's.      *)
(***************************************************************************)
EXTENDS RunProjection, TLAPS

USE DEF Active, Terminal, States, Errors, Rows, Runtimes, projVars

(* The cases of EmbeddedNext, named for the proofs below. *)
StateWrite ==
    /\ UNCHANGED <<runtimes, processed>>
    /\ \/ InsertStart
       \/ /\ row.state # "absent"
          /\ \E s \in {"waiting", "blocked", "completed", "canceled"} :
                \E e \in {"none", "conflict"} : UpdateState(s, e)
       \/ \E s \in Terminal : UpdateStateIf("canceling", s, "none")
       \/ \E why \in Reasons \cup {"none"} : BeginCancellation(why)
       \/ \E b \in BOOLEAN : UpdateRetry(b)
RuntimeWrite ==
    /\ UNCHANGED row
    /\ \/ /\ UNCHANGED processed
          /\ \/ \E n \in Nodes, v \in 1..MaxVisit : UpdateNodeRuntimeVisit(n, v)
             \/ \E n \in Nodes, v \in 1..MaxVisit, t \in 1..MaxTerm :
                   ReplaceNodeRuntime(n, v, t)
             \/ \E n \in Nodes, b \in BOOLEAN : ClearNodeRuntime({n}, b)
       \/ UNCHANGED runtimes /\ \E r \in ReportIds : RecordProcessedReport(r)
NodeWrite ==
    \E n \in Nodes, v \in 1..MaxVisit : UpdateNode("running", n, v) /\ UNCHANGED processed

LEMMA EmbeddedCases == EmbeddedNext => StateWrite \/ RuntimeWrite \/ NodeWrite
BY Zenon DEF EmbeddedNext, StateWrite, RuntimeWrite, NodeWrite

(* Every row a statement writes is a well-formed row. *)
LEMMA StateWriteType ==
    ASSUME ProjTypeOK, StateWrite
    PROVE  ProjTypeOK'
<1>1. row \in Rows /\ runtimes' = runtimes /\ processed' = processed
  BY DEF ProjTypeOK, StateWrite
<1>2. CASE InsertStart
  <2>1. row' \in Rows  BY <1>1, <1>2 DEF InsertStart
  <2> QED  BY <1>1, <2>1 DEF ProjTypeOK
<1>3. CASE \E s \in {"waiting", "blocked", "completed", "canceled"} :
              \E e \in {"none", "conflict"} : UpdateState(s, e)
  <2>1. row' \in Rows  BY <1>1, <1>3 DEF UpdateState, Written
  <2> QED  BY <1>1, <2>1 DEF ProjTypeOK
<1>4. CASE \E s \in Terminal : UpdateStateIf("canceling", s, "none")
  <2>1. row' \in Rows  BY <1>1, <1>4 DEF UpdateStateIf, Written
  <2> QED  BY <1>1, <2>1 DEF ProjTypeOK
<1>5. CASE \E why \in Reasons \cup {"none"} : BeginCancellation(why)
  <2>1. row' \in Rows  BY <1>1, <1>5 DEF BeginCancellation
  <2> QED  BY <1>1, <2>1 DEF ProjTypeOK
<1>6. CASE \E b \in BOOLEAN : UpdateRetry(b)
  <2>1. row' \in Rows  BY <1>1, <1>6 DEF UpdateRetry
  <2> QED  BY <1>1, <2>1 DEF ProjTypeOK
<1> QED  BY <1>2, <1>3, <1>4, <1>5, <1>6 DEF StateWrite

LEMMA RuntimeWriteType ==
    ASSUME ProjTypeOK, RuntimeWrite
    PROVE  ProjTypeOK'
<1>1. row' = row /\ row \in Rows /\ runtimes \in Runtimes /\ processed \subseteq ReportIds
  BY DEF ProjTypeOK, RuntimeWrite
<1>2. CASE \E n \in Nodes, v \in 1..MaxVisit : UpdateNodeRuntimeVisit(n, v)
  <2>1. runtimes' \in Runtimes
    BY <1>1, <1>2, BoundsAssumption DEF UpdateNodeRuntimeVisit
  <2> QED  BY <1>1, <1>2, <2>1 DEF RuntimeWrite, ProjTypeOK, UpdateNodeRuntimeVisit, RecordProcessedReport
<1>3. CASE \E n \in Nodes, v \in 1..MaxVisit, t \in 1..MaxTerm : ReplaceNodeRuntime(n, v, t)
  <2>1. runtimes' \in Runtimes
    BY <1>1, <1>3, BoundsAssumption DEF ReplaceNodeRuntime
  <2> QED  BY <1>1, <2>1 DEF RuntimeWrite, ProjTypeOK, RecordProcessedReport
<1>4. CASE \E n \in Nodes, b \in BOOLEAN : ClearNodeRuntime({n}, b)
  <2>1. runtimes' \in Runtimes
    BY <1>1, <1>4 DEF ClearNodeRuntime
  <2> QED  BY <1>1, <2>1 DEF RuntimeWrite, ProjTypeOK, RecordProcessedReport
<1>5. CASE UNCHANGED runtimes /\ \E r \in ReportIds : RecordProcessedReport(r)
  BY <1>1, <1>5 DEF ProjTypeOK, RecordProcessedReport
<1> QED  BY <1>2, <1>3, <1>4, <1>5 DEF RuntimeWrite

LEMMA EmbeddedStepType ==
    ASSUME ProjTypeOK, [EmbeddedNext]_projVars
    PROVE  ProjTypeOK'
<1>1. CASE StateWrite    BY <1>1, StateWriteType
<1>2. CASE RuntimeWrite  BY <1>2, RuntimeWriteType
<1>3. CASE NodeWrite
  <2>1. PICK n \in Nodes, v \in 1..MaxVisit :
           UpdateNode("running", n, v) /\ UNCHANGED processed
    BY <1>3 DEF NodeWrite
  <2>2. v \in Nat /\ row \in Rows /\ runtimes \in Runtimes
    BY BoundsAssumption DEF ProjTypeOK
  <2>3. CASE row.state \in Active
    <3>1. row' = [row EXCEPT !.state = "running", !.node = n, !.visit = v]
      BY <2>1, <2>3 DEF UpdateNode
    <3>2. row' \in Rows
      BY <2>2, <3>1
    <3>3. runtimes' \in Runtimes
      BY <2>1, <2>2, <2>3 DEF UpdateNode
    <3> QED  BY <2>1, <3>2, <3>3 DEF ProjTypeOK
  <2>4. CASE row.state \notin Active
    BY <2>1, <2>4 DEF ProjTypeOK, UpdateNode
  <2> QED  BY <2>3, <2>4
<1>4. CASE UNCHANGED projVars
  BY <1>4 DEF ProjTypeOK
<1> QED  BY <1>1, <1>2, <1>3, <1>4, EmbeddedCases

(* Type correctness of the projection's rows, under either engine. *)
THEOREM ProjTyping == ProjSpec => []ProjTypeOK
<1>1. ProjInit => ProjTypeOK
  BY DEF ProjInit, ProjTypeOK
<1>2. ProjTypeOK /\ [ProjNext]_projVars => ProjTypeOK'
  <2> SUFFICES ASSUME ProjTypeOK, [ProjNext]_projVars
               PROVE  ProjTypeOK'
    OBVIOUS
  <2>1. CASE [EmbeddedNext]_projVars  BY <2>1, EmbeddedStepType
  <2>2. CASE TemporalCancel
    <3>1. row \in Rows
      BY DEF ProjTypeOK
    <3>2. row' \in Rows
      BY <2>2, <3>1 DEF TemporalCancel, UpdateState, Written
    <3> QED  BY <2>2, <3>2 DEF TemporalCancel, ProjTypeOK
  <2> QED  BY <2>1, <2>2 DEF ProjNext
<1> QED  BY <1>1, <1>2, PTL DEF ProjSpec

(* The fence of updateStateCAS, beginCancellation and updateNode, in one   *)
(* fact about a step of the embedded engine's server: what a decided or    *)
(* canceling row may turn into.                                            *)
LEMMA EmbeddedFence ==
    ASSUME ProjTypeOK, [EmbeddedNext]_projVars
    PROVE  /\ row.state \in Terminal => row'.state = row.state
           /\ row.state = "canceling" =>
                 /\ row'.state \in Terminal \cup {"canceling"}
                 /\ row'.state = "canceling" => row'.err = row.err
           /\ row.state \notin Active \cup {"absent"} =>
                 row'.node = row.node /\ row'.visit = row.visit
<1>1. row \in Rows
  BY DEF ProjTypeOK
<1>2. CASE StateWrite
  <2>1. CASE InsertStart  BY <1>1, <2>1 DEF InsertStart
  <2>2. CASE \E s \in {"waiting", "blocked", "completed", "canceled"} :
                \E e \in {"none", "conflict"} : UpdateState(s, e)
    BY <1>1, <2>2 DEF UpdateState, Fenced, Written
  <2>3. CASE \E s \in Terminal : UpdateStateIf("canceling", s, "none")
    BY <1>1, <2>3 DEF UpdateStateIf, Written
  <2>4. CASE \E why \in Reasons \cup {"none"} : BeginCancellation(why)
    BY <1>1, <2>4 DEF BeginCancellation
  <2>5. CASE \E b \in BOOLEAN : UpdateRetry(b)
    BY <1>1, <2>5 DEF UpdateRetry
  <2> QED  BY <1>2, <2>1, <2>2, <2>3, <2>4, <2>5 DEF StateWrite
<1>3. CASE RuntimeWrite  BY <1>3 DEF RuntimeWrite
<1>4. CASE NodeWrite     BY <1>1, <1>4 DEF NodeWrite, UpdateNode
<1>5. CASE UNCHANGED projVars  BY <1>5
<1> QED  BY <1>2, <1>3, <1>4, <1>5, EmbeddedCases

(* ... and about any step: Temporal's cancellation may replace the reason. *)
LEMMA Fence ==
    ASSUME ProjTypeOK, [ProjNext]_projVars
    PROVE  /\ row.state \in Terminal => row'.state = row.state
           /\ row.state = "canceling" => row'.state \in Terminal \cup {"canceling"}
           /\ row.state \notin Active \cup {"absent"} =>
                 row'.node = row.node /\ row'.visit = row.visit
<1>1. row \in Rows
  BY DEF ProjTypeOK
<1>2. CASE [EmbeddedNext]_projVars  BY <1>2, EmbeddedFence
<1>3. CASE TemporalCancel
  <2>1. PICK s \in Terminal \cup {"canceling"}, why \in Reasons \cup {"none"} : UpdateState(s, why)
    BY <1>3 DEF TemporalCancel
  <2> QED  BY <1>1, <2>1 DEF UpdateState, Fenced, Written
<1> QED  BY <1>2, <1>3 DEF ProjNext

(* A decided run stays decided and a canceling one can only be decided,    *)
(* for every interleaving of the projection's callers.                     *)
THEOREM DecisionsHold == ProjSpec => DecisionsStand
<1>1. ProjTypeOK /\ [ProjNext]_projVars
        => [/\ row.state \in Terminal => row'.state = row.state
            /\ row.state = "canceling" => row'.state \in Terminal \cup {"canceling"}]_projVars
  BY Fence
<1> QED  BY <1>1, ProjTyping, PTL DEF ProjSpec, DecisionsStand

(* Under the embedded engine the operator's first reason survives every    *)
(* later request and every late write of the workflow until the run is     *)
(* decided (beginCancellation).  Nothing of the kind holds of ProjSpec:    *)
(* TemporalCancel replaces a recorded reason.                              *)
THEOREM FirstReasonHolds == EmbeddedSpec => FirstReasonStands
<1>1. ProjInit => ProjTypeOK
  BY DEF ProjInit, ProjTypeOK
<1>2. ProjTypeOK /\ [EmbeddedNext]_projVars => ProjTypeOK'
  BY EmbeddedStepType
<1>3. ProjTypeOK /\ [EmbeddedNext]_projVars
        => [row.state = "canceling" /\ row'.state = "canceling"
               => row'.err = row.err]_projVars
  BY EmbeddedFence
<1> QED  BY <1>1, <1>2, <1>3, PTL DEF EmbeddedSpec, FirstReasonStands

(* The published position of a canceling or decided run never moves.       *)
THEOREM PositionHolds == ProjSpec => PositionFrozen
<1>1. ProjTypeOK /\ [ProjNext]_projVars
        => [row.state \notin Active \cup {"absent"}
               => row'.node = row.node /\ row'.visit = row.visit]_projVars
  BY Fence
<1> QED  BY <1>1, ProjTyping, PTL DEF ProjSpec, PositionFrozen
=============================================================================
