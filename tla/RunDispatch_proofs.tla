-------------------------- MODULE RunDispatch_proofs --------------------------
(***************************************************************************)
(* One ticket, any number of workflows, attempts, operators and server     *)
(* starts: it never has two live runs, a live run executes the stored      *)
(* definition, every run rests on this server's own claim, and the rows    *)
(* implement the series of attempts of RunAttempts.                        *)
(*                                                                         *)
(* Base (types, and who holds the mutex) is inductive by itself.  On it    *)
(* rest DefInv, OwnInv and SoleInv, one for each invariant, and on SoleInv *)
(* rests SeriesInv, for the refinement.  PollMoves, PollFrames and the two *)
(* lemmas beside them say once, for all of them, what a step can do to the *)
(* poll and to the rows.                                                   *)
(***************************************************************************)
EXTENDS RunDispatch, TLAPS

Ids   == Workflows \X Attempts
Polls == [pc : {"idle", "route"} \cup UngatedPcs \cup GatedPcs, seen : Tickets,
          wf : Workflows \cup {NoWorkflow}, claimed : BOOLEAN, def : Nat,
          attempt : 0..MaxAttempts]
Calls == [pc : {"idle", "found", "create", "put", "remove"},
          wf : Workflows \cup {NoWorkflow}, attempt : 0..MaxAttempts]

(* The conjuncts of TypeOK about the poll. *)
PollOK ==
    /\ poll \in Polls
    /\ poll.pc \in GatedPcs <=> gate = "poll"
    /\ poll.pc \notin {"idle", "route"} => poll.wf # NoWorkflow
    /\ poll.pc \in {"start", "create"} => poll.attempt # 0

(* Who holds the mutex, and what the calls in progress refer to. *)
GateHeld ==
    /\ gate = "restart" <=> rs.pc # "idle"
    /\ gate = "submit" <=> sb.pc # "idle"
    /\ rs.pc \in {"idle", "found", "create"}
    /\ sb.pc \in {"idle", "put", "remove"}
    /\ rs.pc # "idle" => rs.wf \in Workflows
    /\ sb.pc # "idle" => sb.wf \in Workflows
    /\ rs.pc = "create" => rs.attempt \in Attempts
    /\ cn.pc # "idle" => cn.wf \in Workflows /\ cn.attempt \in Attempts

Base == TypeOK /\ GateHeld

(* The disjuncts of Next: the poll's, and all others. *)
PollSteps ==
    \/ PollTicket \/ RecoverTicket \/ ResolveWorkflow \/ RecoverValidates \/ RecoverMarked
    \/ RecoverResets \/ TakeGate \/ CheckOwner \/ ListRuns \/ ClaimReads \/ ClaimLabels
    \/ CheckMarker \/ StartRun \/ PollCreates \/ PollError

OtherSteps ==
    \/ RestartFinds \/ RestartInserts \/ RestartCreates \/ CancelFinds \/ CancelRun
    \/ \E w \in Workflows : BackfillClaimOwner(w)
    \/ SubmitChecks \/ SubmitPuts \/ RemoveDeletes
    \/ RepoUnreferenced \/ RepoInactive \/ RepoUnregisters \/ RepoRegisters
    \/ RunCompletes \/ RunAnnounces \/ RunCanceled
    \/ TicketEdited \/ StartServer \/ RecoverServer

(* Every step is one or the other. *)
LEMMA NextCases == Next => PollSteps \/ OtherSteps
BY Zenon DEF Next, PollSteps, OtherSteps

(* The start of a run keeps the rows well formed. *)
LEMMA InsertStartType ==
    ASSUME runs \in [Ids -> Runs], NEW w, NEW a, InsertStart(w, a)
    PROVE  runs' \in [Ids -> Runs]
<1>1. CASE runs' = runs
  BY <1>1
<1>2. CASE \E n \in (IF OnRecord = {} THEN {0} ELSE {runs[id].at : id \in Newest(OnRecord)}) :
             runs' = [runs EXCEPT ![<<w, a>>] = [state |-> "active", def |-> 0, at |-> n + 1]]
  <2>1. PICK n \in (IF OnRecord = {} THEN {0} ELSE {runs[id].at : id \in Newest(OnRecord)}) :
             runs' = [runs EXCEPT ![<<w, a>>] = [state |-> "active", def |-> 0, at |-> n + 1]]
    BY <1>2
  <2>2. n \in Nat
    BY <2>1 DEF OnRecord, Newest, Runs, Ids
  <2>3. [state |-> "active", def |-> 0, at |-> n + 1] \in Runs
    BY <2>2 DEF Runs, Live
  <2> QED BY <2>1, <2>3
<1> QED BY <1>1, <1>2 DEF InsertStart

(* So does the creation of its execution. *)
LEMMA CreateType ==
    ASSUME runs \in [Ids -> Runs], NEW w, NEW a, NEW d \in Nat, CreateInstance(w, a, d)
    PROVE  runs' \in [Ids -> Runs]
BY DEF CreateInstance, Runs, Ids

(* Base holds at the start. *)
LEMMA InitBase == Init => Base
<1> SUFFICES ASSUME Init PROVE Base
  OBVIOUS
<1>1. NoTicket \in Tickets
  BY DEF NoTicket, Tickets, Owners
<1>2. ticket \in Tickets
  <2>1. PICK c \in {{}} \cup {{w} : w \in Workflows}, o \in SUBSET (Workflows \X Others),
             f \in SUBSET Workflows :
             ticket = [open |-> TRUE, assignee |-> Us, claims |-> c, owners |-> o, fits |-> f]
    BY DEF Init, InitTickets
  <2>2. c \in SUBSET Workflows /\ o \in SUBSET (Workflows \X Owners)
    BY DEF Owners
  <2> QED BY <2>1, <2>2 DEF Tickets, Owners
<1>3. runs \in [Ids -> Runs]
  BY DEF Init, NoRun, Runs, Ids
<1>4. IdlePoll \in Polls
  BY <1>1, BoundAssumption DEF IdlePoll, Polls
<1>5. IdleCall \in Calls
  BY BoundAssumption DEF IdleCall, Calls
<1>6. TypeOK
  BY <1>2, <1>3, <1>4, <1>5 DEF Init, TypeOK, Ids, Polls, Calls, IdlePoll, GatedPcs
<1>7. GateHeld
  BY DEF Init, GateHeld, IdleCall
<1> QED BY <1>6, <1>7 DEF Base

(* Steps of the poll keep Base: they change the mutex only from or to "poll". *)
LEMMA PollStepsBase ==
    ASSUME Base,
           PollSteps
    PROVE  Base'
<1>t. /\ ticket \in Tickets /\ runs \in [Ids -> Runs] /\ def \in [Workflows -> Nat]
      /\ gate \in {"free", "poll", "restart", "submit"}
      /\ up \in {"down", "recovering", "serving"}
      /\ PollOK
  BY DEF Base, TypeOK, Ids, Polls, PollOK
<1>i. NoTicket \in Tickets /\ IdlePoll \in Polls
  BY BoundAssumption DEF NoTicket, Tickets, Owners, IdlePoll, Polls
<1>f. UNCHANGED <<marker, defVars, registered, callVars, edits, starts>>
  <2>1. ASSUME PollFrame, UNCHANGED marker
        PROVE  UNCHANGED <<marker, defVars, registered, callVars, edits, starts>>
    BY <2>1 DEF PollFrame
  <2>2. PollFrame
    BY Zenon DEF PollSteps, PollTicket, RecoverTicket, ResolveWorkflow, RecoverValidates,
       RecoverMarked, RecoverResets, TakeGate, CheckOwner, ListRuns, ClaimReads, ClaimLabels,
       CheckMarker, StartRun, PollCreates, PollError
  <2>3. UNCHANGED marker
    BY DEF taskVars, PollSteps, PollTicket, RecoverTicket, ResolveWorkflow, RecoverValidates,
       RecoverMarked, RecoverResets, TakeGate, CheckOwner, ListRuns, ClaimReads, ClaimLabels,
       CheckMarker, StartRun, PollCreates, PollError
  <2> QED BY <2>1, <2>2, <2>3
<1> DEFINE Goal ==
             /\ ticket' \in Tickets /\ runs' \in [Ids -> Runs]
             /\ \/ gate' = gate
                \/ gate' = (IF gate = "poll" THEN "free" ELSE gate)
                \/ gate = "free" /\ gate' = "poll"
             /\ up' \in {"down", "recovering", "serving"}
             /\ PollOK'
<1> SUFFICES Goal
  <2> SUFFICES ASSUME Goal PROVE Base'
    OBVIOUS
  <2>0. UNCHANGED <<marker, def, blocked, bound, made, registered, rs, cn, sb, rm, edits, starts>>
    BY <1>f DEF callVars, defVars
  <2>1. TypeOK'
    BY <1>t, <2>0 DEF Base, TypeOK, PollOK, Ids, Polls
  <2>2. gate' = gate \/ (gate \in {"poll", "free"} /\ gate' \in {"poll", "free"})
    BY <1>t
  <2>3. GateHeld'
    BY <2>0, <2>2 DEF Base, GateHeld
  <2> QED BY <2>1, <2>3 DEF Base
<1>e. ASSUME NEW s \in {"serving", "down"}, PollEnds(s)
      PROVE  gate' = (IF gate = "poll" THEN "free" ELSE gate) /\ PollOK'
             /\ up' \in {"down", "recovering", "serving"}
  BY <1>t, <1>i, <1>e DEF PollEnds, IdlePoll, GatedPcs, PollOK
<1>g. ASSUME NEW p, NEW q, PollGoes(p, q), UNCHANGED gate, q \in UngatedPcs \cup GatedPcs,
             q # "start", p # "idle" , p # "route", q = "create" => p = "start",
             p \in GatedPcs <=> q \in GatedPcs
      PROVE PollOK'
  BY <1>t, <1>g DEF PollGoes, Polls, UngatedPcs, GatedPcs, PollOK
<1>s. ASSUME NEW n \in Attempts, poll' = [poll EXCEPT !.pc = "start", !.attempt = n],
             UNCHANGED gate, poll.pc \in GatedPcs
      PROVE  PollOK'
  <2>1. poll \in Polls /\ n \in 0..MaxAttempts /\ n # 0 /\ "start" \in GatedPcs
    BY <1>t, BoundAssumption DEF Attempts, GatedPcs, PollOK
  <2>2. poll' \in Polls
    BY <1>s, <2>1 DEF Polls
  <2>3. poll'.pc = "start" /\ poll'.attempt = n /\ poll'.wf = poll.wf
    BY <1>s, <2>1 DEF Polls
  <2> QED BY <1>s, <1>t, <2>1, <2>2, <2>3 DEF PollOK, GatedPcs
<1>n. 1 \in Attempts
  BY BoundAssumption DEF Attempts
<1>1. CASE PollTicket
  <2>1. poll' \in Polls
    BY <1>i, <1>t, <1>1 DEF PollTicket, IdlePoll, Polls
  <2> QED BY <2>1, <1>t, <1>1 DEF PollTicket, IdlePoll, GatedPcs, taskVars, PollOK
<1>2. CASE RecoverTicket
  <2>1. poll' \in Polls
    <3>1. CASE poll' = [IdlePoll EXCEPT !.pc = "route", !.seen = ticket]
      BY <1>i, <1>t, <3>1 DEF IdlePoll, Polls
    <3>2. CASE poll' = poll
      BY <1>t, <3>2 DEF PollOK
    <3> QED BY <1>2, <3>1, <3>2 DEF RecoverTicket
  <2> QED BY <2>1, <1>t, <1>2 DEF RecoverTicket, IdlePoll, GatedPcs, taskVars, PollOK
<1>3. CASE ResolveWorkflow
  <2>0. UNCHANGED <<taskVars, runs>>
    BY <1>3 DEF ResolveWorkflow
  <2>1. CASE PollDone
    BY <1>t, <1>e, <2>0, <2>1 DEF PollDone, taskVars
  <2>2. CASE \E w \in Workflows :
             /\ poll' = [IdlePoll EXCEPT !.wf = w, !.def = def[w],
                            !.claimed = poll.seen.claims # {},
                            !.pc = IF up = "recovering" THEN "validate" ELSE "gate"]
             /\ UNCHANGED <<gate, up>>
    <3>1. PICK w \in Workflows :
             /\ poll' = [IdlePoll EXCEPT !.wf = w, !.def = def[w],
                            !.claimed = poll.seen.claims # {},
                            !.pc = IF up = "recovering" THEN "validate" ELSE "gate"]
             /\ UNCHANGED <<gate, up>>
      BY <2>2
    <3>2. poll' \in Polls
      BY <1>i, <1>t, <3>1 DEF IdlePoll, Polls, UngatedPcs
    <3> QED BY <2>0, <3>1, <3>2, <1>t, <1>3, OwnerAssumption
            DEF ResolveWorkflow, IdlePoll, GatedPcs, taskVars, PollOK
  <2> QED BY <1>3, <2>1, <2>2 DEF ResolveWorkflow
<1>4. CASE RecoverValidates
  BY <1>t, <1>e, <1>g, <1>4 DEF RecoverValidates, PollDone, taskVars, UngatedPcs, GatedPcs
<1>5. CASE RecoverMarked
  BY <1>t, <1>e, <1>g, <1>5 DEF RecoverMarked, PollDone, taskVars, UngatedPcs, GatedPcs
<1>6. CASE RecoverResets
  BY <1>t, <1>e, <1>g, <1>6 DEF RecoverResets, taskVars, UngatedPcs, GatedPcs
<1>7. CASE TakeGate
  <2>1. CASE PollFails
    BY <1>t, <1>e, <1>7, <2>1 DEF PollFails, TakeGate, taskVars
  <2>2. CASE /\ poll' = [poll EXCEPT !.def = def[poll.wf],
                             !.pc = IF poll.claimed THEN "owner" ELSE "list"]
             /\ gate' = "poll" /\ UNCHANGED up
    <3>0. poll.pc = "gate" /\ poll.wf \in Workflows
      BY <1>t, <1>7 DEF TakeGate, Polls, PollOK
    <3>1. poll' \in Polls
      <4>1. poll \in Polls /\ def[poll.wf] \in Nat /\ {"owner", "list"} \subseteq GatedPcs
        BY <1>t, <3>0 DEF PollOK, GatedPcs
      <4> QED BY <2>2, <4>1 DEF Polls
    <3>2. poll'.pc \in {"owner", "list"} /\ poll'.wf = poll.wf
      BY <1>t, <2>2 DEF Polls
    <3> QED BY <1>t, <1>7, <2>2, <3>0, <3>1, <3>2 DEF TakeGate, GatedPcs, taskVars, PollOK
  <2> QED BY <1>7, <2>1, <2>2 DEF TakeGate
<1>8. CASE CheckOwner
  BY <1>t, <1>e, <1>g, <1>8 DEF CheckOwner, PollFails, taskVars, UngatedPcs, GatedPcs
<1>9. CASE ListRuns
  <2>0. poll.pc = "list" /\ UNCHANGED <<taskVars, runs>>
    BY <1>9 DEF ListRuns
  <2>1. CASE PollDone
    BY <1>t, <1>e, <2>0, <2>1 DEF PollDone, taskVars
  <2>2. CASE /\ \E id \in Ids : poll' = [poll EXCEPT !.pc = "start", !.attempt = id[2]]
             /\ UNCHANGED <<gate, up>>
    <3>1. PICK id \in Ids : poll' = [poll EXCEPT !.pc = "start", !.attempt = id[2]]
      BY <2>2
    <3>2. id[2] \in Attempts
      BY DEF Ids
    <3> QED BY <1>t, <1>s, <2>0, <2>2, <3>1, <3>2 DEF GatedPcs, taskVars
  <2>3. CASE /\ poll' = [poll EXCEPT !.pc = IF poll.claimed THEN "marker" ELSE "claim"]
             /\ UNCHANGED <<gate, up>>
    BY <1>t, <2>0, <2>3 DEF Polls, GatedPcs, taskVars, PollOK
  <2> QED BY <1>9, <1>t, <2>1, <2>2, <2>3 DEF ListRuns, Newest, Of, OnRecord
<1>10. CASE ClaimReads
  BY <1>t, <1>e, <1>g, <1>10 DEF ClaimReads, PollFails, taskVars, UngatedPcs, GatedPcs
<1>11. CASE ClaimLabels
  <2>0. poll.pc = "label" /\ poll.wf \in Workflows
    BY <1>t, <1>11 DEF ClaimLabels, Polls, PollOK
  <2>1. ticket' \in Tickets
    <3>1. <<poll.wf, Us>> \in Workflows \X Owners
      BY <2>0 DEF Owners
    <3>2. ticket' = [ticket EXCEPT !.claims = ticket.claims \cup {poll.wf},
                                   !.owners = ticket.owners \cup {<<poll.wf, Us>>}]
      BY <1>11 DEF ClaimLabels
    <3> QED BY <1>t, <2>0, <3>1, <3>2 DEF Tickets
  <2> QED BY <1>t, <1>s, <1>n, <1>11, <2>0, <2>1 DEF ClaimLabels, GatedPcs
<1>12. CASE CheckMarker
  <2>1. CASE PollDone
    BY <1>t, <1>e, <1>12, <2>1 DEF PollDone, CheckMarker, taskVars
  <2>2. CASE poll' = [poll EXCEPT !.pc = "start", !.attempt = 1] /\ UNCHANGED <<gate, up>>
    BY <1>t, <1>s, <1>n, <1>12, <2>2 DEF CheckMarker, GatedPcs, taskVars
  <2> QED BY <1>12, <2>1, <2>2 DEF CheckMarker
<1>13. CASE StartRun
  <2>1. runs' \in [Ids -> Runs]
    BY <1>t, <1>13, InsertStartType DEF StartRun
  <2>2. (PollGoes("start", "create") /\ UNCHANGED <<gate, up>>) \/ PollDone
    BY <1>13 DEF StartRun
  <2>3. CASE PollDone
    BY <1>t, <1>e, <1>13, <2>1, <2>3 DEF PollDone, StartRun, taskVars
  <2>4. CASE PollGoes("start", "create") /\ UNCHANGED <<gate, up>>
    BY <1>t, <1>g, <1>13, <2>1, <2>4 DEF StartRun, taskVars, GatedPcs
  <2> QED BY <2>2, <2>3, <2>4
<1>14. CASE PollCreates
  <2>1. runs' \in [Ids -> Runs]
    BY <1>t, <1>14, CreateType DEF PollCreates, PollOK, Polls
  <2> QED BY <1>t, <1>e, <1>14, <2>1 DEF PollCreates, PollDone, taskVars
<1>15. CASE PollError
  BY <1>t, <1>e, <1>15 DEF PollError, PollFails, taskVars
<1> QED BY <1>1, <1>2, <1>3, <1>4, <1>5, <1>6, <1>7, <1>8, <1>9, <1>10, <1>11, <1>12, <1>13,
           <1>14, <1>15 DEF PollSteps

(* All other steps keep Base. *)
LEMMA OtherStepsBase ==
    ASSUME Base, OtherSteps
    PROVE  Base'
<1>t. /\ ticket \in Tickets /\ runs \in [Ids -> Runs] /\ def \in [Workflows -> Nat]
      /\ marker \subseteq Workflows /\ made \in Nat
      /\ blocked \subseteq Workflows /\ bound \subseteq Workflows
      /\ rs \in Calls /\ cn \in Calls /\ sb \in Calls
  BY DEF Base, TypeOK, Ids, Calls
<1>i. IdleCall \in Calls
  BY BoundAssumption DEF IdleCall, Calls
<1>1. CASE RestartFinds
  <2>1. PICK id \in OnRecord : rs' = [pc |-> "found", wf |-> id[1], attempt |-> 0]
    BY <1>1 DEF RestartFinds, Newest
  <2>2. id[1] \in Workflows
    BY <1>t DEF OnRecord, Ids
  <2>3. rs' \in Calls
    BY <2>1, <2>2, BoundAssumption DEF Calls
  <2>4. gate = "free" /\ gate' = "restart" /\ rs.pc = "idle" /\ rs'.pc = "found" /\ rs'.wf = id[1]
        /\ UNCHANGED <<taskVars, runs, defVars, registered, poll, cn, sb, rm, endVars>>
    BY <1>1, <2>1 DEF RestartFinds
  <2>5. TypeOK'
    BY <2>3, <2>4 DEF Base, TypeOK, taskVars, defVars, endVars, Calls
  <2>6. GateHeld'
    BY <2>2, <2>4 DEF Base, GateHeld
  <2> QED BY <2>5, <2>6 DEF Base
<1>2. CASE RestartInserts
  <2>0. /\ rs.pc = "found" /\ gate = "restart"
        /\ UNCHANGED <<taskVars, defVars, registered, poll, cn, sb, rm, endVars>>
    BY <1>2 DEF Base, GateHeld, RestartInserts
  <2>1. CASE rs' = IdleCall /\ gate' = "free" /\ UNCHANGED runs
    <3>1. TypeOK'
      BY <1>i, <2>0, <2>1 DEF Base, TypeOK, taskVars, defVars, endVars, Calls
    <3>2. GateHeld'
      BY <2>0, <2>1 DEF Base, GateHeld, IdleCall
    <3> QED BY <3>1, <3>2 DEF Base
  <2>2. CASE \E n \in Attempts : /\ InsertStart(rs.wf, n) /\ UNCHANGED gate
                               /\ rs' = [rs EXCEPT !.pc = "create", !.attempt = n]
    <3>1. PICK n \in Attempts : /\ InsertStart(rs.wf, n) /\ UNCHANGED gate
                               /\ rs' = [rs EXCEPT !.pc = "create", !.attempt = n]
      BY <2>2
    <3>2. runs' \in [Ids -> Runs]
      BY <1>t, <3>1, InsertStartType
    <3>3. rs' \in Calls /\ rs'.pc = "create" /\ rs'.attempt = n /\ rs'.wf = rs.wf
      <4>1. n \in 0..MaxAttempts
        BY DEF Attempts
      <4> QED BY <1>t, <3>1, <4>1 DEF Calls
    <3>4. TypeOK'
      BY <2>0, <3>1, <3>2, <3>3 DEF Base, TypeOK, taskVars, defVars, endVars, Calls, Ids
    <3>5. GateHeld'
      BY <2>0, <3>1, <3>3 DEF Base, GateHeld
    <3> QED BY <3>4, <3>5 DEF Base
  <2> QED BY <1>2, <2>1, <2>2 DEF RestartInserts
<1>3. CASE RestartCreates
  <2>0. rs.pc = "create" /\ gate = "restart" /\ rs' = IdleCall /\ gate' = "free"
        /\ UNCHANGED <<taskVars, defVars, registered, poll, cn, sb, rm, endVars>>
    BY <1>3 DEF Base, GateHeld, RestartCreates
  <2>1. runs' \in [Ids -> Runs]
    BY <1>t, <1>3, <2>0, CreateType DEF RestartCreates, Base, GateHeld
  <2>2. TypeOK'
    BY <1>i, <2>0, <2>1 DEF Base, TypeOK, taskVars, defVars, endVars, Calls, Ids
  <2>3. GateHeld'
    BY <2>0 DEF Base, GateHeld, IdleCall
  <2> QED BY <2>2, <2>3 DEF Base
<1>4. CASE CancelFinds
  <2>1. PICK id \in OnRecord : cn' = [pc |-> "found", wf |-> id[1], attempt |-> id[2]]
    BY <1>4 DEF CancelFinds, Newest
  <2>2. id[1] \in Workflows /\ id[2] \in Attempts
    BY <1>t DEF OnRecord, Ids
  <2>3. cn' \in Calls
    BY <2>1, <2>2, BoundAssumption DEF Calls, Attempts
  <2>4. cn'.wf = id[1] /\ cn'.attempt = id[2]
        /\ UNCHANGED <<taskVars, runs, defVars, registered, gate, poll, rs, sb, rm, endVars>>
    BY <1>4, <2>1 DEF CancelFinds
  <2>5. TypeOK'
    BY <2>3, <2>4 DEF Base, TypeOK, taskVars, defVars, endVars, Calls
  <2>6. GateHeld'
    BY <2>2, <2>4 DEF Base, GateHeld
  <2> QED BY <2>5, <2>6 DEF Base
<1>5. CASE CancelRun
  <2>0. /\ cn' = IdleCall
        /\ UNCHANGED <<taskVars, defVars, registered, gate, poll, rs, sb, rm, endVars>>
    BY <1>5 DEF CancelRun
  <2>1. runs' \in [Ids -> Runs]
    BY <1>t, <1>5 DEF CancelRun, Runs, Live, Ids
  <2>2. TypeOK'
    BY <1>i, <2>0, <2>1 DEF Base, TypeOK, taskVars, defVars, endVars, Calls, Ids
  <2>3. GateHeld'
    BY <2>0 DEF Base, GateHeld, IdleCall
  <2> QED BY <2>2, <2>3 DEF Base
<1>6. CASE \E w \in Workflows : BackfillClaimOwner(w)
  <2>1. PICK w \in Workflows : BackfillClaimOwner(w)
    BY <1>6
  <2>2. ticket' \in Tickets
    BY <1>t, <2>1 DEF BackfillClaimOwner, Tickets, Owners
  <2> QED BY <2>1, <2>2 DEF BackfillClaimOwner, Base, TypeOK, GateHeld, defVars, callVars, endVars
<1>7. CASE SubmitChecks
  <2>1. PICK w \in Workflows, p \in {"put", "remove"} : sb' = [IdleCall EXCEPT !.pc = p, !.wf = w]
    BY <1>7 DEF SubmitChecks
  <2>2. sb' \in Calls /\ sb'.pc = p /\ sb'.wf = w
    BY <1>i, <2>1 DEF Calls, IdleCall
  <2>3. /\ gate = "free" /\ gate' = "submit"
        /\ UNCHANGED <<defVars, taskVars, runs, registered, poll, rs, cn, rm, endVars>>
    BY <1>7 DEF SubmitChecks, SubmitFrame
  <2>4. TypeOK'
    BY <2>2, <2>3 DEF Base, TypeOK, taskVars, defVars, endVars, Calls
  <2>5. GateHeld'
    BY <2>1, <2>2, <2>3 DEF Base, GateHeld
  <2> QED BY <2>4, <2>5 DEF Base
<1>8. CASE SubmitPuts \/ RemoveDeletes
  <2>0. sb.pc \in {"put", "remove"} /\ gate = "submit" /\ sb' = IdleCall /\ gate' = "free"
        /\ UNCHANGED <<taskVars, runs, registered, poll, rs, cn, rm, endVars>>
    BY <1>8 DEF Base, GateHeld, SubmitPuts, RemoveDeletes, SubmitFrame
  <2>1. /\ def' \in [Workflows -> Nat] /\ made' \in Nat
        /\ blocked' \subseteq Workflows /\ bound' \subseteq Workflows
    BY <1>t, <1>8 DEF SubmitPuts, RemoveDeletes, defVars
  <2>2. TypeOK'
    BY <1>i, <2>0, <2>1 DEF Base, TypeOK, taskVars, endVars, Calls
  <2>3. GateHeld'
    BY <2>0 DEF Base, GateHeld, IdleCall
  <2> QED BY <2>2, <2>3 DEF Base
<1>9. CASE RepoUnreferenced \/ RepoInactive \/ RepoUnregisters \/ RepoRegisters
  <2>0. /\ UNCHANGED <<ticket, marker, runs, def, blocked, made>>
        /\ UNCHANGED <<gate, poll, rs, cn, sb, up, edits, starts>>
        /\ rm' \in {rm, "idle", "unreferenced", "inactive"}
        /\ registered' \in {registered, TRUE, FALSE}
        /\ bound' \in {bound, {}}
    BY <1>9 DEF RepoUnreferenced, RepoInactive, RepoUnregisters, RepoRegisters, RepoFrame,
       taskVars, defVars, endVars
  <2>a. /\ rm' \in {"idle", "unreferenced", "inactive"}
        /\ registered' \in BOOLEAN /\ bound' \subseteq Workflows
    BY <2>0 DEF Base, TypeOK
  <2>b. /\ UNCHANGED <<ticket, marker, runs, def, blocked, made>>
        /\ UNCHANGED <<gate, poll, rs, cn, sb, up, edits, starts>>
    BY <2>0
  <2>1. TypeOK'
    BY <2>a, <2>b DEF Base, TypeOK
  <2>2. GateHeld'
    BY <2>0 DEF Base, GateHeld
  <2> QED BY <2>1, <2>2 DEF Base
<1>10. CASE RunCompletes \/ RunAnnounces \/ RunCanceled
  <2>0. UNCHANGED <<defVars, registered, gate, poll, callVars, endVars>>
    BY <1>10 DEF RunCompletes, RunAnnounces, RunCanceled
  <2>1. ticket' \in Tickets
    BY <1>t, <1>10 DEF RunCompletes, RunAnnounces, RunCanceled, taskVars, Tickets
  <2>2. marker' \subseteq Workflows
    BY <1>t, <1>10 DEF RunCompletes, RunAnnounces, RunCanceled, taskVars, OnRecord, Ids
  <2>3. runs' \in [Ids -> Runs]
    <3>1. CASE runs' = runs
      BY <1>t, <3>1
    <3>2. CASE \E id \in Ids, st \in Decided : runs' = [runs EXCEPT ![id].state = st]
      BY <1>t, <3>2 DEF Runs, Decided
    <3> QED BY <1>t, <1>10, <3>1, <3>2 DEF RunCompletes, RunAnnounces, RunCanceled, LiveOf,
                OnRecord, Decided
  <2> QED BY <2>0, <2>1, <2>2, <2>3 DEF Base, TypeOK, GateHeld, defVars, callVars, endVars, Ids
<1>11. CASE TicketEdited
  <2>0. UNCHANGED <<marker, runs, defVars, registered, gate, poll, callVars, up, starts>>
        /\ edits' = edits + 1
    BY <1>11 DEF TicketEdited
  <2>1. ticket' \in Tickets
    <3>1. CASE \E o \in Owners : ticket' = [ticket EXCEPT !.assignee = o]
      BY <1>t, <3>1 DEF Tickets
    <3>2. CASE \E f \in SUBSET Workflows : ticket' = [ticket EXCEPT !.fits = f]
      BY <1>t, <3>2 DEF Tickets
    <3>3. CASE \E w \in Workflows, o \in Others :
             ticket' = [ticket EXCEPT !.claims = @ \cup {w}, !.owners = @ \cup {<<w, o>>}]
      <4>1. PICK w \in Workflows, o \in Others :
             ticket' = [ticket EXCEPT !.claims = @ \cup {w}, !.owners = @ \cup {<<w, o>>}]
        BY <3>3
      <4>2. <<w, o>> \in Workflows \X Owners
        BY DEF Owners
      <4> QED BY <1>t, <4>1, <4>2 DEF Tickets
    <3>4. CASE ticket' = [ticket EXCEPT !.open = ~@]
      BY <1>t, <3>4 DEF Tickets
    <3> QED BY <1>11, <3>1, <3>2, <3>3, <3>4 DEF TicketEdited
  <2> QED BY <2>0, <2>1 DEF Base, TypeOK, GateHeld, defVars, callVars
<1>12. CASE StartServer \/ RecoverServer
  <2>0. Restarted
    BY <1>12 DEF StartServer, RecoverServer
  <2>1. runs' \in [Ids -> Runs]
    <3>1. NoRun \in Runs
      BY DEF NoRun, Runs
    <3> QED BY <1>t, <1>12, <3>1 DEF StartServer, RecoverServer
  <2>2. NoTicket \in Tickets
    BY DEF NoTicket, Tickets, Owners
  <2>3. IdlePoll \in Polls
    BY <2>2, BoundAssumption DEF IdlePoll, Polls
  <2>4. UNCHANGED <<taskVars, def, made, registered, edits>> /\ starts' = starts + 1
        /\ poll' = IdlePoll /\ gate' = "free" /\ rs' = IdleCall /\ cn' = IdleCall /\ sb' = IdleCall
        /\ rm' = "idle" /\ up' \in {"recovering", "serving"}
        /\ blocked' \subseteq Workflows /\ bound' \subseteq Workflows
    BY <1>12 DEF Restarted, StartServer, RecoverServer
  <2>5. TypeOK'
    BY <1>i, <2>1, <2>3, <2>4 DEF Base, TypeOK, taskVars, Polls, Calls, Ids, IdlePoll, GatedPcs
  <2>6. GateHeld'
    BY <2>4 DEF GateHeld, IdleCall
  <2> QED BY <2>5, <2>6 DEF Base
<1> QED BY <1>1, <1>2, <1>3, <1>4, <1>5, <1>6, <1>7, <1>8, <1>9, <1>10, <1>11, <1>12 DEF OtherSteps

(* Type correctness, and that a poll holds the mutex exactly between the   *)
(* registry lookup and the end of EnsureRun.                               *)
THEOREM Typing == Spec => []TypeOK
<1>1. Init => Base
  BY InitBase
<1>2. Base /\ [Next]_vars => Base'
  <2>1. ASSUME Base, Next PROVE Base'
    BY <2>1, NextCases, PollStepsBase, OtherStepsBase
  <2>2. ASSUME Base, UNCHANGED vars PROVE Base'
    BY <2>2 DEF Base, TypeOK, GateHeld, vars, taskVars, defVars, callVars, endVars
  <2> QED BY <2>1, <2>2
<1>3. Base => TypeOK
  BY DEF Base
<1> QED BY <1>1, <1>2, <1>3, PTL DEF Spec

-----------------------------------------------------------------------------
(* Runs, as the invariants below speak of them: by id. *)
Present(id) == runs[id].state # "absent"
Alive(id)   == runs[id].state \in Live
Mine(w)     == w \in ticket.claims /\ <<w, Us>> \in ticket.owners

(* A step that starts no run and creates no execution. *)
Decays ==
    \A id \in Ids :
        runs'[id].state # "absent" =>
            /\ runs[id].state # "absent"
            /\ runs'[id].def = runs[id].def /\ runs'[id].at = runs[id].at
            /\ runs'[id].state \in Live => runs[id].state \in Live

(* A step that starts a run: its row comes after all rows there are. *)
Inserts(w, a) ==
    /\ runs[<<w, a>>].state = "absent"
    /\ \E n \in Nat :
          /\ \A o \in Ids : Present(o) => runs[o].at <= n
          /\ runs' = [runs EXCEPT ![<<w, a>>] = [state |-> "active", def |-> 0, at |-> n + 1]]

(* InsertStart leaves a row that exists alone, or adds the newest one. *)
LEMMA InsertStartEffect ==
    ASSUME Base, NEW w, NEW a, InsertStart(w, a)
    PROVE  UNCHANGED runs \/ Inserts(w, a)
<1>1. runs \in [Ids -> Runs]
  BY DEF Base, TypeOK, Ids
<1>2. SUFFICES ASSUME runs' # runs PROVE Inserts(w, a)
  OBVIOUS
<1>3. runs[<<w, a>>].state = "absent"
  BY <1>2 DEF InsertStart
<1>4. PICK n \in (IF OnRecord = {} THEN {0} ELSE {runs[id].at : id \in Newest(OnRecord)}) :
             runs' = [runs EXCEPT ![<<w, a>>] = [state |-> "active", def |-> 0, at |-> n + 1]]
  BY <1>2 DEF InsertStart
<1>5. n \in Nat /\ \A o \in Ids : Present(o) => runs[o].at <= n
  <2>1. CASE OnRecord = {}
    BY <1>1, <1>4, <2>1 DEF OnRecord, Present
  <2>2. CASE OnRecord # {}
    BY <1>1, <1>4, <2>2 DEF OnRecord, Present, Newest, Runs
  <2> QED BY <2>1, <2>2
<1> QED BY <1>3, <1>4, <1>5 DEF Inserts

(* What a step of the poll can do to the poll. *)
Same == poll'.wf = poll.wf /\ poll'.claimed = poll.claimed /\ poll'.def = poll.def
PollMoves ==
    \/ UNCHANGED poll \/ poll'.pc = "idle"
    \/ poll'.pc = "route" /\ poll'.seen = ticket
    \/ /\ poll.pc = "route" /\ poll'.pc \in {"validate", "gate"}
       /\ Routes(poll.seen) = {poll'.wf} /\ poll'.claimed = (poll.seen.claims # {})
    \/ poll.pc \in UngatedPcs /\ poll'.pc \in UngatedPcs /\ Same
    \/ /\ poll.pc = "gate" /\ poll'.pc \in {"owner", "list"}
       /\ poll'.wf = poll.wf /\ poll'.claimed = poll.claimed
       /\ poll'.def = def[poll.wf] /\ def[poll.wf] # 0
    \/ poll.pc = "owner" /\ poll'.pc = "list" /\ Same
    \/ /\ poll.pc = "list" /\ poll'.pc = "start" /\ Same
       /\ <<poll.wf, poll'.attempt>> \in Ids /\ Present(<<poll.wf, poll'.attempt>>)
    \/ /\ poll.pc = "list" /\ poll'.pc \in {"claim", "marker"} /\ Same
       /\ poll'.pc = "marker" <=> poll.claimed
       /\ \A id \in Ids : id[1] = poll.wf => ~Present(id)
    \/ poll.pc = "claim" /\ poll'.pc = "label" /\ Same /\ MayClaim(ticket, poll.wf)
    \/ /\ poll.pc \in {"label", "marker"} /\ poll'.pc = "start" /\ Same
       /\ poll'.attempt = 1 /\ (poll.pc = "marker" => poll.wf \notin marker)
    \/ poll.pc = "start" /\ poll'.pc = "create" /\ Same

(* Every step of the poll is one of these moves. *)
LEMMA PollMovesCases ==
    ASSUME Base, PollSteps
    PROVE  PollMoves
<1>t. poll \in Polls /\ runs \in [Ids -> Runs]
      /\ (poll.pc \notin {"idle", "route"} => poll.wf \in Workflows)
  BY DEF Base, TypeOK, Ids, Polls
<1>e. ASSUME NEW st, PollEnds(st) PROVE poll'.pc = "idle"
  BY <1>e DEF PollEnds, IdlePoll
<1>g. ASSUME NEW p, NEW q, PollGoes(p, q) PROVE poll.pc = p /\ poll'.pc = q /\ Same
  BY <1>t, <1>g DEF PollGoes, Polls, Same
<1>1. CASE PollTicket \/ RecoverTicket
  BY <1>1 DEF PollTicket, RecoverTicket, IdlePoll, PollMoves
<1>3. CASE ResolveWorkflow
  <2>1. CASE PollDone
    BY <1>e, <2>1 DEF PollDone, PollMoves
  <2>2. CASE \E w \in Workflows :
             /\ Routes(poll.seen) = {w}
             /\ poll' = [IdlePoll EXCEPT !.wf = w, !.def = def[w],
                            !.claimed = poll.seen.claims # {},
                            !.pc = IF up = "recovering" THEN "validate" ELSE "gate"]
             /\ UNCHANGED <<gate, up>>
    <3>1. PICK w \in Workflows :
             /\ Routes(poll.seen) = {w}
             /\ poll' = [IdlePoll EXCEPT !.wf = w, !.def = def[w],
                            !.claimed = poll.seen.claims # {},
                            !.pc = IF up = "recovering" THEN "validate" ELSE "gate"]
      BY <2>2
    <3>2. /\ poll'.pc \in {"validate", "gate"} /\ poll'.wf = w
          /\ poll'.claimed = (poll.seen.claims # {})
      BY <3>1 DEF IdlePoll
    <3>3. poll.pc = "route"
      BY <1>3 DEF ResolveWorkflow
    <3> QED BY <3>1, <3>2, <3>3 DEF PollMoves
  <2> QED BY <1>3, <2>1, <2>2 DEF ResolveWorkflow
<1>4. CASE RecoverValidates \/ RecoverMarked \/ RecoverResets
  BY <1>e, <1>g, <1>4 DEF RecoverValidates, RecoverMarked, RecoverResets, PollDone,
     UngatedPcs, PollMoves
<1>7. CASE TakeGate
  <2>1. CASE PollFails
    BY <1>e, <2>1 DEF PollFails, PollMoves
  <2>2. CASE /\ Routable(poll.wf)
             /\ poll' = [poll EXCEPT !.def = def[poll.wf],
                             !.pc = IF poll.claimed THEN "owner" ELSE "list"]
    <3>0. poll.pc = "gate"
      BY <1>7 DEF TakeGate
    <3>1. /\ poll'.wf = poll.wf /\ poll'.claimed = poll.claimed /\ poll'.def = def[poll.wf]
          /\ poll'.pc \in {"owner", "list"}
      BY <1>t, <2>2 DEF Polls
    <3>2. def[poll.wf] # 0
      BY <2>2 DEF Routable
    <3> QED BY <3>0, <3>1, <3>2 DEF PollMoves
  <2> QED BY <1>7, <2>1, <2>2 DEF TakeGate
<1>8. CASE CheckOwner
  BY <1>e, <1>g, <1>8 DEF CheckOwner, PollFails, PollMoves
<1>9. CASE ListRuns
  <2>0. poll.pc = "list"
    BY <1>9 DEF ListRuns
  <2>1. CASE PollDone
    BY <1>e, <2>1 DEF PollDone, PollMoves
  <2>2. CASE \E id \in Of(poll.wf) : poll' = [poll EXCEPT !.pc = "start", !.attempt = id[2]]
    <3>1. PICK id \in Of(poll.wf) : poll' = [poll EXCEPT !.pc = "start", !.attempt = id[2]]
      BY <2>2
    <3>2. poll'.pc = "start" /\ poll'.attempt = id[2] /\ Same
      BY <1>t, <3>1 DEF Polls, Same
    <3>3. id \in Ids /\ id = <<poll.wf, id[2]>> /\ Present(id)
      BY <1>t DEF Of, OnRecord, Present, Ids
    <3> QED BY <2>0, <3>2, <3>3 DEF PollMoves
  <2>3. CASE /\ Of(poll.wf) = {}
             /\ poll' = [poll EXCEPT !.pc = IF poll.claimed THEN "marker" ELSE "claim"]
    <3>1. poll'.pc \in {"marker", "claim"} /\ (poll'.pc = "marker" <=> poll.claimed) /\ Same
      BY <1>t, <2>3 DEF Polls, Same
    <3>2. \A id \in Ids : id[1] = poll.wf => ~Present(id)
      BY <1>t, <2>3 DEF Of, OnRecord, Present
    <3> QED BY <2>0, <3>1, <3>2 DEF PollMoves
  <2> QED BY <1>9, <2>1, <2>2, <2>3 DEF ListRuns, Newest
<1>10. CASE ClaimReads
  BY <1>e, <1>g, <1>10 DEF ClaimReads, PollFails, PollMoves
<1>11. CASE ClaimLabels
  BY <1>t, <1>11 DEF ClaimLabels, Polls, Same, PollMoves
<1>12. CASE CheckMarker
  <2>1. CASE PollDone
    BY <1>e, <2>1 DEF PollDone, PollMoves
  <2>2. CASE poll.wf \notin marker /\ poll' = [poll EXCEPT !.pc = "start", !.attempt = 1]
    BY <1>t, <1>12, <2>2 DEF CheckMarker, Polls, Same, PollMoves
  <2> QED BY <1>12, <2>1, <2>2 DEF CheckMarker
<1>13. CASE StartRun
  <2>1. PollGoes("start", "create") \/ PollDone
    BY <1>13 DEF StartRun
  <2> QED BY <1>e, <1>g, <2>1 DEF PollDone, PollMoves
<1>14. CASE PollCreates \/ PollError
  BY <1>e, <1>14 DEF PollCreates, PollError, PollDone, PollFails, PollMoves
<1> QED BY <1>1, <1>3, <1>4, <1>7, <1>8, <1>9, <1>10, <1>11, <1>12, <1>13, <1>14 DEF PollSteps

(* And what it can do to the rest of the state. *)
LEMMA PollFrames ==
    ASSUME Base, PollSteps
    PROVE  /\ UNCHANGED <<def, rs, cn, sb>>
           /\ UNCHANGED ticket \/ ClaimLabels
           /\ \/ UNCHANGED runs \/ PollCreates
              \/ StartRun /\ Inserts(poll.wf, poll.attempt) /\ UNCHANGED ticket
<1>1. PollFrame
  BY Zenon DEF PollSteps, PollTicket, RecoverTicket, ResolveWorkflow, RecoverValidates,
     RecoverMarked, RecoverResets, TakeGate, CheckOwner, ListRuns, ClaimReads, ClaimLabels,
     CheckMarker, StartRun, PollCreates, PollError
<1>2. UNCHANGED <<def, rs, cn, sb>>
  BY <1>1 DEF PollFrame, defVars, callVars
<1>3. UNCHANGED ticket \/ ClaimLabels
  BY DEF taskVars, PollSteps, PollTicket, RecoverTicket, ResolveWorkflow, RecoverValidates,
     RecoverMarked, RecoverResets, TakeGate, CheckOwner, ListRuns, ClaimReads,
     CheckMarker, StartRun, PollCreates, PollError
<1>4. UNCHANGED runs \/ PollCreates \/ StartRun
  BY DEF PollSteps, PollTicket, RecoverTicket, ResolveWorkflow, RecoverValidates,
     RecoverMarked, RecoverResets, TakeGate, CheckOwner, ListRuns, ClaimReads, ClaimLabels,
     CheckMarker, PollError
<1>5. ASSUME StartRun PROVE UNCHANGED ticket /\ (UNCHANGED runs \/ Inserts(poll.wf, poll.attempt))
  BY <1>5, InsertStartEffect DEF StartRun, taskVars
<1> QED BY <1>2, <1>3, <1>4, <1>5

(* A restart goes on with the workflow it found, or ends. *)
LEMMA RestartInsertsCall ==
    ASSUME Base, RestartInserts
    PROVE  rs' = IdleCall \/ (rs'.pc = "create" /\ rs'.wf = rs.wf)
<1>1. rs \in Calls
  BY DEF Base, TypeOK, Calls
<1>2. rs' = IdleCall \/ \E n \in Attempts : rs' = [rs EXCEPT !.pc = "create", !.attempt = n]
  BY DEF RestartInserts
<1> QED BY <1>1, <1>2 DEF Calls

(* The other steps that start runs or executions are those of a restart. *)
LEMMA OtherFrames ==
    ASSUME Base, OtherSteps
    PROVE  /\ UNCHANGED poll \/ poll'.pc = "idle"
           /\ \/ Decays
              \/ RestartInserts /\ Inserts(rs.wf, rs'.attempt)
                   /\ <<rs.wf, rs'.attempt>> \in Ids
              \/ RestartCreates
           /\ UNCHANGED def \/ SubmitPuts \/ RemoveDeletes
           /\ ticket.claims \subseteq ticket'.claims /\ ticket.owners \subseteq ticket'.owners
<1>t. /\ ticket \in Tickets /\ runs \in [Ids -> Runs] /\ rs \in Calls
      /\ (rs.pc # "idle" => rs.wf \in Workflows)
  BY DEF Base, TypeOK, GateHeld, Ids, Calls
<1>1. UNCHANGED poll \/ poll'.pc = "idle"
  <2>1. CASE Restarted
    BY <2>1 DEF Restarted, IdlePoll
  <2>2. Restarted \/ UNCHANGED poll
    BY DEF OtherSteps, RestartFinds, RestartInserts, RestartCreates, CancelFinds, CancelRun,
       BackfillClaimOwner, SubmitChecks, SubmitPuts, RemoveDeletes, SubmitFrame, RepoUnreferenced,
       RepoInactive, RepoUnregisters, RepoRegisters, RepoFrame, RunCompletes, RunAnnounces,
       RunCanceled, TicketEdited, StartServer, RecoverServer
  <2> QED BY <2>1, <2>2
<1>2. UNCHANGED def \/ SubmitPuts \/ RemoveDeletes
  BY DEF OtherSteps, RestartFinds, RestartInserts, RestartCreates, CancelFinds, CancelRun,
     BackfillClaimOwner, SubmitChecks, RepoUnreferenced,
     RepoInactive, RepoUnregisters, RepoRegisters, RunCompletes, RunAnnounces,
     RunCanceled, TicketEdited, StartServer, RecoverServer, Restarted, defVars
<1>3. ticket.claims \subseteq ticket'.claims /\ ticket.owners \subseteq ticket'.owners
  <2>1. \/ UNCHANGED ticket \/ TicketEdited \/ RunCompletes
        \/ \E w \in Workflows : BackfillClaimOwner(w)
    BY DEF OtherSteps, RestartFinds, RestartInserts, RestartCreates, CancelFinds, CancelRun,
       SubmitChecks, SubmitPuts, RemoveDeletes, SubmitFrame, RepoUnreferenced,
       RepoInactive, RepoUnregisters, RepoRegisters, RepoFrame, RunAnnounces,
       RunCanceled, StartServer, RecoverServer, Restarted, taskVars
  <2> QED BY <1>t, <2>1 DEF TicketEdited, RunCompletes, BackfillClaimOwner, Tickets
<1>4. CASE UNCHANGED runs
  BY <1>1, <1>2, <1>3, <1>4 DEF Decays
<1>5. CASE RestartInserts
  <2>1. UNCHANGED runs \/ (rs'.attempt \in Attempts /\ InsertStart(rs.wf, rs'.attempt))
    BY <1>t, <1>5 DEF RestartInserts, Calls
  <2>2. rs.wf \in Workflows
    BY <1>t, <1>5 DEF RestartInserts
  <2> QED BY <1>1, <1>2, <1>3, <1>4, <1>5, <2>1, <2>2, InsertStartEffect DEF Ids
<1>6. CASE RestartCreates
  BY <1>1, <1>2, <1>3, <1>6
<1>7. CASE CancelRun
  BY <1>t, <1>1, <1>2, <1>3, <1>7 DEF CancelRun, Decays, Runs, Live, Ids
<1>8. CASE RunCompletes \/ RunCanceled
  <2>1. PICK id \in Ids, st \in Decided :
           runs[id].state # "absent" /\ runs' = [runs EXCEPT ![id].state = st]
    BY <1>t, <1>8 DEF RunCompletes, RunCanceled, LiveOf, OnRecord, Decided
  <2>2. st \notin Live
    BY DEF Live, Decided
  <2> QED BY <1>t, <1>1, <1>2, <1>3, <2>1, <2>2 DEF Decays, Runs
<1>9. CASE StartServer \/ RecoverServer
  <2>1. \A id \in Ids : runs'[id] \in {runs[id], NoRun}
    BY <1>t, <1>9 DEF StartServer, RecoverServer
  <2> QED BY <1>1, <1>2, <1>3, <2>1 DEF Decays, NoRun
<1>10. \/ UNCHANGED runs \/ RestartInserts \/ RestartCreates \/ CancelRun \/ RunCompletes
       \/ RunCanceled \/ StartServer \/ RecoverServer
  BY DEF OtherSteps, RestartFinds, CancelFinds, BackfillClaimOwner, SubmitChecks, SubmitPuts,
     RemoveDeletes, SubmitFrame, RepoUnreferenced, RepoInactive, RepoUnregisters, RepoRegisters,
     RepoFrame, RunAnnounces, TicketEdited
<1> QED BY <1>4, <1>5, <1>6, <1>7, <1>8, <1>9, <1>10

-----------------------------------------------------------------------------
(* Definitions.  The definition a poll or restart has read under the mutex *)
(* cannot change before the execution exists, and a submission under way   *)
(* has no live run to invalidate.                                          *)
DefInv ==
    /\ poll.pc \in GatedPcs => def[poll.wf] # 0 /\ poll.def = def[poll.wf]
    /\ rs.pc = "create" => def[rs.wf] # 0
    /\ sb.pc # "idle" => \A id \in Ids : id[1] = sb.wf => ~Alive(id)
    /\ \A id \in Ids : Alive(id) => def[id[1]] # 0 /\ runs[id].def \in {0, def[id[1]]}

(* DefInv is inductive, given Base. *)
LEMMA DefInit == Init => DefInv
BY DEF Init, DefInv, IdlePoll, IdleCall, GatedPcs, Alive, Live, NoRun, Ids

LEMMA DefPoll ==
    ASSUME Base, DefInv, PollSteps
    PROVE  DefInv'
<1>t. /\ runs \in [Ids -> Runs]
      /\ (poll.pc \notin {"idle", "route"} => poll.wf \in Workflows)
      /\ (poll.pc \in GatedPcs <=> gate = "poll")
      /\ (rs.pc # "idle" <=> gate = "restart") /\ (sb.pc # "idle" <=> gate = "submit")
  BY DEF Base, TypeOK, GateHeld, Ids
<1>1. UNCHANGED <<def, rs, cn, sb>> /\ PollMoves
  BY PollFrames, PollMovesCases
<1>2. poll'.pc \in GatedPcs => def'[poll'.wf] # 0 /\ poll'.def = def'[poll'.wf]
  BY <1>1 DEF PollMoves, Same, DefInv, GatedPcs, UngatedPcs
<1>3. rs'.pc = "create" => def'[rs'.wf] # 0
  BY <1>1 DEF DefInv
<1>4. CASE UNCHANGED runs
  BY <1>1, <1>2, <1>3, <1>4 DEF DefInv, Alive
<1>5. CASE PollCreates
  <2>1. poll.pc = "create" /\ gate = "poll" /\ sb.pc = "idle"
    BY <1>t, <1>5 DEF PollCreates, GatedPcs
  <2>2. poll.def = def[poll.wf]
    BY <2>1 DEF DefInv, GatedPcs
  <2>3. runs' = [runs EXCEPT ![<<poll.wf, poll.attempt>>].def = def[poll.wf]]
    BY <1>5, <2>2 DEF PollCreates, CreateInstance
  <2>4. \A id \in Ids : /\ runs'[id].state = runs[id].state
                        /\ runs'[id].def = runs[id].def \/ runs'[id].def = def[id[1]]
    BY <1>t, <2>3 DEF Runs
  <2> QED BY <1>1, <1>2, <1>3, <2>1, <2>4 DEF DefInv, Alive
<1>6. CASE StartRun /\ Inserts(poll.wf, poll.attempt)
  <2>1. poll.pc = "start" /\ gate = "poll" /\ sb.pc = "idle" /\ def[poll.wf] # 0
    BY <1>t, <1>6 DEF StartRun, GatedPcs, DefInv
  <2>2. \A id \in Ids :
           runs'[id] = runs[id] \/ (id = <<poll.wf, poll.attempt>> /\ runs'[id].def = 0)
    BY <1>t, <1>6 DEF Inserts
  <2> QED BY <1>1, <1>2, <1>3, <2>1, <2>2 DEF DefInv, Alive
<1> QED BY <1>4, <1>5, <1>6, PollFrames

LEMMA DefOther ==
    ASSUME Base, DefInv, OtherSteps
    PROVE  DefInv'
<1>t. /\ runs \in [Ids -> Runs] /\ def \in [Workflows -> Nat] /\ made \in Nat
      /\ (poll.pc \notin {"idle", "route"} => poll.wf \in Workflows)
      /\ (poll.pc \in GatedPcs <=> gate = "poll")
      /\ (rs.pc # "idle" <=> gate = "restart") /\ (sb.pc # "idle" <=> gate = "submit")
      /\ (rs.pc # "idle" => rs.wf \in Workflows)
  BY DEF Base, TypeOK, GateHeld, Ids
<1>0. /\ UNCHANGED poll \/ poll'.pc = "idle"
      /\ UNCHANGED def \/ SubmitPuts \/ RemoveDeletes
      /\ \/ Decays \/ RestartCreates
         \/ RestartInserts /\ Inserts(rs.wf, rs'.attempt) /\ <<rs.wf, rs'.attempt>> \in Ids
  BY OtherFrames
<1>r. UNCHANGED rs \/ RestartFinds \/ RestartInserts \/ RestartCreates \/ rs'.pc = "idle"
  <2>1. CASE Restarted
    BY <2>1 DEF Restarted, IdleCall
  <2>2. Restarted \/ UNCHANGED rs \/ RestartFinds \/ RestartInserts \/ RestartCreates
    BY DEF OtherSteps, CancelFinds, CancelRun, callVars,
       BackfillClaimOwner, SubmitChecks, SubmitPuts, RemoveDeletes, SubmitFrame, RepoUnreferenced,
       RepoInactive, RepoUnregisters, RepoRegisters, RepoFrame, RunCompletes, RunAnnounces,
       RunCanceled, TicketEdited, StartServer, RecoverServer
  <2> QED BY <2>1, <2>2
<1>s. UNCHANGED sb \/ SubmitChecks \/ sb'.pc = "idle"
  <2>1. CASE Restarted \/ SubmitPuts \/ RemoveDeletes
    BY <2>1 DEF Restarted, IdleCall, SubmitPuts, RemoveDeletes
  <2>2. Restarted \/ UNCHANGED sb \/ SubmitChecks \/ SubmitPuts \/ RemoveDeletes
    BY DEF OtherSteps, CancelFinds, CancelRun, callVars, RestartFinds, RestartInserts,
       RestartCreates, BackfillClaimOwner, RepoUnreferenced,
       RepoInactive, RepoUnregisters, RepoRegisters, RepoFrame, RunCompletes, RunAnnounces,
       RunCanceled, TicketEdited, StartServer, RecoverServer
  <2> QED BY <2>1, <2>2
<1>1. CASE SubmitPuts \/ RemoveDeletes
  <2>0. sb.pc # "idle" /\ gate = "submit" /\ UNCHANGED <<runs, poll, rs>> /\ sb'.pc = "idle"
    BY <1>t, <1>1 DEF SubmitPuts, RemoveDeletes, SubmitFrame, IdleCall
  <2>1. \A w \in Workflows : w # sb.wf => def'[w] = def[w]
    BY <1>t, <1>1 DEF SubmitPuts, RemoveDeletes, defVars
  <2>2. poll.pc \notin GatedPcs /\ rs.pc = "idle"
    BY <1>t, <2>0
  <2>3. \A id \in Ids : id[1] \in Workflows
    BY DEF Ids
  <2> QED BY <2>0, <2>1, <2>2, <2>3 DEF DefInv, Alive
<1>2. CASE UNCHANGED def
  <2>1. poll'.pc \in GatedPcs => def'[poll'.wf] # 0 /\ poll'.def = def'[poll'.wf]
    BY <1>0, <1>2 DEF DefInv, GatedPcs
  <2>2. rs'.pc = "create" => def'[rs'.wf] # 0
    <3>1. CASE UNCHANGED rs \/ RestartFinds \/ RestartCreates \/ rs'.pc = "idle"
      BY <1>2, <3>1 DEF DefInv, RestartFinds, RestartCreates, IdleCall
    <3>2. CASE RestartInserts
      <4>1. rs' = IdleCall \/ (def[rs.wf] # 0 /\ rs'.wf = rs.wf)
        <5>1. rs \in Calls
          BY DEF Base, TypeOK, Calls
        <5> QED BY <3>2, <5>1 DEF RestartInserts, Routable, Calls
      <4> QED BY <1>2, <4>1 DEF IdleCall
    <3> QED BY <1>r, <3>1, <3>2
  <2>3. \A id \in Ids : runs'[id].state \in Live =>
           /\ def[id[1]] # 0 /\ runs'[id].def \in {0, def[id[1]]}
           /\ gate = "submit" => Alive(id)
    <3>1. CASE Decays
      BY <3>1 DEF Decays, DefInv, Alive, Live
    <3>2. CASE RestartInserts /\ Inserts(rs.wf, rs'.attempt)
      <4>1. gate = "restart" /\ (UNCHANGED runs \/ def[rs.wf] # 0)
        BY <1>t, <3>2 DEF RestartInserts, Routable
      <4>2. \A id \in Ids :
               runs'[id] = runs[id] \/ (id[1] = rs.wf /\ runs'[id].def = 0 /\ runs' # runs)
        BY <1>t, <3>2 DEF Inserts
      <4> QED BY <4>1, <4>2 DEF DefInv, Alive
    <3>3. CASE RestartCreates
      <4>1. gate = "restart"
        BY <1>t, <3>3 DEF RestartCreates
      <4>2. \A id \in Ids : /\ runs'[id].state = runs[id].state
                            /\ runs'[id].def = runs[id].def \/ runs'[id].def = def[id[1]]
        BY <1>t, <3>3 DEF RestartCreates, CreateInstance, Runs
      <4> QED BY <4>1, <4>2 DEF DefInv, Alive
    <3> QED BY <1>0, <3>1, <3>2, <3>3
  <2>4. sb'.pc # "idle" => \A id \in Ids : id[1] = sb'.wf => runs'[id].state \notin Live
    <3>1. CASE SubmitChecks
      <4>1. PICK w \in Workflows, p \in {"put", "remove"} :
               LiveOf(Of(w)) = {} /\ sb' = [IdleCall EXCEPT !.pc = p, !.wf = w]
        BY <3>1 DEF SubmitChecks
      <4>2. sb'.wf = w /\ UNCHANGED runs
        BY <3>1, <4>1 DEF IdleCall, SubmitChecks, SubmitFrame
      <4>3. \A id \in Ids : id[1] = w => ~Alive(id)
        BY <1>t, <4>1 DEF LiveOf, Of, OnRecord, Alive, Live
      <4> QED BY <4>2, <4>3 DEF Alive
    <3>2. CASE UNCHANGED sb
      BY <1>t, <2>3, <3>2 DEF DefInv
    <3> QED BY <1>s, <3>1, <3>2
  <2> QED BY <1>2, <2>1, <2>2, <2>3, <2>4 DEF DefInv, Alive
<1> QED BY <1>0, <1>1, <1>2

(* A live run executes the stored definition, whatever was submitted or    *)
(* removed between routing and start.                                      *)
THEOREM StoredDefinitionsRun == Spec => []LiveRunsMatchDefinition
<1>1. Init => Base /\ DefInv
  BY InitBase, DefInit
<1>2. Base /\ DefInv /\ [Next]_vars => (Base /\ DefInv)'
  <2>1. ASSUME Base, DefInv, Next PROVE Base' /\ DefInv'
    BY <2>1, NextCases, PollStepsBase, OtherStepsBase, DefPoll, DefOther
  <2>2. ASSUME Base, DefInv, UNCHANGED vars PROVE Base' /\ DefInv'
    <3>1. Base'
      BY <2>2 DEF Base, TypeOK, GateHeld, vars, taskVars, defVars, callVars, endVars
    <3>2. DefInv'
      BY <2>2 DEF DefInv, Alive, vars, taskVars, defVars, callVars, endVars
    <3> QED BY <3>1, <3>2
  <2> QED BY <2>1, <2>2
<1>3. Base /\ DefInv => LiveRunsMatchDefinition
  BY DEF Base, TypeOK, DefInv, LiveRunsMatchDefinition, LiveOf, OnRecord, Alive, Ids
<1> QED BY <1>1, <1>2, <1>3, PTL DEF Spec

-----------------------------------------------------------------------------
(* Claims.  Labels are only ever added, so what a poll, a restart or a row *)
(* rested on once, it rests on still.                                      *)
OwnInv ==
    /\ poll.pc = "route" => /\ poll.seen.claims \subseteq ticket.claims
                            /\ poll.seen.owners \subseteq ticket.owners
    /\ poll.pc \notin {"idle", "route"} /\ poll.claimed => Mine(poll.wf)
    /\ poll.pc = "marker" => poll.claimed
    /\ poll.pc \in {"start", "create"} => Mine(poll.wf)
    /\ rs.pc # "idle" => Mine(rs.wf)
    /\ \A id \in Ids : Present(id) => Mine(id[1])

(* OwnInv is inductive, given Base. *)
LEMMA OwnInit == Init => OwnInv
BY DEF Init, OwnInv, IdlePoll, IdleCall, Present, NoRun, Ids

LEMMA OwnPoll ==
    ASSUME Base, OwnInv, PollSteps
    PROVE  OwnInv'
<1>t. /\ runs \in [Ids -> Runs] /\ ticket \in Tickets
      /\ (poll.pc \notin {"idle", "route"} => poll.wf \in Workflows)
  BY DEF Base, TypeOK, Ids
<1>1. UNCHANGED <<def, rs, cn, sb>> /\ PollMoves
  BY PollFrames, PollMovesCases
<1>l. ASSUME ClaimLabels
      PROVE  /\ ticket'.claims = ticket.claims \cup {poll.wf}
             /\ ticket'.owners = ticket.owners \cup {<<poll.wf, Us>>}
  <2>1. ticket' = [ticket EXCEPT !.claims = ticket.claims \cup {poll.wf},
                                 !.owners = ticket.owners \cup {<<poll.wf, Us>>}]
    BY <1>l DEF ClaimLabels
  <2> QED BY <1>t, <2>1 DEF Tickets
<1>2. ticket.claims \subseteq ticket'.claims /\ ticket.owners \subseteq ticket'.owners
  BY <1>l, PollFrames
<1>3. poll.pc = "label" /\ poll'.pc = "start" =>
         poll.wf \in ticket'.claims /\ <<poll.wf, Us>> \in ticket'.owners
  <2>1. ASSUME poll.pc = "label", poll'.pc = "start" PROVE ClaimLabels
    BY <2>1 DEF PollSteps, PollTicket, RecoverTicket, ResolveWorkflow, RecoverValidates,
     RecoverMarked, RecoverResets, TakeGate, CheckOwner, ListRuns, ClaimReads,
     CheckMarker, StartRun, PollCreates, PollError, PollFails, PollEnds, IdlePoll, PollGoes
  <2> QED BY <1>l, <2>1
<1>4. ASSUME poll.pc = "route", NEW w, Routes(poll.seen) = {w}, poll.seen.claims # {}
      PROVE  w \in poll.seen.claims /\ <<w, Us>> \in poll.seen.owners
  BY <1>4 DEF Routes, Owned, MarkersOf
<1>5. /\ poll'.pc = "route" => /\ poll'.seen.claims \subseteq ticket'.claims
                               /\ poll'.seen.owners \subseteq ticket'.owners
      /\ poll'.pc \notin {"idle", "route"} /\ poll'.claimed => Mine(poll.wf)'
      /\ poll'.pc = "marker" => poll'.claimed
      /\ poll'.pc \in {"start", "create"} => Mine(poll.wf)'
  <2>1. CASE UNCHANGED poll \/ poll'.pc = "idle"
    BY <1>2, <2>1 DEF OwnInv, Mine
  <2>2. CASE poll'.pc = "route" /\ poll'.seen = ticket
    BY <1>2, <2>2
  <2>3. CASE /\ poll.pc = "route" /\ poll'.pc \in {"validate", "gate"}
             /\ Routes(poll.seen) = {poll'.wf} /\ poll'.claimed = (poll.seen.claims # {})
    BY <1>2, <1>4, <2>3 DEF OwnInv, Mine
  <2>4. CASE \/ poll.pc \in UngatedPcs /\ poll'.pc \in UngatedPcs /\ Same
             \/ /\ poll.pc = "gate" /\ poll'.pc \in {"owner", "list"}
                /\ poll'.wf = poll.wf /\ poll'.claimed = poll.claimed
             \/ poll.pc = "owner" /\ poll'.pc = "list" /\ Same
             \/ /\ poll.pc = "list" /\ poll'.pc \in {"claim", "marker"} /\ Same
                /\ poll'.pc = "marker" => poll.claimed
             \/ poll.pc = "claim" /\ poll'.pc = "label" /\ Same
             \/ poll.pc = "start" /\ poll'.pc = "create" /\ Same
    BY <1>2, <2>4 DEF OwnInv, Mine, UngatedPcs, Same
  <2>5. CASE /\ poll.pc = "list" /\ poll'.pc = "start" /\ Same
             /\ <<poll.wf, poll'.attempt>> \in Ids /\ Present(<<poll.wf, poll'.attempt>>)
    BY <1>2, <2>5 DEF OwnInv, Mine, Same
  <2>6. CASE poll.pc \in {"label", "marker"} /\ poll'.pc = "start" /\ Same
    BY <1>2, <1>3, <2>6 DEF OwnInv, Mine, Same
  <2> QED BY <1>1, <2>1, <2>2, <2>3, <2>4, <2>5, <2>6 DEF PollMoves
<1>6. \A id \in Ids : runs'[id].state # "absent" => Mine(id[1])
  <2>1. CASE UNCHANGED runs
    BY <2>1 DEF OwnInv, Present
  <2>2. CASE PollCreates
    BY <1>t, <2>2 DEF OwnInv, Present, PollCreates, CreateInstance, Runs
  <2>3. CASE StartRun /\ Inserts(poll.wf, poll.attempt)
    <3>1. Mine(poll.wf)
      BY <2>3 DEF OwnInv, StartRun
    <3>2. \A id \in Ids : runs'[id] = runs[id] \/ id[1] = poll.wf
      BY <1>t, <2>3 DEF Inserts
    <3> QED BY <3>1, <3>2 DEF OwnInv, Present
  <2> QED BY <2>1, <2>2, <2>3, PollFrames
<1>7. UNCHANGED rs
  BY <1>1
<1> QED BY <1>2, <1>5, <1>6, <1>7 DEF OwnInv, Mine, Present

LEMMA OwnOther ==
    ASSUME Base, OwnInv, OtherSteps
    PROVE  OwnInv'
<1>t. runs \in [Ids -> Runs] /\ rs \in Calls
  BY DEF Base, TypeOK, Ids, Calls
<1>1. ticket.claims \subseteq ticket'.claims /\ ticket.owners \subseteq ticket'.owners
  BY OtherFrames
<1>2. \A id \in Ids : runs'[id].state # "absent" => Mine(id[1])
  <2>1. CASE Decays
    BY <2>1 DEF Decays, OwnInv, Present
  <2>2. CASE RestartInserts /\ Inserts(rs.wf, rs'.attempt)
    <3>1. Mine(rs.wf)
      BY <2>2 DEF OwnInv, RestartInserts
    <3>2. \A id \in Ids : runs'[id] = runs[id] \/ id[1] = rs.wf
      BY <1>t, <2>2 DEF Inserts
    <3> QED BY <3>1, <3>2 DEF OwnInv, Present
  <2>3. CASE RestartCreates
    BY <1>t, <2>3 DEF OwnInv, Present, RestartCreates, CreateInstance, Runs
  <2> QED BY <2>1, <2>2, <2>3, OtherFrames
<1>3. rs'.pc # "idle" => Mine(rs'.wf)
  <2>1. CASE RestartFinds
    <3>1. PICK id \in OnRecord : rs' = [pc |-> "found", wf |-> id[1], attempt |-> 0]
      BY <2>1 DEF RestartFinds, Newest
    <3>2. id \in Ids /\ Present(id)
      BY <1>t DEF OnRecord, Present
    <3> QED BY <3>1, <3>2 DEF OwnInv
  <2>2. CASE RestartInserts \/ RestartCreates
    <3>1. rs'.pc = "idle" \/ (rs.pc = "found" /\ rs'.wf = rs.wf)
      <4>1. CASE RestartInserts
        BY <4>1, RestartInsertsCall DEF IdleCall, RestartInserts
      <4>2. CASE RestartCreates
        BY <4>2 DEF RestartCreates, IdleCall
      <4> QED BY <2>2, <4>1, <4>2
    <3> QED BY <3>1 DEF OwnInv
  <2>3. CASE Restarted
    BY <2>3 DEF Restarted, IdleCall
  <2>4. CASE UNCHANGED rs
    BY <2>4 DEF OwnInv
  <2>5. Restarted \/ UNCHANGED rs \/ RestartFinds \/ RestartInserts \/ RestartCreates
    BY DEF OtherSteps, CancelFinds, CancelRun, callVars,
       BackfillClaimOwner, SubmitChecks, SubmitPuts, RemoveDeletes, SubmitFrame, RepoUnreferenced,
       RepoInactive, RepoUnregisters, RepoRegisters, RepoFrame, RunCompletes, RunAnnounces,
       RunCanceled, TicketEdited, StartServer, RecoverServer
  <2> QED BY <2>1, <2>2, <2>3, <2>4, <2>5
<1> QED BY <1>1, <1>2, <1>3, OtherFrames DEF OwnInv, Mine, Present

(* A run exists only for a workflow this server claimed the ticket for.    *)
THEOREM ClaimsPrecedeRuns == Spec => []RunsOnlyOnOwnClaims
<1>1. Init => Base /\ OwnInv
  BY InitBase, OwnInit
<1>2. Base /\ OwnInv /\ [Next]_vars => (Base /\ OwnInv)'
  <2>1. ASSUME Base, OwnInv, Next PROVE Base' /\ OwnInv'
    BY <2>1, NextCases, PollStepsBase, OtherStepsBase, OwnPoll, OwnOther
  <2>2. ASSUME Base, OwnInv, UNCHANGED vars PROVE Base' /\ OwnInv'
    <3>1. Base'
      BY <2>2 DEF Base, TypeOK, GateHeld, vars, taskVars, defVars, callVars, endVars
    <3>2. OwnInv'
      BY <2>2 DEF OwnInv, Mine, Present, vars, taskVars, defVars, callVars, endVars
    <3> QED BY <3>1, <3>2
  <2> QED BY <2>1, <2>2
<1>3. Base /\ OwnInv => RunsOnlyOnOwnClaims
  BY DEF Base, TypeOK, OwnInv, RunsOnlyOnOwnClaims, OnRecord, Present, Mine, Ids
<1> QED BY <1>1, <1>2, <1>3, PTL DEF Spec

-----------------------------------------------------------------------------
(* One live run.  Our owner label names at most one workflow, so all rows  *)
(* are of that one; rows are numbered in the order they were started, and  *)
(* only the newest can be live: a poll starts a run when there is no row,  *)
(* a restart when the newest is canceled.                                  *)
LabelInv ==
    /\ \A w \in Workflows : <<w, Us>> \in ticket.owners => w \in ticket.claims
    /\ \A w, v \in Workflows : <<w, Us>> \in ticket.owners /\ <<v, Us>> \in ticket.owners => w = v
    /\ poll.pc = "label" => \A w \in Workflows : <<w, Us>> \in ticket.owners => w = poll.wf

OrderInv ==
    /\ \A a, b \in Ids : Present(a) /\ Present(b) /\ runs[a].at = runs[b].at => a = b
    /\ \A a, b \in Ids : Alive(a) /\ Present(b) => runs[b].at <= runs[a].at
    /\ rs.pc = "found" => \A id \in Ids : ~Alive(id)
    /\ poll.pc \in {"claim", "label", "marker"} =>
          \A id \in Ids : id[1] = poll.wf => ~Present(id)
    /\ poll.pc = "start" =>
          \/ <<poll.wf, poll.attempt>> \in Ids /\ Present(<<poll.wf, poll.attempt>>)
          \/ \A id \in Ids : id[1] = poll.wf => ~Present(id)

SoleInv == OwnInv /\ LabelInv /\ OrderInv

(* SoleInv is inductive, given Base. *)
LEMMA SoleInit == Init => LabelInv /\ OrderInv
<1> SUFFICES ASSUME Init PROVE LabelInv /\ OrderInv
  OBVIOUS
<1>1. \A w : <<w, Us>> \notin ticket.owners
  <2>1. PICK c \in {{}} \cup {{w} : w \in Workflows}, o \in SUBSET (Workflows \X Others),
             f \in SUBSET Workflows :
             ticket = [open |-> TRUE, assignee |-> Us, claims |-> c, owners |-> o, fits |-> f]
    BY DEF Init, InitTickets
  <2> QED BY <2>1, OwnerAssumption
<1>2. LabelInv
  BY <1>1 DEF LabelInv
<1>3. OrderInv
  BY DEF Init, OrderInv, Present, Alive, Live, NoRun, IdlePoll, IdleCall, Ids
<1> QED BY <1>2, <1>3

LEMMA LabelPoll ==
    ASSUME Base, SoleInv, PollSteps
    PROVE  LabelInv'
<1>t. /\ ticket \in Tickets
      /\ (poll.pc \notin {"idle", "route"} => poll.wf \in Workflows)
  BY DEF Base, TypeOK, Ids
<1>1. PollMoves
  BY PollMovesCases
<1>2. CASE UNCHANGED ticket
  <2>1. poll'.pc = "label" =>
           poll'.wf = poll.wf /\ (poll.pc = "label" \/ MayClaim(ticket, poll.wf))
    <3>1. poll'.pc = "label" => UNCHANGED poll \/ (Same /\ MayClaim(ticket, poll.wf))
      BY <1>1 DEF PollMoves, UngatedPcs
    <3>2. CASE UNCHANGED poll
      BY <3>2
    <3>3. CASE Same /\ MayClaim(ticket, poll.wf)
      BY <3>3 DEF Same
    <3> QED BY <3>1, <3>2, <3>3
  <2>2. MayClaim(ticket, poll.wf) => \A w : <<w, Us>> \in ticket.owners => w = poll.wf
    BY DEF MayClaim
  <2> QED BY <1>2, <2>1, <2>2 DEF SoleInv, LabelInv
<1>3. CASE ClaimLabels
  <2>0. ticket' = [ticket EXCEPT !.claims = ticket.claims \cup {poll.wf},
                                 !.owners = ticket.owners \cup {<<poll.wf, Us>>}]
    BY <1>3 DEF ClaimLabels
  <2>1. /\ ticket'.claims = ticket.claims \cup {poll.wf}
        /\ ticket'.owners = ticket.owners \cup {<<poll.wf, Us>>}
    BY <1>t, <2>0 DEF Tickets
  <2>2. poll.pc = "label" /\ poll'.pc = "start"
    <3>1. poll \in Polls
      BY DEF Base, TypeOK, Polls
    <3> QED BY <1>3, <3>1 DEF ClaimLabels, Polls
  <2>3. \A w \in Workflows : <<w, Us>> \in ticket'.owners => w = poll.wf
    BY <2>1, <2>2 DEF SoleInv, LabelInv
  <2> QED BY <2>1, <2>2, <2>3 DEF LabelInv
<1> QED BY <1>2, <1>3, PollFrames

LEMMA LabelOther ==
    ASSUME Base, SoleInv, OtherSteps
    PROVE  LabelInv'
<1>t. /\ ticket \in Tickets
      /\ (poll.pc \in GatedPcs <=> gate = "poll")
  BY DEF Base, TypeOK
<1>1. UNCHANGED poll \/ poll'.pc = "idle"
  BY OtherFrames
<1>2. \/ UNCHANGED ticket \/ TicketEdited \/ RunCompletes
      \/ \E w \in Workflows : BackfillClaimOwner(w)
  BY DEF OtherSteps, RestartFinds, RestartInserts, RestartCreates, CancelFinds, CancelRun,
     SubmitChecks, SubmitPuts, RemoveDeletes, SubmitFrame, RepoUnreferenced,
     RepoInactive, RepoUnregisters, RepoRegisters, RepoFrame, RunAnnounces,
     RunCanceled, StartServer, RecoverServer, Restarted, taskVars
<1>3. CASE UNCHANGED ticket
  BY <1>1, <1>3 DEF SoleInv, LabelInv
<1>4. CASE TicketEdited \/ RunCompletes
  <2>1. /\ ticket.claims \subseteq ticket'.claims
        /\ \A w : <<w, Us>> \in ticket'.owners => <<w, Us>> \in ticket.owners
    <3>1. CASE \/ \E o \in Owners : ticket' = [ticket EXCEPT !.assignee = o]
               \/ \E f \in SUBSET Workflows : ticket' = [ticket EXCEPT !.fits = f]
               \/ \E o \in BOOLEAN : ticket' = [ticket EXCEPT !.open = o]
      BY <1>t, <3>1 DEF Tickets
    <3>2. CASE \E w \in Workflows, o \in Others :
             ticket' = [ticket EXCEPT !.claims = @ \cup {w}, !.owners = @ \cup {<<w, o>>}]
      <4>1. PICK w \in Workflows, o \in Others :
             ticket' = [ticket EXCEPT !.claims = ticket.claims \cup {w},
                                      !.owners = ticket.owners \cup {<<w, o>>}]
        BY <3>2
      <4>2. /\ ticket'.claims = ticket.claims \cup {w}
            /\ ticket'.owners = ticket.owners \cup {<<w, o>>}
        BY <1>t, <4>1 DEF Tickets
      <4> QED BY <4>2, OwnerAssumption
    <3> QED BY <1>4, <1>t, <3>1, <3>2 DEF TicketEdited, RunCompletes, Tickets
  <2> QED BY <1>1, <2>1 DEF SoleInv, LabelInv
<1>5. CASE \E w \in Workflows : BackfillClaimOwner(w)
  <2>1. PICK w \in Workflows : BackfillClaimOwner(w)
    BY <1>5
  <2>2. /\ ticket'.claims = ticket.claims /\ ticket.claims = {w}
        /\ ticket'.owners = ticket.owners \cup {<<w, Us>>}
    BY <1>t, <2>1 DEF BackfillClaimOwner, Tickets
  <2>3. gate = "free" /\ UNCHANGED poll
    BY <2>1 DEF BackfillClaimOwner
  <2>4. poll'.pc # "label"
    BY <1>t, <2>3 DEF GatedPcs
  <2> QED BY <2>2, <2>4 DEF SoleInv, LabelInv
<1> QED BY <1>2, <1>3, <1>4, <1>5

(* A row started when no live one is left is the newest, and alone alive. *)
LEMMA InsertOrder ==
    ASSUME Base, OrderInv, NEW w, NEW a, <<w, a>> \in Ids, Inserts(w, a),
           \A id \in Ids : ~Alive(id)
    PROVE  /\ \A b, c \in Ids : (Present(b) /\ Present(c) /\ runs[b].at = runs[c].at)' => b = c
           /\ \A b, c \in Ids : (Alive(b) /\ Present(c))' => runs'[c].at <= runs'[b].at
<1>t. runs \in [Ids -> Runs]
  BY DEF Base, TypeOK, Ids
<1>1. PICK n \in Nat :
        /\ \A o \in Ids : Present(o) => runs[o].at <= n
        /\ runs' = [runs EXCEPT ![<<w, a>>] = [state |-> "active", def |-> 0, at |-> n + 1]]
  BY DEF Inserts
<1>2. \A o \in Ids : o # <<w, a>> => runs'[o] = runs[o]
  BY <1>t, <1>1
<1>3. runs'[<<w, a>>].at = n + 1 /\ runs'[<<w, a>>].state = "active"
  BY <1>t, <1>1
<1>4. \A o \in Ids : runs[o].at \in Nat
  BY <1>t DEF Runs
<1> QED BY <1>1, <1>2, <1>3, <1>4 DEF OrderInv, Present, Alive

LEMMA OrderPoll ==
    ASSUME Base, SoleInv, PollSteps
    PROVE  OrderInv'
<1>t. /\ runs \in [Ids -> Runs] /\ poll \in Polls
      /\ (poll.pc \notin {"idle", "route"} => poll.wf \in Workflows)
      /\ (poll.pc \in {"start", "create"} => <<poll.wf, poll.attempt>> \in Ids)
      /\ (poll.pc \in GatedPcs <=> gate = "poll") /\ (rs.pc # "idle" <=> gate = "restart")
  <2>1. poll.pc \in {"start", "create"} => poll.wf \in Workflows /\ poll.attempt \in Attempts
    BY BoundAssumption DEF Base, TypeOK, Attempts
  <2> QED BY <2>1 DEF Base, TypeOK, GateHeld, Ids, Polls
<1>1. UNCHANGED rs /\ PollMoves
  BY PollFrames, PollMovesCases
<1>2. CASE UNCHANGED runs
  <2>1. poll'.pc \in {"claim", "label", "marker"} =>
          \A id \in Ids : id[1] = poll'.wf => ~Present(id)
    BY <1>1 DEF PollMoves, Same, UngatedPcs, SoleInv, OrderInv
  <2>2. poll'.pc = "start" =>
          \/ <<poll'.wf, poll'.attempt>> \in Ids /\ Present(<<poll'.wf, poll'.attempt>>)
          \/ \A id \in Ids : id[1] = poll'.wf => ~Present(id)
    BY <1>1 DEF PollMoves, Same, UngatedPcs, SoleInv, OrderInv
  <2> QED BY <1>1, <1>2, <2>1, <2>2 DEF SoleInv, OrderInv, Present, Alive
<1>3. CASE PollCreates
  <2>1. \A id \in Ids : runs'[id].state = runs[id].state /\ runs'[id].at = runs[id].at
    BY <1>t, <1>3 DEF PollCreates, CreateInstance, Runs
  <2>2. poll'.pc = "idle"
    BY <1>3 DEF PollCreates, PollDone, PollEnds, IdlePoll
  <2> QED BY <1>1, <2>1, <2>2 DEF SoleInv, OrderInv, Present, Alive
<1>4. CASE StartRun /\ Inserts(poll.wf, poll.attempt)
  <2>1. poll.pc = "start" /\ rs.pc = "idle" /\ ~Present(<<poll.wf, poll.attempt>>)
    BY <1>t, <1>4 DEF StartRun, Inserts, Present, GatedPcs
  <2>2. \A id \in Ids : id[1] = poll.wf => ~Present(id)
    BY <2>1 DEF SoleInv, OrderInv
  <2>3. \A id \in Ids : ~Present(id)
    <3>1. \A id \in Ids : id[1] \in Workflows
      BY DEF Ids
    <3> QED BY <1>t, <2>1, <2>2, <3>1 DEF SoleInv, OwnInv, LabelInv, Mine
  <2>4. \A id \in Ids : ~Alive(id)
    BY <2>3 DEF Present, Alive, Live
  <2>5. /\ \A b, c \in Ids : (Present(b) /\ Present(c) /\ runs[b].at = runs[c].at)' => b = c
        /\ \A b, c \in Ids : (Alive(b) /\ Present(c))' => runs'[c].at <= runs'[b].at
    BY <1>4, <1>t, <2>1, <2>4, InsertOrder DEF SoleInv
  <2>6. poll'.pc \in {"idle", "create"}
    BY <1>t, <1>4 DEF StartRun, PollGoes, PollDone, PollEnds, IdlePoll, Polls
  <2> QED BY <1>1, <2>1, <2>5, <2>6 DEF OrderInv
<1> QED BY <1>2, <1>3, <1>4, PollFrames

(* A restart is found by one step, and taken on or dropped by the others. *)
LEMMA RestartSteps ==
    ASSUME Base, OtherSteps
    PROVE  UNCHANGED rs \/ RestartFinds \/ rs'.pc \in {"idle", "create"}
<1>1. CASE Restarted \/ RestartCreates
  BY <1>1 DEF Restarted, RestartCreates, IdleCall
<1>2. CASE RestartInserts
  BY <1>2, RestartInsertsCall DEF IdleCall
<1>3. Restarted \/ UNCHANGED rs \/ RestartFinds \/ RestartInserts \/ RestartCreates
  BY DEF OtherSteps, CancelFinds, CancelRun, callVars,
     BackfillClaimOwner, SubmitChecks, SubmitPuts, RemoveDeletes, SubmitFrame, RepoUnreferenced,
     RepoInactive, RepoUnregisters, RepoRegisters, RepoFrame, RunCompletes, RunAnnounces,
     RunCanceled, TicketEdited, StartServer, RecoverServer
<1> QED BY <1>1, <1>2, <1>3

LEMMA OrderOther ==
    ASSUME Base, SoleInv, OtherSteps
    PROVE  OrderInv'
<1>t. /\ runs \in [Ids -> Runs] /\ rs \in Calls
      /\ (poll.pc \in GatedPcs <=> gate = "poll") /\ (rs.pc # "idle" <=> gate = "restart")
  BY DEF Base, TypeOK, GateHeld, Ids, Calls
<1>0. /\ UNCHANGED poll \/ poll'.pc = "idle"
      /\ \/ Decays \/ RestartCreates
         \/ RestartInserts /\ Inserts(rs.wf, rs'.attempt) /\ <<rs.wf, rs'.attempt>> \in Ids
  BY OtherFrames
<1>r. UNCHANGED rs \/ RestartFinds \/ rs'.pc \in {"idle", "create"}
  BY RestartSteps
<1>f. RestartFinds => UNCHANGED runs /\ \A id \in Ids : ~Alive(id)
  <2> SUFFICES ASSUME RestartFinds PROVE UNCHANGED runs /\ \A id \in Ids : ~Alive(id)
    OBVIOUS
  <2>1. PICK id \in Newest(OnRecord) : runs[id].state = "canceled"
    BY DEF RestartFinds
  <2>2. id \in Ids /\ Present(id) /\ \A o \in Ids : Present(o) => runs[o].at <= runs[id].at
    BY <1>t DEF Newest, OnRecord, Present
  <2>3. ASSUME NEW o \in Ids, Alive(o) PROVE FALSE
    <3>1. Present(o)
      BY <2>3 DEF Alive, Present, Live
    <3>2. runs[o].at <= runs[id].at /\ runs[id].at <= runs[o].at
      BY <2>2, <2>3, <3>1 DEF SoleInv, OrderInv
    <3>3. runs[o].at \in Nat /\ runs[id].at \in Nat
      BY <1>t, <2>2 DEF Runs
    <3>4. o = id
      BY <2>2, <3>1, <3>2, <3>3 DEF SoleInv, OrderInv
    <3> QED BY <2>1, <2>3, <3>4 DEF Alive, Live
  <2> QED BY <2>3 DEF RestartFinds
<1>1. CASE Decays
  <2>1. \A id \in Ids : /\ Present(id)' => Present(id) /\ runs'[id].at = runs[id].at
                        /\ Alive(id)' => Alive(id) /\ Present(id)'
    BY <1>1 DEF Decays, Present, Alive, Live
  <2>2. poll'.pc = "start" /\ UNCHANGED poll =>
           UNCHANGED runs \/ \A id \in Ids : Present(id) => Present(id)'
    <3>1. CASE StartServer \/ RecoverServer
      BY <3>1 DEF StartServer, RecoverServer, Restarted, IdlePoll
    <3>2. CASE ~(StartServer \/ RecoverServer)
      <4>1. \/ UNCHANGED runs \/ RestartInserts \/ RestartCreates \/ CancelRun \/ RunCompletes
            \/ RunCanceled
        BY <3>2 DEF OtherSteps, RestartFinds, CancelFinds, BackfillClaimOwner, SubmitChecks,
           SubmitPuts, RemoveDeletes, SubmitFrame, RepoUnreferenced, RepoInactive,
           RepoUnregisters, RepoRegisters, RepoFrame, RunAnnounces, TicketEdited
      <4>2. CASE CancelRun
        BY <1>t, <4>2 DEF CancelRun, Present, Runs, Ids
      <4>3. CASE RunCompletes \/ RunCanceled
        BY <1>t, <4>3 DEF RunCompletes, RunCanceled, Present, Runs, LiveOf, OnRecord
      <4>4. CASE RestartInserts \/ RestartCreates
        <5>1. gate = "restart" /\ UNCHANGED poll
          BY <1>t, <4>4 DEF RestartInserts, RestartCreates
        <5> QED BY <1>t, <5>1 DEF GatedPcs
      <4> QED BY <4>1, <4>2, <4>3, <4>4
    <3> QED BY <3>1, <3>2
  <2>3. rs'.pc = "found" => \A id \in Ids : ~Alive(id)'
    BY <1>r, <1>f, <2>1 DEF SoleInv, OrderInv, Alive
  <2>4. /\ \A a, b \in Ids : (Present(a) /\ Present(b) /\ runs[a].at = runs[b].at)' => a = b
        /\ \A a, b \in Ids : (Alive(a) /\ Present(b))' => runs'[b].at <= runs'[a].at
    BY <2>1 DEF SoleInv, OrderInv
  <2>5. poll'.pc \in {"claim", "label", "marker"} =>
          \A id \in Ids : id[1] = poll'.wf => ~Present(id)'
    BY <1>0, <2>1 DEF SoleInv, OrderInv
  <2>6. poll'.pc = "start" =>
          \/ <<poll'.wf, poll'.attempt>> \in Ids /\ Present(<<poll.wf, poll.attempt>>)'
          \/ \A id \in Ids : id[1] = poll'.wf => ~Present(id)'
    BY <1>0, <2>1, <2>2 DEF SoleInv, OrderInv, Present
  <2> QED BY <2>3, <2>4, <2>5, <2>6 DEF OrderInv
<1>2. CASE RestartInserts /\ Inserts(rs.wf, rs'.attempt) /\ <<rs.wf, rs'.attempt>> \in Ids
  <2>1. gate = "restart" /\ rs.pc = "found" /\ UNCHANGED poll /\ rs'.pc # "found"
    <3>1. rs'.pc # "found"
      BY <1>2, RestartInsertsCall DEF IdleCall
    <3> QED BY <1>t, <1>2, <3>1 DEF RestartInserts
  <2>2. \A id \in Ids : ~Alive(id)
    BY <2>1 DEF SoleInv, OrderInv
  <2>3. /\ \A b, c \in Ids : (Present(b) /\ Present(c) /\ runs[b].at = runs[c].at)' => b = c
        /\ \A b, c \in Ids : (Alive(b) /\ Present(c))' => runs'[c].at <= runs'[b].at
    BY <1>2, <2>2, InsertOrder DEF SoleInv
  <2>4. poll'.pc \notin {"claim", "label", "marker", "start"}
    BY <1>t, <2>1 DEF GatedPcs
  <2> QED BY <2>1, <2>3, <2>4 DEF OrderInv
<1>3. CASE RestartCreates
  <2>1. \A id \in Ids : runs'[id].state = runs[id].state /\ runs'[id].at = runs[id].at
    BY <1>t, <1>3 DEF RestartCreates, CreateInstance, Runs
  <2>2. rs'.pc = "idle" /\ UNCHANGED poll
    BY <1>3 DEF RestartCreates, IdleCall
  <2> QED BY <2>1, <2>2 DEF SoleInv, OrderInv, Present, Alive
<1> QED BY <1>0, <1>1, <1>2, <1>3

(* A ticket has at most one live run at any time. *)
THEOREM SingleRun == Spec => []OneLiveRun
<1>1. Init => Base /\ SoleInv
  BY InitBase, OwnInit, SoleInit DEF SoleInv
<1>2. Base /\ SoleInv /\ [Next]_vars => (Base /\ SoleInv)'
  <2>1. ASSUME Base, SoleInv, Next PROVE Base' /\ SoleInv'
    <3>1. OwnInv'
      BY <2>1, NextCases, OwnPoll, OwnOther DEF SoleInv
    <3> QED BY <2>1, <3>1, NextCases, PollStepsBase, OtherStepsBase, LabelPoll, LabelOther,
                OrderPoll, OrderOther DEF SoleInv
  <2>2. ASSUME Base, SoleInv, UNCHANGED vars PROVE Base' /\ SoleInv'
    <3>1. Base'
      BY <2>2 DEF Base, TypeOK, GateHeld, vars, taskVars, defVars, callVars, endVars
    <3>2. SoleInv'
      BY <2>2 DEF SoleInv, OwnInv, LabelInv, OrderInv, Mine, Present, Alive,
                  vars, taskVars, defVars, callVars, endVars
    <3> QED BY <3>1, <3>2
  <2> QED BY <2>1, <2>2
<1>3. Base /\ SoleInv => OneLiveRun
  <2> SUFFICES ASSUME Base, SoleInv, NEW a \in LiveOf(OnRecord), NEW b \in LiveOf(OnRecord)
               PROVE  a = b
    BY DEF OneLiveRun
  <2>1. /\ a \in Ids /\ b \in Ids /\ Alive(a) /\ Alive(b) /\ Present(a) /\ Present(b)
        /\ runs[a].at \in Nat /\ runs[b].at \in Nat
    BY DEF Base, TypeOK, Ids, Runs, LiveOf, OnRecord, Alive, Present
  <2> QED BY <2>1 DEF SoleInv, OrderInv
<1> QED BY <1>1, <1>2, <1>3, PTL DEF Spec

-----------------------------------------------------------------------------
(* The series of attempts.  Rows of a workflow are numbered as they were   *)
(* started, a sweep takes the oldest, a restart adds the next to the       *)
(* newest, and a poll adds the first to none, having seen the ticket       *)
(* without claims before any run of it, or without the comment.            *)
None(w)     == \A a \in Attempts : ~Present(<<w, a>>)
TopOf(w, a) == Present(<<w, a>>) /\ \A b \in Attempts : Present(<<w, b>>) => b <= a

NumberInv ==
    /\ \A w \in Workflows : None(w) \/ \E a \in Attempts : TopOf(w, a)
    /\ \A w \in Workflows, a, b \in Attempts :
          Present(<<w, a>>) /\ Present(<<w, b>>) /\ a < b
             => runs[<<w, a>>].at < runs[<<w, b>>].at

\* The poll goes by a ticket without claims.
Unclaimed ==
    \/ poll.pc = "route" /\ poll.seen.claims = {}
    \/ poll.pc \in UngatedPcs \cup {"owner", "list", "claim", "label"} /\ ~poll.claimed

BarInv ==
    /\ marker \subseteq ticket.claims
    /\ Unclaimed => marker = {} /\ \A w \in Workflows : None(w)
    /\ poll.pc \in {"claim", "label"} => ~poll.claimed
    /\ poll.pc = "start" =>
          \/ Present(<<poll.wf, poll.attempt>>)
          \/ None(poll.wf) /\ poll.attempt = 1 /\ poll.wf \notin marker
    /\ rs.pc = "found" =>
          \E a \in Attempts : TopOf(rs.wf, a) /\ runs[<<rs.wf, a>>].state = "canceled"

SeriesInv == NumberInv /\ BarInv

(* What a step does to the rows: it keeps them but for the execution,      *)
(* moves one on, adds one, or sweeps.                                      *)
Still == \A id \in Ids : runs'[id].state = runs[id].state /\ runs'[id].at = runs[id].at
Moved(id, s) ==
    /\ id \in Ids /\ Alive(id) /\ s \in {"canceling"} \cup Decided
    /\ runs' = [runs EXCEPT ![id].state = s]

LEMMA RowSteps ==
    ASSUME Base, Next
    PROVE  \/ Still
           \/ StartRun /\ Inserts(poll.wf, poll.attempt)
           \/ RestartInserts /\ Inserts(rs.wf, rs'.attempt) /\ <<rs.wf, rs'.attempt>> \in Ids
           \/ CancelRun /\ Moved(<<cn.wf, cn.attempt>>, "canceling")
           \/ RunCompletes /\ \E id : Moved(id, "completed")
           \/ RunCanceled /\ \E id : Moved(id, "canceled") /\ id[1] \in marker
           \/ StartServer \/ RecoverServer
<1>t. /\ runs \in [Ids -> Runs] /\ rs \in Calls
      /\ (rs.pc # "idle" => rs.wf \in Workflows)
      /\ (cn.pc # "idle" => <<cn.wf, cn.attempt>> \in Ids)
  BY DEF Base, TypeOK, GateHeld, Ids, Calls
<1>1. CASE PollSteps
  <2>1. PollCreates => Still
    BY <1>t DEF PollCreates, CreateInstance, Runs, Still
  <2> QED BY <1>1, <2>1, PollFrames DEF Still
<1>2. CASE OtherSteps
  <2>1. UNCHANGED runs => Still
    BY DEF Still
  <2>2. RestartCreates => Still
    BY <1>t DEF RestartCreates, CreateInstance, Runs, Still
  <2>3. CASE RestartInserts
    <3>1. UNCHANGED runs \/ (rs'.attempt \in Attempts /\ InsertStart(rs.wf, rs'.attempt))
      BY <1>t, <2>3 DEF RestartInserts, Calls
    <3>2. rs.wf \in Workflows
      BY <1>t, <2>3 DEF RestartInserts
    <3> QED BY <2>1, <2>3, <3>1, <3>2, InsertStartEffect DEF Ids
  <2>4. CASE CancelRun
    <3> DEFINE id == <<cn.wf, cn.attempt>>
    <3>1. /\ id \in Ids
          /\ runs' = [runs EXCEPT ![id].state = IF runs[id].state = "active" THEN "canceling"
                                                ELSE runs[id].state]
      BY <1>t, <2>4 DEF CancelRun
    <3> HIDE DEF id
    <3>2. CASE runs[id].state = "active"
      BY <2>4, <3>1, <3>2 DEF Moved, Alive, Live, id
    <3>3. CASE runs[id].state # "active"
      BY <1>t, <3>1, <3>3 DEF Still, Runs
    <3> QED BY <3>2, <3>3
  <2>5. CASE RunCompletes
    BY <1>t, <2>5 DEF RunCompletes, Moved, LiveOf, OnRecord, Alive, Decided
  <2>6. CASE RunCanceled
    BY <1>t, <2>6 DEF RunCanceled, Moved, OnRecord, Alive, Live, Decided
  <2>7. \/ UNCHANGED runs \/ RestartInserts \/ RestartCreates \/ CancelRun \/ RunCompletes
        \/ RunCanceled \/ StartServer \/ RecoverServer
    BY <1>2 DEF OtherSteps, RestartFinds, CancelFinds, BackfillClaimOwner, SubmitChecks, SubmitPuts,
       RemoveDeletes, SubmitFrame, RepoUnreferenced, RepoInactive, RepoUnregisters, RepoRegisters,
       RepoFrame, RunAnnounces, TicketEdited
  <2> QED BY <2>1, <2>2, <2>3, <2>4, <2>5, <2>6, <2>7
<1> QED BY <1>1, <1>2, NextCases

LEMMA MovedKeeps ==
    ASSUME Base, NEW id, NEW s, Moved(id, s)
    PROVE  /\ \A o \in Ids : Present(o)' <=> Present(o)
           /\ \A o \in Ids : runs'[o].at = runs[o].at
           /\ \A o \in Ids : o # id => runs'[o] = runs[o]
           /\ runs'[id].state = s
BY DEF Base, TypeOK, Ids, Runs, Moved, Present, Alive, Live, Decided

LEMMA NumberKept ==
    ASSUME NumberInv, \A o \in Ids : Present(o)' <=> Present(o),
           \A o \in Ids : runs'[o].at = runs[o].at
    PROVE  NumberInv'
BY DEF NumberInv, None, TopOf, Ids, Present

\* A row with the highest number of its workflow.
LEMMA NumberInserts ==
    ASSUME Base, NumberInv, NEW w \in Workflows, NEW a \in Attempts, Inserts(w, a),
           \A b \in Attempts : Present(<<w, b>>) => b < a
    PROVE  /\ NumberInv' /\ TopOf(w, a)' /\ runs'[<<w, a>>].state = "active"
           /\ \A o \in Ids : o # <<w, a>> => runs'[o] = runs[o]
<1>t. runs \in [Ids -> Runs] /\ <<w, a>> \in Ids
  BY DEF Base, TypeOK, Ids
<1>1. PICK n \in Nat :
        /\ \A o \in Ids : Present(o) => runs[o].at <= n
        /\ runs' = [runs EXCEPT ![<<w, a>>] = [state |-> "active", def |-> 0, at |-> n + 1]]
  BY DEF Inserts
<1>2. /\ runs'[<<w, a>>].state = "active" /\ runs'[<<w, a>>].at = n + 1
      /\ \A o \in Ids : o # <<w, a>> => runs'[o] = runs[o]
  BY <1>t, <1>1
<1>3. Present(<<w, a>>)' /\ \A o \in Ids : o # <<w, a>> => (Present(o)' <=> Present(o))
  BY <1>2 DEF Present
<1>a. Attempts \subseteq Nat
  BY BoundAssumption DEF Attempts
<1>4. TopOf(w, a)'
  BY <1>3, <1>a DEF TopOf, Ids
<1>5. ASSUME NEW v \in Workflows
      PROVE  None(v)' \/ \E b \in Attempts : TopOf(v, b)'
  <2>1. CASE v = w
    BY <1>4, <2>1
  <2>2. CASE v # w
    BY <1>3, <2>2 DEF NumberInv, None, TopOf, Ids
  <2> QED BY <2>1, <2>2
<1>6. ASSUME NEW v \in Workflows, NEW b \in Attempts, NEW c \in Attempts,
             Present(<<v, b>>)', Present(<<v, c>>)', b < c
      PROVE  runs'[<<v, b>>].at < runs'[<<v, c>>].at
  <2>0. <<v, b>> \in Ids /\ <<v, c>> \in Ids /\ runs[<<v, b>>].at \in Nat
    BY <1>t DEF Ids, Runs
  <2>1. CASE <<v, c>> = <<w, a>>
    <3>1. <<v, b>> # <<w, a>> /\ Present(<<v, b>>)
      BY <1>3, <1>6, <1>a, <2>0, <2>1
    <3>2. runs[<<v, b>>].at <= n
      BY <1>1, <2>0, <3>1
    <3> QED BY <1>2, <2>0, <2>1, <3>1, <3>2
  <2>2. CASE <<v, c>> # <<w, a>>
    <3>1. Present(<<v, c>>)
      BY <1>3, <1>6, <2>0, <2>2
    <3>2. <<v, b>> # <<w, a>>
      BY <1>6, <1>a, <3>1
    <3> QED BY <1>2, <1>3, <1>6, <2>0, <2>2, <3>1, <3>2 DEF NumberInv
  <2> QED BY <2>1, <2>2
<1> QED BY <1>2, <1>4, <1>5, <1>6 DEF NumberInv

\* A sweep leaves each workflow its newest row, or none.
LEMMA SweepNumbers ==
    ASSUME Base, NumberInv, StartServer
    PROVE  /\ NumberInv'
           /\ \A w \in Workflows :
                 \/ \E a \in Attempts : /\ TopOf(w, a) /\ TopOf(w, a)'
                                        /\ runs'[<<w, a>>] = runs[<<w, a>>]
                 \/ None(w) /\ None(w)'
                 \/ /\ None(w)'
                    /\ \E a \in Attempts : TopOf(w, a) /\ runs[<<w, a>>].state \in Decided
<1>t. runs \in [Ids -> Runs]
  BY DEF Base, TypeOK, Ids
<1>1. PICK S \in SUBSET {id \in OnRecord : runs[id].state \in Decided} :
          /\ \A id \in S, o \in OnRecord : o[1] = id[1] /\ o[2] < id[2] => o \in S
          /\ runs' = [id \in DOMAIN runs |-> IF id \in S THEN NoRun ELSE runs[id]]
  BY DEF StartServer
<1>2. \A id \in Ids : runs'[id] = IF id \in S THEN NoRun ELSE runs[id]
  BY <1>t, <1>1
<1>3. \A id \in Ids : Present(id)' <=> Present(id) /\ id \notin S
  BY <1>2 DEF Present, NoRun
<1>4. S \subseteq Ids /\ \A id \in S : runs[id].state \in Decided
  BY <1>t, <1>1 DEF OnRecord
<1>5. \A w \in Workflows, a, b \in Attempts :
         <<w, b>> \in S /\ Present(<<w, a>>) /\ a < b => <<w, a>> \in S
  <2> SUFFICES ASSUME NEW w \in Workflows, NEW a \in Attempts, NEW b \in Attempts,
                      <<w, b>> \in S, Present(<<w, a>>), a < b
               PROVE  <<w, a>> \in S
    OBVIOUS
  <2>1. <<w, a>> \in OnRecord
    BY <1>t DEF OnRecord, Present, Ids
  <2> QED BY <1>1, <2>1
<1>6. ASSUME NEW w \in Workflows, NEW a \in Attempts, TopOf(w, a), <<w, a>> \notin S
      PROVE  TopOf(w, a)' /\ runs'[<<w, a>>] = runs[<<w, a>>]
  BY <1>2, <1>3, <1>6 DEF TopOf, Ids
<1>7. ASSUME NEW w \in Workflows, NEW a \in Attempts, TopOf(w, a), <<w, a>> \in S
      PROVE  None(w)'
  <2> SUFFICES ASSUME NEW b \in Attempts, Present(<<w, b>>)' PROVE FALSE
    BY DEF None
  <2>1. Present(<<w, b>>) /\ <<w, b>> \notin S
    BY <1>3 DEF Ids
  <2>2. b <= a /\ b # a
    BY <1>7, <2>1 DEF TopOf
  <2>3. b < a
    BY <2>2, BoundAssumption DEF Attempts
  <2> QED BY <1>5, <1>7, <2>1, <2>3
<1>8. ASSUME NEW w \in Workflows, None(w)
      PROVE  None(w)'
  BY <1>3, <1>8 DEF None, Ids
<1>9. ASSUME NEW w \in Workflows
      PROVE  \/ \E a \in Attempts : /\ TopOf(w, a) /\ TopOf(w, a)'
                                    /\ runs'[<<w, a>>] = runs[<<w, a>>]
             \/ None(w) /\ None(w)'
             \/ /\ None(w)'
                /\ \E a \in Attempts : TopOf(w, a) /\ runs[<<w, a>>].state \in Decided
  <2>1. CASE None(w)
    BY <1>8, <2>1
  <2>2. CASE ~None(w)
    <3>1. PICK a \in Attempts : TopOf(w, a)
      BY <2>2 DEF NumberInv
    <3> QED BY <1>4, <1>6, <1>7, <3>1
  <2> QED BY <2>1, <2>2
<1>10. ASSUME NEW w \in Workflows, NEW a \in Attempts, NEW b \in Attempts,
             Present(<<w, a>>)', Present(<<w, b>>)', a < b
       PROVE  runs'[<<w, a>>].at < runs'[<<w, b>>].at
  <2>1. /\ <<w, a>> \in Ids /\ <<w, b>> \in Ids
        /\ Present(<<w, a>>) /\ Present(<<w, b>>) /\ <<w, a>> \notin S /\ <<w, b>> \notin S
    BY <1>3, <1>10 DEF Ids
  <2>2. runs'[<<w, a>>] = runs[<<w, a>>] /\ runs'[<<w, b>>] = runs[<<w, b>>]
    BY <1>2, <2>1
  <2>3. runs[<<w, a>>].at < runs[<<w, b>>].at
    BY <1>10, <2>1 DEF NumberInv
  <2> QED BY <2>2, <2>3
<1> QED BY <1>9, <1>10 DEF NumberInv

LEMMA RecoverNumbers ==
    ASSUME Base, RecoverServer
    PROVE  NumberInv' /\ \A w \in Workflows : None(w)'
<1>1. \A id \in Ids : ~Present(id)'
  BY DEF Base, TypeOK, Ids, RecoverServer, Present, NoRun
<1>2. \A w \in Workflows : None(w)'
  BY <1>1 DEF None, Ids
<1> QED BY <1>2 DEF NumberInv, None

(* Which number a started run gets. *)
LEMMA PollNumber ==
    ASSUME Base, BarInv, StartRun, Inserts(poll.wf, poll.attempt)
    PROVE  /\ poll.wf \in Workflows /\ poll.attempt = 1 /\ 1 \in Attempts
           /\ None(poll.wf) /\ poll.wf \notin marker
<1>1. poll.pc = "start" /\ poll.wf \in Workflows
  BY DEF StartRun, Base, TypeOK
<1>2. ~Present(<<poll.wf, poll.attempt>>)
  BY DEF Inserts, Present
<1> QED BY <1>1, <1>2, BoundAssumption DEF BarInv, Attempts

LEMMA RestartNumber ==
    ASSUME Base, BarInv, RestartInserts, rs'.attempt \in Attempts
    PROVE  /\ rs.wf \in Workflows /\ rs.pc = "found" /\ rs'.attempt \in Attempts
           /\ TopOf(rs.wf, rs'.attempt - 1) /\ rs'.attempt - 1 \in Attempts
           /\ runs[<<rs.wf, rs'.attempt - 1>>].state = "canceled"
           /\ \A b \in Attempts : Present(<<rs.wf, b>>) => b < rs'.attempt
<1>t. runs \in [Ids -> Runs] /\ rs \in Calls /\ rs.wf \in Workflows /\ rs.pc = "found"
  BY DEF RestartInserts, Base, TypeOK, GateHeld, Ids, Calls
<1>1. PICK a \in Attempts : TopOf(rs.wf, a) /\ runs[<<rs.wf, a>>].state = "canceled"
  BY <1>t DEF BarInv
<1>2. \A n : <<rs.wf, n>> \in Of(rs.wf) <=> n \in Attempts /\ Present(<<rs.wf, n>>)
  BY <1>t DEF Of, OnRecord, Present, Ids
<1>3. \A id \in Of(rs.wf) : id = <<rs.wf, id[2]>> /\ id[2] \in Attempts
  BY <1>t DEF Of, OnRecord, Ids
<1>a. a \in Nat /\ a >= 1 /\ a + 1 \in 1..(MaxAttempts + 1)
  BY BoundAssumption DEF Attempts
<1> DEFINE Next1(n) == /\ \A id \in Of(rs.wf) : id[2] < n
                       /\ n = 1 \/ <<rs.wf, n - 1>> \in Of(rs.wf)
<1>4. Next1(a + 1)
  <2>1. \A id \in Of(rs.wf) : id[2] <= a
    BY <1>1, <1>2, <1>3 DEF TopOf
  <2>2. \A id \in Of(rs.wf) : id[2] < a + 1
    BY <1>3, <1>a, <2>1, BoundAssumption DEF Attempts
  <2>3. <<rs.wf, (a + 1) - 1>> \in Of(rs.wf)
    BY <1>1, <1>2, <1>a DEF TopOf
  <2> QED BY <2>2, <2>3
<1>5. ASSUME NEW n \in 1..(MaxAttempts + 1), Next1(n) PROVE n = a + 1
  <2>0. n \in Nat
    BY BoundAssumption
  <2>1. a < n
    <3>1. <<rs.wf, a>> \in Of(rs.wf)
      BY <1>1, <1>2 DEF TopOf
    <3> QED BY <1>5, <3>1
  <2>2. n - 1 <= a
    <3>1. <<rs.wf, n - 1>> \in Of(rs.wf)
      BY <1>5, <1>a, <2>0, <2>1
    <3> QED BY <1>1, <1>2, <3>1 DEF TopOf
  <2> QED BY <1>a, <2>0, <2>1, <2>2
<1> DEFINE next == CHOOSE n \in 1..(MaxAttempts + 1) : Next1(n)
<1>6. next = a + 1
  <2>1. next \in 1..(MaxAttempts + 1) /\ Next1(next)
    BY <1>4, <1>a
  <2> QED BY <1>5, <2>1
<1>7. rs' = IdleCall \/ (next \in Attempts /\ rs' = [rs EXCEPT !.pc = "create", !.attempt = next])
  BY DEF RestartInserts
<1> HIDE DEF next, Next1
<1>8. rs' # IdleCall
  BY BoundAssumption DEF IdleCall, Attempts
<1>9. rs'.attempt = a + 1 /\ a + 1 \in Attempts
  BY <1>t, <1>6, <1>7, <1>8 DEF Calls
<1>10. \A b \in Attempts : Present(<<rs.wf, b>>) => b < a + 1
  BY <1>1, <1>a, BoundAssumption DEF TopOf, Attempts
<1>11. (a + 1) - 1 = a
  BY <1>a
<1> QED BY <1>t, <1>1, <1>9, <1>10, <1>11

(* NumberInv is kept: rows come in at the top. *)
LEMMA NumberNext ==
    ASSUME Base, SeriesInv, Next
    PROVE  NumberInv'
<1>1. CASE Still
  <2>1. \A o \in Ids : Present(o)' <=> Present(o)
    BY <1>1 DEF Still, Present
  <2> QED BY <1>1, <2>1, NumberKept DEF Still, SeriesInv
<1>2. CASE \E id, s : Moved(id, s)
  BY <1>2, MovedKeeps, NumberKept DEF SeriesInv
<1>3. CASE StartRun /\ Inserts(poll.wf, poll.attempt)
  <2>1. /\ poll.wf \in Workflows /\ poll.attempt \in Attempts
        /\ \A b \in Attempts : Present(<<poll.wf, b>>) => b < poll.attempt
    BY <1>3, PollNumber DEF SeriesInv, None
  <2> QED BY <1>3, <2>1, NumberInserts DEF SeriesInv
<1>4. CASE RestartInserts /\ Inserts(rs.wf, rs'.attempt) /\ <<rs.wf, rs'.attempt>> \in Ids
  <2>1. rs'.attempt \in Attempts
    BY <1>4 DEF Ids
  <2> QED BY <1>4, <2>1, RestartNumber, NumberInserts DEF SeriesInv
<1>5. CASE StartServer \/ RecoverServer
  BY <1>5, SweepNumbers, RecoverNumbers DEF SeriesInv
<1> QED BY <1>1, <1>2, <1>3, <1>4, <1>5, RowSteps

(* BarInv is kept by the poll. *)
LEMMA BarPoll ==
    ASSUME Base, SoleInv, SeriesInv, PollSteps
    PROVE  BarInv'
<1>t. /\ runs \in [Ids -> Runs] /\ poll \in Polls
      /\ (poll.pc \notin {"idle", "route"} => poll.wf \in Workflows)
      /\ (poll.pc \in GatedPcs <=> gate = "poll") /\ (rs.pc # "idle" <=> gate = "restart")
  BY DEF Base, TypeOK, GateHeld, Ids, Polls
<1>k. ticket \in Tickets
  BY DEF Base, TypeOK
<1>m. UNCHANGED marker
  BY DEF PollSteps, PollTicket, RecoverTicket, ResolveWorkflow, RecoverValidates, RecoverMarked,
     RecoverResets, TakeGate, CheckOwner, ListRuns, ClaimReads, ClaimLabels, CheckMarker, StartRun,
     PollCreates, PollError, taskVars
<1>0. UNCHANGED rs /\ PollMoves /\ (UNCHANGED ticket \/ ClaimLabels)
  BY PollFrames, PollMovesCases
<1>1. marker' \subseteq ticket'.claims
  <2>1. ticket.claims \subseteq ticket'.claims
    <3>1. ClaimLabels => ticket'.claims = ticket.claims \cup {poll.wf}
      BY <1>k DEF ClaimLabels, Tickets
    <3> QED BY <1>0, <3>1
  <2> QED BY <1>m, <2>1 DEF SeriesInv, BarInv
<1>2. CASE UNCHANGED runs
  <2>1. ticket.claims = {} => marker = {} /\ \A w \in Workflows : None(w)
    BY DEF SeriesInv, BarInv, SoleInv, OwnInv, Mine, None, Ids
  <2>2. Unclaimed' => Unclaimed \/ ticket.claims = {}
    BY <1>0 DEF PollMoves, Same, Unclaimed, UngatedPcs
  <2>3. Unclaimed' => marker' = {} /\ \A w \in Workflows : None(w)'
    BY <1>m, <1>2, <2>1, <2>2 DEF SeriesInv, BarInv, None, Present
  <2>4. poll'.pc \in {"claim", "label"} => ~poll'.claimed
    BY <1>0 DEF PollMoves, Same, UngatedPcs, SeriesInv, BarInv
  <2>5. poll'.pc = "start" =>
          \/ Present(<<poll'.wf, poll'.attempt>>)
          \/ None(poll'.wf) /\ poll'.attempt = 1 /\ poll'.wf \notin marker
    <3> SUFFICES ASSUME poll'.pc = "start"
                 PROVE  \/ Present(<<poll'.wf, poll'.attempt>>)
                        \/ None(poll'.wf) /\ poll'.attempt = 1 /\ poll'.wf \notin marker
      OBVIOUS
    <3>1. CASE UNCHANGED poll
      BY <3>1 DEF SeriesInv, BarInv
    <3>2. CASE poll.pc = "list"
      BY <1>0, <3>2 DEF PollMoves, Same, UngatedPcs
    <3>3. CASE poll.pc \in {"label", "marker"} /\ Same /\ poll'.attempt = 1
      <4>1. None(poll.wf)
        BY <1>t, <3>3 DEF SoleInv, OrderInv, None, Ids
      <4>2. poll.wf \notin marker
        BY <1>0, <3>3 DEF PollMoves, UngatedPcs, SeriesInv, BarInv, Unclaimed
      <4> QED BY <3>3, <4>1, <4>2 DEF Same
    <3> QED BY <1>0, <3>1, <3>2, <3>3 DEF PollMoves, UngatedPcs
  <2>6. rs'.pc = "found" =>
          \E a \in Attempts : TopOf(rs.wf, a)' /\ runs'[<<rs'.wf, a>>].state = "canceled"
    BY <1>0, <1>2 DEF SeriesInv, BarInv, TopOf, Present
  <2> QED BY <1>m, <1>1, <1>2, <2>3, <2>4, <2>5, <2>6 DEF BarInv, None, Present
<1>3. CASE PollCreates \/ StartRun
  <2>1. gate = "poll" /\ poll'.pc \in {"idle", "create"}
    BY <1>t, <1>3 DEF PollCreates, StartRun, PollGoes, PollDone, PollEnds, IdlePoll, GatedPcs, Polls
  <2>2. rs'.pc # "found"
    BY <1>t, <1>0, <2>1
  <2> QED BY <1>1, <2>1, <2>2 DEF BarInv, Unclaimed, UngatedPcs
<1> QED BY <1>2, <1>3, PollFrames

(* And by all others: a restart that inserts has found a row, so no poll goes *)
(* by a ticket without claims; a comment appears only where there is a row.   *)
LEMMA BarOther ==
    ASSUME Base, SoleInv, SeriesInv, OtherSteps, ~StartRun
    PROVE  BarInv'
<1>t. /\ runs \in [Ids -> Runs] /\ poll \in Polls /\ rs \in Calls
      /\ (poll.pc \notin {"idle", "route"} => poll.wf \in Workflows)
      /\ (poll.pc \in {"start"} => <<poll.wf, poll.attempt>> \in Ids)
      /\ (poll.pc \in GatedPcs <=> gate = "poll") /\ (rs.pc # "idle" <=> gate = "restart")
      /\ (rs.pc # "idle" => rs.wf \in Workflows)
  <2>1. poll.pc = "start" => poll.wf \in Workflows /\ poll.attempt \in Attempts
    BY BoundAssumption DEF Base, TypeOK, Attempts
  <2> QED BY <2>1 DEF Base, TypeOK, GateHeld, Ids, Polls, Calls
<1>0. /\ UNCHANGED poll \/ poll'.pc = "idle"
      /\ ticket.claims \subseteq ticket'.claims
  BY OtherFrames
<1>m. UNCHANGED marker \/ \E id \in Ids : Alive(id) /\ marker' = marker \cup {id[1]}
  <2>1. CASE RunAnnounces
    BY <1>t, <2>1 DEF RunAnnounces, OnRecord, Alive, Live
  <2>2. UNCHANGED marker \/ RunAnnounces
    BY DEF OtherSteps, RestartFinds, RestartInserts, RestartCreates, CancelFinds, CancelRun,
       BackfillClaimOwner, SubmitChecks, SubmitPuts, RemoveDeletes, SubmitFrame, RepoUnreferenced,
       RepoInactive, RepoUnregisters, RepoRegisters, RepoFrame, RunCompletes, RunCanceled,
       TicketEdited, StartServer, RecoverServer, Restarted, taskVars
  <2> QED BY <2>1, <2>2
<1>1. marker' \subseteq ticket'.claims
  <2>1. \A id \in Ids : Alive(id) => id[1] \in ticket.claims
    BY DEF SoleInv, OwnInv, Mine, Alive, Present, Live
  <2> QED BY <1>0, <1>m, <2>1 DEF SeriesInv, BarInv
<1>p. \A w \in Workflows : None(w) => \A id \in Ids : Alive(id) => id[1] # w
  BY DEF None, Alive, Present, Live, Ids
<1>r. UNCHANGED rs \/ RestartFinds \/ rs'.pc \in {"idle", "create"}
  BY RestartSteps
<1>u. Unclaimed' => Unclaimed /\ UNCHANGED poll
  BY <1>0 DEF Unclaimed, UngatedPcs
<1>2. CASE StartServer \/ RecoverServer
  <2>1. poll'.pc = "idle" /\ rs'.pc = "idle"
    BY <1>2 DEF StartServer, RecoverServer, Restarted, IdlePoll, IdleCall
  <2> QED BY <1>1, <2>1 DEF BarInv, Unclaimed, UngatedPcs
<1>3. CASE RestartInserts /\ <<rs.wf, rs'.attempt>> \in Ids
  <2>1. gate = "restart" /\ rs.pc = "found" /\ rs.wf \in Workflows
    BY <1>t, <1>3 DEF RestartInserts
  <2>2. UNCHANGED poll /\ rs'.pc # "found"
    BY <1>3, RestartInsertsCall DEF RestartInserts, IdleCall
  <2>3. ~Unclaimed
    BY <2>1 DEF SeriesInv, BarInv, None, TopOf
  <2>4. poll'.pc \notin {"claim", "label", "start"}
    BY <1>t, <2>1, <2>2 DEF GatedPcs
  <2> QED BY <1>1, <1>u, <2>2, <2>3, <2>4 DEF BarInv
<1>4. CASE Still \/ \E id, s : Moved(id, s)
  <2>1. \A o \in Ids : Present(o)' <=> Present(o)
    BY <1>4, MovedKeeps DEF Still, Present
  <2>2. /\ \A w \in Workflows : None(w)' <=> None(w)
        /\ \A w \in Workflows, a \in Attempts : TopOf(w, a)' <=> TopOf(w, a)
    BY <2>1 DEF None, TopOf, Ids
  <2>3. \A o \in Ids : runs[o].state = "canceled" => runs'[o].state = "canceled"
    BY <1>4, MovedKeeps DEF Still, Moved, Alive, Live
  <2>4. Unclaimed' => marker' = {} /\ \A w \in Workflows : None(w)'
    <3> SUFFICES ASSUME Unclaimed' PROVE marker' = {} /\ \A w \in Workflows : None(w)'
      OBVIOUS
    <3>1. marker = {} /\ \A w \in Workflows : None(w)
      BY <1>u DEF SeriesInv, BarInv
    <3>2. \A id \in Ids : ~Alive(id)
      BY <1>p, <3>1 DEF Ids
    <3> QED BY <1>m, <2>2, <3>1, <3>2
  <2>5. poll'.pc \in {"claim", "label"} => ~poll'.claimed
    BY <1>0 DEF SeriesInv, BarInv
  <2>6. poll'.pc = "start" =>
          \/ Present(<<poll.wf, poll.attempt>>)'
          \/ None(poll.wf)' /\ poll'.attempt = 1 /\ poll'.wf \notin marker'
    <3> SUFFICES ASSUME poll'.pc = "start"
                 PROVE  \/ Present(<<poll.wf, poll.attempt>>)'
                        \/ None(poll.wf)' /\ poll'.attempt = 1 /\ poll'.wf \notin marker'
      OBVIOUS
    <3>1. UNCHANGED poll
      BY <1>0
    <3>2. poll.pc = "start" /\ <<poll.wf, poll.attempt>> \in Ids /\ poll.wf \in Workflows
      BY <1>t, <3>1
    <3>3. CASE Present(<<poll.wf, poll.attempt>>)
      BY <2>1, <3>1, <3>2, <3>3 DEF Present
    <3>4. CASE None(poll.wf) /\ poll.attempt = 1 /\ poll.wf \notin marker
      <4>1. poll.wf \notin marker'
        BY <1>m, <1>p, <3>2, <3>4
      <4> QED BY <2>2, <3>1, <3>2, <3>4, <4>1 DEF None, Present
    <3> QED BY <3>2, <3>3, <3>4 DEF SeriesInv, BarInv
  <2>7. rs'.pc = "found" =>
          \E a \in Attempts : TopOf(rs.wf, a)' /\ runs'[<<rs'.wf, a>>].state = "canceled"
    <3>1. CASE UNCHANGED rs
      BY <1>t, <2>2, <2>3, <3>1 DEF SeriesInv, BarInv, TopOf, Present, Ids
    <3>2. CASE RestartFinds
      <4>1. PICK id \in Newest(OnRecord) :
               runs[id].state = "canceled" /\ rs' = [pc |-> "found", wf |-> id[1], attempt |-> 0]
        BY <3>2 DEF RestartFinds
      <4>2. id \in Ids /\ Present(id) /\ \A o \in Ids : Present(o) => runs[o].at <= runs[id].at
        BY <1>t DEF Newest, OnRecord, Present
      <4> DEFINE w == id[1]  a == id[2]
      <4>3. w \in Workflows /\ a \in Attempts /\ id = <<w, a>>
        BY <4>2 DEF Ids
      <4> HIDE DEF w, a
      <4>4. ASSUME NEW b \in Attempts, Present(<<w, b>>), ~(b <= a) PROVE FALSE
        <5>1. a < b /\ <<w, b>> \in Ids
          BY <4>3, <4>4, BoundAssumption DEF Attempts, Ids
        <5>2. runs[<<w, a>>].at < runs[<<w, b>>].at
          BY <4>2, <4>3, <4>4, <5>1 DEF SeriesInv, NumberInv
        <5>3. runs[<<w, b>>].at <= runs[<<w, a>>].at
          BY <4>2, <4>3, <4>4, <5>1
        <5>4. runs[<<w, b>>].at \in Nat /\ runs[<<w, a>>].at \in Nat
          BY <1>t, <4>2, <4>3, <5>1 DEF Runs
        <5> QED BY <5>2, <5>3, <5>4
      <4>5. TopOf(w, a)
        BY <4>2, <4>3, <4>4 DEF TopOf
      <4>6. TopOf(w, a)' /\ runs'[<<w, a>>].state = "canceled" /\ rs'.wf = w
        BY <2>2, <2>3, <4>1, <4>2, <4>3, <4>5 DEF w
      <4> QED BY <4>3, <4>6 DEF TopOf, Present
    <3> QED BY <1>r, <3>1, <3>2
  <2> QED BY <1>1, <2>4, <2>5, <2>6, <2>7 DEF BarInv, None, Present, TopOf
<1> QED BY <1>2, <1>3, <1>4, RowSteps DEF Next, OtherSteps

LEMMA SeriesNext ==
    ASSUME Base, SoleInv, SeriesInv, Next
    PROVE  SeriesInv'
<1>1. NumberInv'
  BY NumberNext
<1>2. BarInv'
  <2>1. StartRun => PollSteps
    BY Zenon DEF PollSteps
  <2> QED BY <2>1, NextCases, BarPoll, BarOther
<1> QED BY <1>1, <1>2 DEF SeriesInv

(* What the series shows of a workflow: its newest row, before and after a *)
(* step.                                                                   *)
Shown(s) == IF s \in Live THEN "live" ELSE s

LEMMA TopShown ==
    ASSUME NEW w \in Workflows, NEW a \in Attempts, TopOf(w, a)
    PROVE  LastOf(w) = a /\ Status(w) = Shown(runs[<<w, a>>].state)
<1>1. a \in Nat /\ a # 0 /\ Attempts \subseteq Nat
  BY BoundAssumption DEF Attempts
<1>2. a \in Numbers(w) /\ \A b \in Numbers(w) : b <= a
  BY DEF TopOf, Numbers, Present
<1>3. \A c \in Numbers(w) : (\A b \in Numbers(w) : b <= c) => c = a
  BY <1>1, <1>2 DEF Numbers
<1>4. LastOf(w) = a
  BY <1>2, <1>3 DEF LastOf
<1> QED BY <1>1, <1>4 DEF Status, Shown

LEMMA TopShownAfter ==
    ASSUME NEW w \in Workflows, NEW a \in Attempts, TopOf(w, a)'
    PROVE  LastOf(w)' = a /\ Status(w)' = Shown(runs'[<<w, a>>].state)
<1>1. a \in Nat /\ a # 0 /\ Attempts \subseteq Nat
  BY BoundAssumption DEF Attempts
<1>2. a \in Numbers(w)' /\ \A b \in Numbers(w)' : b <= a
  BY DEF TopOf, Numbers, Present
<1>3. \A c \in Numbers(w)' : (\A b \in Numbers(w)' : b <= c) => c = a
  BY <1>1, <1>2 DEF Numbers
<1>4. LastOf(w)' = a
  BY <1>2, <1>3 DEF LastOf
<1> QED BY <1>1, <1>4 DEF Status, Shown

LEMMA NoneShown ==
    ASSUME NEW w \in Workflows
    PROVE  /\ None(w) => LastOf(w) = 0 /\ Status(w) = "none"
           /\ None(w)' => LastOf(w)' = 0 /\ Status(w)' = "none"
<1>1. /\ None(w) => Numbers(w) = {}
      /\ None(w)' => Numbers(w)' = {}
  BY DEF None, Numbers, Present
<1> QED BY <1>1 DEF LastOf, Status

\* A row as it was before shows as it did before.
LEMMA SameShown ==
    ASSUME NumberInv, NEW w \in Workflows,
           \A a \in Attempts : /\ Present(<<w, a>>)' <=> Present(<<w, a>>)
                               /\ Shown(runs'[<<w, a>>].state) = Shown(runs[<<w, a>>].state)
    PROVE  LastOf(w)' = LastOf(w) /\ Status(w)' = Status(w)
<1>1. CASE None(w)
  <2>1. None(w)'
    BY <1>1 DEF None
  <2> QED BY <1>1, <2>1, NoneShown
<1>2. CASE ~None(w)
  <2>1. PICK a \in Attempts : TopOf(w, a)
    BY <1>2 DEF NumberInv
  <2>2. TopOf(w, a)'
    BY <2>1 DEF TopOf
  <2> QED BY <2>1, <2>2, TopShown, TopShownAfter
<1> QED BY <1>1, <1>2

\* A live run is the newest of its workflow.
LEMMA AliveTop ==
    ASSUME Base, SoleInv, NumberInv, NEW id \in Ids, Alive(id)
    PROVE  /\ id[1] \in Workflows /\ id[2] \in Attempts /\ id = <<id[1], id[2]>>
           /\ TopOf(id[1], id[2]) /\ Status(id[1]) = "live"
<1>1. id[1] \in Workflows /\ id[2] \in Attempts /\ id = <<id[1], id[2]>> /\ Present(id)
  BY DEF Ids, Alive, Present, Live
<1>2. ASSUME NEW b \in Attempts, Present(<<id[1], b>>), ~(b <= id[2]) PROVE FALSE
  <2>1. id[2] < b /\ <<id[1], b>> \in Ids
    BY <1>1, <1>2, BoundAssumption DEF Attempts, Ids
  <2>2. runs[id].at < runs[<<id[1], b>>].at
    BY <1>1, <1>2, <2>1 DEF NumberInv
  <2>3. runs[<<id[1], b>>].at <= runs[id].at
    BY <1>2, <2>1 DEF SoleInv, OrderInv
  <2>4. runs[<<id[1], b>>].at \in Nat /\ runs[id].at \in Nat
    BY <2>1 DEF Base, TypeOK, Ids, Runs
  <2> QED BY <2>2, <2>3, <2>4
<1>3. TopOf(id[1], id[2])
  BY <1>1, <1>2 DEF TopOf
<1> QED BY <1>1, <1>3, TopShown DEF Alive, Shown

(* The series starts empty. *)
LEMMA SeriesInit == Init => SeriesInv
<1> SUFFICES ASSUME Init PROVE SeriesInv
  OBVIOUS
<1>1. \A w \in Workflows : None(w)
  BY DEF Init, None, Present, NoRun
<1>2. NumberInv
  BY <1>1 DEF NumberInv, None
<1>3. BarInv
  BY <1>1 DEF Init, BarInv, IdlePoll, IdleCall
<1> QED BY <1>2, <1>3 DEF SeriesInv

(* The comment on the ticket is the only thing a step that starts, moves or *)
(* sweeps rows leaves alone, and the announcement the only one that adds it. *)
LEMMA MarkerSteps ==
    ASSUME Base, Next
    PROVE  UNCHANGED marker \/ \E id \in Ids : /\ Alive(id) /\ UNCHANGED runs
                                               /\ marker' = marker \cup {id[1]}
<1>1. CASE RunAnnounces
  <2>1. PICK id \in OnRecord : runs[id].state = "canceling" /\ marker' = marker \cup {id[1]}
    BY <1>1 DEF RunAnnounces
  <2>2. id \in Ids /\ Alive(id) /\ UNCHANGED runs
    BY <1>1, <2>1 DEF RunAnnounces, OnRecord, Alive, Live, Base, TypeOK, Ids
  <2> QED BY <2>1, <2>2
<1>2. UNCHANGED marker \/ RunAnnounces
  BY DEF Next, PollTicket, RecoverTicket, ResolveWorkflow, RecoverValidates, RecoverMarked,
     RecoverResets, TakeGate, CheckOwner, ListRuns, ClaimReads, ClaimLabels, CheckMarker, StartRun,
     PollCreates, PollError, RestartFinds, RestartInserts, RestartCreates, CancelFinds, CancelRun,
     BackfillClaimOwner, SubmitChecks, SubmitPuts, RemoveDeletes, SubmitFrame, RepoUnreferenced,
     RepoInactive, RepoUnregisters, RepoRegisters, RepoFrame, RunCompletes, RunCanceled,
     TicketEdited, StartServer, RecoverServer, Restarted, taskVars
<1> QED BY <1>1, <1>2

(* One step of the server is one step of the series, or none. *)
LEMMA AttemptsInit == Init => Promise!AttemptsInit
<1> SUFFICES ASSUME Init PROVE Promise!AttemptsInit
  OBVIOUS
<1>1. \A w \in Workflows : None(w)
  BY DEF Init, None, Present, NoRun
<1>2. \A w \in Workflows : LastOf(w) = 0 /\ Status(w) = "none"
  BY <1>1, NoneShown
<1> QED BY <1>2 DEF Init, Promise!AttemptsInit

LEMMA AttemptsStep ==
    ASSUME Base, SoleInv, SeriesInv, Next
    PROVE  [Promise!AttemptsNext]_(Promise!attemptVars)
<1>t. runs \in [Ids -> Runs] /\ Attempts \subseteq Nat \ {0}
  BY BoundAssumption DEF Base, TypeOK, Ids, Attempts
<1>n. NumberInv /\ BarInv
  BY DEF SeriesInv
<1>s. ASSUME Still, NEW w \in Workflows PROVE LastOf(w)' = LastOf(w) /\ Status(w)' = Status(w)
  BY <1>s, <1>n, SameShown DEF Still, Present, Ids
<1>1. CASE Still
  <2>1. CASE UNCHANGED marker
    BY <1>1, <1>s, <2>1 DEF Promise!attemptVars
  <2>2. CASE \E id \in Ids : Alive(id) /\ marker' = marker \cup {id[1]}
    <3>1. PICK id \in Ids : Alive(id) /\ marker' = marker \cup {id[1]}
      BY <2>2
    <3>2. id[1] \in Workflows /\ Status(id[1]) = "live"
      BY <1>n, <3>1, AliveTop
    <3>3. Promise!Bar(id[1])
      BY <1>1, <1>s, <3>1, <3>2 DEF Promise!Bar
    <3> QED BY <3>2, <3>3 DEF Promise!AttemptsNext
  <2> QED BY <2>1, <2>2, MarkerSteps
<1>2. CASE StartRun /\ Inserts(poll.wf, poll.attempt)
  <2>0. PICK w : w = poll.wf
    OBVIOUS
  <2>1. w \in Workflows /\ 1 \in Attempts /\ poll.attempt = 1 /\ None(w) /\ w \notin marker
    BY <1>2, <1>n, <2>0, PollNumber
  <2>2. UNCHANGED marker
    BY <1>2 DEF StartRun, taskVars
  <2>3. /\ TopOf(w, 1)' /\ runs'[<<w, 1>>].state = "active"
        /\ \A o \in Ids : o # <<w, 1>> => runs'[o] = runs[o]
    BY <1>2, <1>n, <2>0, <2>1, NumberInserts DEF None
  <2>4. LastOf(w)' = 1 /\ Status(w)' = "live" /\ Status(w) = "none"
    BY <2>1, <2>3, TopShownAfter, NoneShown DEF Shown, Live
  <2>5. \A v \in Workflows : v # w => LastOf(v)' = LastOf(v) /\ Status(v)' = Status(v)
    BY <1>n, <2>3, SameShown DEF Present, Ids
  <2>6. Promise!Begin(w)
    BY <2>1, <2>2, <2>4, <2>5 DEF Promise!Begin
  <2> QED BY <2>1, <2>6 DEF Promise!AttemptsNext
<1>3. CASE RestartInserts /\ Inserts(rs.wf, rs'.attempt) /\ <<rs.wf, rs'.attempt>> \in Ids
  <2>0. PICK w \in Workflows, b \in Attempts : w = rs.wf /\ b = rs'.attempt
    BY <1>3 DEF Ids
  <2>1. /\ w \in Workflows /\ b - 1 \in Attempts /\ TopOf(w, b - 1)
        /\ runs[<<w, b - 1>>].state = "canceled"
        /\ \A c \in Attempts : Present(<<w, c>>) => c < b
    BY <1>3, <1>n, <2>0, RestartNumber
  <2>2. UNCHANGED marker
    BY <1>3 DEF RestartInserts, taskVars
  <2>3. /\ TopOf(w, b)' /\ runs'[<<w, b>>].state = "active"
        /\ \A o \in Ids : o # <<w, b>> => runs'[o] = runs[o]
    BY <1>3, <1>n, <2>0, <2>1, NumberInserts
  <2>4. LastOf(w)' = b /\ Status(w)' = "live"
    BY <2>0, <2>1, <2>3, TopShownAfter DEF Shown, Live
  <2>5. LastOf(w) = b - 1 /\ Status(w) = "canceled"
    BY <2>1, TopShown DEF Shown, Live
  <2>6. \A v \in Workflows : v # w => LastOf(v)' = LastOf(v) /\ Status(v)' = Status(v)
    BY <1>n, <2>3, SameShown DEF Present, Ids
  <2>7. LastOf(w)' = LastOf(w) + 1
    BY <1>t, <2>0, <2>4, <2>5
  <2>8. Promise!BeginAgain(w)
    BY <2>1, <2>2, <2>4, <2>5, <2>6, <2>7 DEF Promise!BeginAgain
  <2> QED BY <2>1, <2>8 DEF Promise!AttemptsNext
<1>m. ASSUME NEW id, NEW s, Moved(id, s)
      PROVE  /\ id[1] \in Workflows /\ Status(id[1]) = "live"
             /\ LastOf(id[1])' = LastOf(id[1]) /\ Status(id[1])' = Shown(s)
             /\ \A v \in Workflows :
                   v # id[1] => LastOf(v)' = LastOf(v) /\ Status(v)' = Status(v)
  <2>1. id \in Ids /\ Alive(id)
    BY <1>m DEF Moved
  <2>2. /\ id[1] \in Workflows /\ id[2] \in Attempts /\ id = <<id[1], id[2]>>
        /\ TopOf(id[1], id[2]) /\ Status(id[1]) = "live"
    BY <1>n, <2>1, AliveTop
  <2>3. /\ \A o \in Ids : Present(o)' <=> Present(o)
        /\ \A o \in Ids : o # id => runs'[o] = runs[o]
        /\ runs'[id].state = s
    BY <1>m, MovedKeeps
  <2>4. TopOf(id[1], id[2])'
    BY <2>2, <2>3 DEF TopOf, Ids
  <2>5. LastOf(id[1])' = LastOf(id[1]) /\ Status(id[1])' = Shown(s)
    BY <2>2, <2>3, <2>4, TopShown, TopShownAfter
  <2>6. ASSUME NEW v \in Workflows, v # id[1]
        PROVE  LastOf(v)' = LastOf(v) /\ Status(v)' = Status(v)
    <3>1. \A a \in Attempts : <<v, a>> \in Ids /\ <<v, a>> # id
      BY <2>6 DEF Ids
    <3> QED BY <1>n, <2>3, <3>1, SameShown
  <2> QED BY <2>2, <2>5, <2>6
<1>4. CASE CancelRun /\ Moved(<<cn.wf, cn.attempt>>, "canceling")
  <2>1. \A v \in Workflows : LastOf(v)' = LastOf(v) /\ Status(v)' = Status(v)
    BY <1>4, <1>m DEF Shown, Live
  <2>2. UNCHANGED marker
    BY <1>4 DEF CancelRun, taskVars
  <2> QED BY <2>1, <2>2 DEF Promise!attemptVars
<1>5. CASE \/ RunCompletes /\ \E id : Moved(id, "completed")
           \/ RunCanceled /\ \E id : Moved(id, "canceled") /\ id[1] \in marker
  <2>1. PICK id \in Ids, s \in Decided : Moved(id, s) /\ (s = "canceled" => id[1] \in marker)
    BY <1>5 DEF Decided, Moved
  <2>2. UNCHANGED marker
    BY <1>5 DEF RunCompletes, RunCanceled, taskVars
  <2>3. Shown(s) = s /\ s \in Promise!Decided
    BY DEF Shown, Live, Decided, Promise!Decided
  <2>4. Promise!Settle(id[1])
    BY <1>m, <2>1, <2>2, <2>3 DEF Promise!Settle
  <2> QED BY <1>m, <2>1, <2>4 DEF Promise!AttemptsNext
<1>6. CASE StartServer
  <2> DEFINE T == {w \in Workflows : None(w)' /\ ~None(w)}
  <2>1. ASSUME NEW w \in Workflows, w \notin T
        PROVE  LastOf(w)' = LastOf(w) /\ Status(w)' = Status(w)
    <3>1. \/ \E a \in Attempts : /\ TopOf(w, a) /\ TopOf(w, a)'
                                 /\ runs'[<<w, a>>] = runs[<<w, a>>]
          \/ None(w) /\ None(w)'
      BY <1>6, <1>n, <2>1, SweepNumbers
    <3> QED BY <3>1, NoneShown, TopShown, TopShownAfter
  <2>2. ASSUME NEW w \in T
        PROVE  LastOf(w)' = 0 /\ Status(w)' = "none" /\ Status(w) \in Promise!Decided
    <3>1. None(w)' /\ \E a \in Attempts : TopOf(w, a) /\ runs[<<w, a>>].state \in Decided
      <4>1. \A a \in Attempts : ~TopOf(w, a)'
        BY <2>2 DEF None, TopOf, Present
      <4> QED BY <1>6, <1>n, <2>2, <4>1, SweepNumbers
    <3>2. LastOf(w)' = 0 /\ Status(w)' = "none"
      BY <2>2, <3>1, NoneShown
    <3> QED BY <2>2, <3>1, <3>2, TopShown DEF Shown, Live, Decided, Promise!Decided
  <2>3. UNCHANGED marker
    BY <1>6 DEF StartServer, Restarted, taskVars
  <2>4. T \in SUBSET Workflows
    OBVIOUS
  <2> HIDE DEF T
  <2>5. Promise!Forget
    BY <2>1, <2>2, <2>3, <2>4 DEF Promise!Forget
  <2> QED BY <2>5 DEF Promise!AttemptsNext
<1>7. CASE RecoverServer
  <2>1. \A w \in Workflows : LastOf(w)' = 0 /\ Status(w)' = "none"
    BY <1>7, RecoverNumbers, NoneShown
  <2>2. UNCHANGED marker
    BY <1>7 DEF RecoverServer, Restarted, taskVars
  <2>3. Promise!Forget
    BY <2>1, <2>2 DEF Promise!Forget
  <2> QED BY <2>3 DEF Promise!AttemptsNext
<1> QED BY <1>1, <1>2, <1>3, <1>4, <1>5, <1>6, <1>7, RowSteps

(* Attempts of a workflow form one series: polls begin only the first, and  *)
(* none after a cancellation; operators the one after a canceled one; no    *)
(* run is canceled without the comment.                                     *)
THEOREM AttemptsInSeries == Spec => AttemptsSpec
<1>1. Init => Base /\ SoleInv /\ SeriesInv
  BY InitBase, OwnInit, SoleInit, SeriesInit DEF SoleInv
<1>2. Base /\ SoleInv /\ SeriesInv /\ [Next]_vars => (Base /\ SoleInv /\ SeriesInv)'
  <2>1. ASSUME Base, SoleInv, SeriesInv, Next PROVE Base' /\ SoleInv' /\ SeriesInv'
    <3>1. OwnInv'
      BY <2>1, NextCases, OwnPoll, OwnOther DEF SoleInv
    <3> QED BY <2>1, <3>1, NextCases, PollStepsBase, OtherStepsBase, LabelPoll, LabelOther,
                OrderPoll, OrderOther, SeriesNext DEF SoleInv
  <2>2. ASSUME Base, SoleInv, SeriesInv, UNCHANGED vars
        PROVE  Base' /\ SoleInv' /\ SeriesInv'
    <3>1. Base'
      BY <2>2 DEF Base, TypeOK, GateHeld, vars, taskVars, defVars, callVars, endVars
    <3>2. SoleInv'
      BY <2>2 DEF SoleInv, OwnInv, LabelInv, OrderInv, Mine, Present, Alive,
                  vars, taskVars, defVars, callVars, endVars
    <3>3. SeriesInv'
      BY <2>2 DEF SeriesInv, NumberInv, BarInv, Unclaimed, None, TopOf, Present,
                  vars, taskVars, defVars, callVars, endVars
    <3> QED BY <3>1, <3>2, <3>3
  <2> QED BY <2>1, <2>2
<1>3. Init => Promise!AttemptsInit
  BY AttemptsInit
<1>4. Base /\ SoleInv /\ SeriesInv /\ [Next]_vars => [Promise!AttemptsNext]_(Promise!attemptVars)
  <2>1. ASSUME UNCHANGED vars PROVE UNCHANGED Promise!attemptVars
    BY <2>1 DEF Promise!attemptVars, LastOf, Status, Numbers,
                vars, taskVars, defVars, callVars, endVars
  <2> QED BY <2>1, AttemptsStep
<1> QED BY <1>1, <1>2, <1>3, <1>4, PTL DEF Spec, AttemptsSpec, Promise!AttemptsSpec
===============================================================================
