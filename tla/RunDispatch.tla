------------------------------ MODULE RunDispatch ------------------------------
(***************************************************************************)
(* How one ticket of one repository comes to have runs on one server: the  *)
(* poll that routes and claims it (router.go, RunManager.EnsureRun and the *)
(* task system's ownership protocol), restart and cancel by ticket,        *)
(* submission and removal of workflows under the lifecycle gate shared     *)
(* with them, removal of the repository without it, and server starts with *)
(* their retention sweep or, after a lost database, recovery from the task *)
(* system.                                                                 *)
(*                                                                         *)
(* Runs are as the run manager sees them: `active` stands for starting,    *)
(* running, waiting and blocked, and how a run gets from one state to the  *)
(* next is TicketRun's subject.  Jira's form of the ownership protocol is  *)
(* modelled, with an assignee filter.                                      *)
(***************************************************************************)
EXTENDS Naturals, FiniteSets

CONSTANTS
    Workflows, NoWorkflow,
    Us, Others,    \* assignees of this server's filter, and everyone else
    MaxAttempts,   \* bounds: attempts of a run,
    MaxSubmits,    \* workflows submitted,
    MaxEdits,      \* changes made to the ticket by others,
    MaxStarts      \* server starts

ASSUME OwnerAssumption == Us \notin Others /\ NoWorkflow \notin Workflows
ASSUME BoundAssumption ==
    MaxAttempts \in Nat \ {0} /\ {MaxSubmits, MaxEdits, MaxStarts} \subseteq Nat

VARIABLES
    ticket,      \* the parent ticket: open, assignee, wf: claims, owner labels
    marker,      \* workflows with a cancellation comment on the ticket
    runs,        \* relay_runs, by workflow and attempt
    def,         \* stored and registered definition of a workflow, 0 if none
    blocked,     \* workflows isolated at start-up
    bound,       \* workflows with a published binding to the repository
    made,        \* definitions submitted so far
    registered,  \* the repository is in machine config and registry
    gate,        \* who holds the lifecycle mutex
    poll,        \* the poll, or recovery, under way
    rs, cn, sb,  \* restart, cancel, and workflow submission or removal
    rm,          \* repository removal
    up,          \* down, recovering, or serving: pollers and API run
    edits, starts

taskVars == <<ticket, marker>>
defVars  == <<def, blocked, bound, made>>
callVars == <<rs, cn, sb, rm>>
endVars  == <<up, edits, starts>>
vars == <<taskVars, runs, defVars, registered, gate, poll, callVars, endVars>>

Owners   == {Us} \cup Others
Attempts == 1..MaxAttempts
Live     == {"active", "canceling"}
Decided  == {"completed", "canceled"}

\* def: the definition its execution runs, 0 until an execution exists.
NoRun    == [state |-> "absent", def |-> 0, at |-> 0]
Runs     == [state : Live \cup Decided \cup {"absent"}, def : Nat, at : Nat]
Tickets  == [open : BOOLEAN, assignee : Owners, claims : SUBSET Workflows,
             owners : SUBSET (Workflows \X Owners), fits : SUBSET Workflows]
NoTicket == [open |-> FALSE, assignee |-> Us, claims |-> {}, owners |-> {}, fits |-> {}]
IdlePoll == [pc |-> "idle", seen |-> NoTicket, wf |-> NoWorkflow, claimed |-> FALSE,
             def |-> 0, attempt |-> 0]
IdleCall == [pc |-> "idle", wf |-> NoWorkflow, attempt |-> 0]

UngatedPcs == {"validate", "marked", "reset", "gate"}
GatedPcs   == {"owner", "list", "claim", "label", "marker", "start", "create"}

TypeOK ==
    /\ ticket \in Tickets /\ marker \subseteq Workflows
    /\ runs \in [Workflows \X Attempts -> Runs]
    /\ def \in [Workflows -> Nat] /\ blocked \subseteq Workflows
    /\ bound \subseteq Workflows /\ made \in Nat /\ registered \in BOOLEAN
    /\ gate \in {"free", "poll", "restart", "submit"}
    /\ poll \in [pc : {"idle", "route"} \cup UngatedPcs \cup GatedPcs, seen : Tickets,
                 wf : Workflows \cup {NoWorkflow}, claimed : BOOLEAN, def : Nat,
                 attempt : 0..MaxAttempts]
    /\ poll.pc \in GatedPcs <=> gate = "poll"
    /\ poll.pc \notin {"idle", "route"} => poll.wf # NoWorkflow
    /\ poll.pc \in {"start", "create"} => poll.attempt # 0
    /\ {rs, cn, sb} \subseteq [pc : {"idle", "found", "create", "put", "remove"},
                               wf : Workflows \cup {NoWorkflow}, attempt : 0..MaxAttempts]
    /\ rm \in {"idle", "unreferenced", "inactive"}
    /\ up \in {"down", "recovering", "serving"} /\ edits \in Nat /\ starts \in Nat

\* A ticket of ours, also with a claim older than owner labels; one claimed
\* by another server and assigned to us since.
InitTickets ==
    {[open |-> TRUE, assignee |-> Us, claims |-> c, owners |-> o, fits |-> f] :
        c \in {{}} \cup {{w} : w \in Workflows}, o \in SUBSET (Workflows \X Others),
        f \in SUBSET Workflows}

Init ==
    /\ ticket \in {t \in InitTickets : \A p \in t.owners : p[1] \in t.claims}
    /\ marker = {} /\ runs = [id \in Workflows \X Attempts |-> NoRun]
    /\ def \in [Workflows -> {0, 1}] /\ blocked = {} /\ made = 1 /\ registered = TRUE
    /\ bound = {w \in Workflows : def[w] # 0}
    /\ gate = "free" /\ poll = IdlePoll
    /\ rs = IdleCall /\ cn = IdleCall /\ sb = IdleCall /\ rm = "idle"
    /\ up = "serving" /\ edits = 0 /\ starts = 0

-----------------------------------------------------------------------------
(* The projection, and the task system's ownership protocol *)

OnRecord == {id \in DOMAIN runs : runs[id].state # "absent"}
Of(w)    == {id \in OnRecord : id[1] = w}
LiveOf(S) == {id \in S : runs[id].state \in Live}

\* findByTicket, and the scans of ListRuns: no two rows start at a time.
Newest(S) == {id \in S : \A o \in S : runs[o].at <= runs[id].at}

\* The executor's EnsureRun writes the row before it creates the execution.
InsertStart(w, a) ==
    \/ runs[<<w, a>>].state # "absent" /\ UNCHANGED runs
    \/ /\ runs[<<w, a>>].state = "absent"
       /\ \E n \in (IF OnRecord = {} THEN {0} ELSE {runs[id].at : id \in Newest(OnRecord)}) :
             runs' = [runs EXCEPT ![<<w, a>>] = [state |-> "active", def |-> 0, at |-> n + 1]]

CreateInstance(w, a, d) == runs' = [runs EXCEPT ![<<w, a>>].def = d]

\* Every workflow here targets the one repository.
Routable(w) == def[w] # 0 /\ w \notin blocked

MarkersOf(t, w) == {o \in Owners : <<w, o>> \in t.owners}

\* Mutant: the owner label is not looked at.
OwnedByAssignee(t, w) == t.assignee = Us

\* ValidateOwnership on the live ticket, the ownership matcher on a polled one.
Owned(t, w) == t.assignee = Us /\ MarkersOf(t, w) = {Us}

MayClaim(t, w) ==
    /\ t.assignee = Us
    /\ MarkersOf(t, w) \subseteq {Us} /\ \A p \in t.owners : p[1] = w
    /\ t.claims = {} \/ (t.claims = {w} /\ MarkersOf(t, w) = {Us})

\* At most one workflow: several claims or several matches route nowhere.
Routes(t) == {w \in bound : IF t.claims = {} THEN w \in t.fits /\ t.assignee = Us
                           ELSE t.claims = {w} /\ Owned(t, w)}

-----------------------------------------------------------------------------
(* The poll: PollOnce, routing, EnsureRun; recovery runs the same ticket *)
(* through ResetForRecovery first                                         *)

PollFrame == UNCHANGED <<defVars, registered, callVars, edits, starts>>
PollGoes(p, here) == poll.pc = p /\ poll' = [poll EXCEPT !.pc = here]

\* The ticket is done with.  An error is logged by a poll and ends recovery,
\* and with it the server.
PollEnds(after) ==
    /\ poll' = IdlePoll /\ gate' = IF gate = "poll" THEN "free" ELSE gate
    /\ up' = IF up = "recovering" THEN after ELSE up
PollDone  == PollEnds("serving")
PollFails == PollEnds("down")

PollTicket ==
    /\ up = "serving" /\ poll.pc = "idle" /\ registered /\ ticket.open
    /\ poll' = [IdlePoll EXCEPT !.pc = "route", !.seen = ticket]
    /\ UNCHANGED <<taskVars, runs, gate, up>> /\ PollFrame

RecoverTicket ==
    /\ up = "recovering" /\ poll.pc = "idle"
    /\ IF registered /\ ticket.open
       THEN poll' = [IdlePoll EXCEPT !.pc = "route", !.seen = ticket] /\ UNCHANGED up
       ELSE up' = "serving" /\ UNCHANGED poll
    /\ UNCHANGED <<taskVars, runs, gate>> /\ PollFrame

ResolveWorkflow ==
    /\ poll.pc = "route"
    /\ \/ \E w \in Workflows :
             /\ Routes(poll.seen) = {w}
             /\ poll' = [IdlePoll EXCEPT !.wf = w, !.def = def[w],
                            !.claimed = poll.seen.claims # {},
                            !.pc = IF up = "recovering" THEN "validate" ELSE "gate"]
             /\ UNCHANGED <<gate, up>>
       \/ Cardinality(Routes(poll.seen)) # 1 /\ PollDone
    /\ UNCHANGED <<taskVars, runs>> /\ PollFrame

RecoverValidates ==
    /\ IF Owned(ticket, poll.wf) THEN PollGoes("validate", "marked") /\ UNCHANGED <<gate, up>>
       ELSE poll.pc = "validate" /\ PollDone
    /\ UNCHANGED <<taskVars, runs>> /\ PollFrame

RecoverMarked ==
    /\ IF poll.wf \in marker THEN poll.pc = "marked" /\ PollDone
       ELSE PollGoes("marked", "reset") /\ UNCHANGED <<gate, up>>
    /\ UNCHANGED <<taskVars, runs>> /\ PollFrame

\* Terminals closed, mailboxes reset; not visible in this state.
RecoverResets ==
    /\ PollGoes("reset", "gate")
    /\ UNCHANGED <<taskVars, runs, gate, up>> /\ PollFrame

\* Mutant: the run starts with the definition it was routed with.
TakeGateRouted ==
    /\ poll.pc = "gate" /\ gate = "free"
    /\ poll' = [poll EXCEPT !.pc = IF poll.claimed THEN "owner" ELSE "list"]
    /\ gate' = "poll"
    /\ UNCHANGED <<taskVars, runs, up>> /\ PollFrame

TakeGate ==
    /\ poll.pc = "gate" /\ gate = "free"
    /\ IF Routable(poll.wf)
       THEN /\ poll' = [poll EXCEPT !.def = def[poll.wf],
                           !.pc = IF poll.claimed THEN "owner" ELSE "list"]
            /\ gate' = "poll" /\ UNCHANGED up
       ELSE PollFails
    /\ UNCHANGED <<taskVars, runs>> /\ PollFrame

\* EnsureRun under the gate.  The definition is the registry's, not the one
\* the poll was routed with.
CheckOwner ==
    /\ IF Owned(ticket, poll.wf) THEN PollGoes("owner", "list") /\ UNCHANGED <<gate, up>>
       ELSE poll.pc = "owner" /\ PollFails
    /\ UNCHANGED <<taskVars, runs>> /\ PollFrame

ListRuns ==
    LET mine == Of(poll.wf)
        active == {id \in mine : runs[id].state = "active"}
    IN
    /\ poll.pc = "list"
    /\ \/ /\ \E id \in Newest(active) : poll' = [poll EXCEPT !.pc = "start", !.attempt = id[2]]
          /\ UNCHANGED <<gate, up>>
       \/ active = {} /\ mine # {} /\ PollDone
       \/ /\ mine = {}
          /\ poll' = [poll EXCEPT !.pc = IF poll.claimed THEN "marker" ELSE "claim"]
          /\ UNCHANGED <<gate, up>>
    /\ UNCHANGED <<taskVars, runs>> /\ PollFrame

\* ClaimIfOwned reads the ticket, then adds both labels in one request.
ClaimReads ==
    /\ IF MayClaim(ticket, poll.wf) THEN PollGoes("claim", "label") /\ UNCHANGED <<gate, up>>
       ELSE poll.pc = "claim" /\ PollFails
    /\ UNCHANGED <<taskVars, runs>> /\ PollFrame

ClaimLabels ==
    /\ poll.pc = "label"
    /\ ticket' = [ticket EXCEPT !.claims = @ \cup {poll.wf}, !.owners = @ \cup {<<poll.wf, Us>>}]
    /\ poll' = [poll EXCEPT !.pc = "start", !.attempt = 1]
    /\ UNCHANGED <<marker, runs, gate, up>> /\ PollFrame

\* Mutant: the cancellation comment is not looked for.
CheckMarkerNot ==
    /\ poll.pc = "marker" /\ poll' = [poll EXCEPT !.pc = "start", !.attempt = 1]
    /\ UNCHANGED <<taskVars, runs, gate, up>> /\ PollFrame

CheckMarker ==
    /\ poll.pc = "marker"
    /\ IF poll.wf \in marker THEN PollDone
       ELSE poll' = [poll EXCEPT !.pc = "start", !.attempt = 1] /\ UNCHANGED <<gate, up>>
    /\ UNCHANGED <<taskVars, runs>> /\ PollFrame

\* Mutant: a row without an execution is left alone.
StartRunOnce ==
    /\ poll.pc = "start" /\ InsertStart(poll.wf, poll.attempt)
    /\ IF runs[<<poll.wf, poll.attempt>>].state = "absent"
       THEN PollGoes("start", "create") /\ UNCHANGED <<gate, up>>
       ELSE PollDone
    /\ UNCHANGED taskVars /\ PollFrame

StartRun ==
    LET row == runs[<<poll.wf, poll.attempt>>] IN
    /\ poll.pc = "start" /\ InsertStart(poll.wf, poll.attempt)
    /\ IF row.state = "absent" \/ (row.state = "active" /\ row.def = 0)
       THEN PollGoes("start", "create") /\ UNCHANGED <<gate, up>>
       ELSE PollDone
    /\ UNCHANGED taskVars /\ PollFrame

PollCreates ==
    /\ poll.pc = "create" /\ CreateInstance(poll.wf, poll.attempt, poll.def)
    /\ PollDone
    /\ UNCHANGED taskVars /\ PollFrame

\* Any call to the task system, the database or the engine may fail.
PollError ==
    /\ poll.pc # "idle" /\ PollFails
    /\ UNCHANGED <<taskVars, runs>> /\ PollFrame

-----------------------------------------------------------------------------
(* Operators: restart and cancel by ticket, backfill of claim owners *)

\* Mutant: a restart does not wait for the cancellation to finish.
RestartFindsEarly ==
    /\ up = "serving" /\ rs.pc = "idle" /\ gate = "free"
    /\ \E id \in Newest(OnRecord) :
          /\ runs[id].state \in {"canceling", "canceled"}
          /\ rs' = [pc |-> "found", wf |-> id[1], attempt |-> 0]
    /\ gate' = "restart"
    /\ UNCHANGED <<taskVars, runs, defVars, registered, poll, cn, sb, rm, endVars>>

RestartFinds ==
    /\ up = "serving" /\ rs.pc = "idle" /\ gate = "free"
    /\ \E id \in Newest(OnRecord) :
          /\ runs[id].state = "canceled"
          /\ rs' = [pc |-> "found", wf |-> id[1], attempt |-> 0]
    /\ gate' = "restart"
    /\ UNCHANGED <<taskVars, runs, defVars, registered, poll, cn, sb, rm, endVars>>

RestartInserts ==
    LET next == CHOOSE n \in 1..(MaxAttempts + 1) :
                   /\ \A id \in Of(rs.wf) : id[2] < n
                   /\ n = 1 \/ <<rs.wf, n - 1>> \in Of(rs.wf)
    IN
    /\ rs.pc = "found"
    /\ IF registered /\ Routable(rs.wf) /\ next \in Attempts
       THEN /\ InsertStart(rs.wf, next)
            /\ rs' = [rs EXCEPT !.pc = "create", !.attempt = next] /\ UNCHANGED gate
       ELSE rs' = IdleCall /\ gate' = "free" /\ UNCHANGED runs
    /\ UNCHANGED <<taskVars, defVars, registered, poll, cn, sb, rm, endVars>>

\* The gate is held since the definition was looked up.
RestartCreates ==
    /\ rs.pc = "create" /\ CreateInstance(rs.wf, rs.attempt, def[rs.wf])
    /\ rs' = IdleCall /\ gate' = "free"
    /\ UNCHANGED <<taskVars, defVars, registered, poll, cn, sb, rm, endVars>>

\* Without the gate: the run found may be decided before it is canceled.
CancelFinds ==
    /\ up = "serving" /\ cn.pc = "idle"
    /\ \E id \in Newest(OnRecord) : cn' = [pc |-> "found", wf |-> id[1], attempt |-> id[2]]
    /\ UNCHANGED <<taskVars, runs, defVars, registered, gate, poll, rs, sb, rm, endVars>>

CancelRun ==
    /\ cn.pc = "found" /\ cn' = IdleCall
    /\ runs' = [runs EXCEPT ![<<cn.wf, cn.attempt>>].state =
                   IF @ = "active" THEN "canceling" ELSE @]
    /\ UNCHANGED <<taskVars, defVars, registered, gate, poll, rs, sb, rm, endVars>>

BackfillClaimOwner(w) ==
    /\ up = "serving" /\ gate = "free" /\ registered /\ def[w] # 0
    /\ ticket.assignee = Us /\ ticket.claims = {w} /\ MarkersOf(ticket, w) = {}
    /\ ticket' = [ticket EXCEPT !.owners = @ \cup {<<w, Us>>}]
    /\ UNCHANGED <<marker, runs, defVars, registered, gate, poll, callVars, endVars>>

-----------------------------------------------------------------------------
(* Workflows and the repository *)

SubmitFrame == UNCHANGED <<taskVars, runs, registered, poll, rs, cn, rm, endVars>>

\* Submission, and removal of what is stored, while no run of it is live.
SubmitChecks ==
    /\ up = "serving" /\ gate = "free" /\ gate' = "submit"
    /\ \E w \in Workflows :
          /\ LiveOf(Of(w)) = {}
          /\ \/ registered /\ made <= MaxSubmits /\ sb' = [IdleCall EXCEPT !.pc = "put", !.wf = w]
             \/ def[w] # 0 /\ sb' = [IdleCall EXCEPT !.pc = "remove", !.wf = w]
    /\ UNCHANGED defVars /\ SubmitFrame

\* Rebind publishes all routable workflows, and fails when one of them
\* targets a repository that is gone: the pair and registry are restored.
SubmitPuts ==
    /\ sb.pc = "put" /\ sb' = IdleCall /\ gate' = "free"
    /\ IF registered
       THEN /\ def' = [def EXCEPT ![sb.wf] = made + 1] /\ made' = made + 1
            /\ blocked' = blocked \ {sb.wf}
            /\ bound' = {w \in Workflows : def'[w] # 0 /\ w \notin blocked'}
       ELSE UNCHANGED defVars
    /\ SubmitFrame

RemoveDeletes ==
    LET rest == {w \in Workflows : Routable(w)} \ {sb.wf} IN
    /\ sb.pc = "remove" /\ sb' = IdleCall /\ gate' = "free"
    /\ IF registered \/ rest = {}
       THEN /\ def' = [def EXCEPT ![sb.wf] = 0] /\ blocked' = blocked \ {sb.wf}
            /\ bound' = rest /\ UNCHANGED made
       ELSE UNCHANGED defVars
    /\ SubmitFrame

RepoFrame == UNCHANGED <<taskVars, runs, gate, poll, rs, cn, sb, endVars>>

\* repo remove takes no gate: each of its checks is a step of its own.
RepoUnreferenced ==
    /\ up = "serving" /\ rm = "idle" /\ registered
    /\ \A w \in Workflows : def[w] = 0
    /\ rm' = "unreferenced" /\ UNCHANGED <<defVars, registered>> /\ RepoFrame

RepoInactive ==
    /\ rm = "unreferenced" /\ rm' = IF LiveOf(OnRecord) = {} THEN "inactive" ELSE "idle"
    /\ UNCHANGED <<defVars, registered>> /\ RepoFrame

RepoUnregisters ==
    /\ rm = "inactive" /\ rm' = "idle" /\ registered' = FALSE
    /\ UNCHANGED defVars /\ RepoFrame

\* A registration is a new Repo, without bindings until the next Rebind.
RepoRegisters ==
    /\ up = "serving" /\ ~registered /\ registered' = TRUE /\ bound' = {}
    /\ UNCHANGED <<def, blocked, made, rm>> /\ RepoFrame

-----------------------------------------------------------------------------
(* The engine, other people, and server starts *)

RunCompletes ==
    /\ up # "down"
    /\ \E id \in LiveOf(OnRecord), o \in BOOLEAN :
          /\ runs[id].def # 0 /\ o => ticket.open
          /\ runs' = [runs EXCEPT ![id].state = "completed"]
          /\ ticket' = [ticket EXCEPT !.open = o]
    /\ UNCHANGED <<marker, defVars, registered, gate, poll, callVars, endVars>>

\* The cancellation path comments, then confirms.
RunAnnounces ==
    /\ up # "down"
    /\ \E id \in OnRecord : runs[id].state = "canceling" /\ marker' = marker \cup {id[1]}
    /\ UNCHANGED <<ticket, runs, defVars, registered, gate, poll, callVars, endVars>>

RunCanceled ==
    /\ up # "down"
    /\ \E id \in OnRecord :
          /\ runs[id].state = "canceling" /\ id[1] \in marker
          /\ runs' = [runs EXCEPT ![id].state = "canceled"]
    /\ UNCHANGED <<taskVars, defVars, registered, gate, poll, callVars, endVars>>

\* Other people and servers.  A claim of theirs may rest on an old read.
TicketEdited ==
    /\ edits < MaxEdits /\ edits' = edits + 1
    /\ \/ \E o \in Owners : ticket' = [ticket EXCEPT !.assignee = o]
       \/ \E f \in SUBSET Workflows : ticket' = [ticket EXCEPT !.fits = f]
       \/ \E w \in Workflows, o \in Others :
             ticket' = [ticket EXCEPT !.claims = @ \cup {w}, !.owners = @ \cup {<<w, o>>}]
       \/ ticket' = [ticket EXCEPT !.open = ~@]
    /\ ticket' # ticket
    /\ UNCHANGED <<marker, runs, defVars, registered, gate, poll, callVars, up, starts>>

Restarted ==
    /\ starts < MaxStarts /\ starts' = starts + 1
    /\ poll' = IdlePoll /\ gate' = "free"
    /\ rs' = IdleCall /\ cn' = IdleCall /\ sb' = IdleCall /\ rm' = "idle"
    /\ blocked' = IF registered THEN {} ELSE {w \in Workflows : def[w] # 0}
    /\ bound' = {w \in Workflows : def[w] # 0} \ blocked'
    /\ UNCHANGED <<taskVars, def, made, registered, edits>>

\* The sweep takes old decided runs; attempts of a workflow age in order.
StartServer ==
    /\ Restarted /\ up' = "serving"
    /\ \E S \in SUBSET {id \in OnRecord : runs[id].state \in Decided} :
          /\ \A id \in S, o \in OnRecord : o[1] = id[1] /\ o[2] < id[2] => o \in S
          /\ runs' = [id \in DOMAIN runs |-> IF id \in S THEN NoRun ELSE runs[id]]

\* serve --recover sets the database aside.
RecoverServer ==
    /\ Restarted /\ up' = "recovering"
    /\ runs' = [id \in DOMAIN runs |-> NoRun]

-----------------------------------------------------------------------------
Next ==
    \/ PollTicket \/ RecoverTicket \/ ResolveWorkflow \/ RecoverValidates \/ RecoverMarked
    \/ RecoverResets \/ TakeGate \/ CheckOwner \/ ListRuns \/ ClaimReads \/ ClaimLabels
    \/ CheckMarker \/ StartRun \/ PollCreates \/ PollError
    \/ RestartFinds \/ RestartInserts \/ RestartCreates \/ CancelFinds \/ CancelRun
    \/ \E w \in Workflows : BackfillClaimOwner(w)
    \/ SubmitChecks \/ SubmitPuts \/ RemoveDeletes
    \/ RepoUnreferenced \/ RepoInactive \/ RepoUnregisters \/ RepoRegisters
    \/ RunCompletes \/ RunAnnounces \/ RunCanceled
    \/ TicketEdited \/ StartServer \/ RecoverServer

Spec == Init /\ [][Next]_vars

\* Calls fail, but not each time; the mutex starves nobody; who holds it goes
\* on.  Nothing is fair about operators, other people and crashes.
Fairness ==
    /\ WF_vars(PollTicket)
    /\ SF_vars(ResolveWorkflow) /\ SF_vars(TakeGate) /\ SF_vars(CheckOwner)
    /\ SF_vars(ListRuns) /\ SF_vars(CheckMarker) /\ SF_vars(StartRun) /\ SF_vars(PollCreates)
    /\ WF_vars(RestartInserts) /\ WF_vars(RestartCreates)
    /\ WF_vars(SubmitPuts) /\ WF_vars(RemoveDeletes)

FairSpec == Spec /\ Fairness

-----------------------------------------------------------------------------
(* Properties *)

(* One ticket never has two live runs: not through polls racing a restart, *)
(* a restart while the earlier attempt is still canceling, or attempts     *)
(* numbered anew after a sweep or a lost database.                         *)
OneLiveRun == \A a, b \in LiveOf(OnRecord) : a = b

(* A live run executes the stored definition: submission and removal see   *)
(* every run that is being started, and no start uses the definition it    *)
(* was routed with.                                                        *)
LiveRunsMatchDefinition ==
    \A id \in LiveOf(OnRecord) :
        /\ def[id[1]] # 0
        /\ runs[id].def \in {0, def[id[1]]}

(* A run exists only for a workflow that claimed the ticket with this      *)
(* server's owner label, whatever was polled before a reassignment or a    *)
(* claim by another server.                                                *)
RunsOnlyOnOwnClaims ==
    \A id \in OnRecord : id[1] \in ticket.claims /\ <<id[1], Us>> \in ticket.owners

Numbers(w) == {a \in Attempts : runs[<<w, a>>].state # "absent"}
LastOf(w)  == LET N == Numbers(w)
              IN  IF N = {} THEN 0 ELSE CHOOSE a \in N : \A b \in N : b <= a
Status(w)  == LET a == LastOf(w)
              IN  IF a = 0 THEN "none"
                  ELSE LET s == runs[<<w, a>>].state IN IF s \in Live THEN "live" ELSE s

Promise == INSTANCE RunAttempts WITH
    last <- [w \in Workflows |-> LastOf(w)],
    status <- [w \in Workflows |-> Status(w)],
    barred <- marker

(* Polls begin only first attempts, of workflows not canceled on the       *)
(* ticket; operators only the attempt after a canceled one; and a run is   *)
(* never canceled without the comment that bars polls from it.             *)
AttemptsSpec == Promise!AttemptsSpec

\* An open ticket claimed for a bound workflow of ours that still has no
\* execution, and that no cancellation bars.
Owed(w) ==
    /\ up = "serving" /\ registered /\ w \in bound /\ Routable(w)
    /\ ticket.open /\ ticket.claims = {w} /\ Owned(ticket, w)
    /\ \/ Of(w) = {} /\ w \notin marker
       \/ \E id \in Of(w) : runs[id].state = "active" /\ runs[id].def = 0

(* No crash between claim, row and execution loses a ticket: polls finish  *)
(* what was begun as long as the ticket stays as it is.                    *)
ClaimedTicketsRun == \A w \in Workflows : []<>~Owed(w)
=============================================================================
