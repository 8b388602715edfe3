----------------------------- MODULE AgentHarness -----------------------------
(***************************************************************************)
(* The agent's side of a visit: the plugin that runs inside one agent      *)
(* session (src/plugin) reads the assistant's last message whenever the    *)
(* session goes idle, and reports it, corrects it, or asks the human.      *)
(*                                                                         *)
(* Three entry points share index.ts: the OpenCode server plugin           *)
(* (relay-flow.ts), the OpenCode TUI plugin of human-in-the-loop nodes     *)
(* (tui.ts) and the Pi extension (pi.ts).  Every await of an event handler *)
(* ends an action, so handlers of duplicate events interleave; what runs   *)
(* between two awaits is one step.  The human, the agent and the host      *)
(* program are external; the server is reduced to its answers, since what  *)
(* it does with a report is TicketRun's.                                   *)
(*                                                                         *)
(* Left out: sessions the server did not launch (the plugin does nothing   *)
(* there), a Pi without its UI (nobody is asked), and the text of messages  *)
(* and prompts.                                                             *)
(***************************************************************************)
EXTENDS Naturals, Sequences, FiniteSets

CONSTANTS
    MaxMsgs,  \* messages of the assistant
    Scenarios \* the faults that may happen together, each of them once

\* A call of the plugin fails, an attempt to deliver fails, the agent process
\* dies, the host repeats an idle event.
FaultKinds == {"call", "attempt", "death", "echo"}

ASSUME BoundAssumption ==
    MaxMsgs \in Nat \ {0} /\ Scenarios \subseteq SUBSET FaultKinds

VARIABLES
    launch,     \* the environment the agent was launched with
    log,        \* the assistant's messages, as the plugin classifies them
    queue,      \* prompts the agent has not answered yet; 0 when idle
    idles,      \* idle events on their way to the server plugin, or to Pi
    tuiIdles,   \* idle events on their way to the TUI plugin
    reg,        \* registered, and registrationAttempts
    pinned,     \* the session title is set, or being set
    hs,         \* event handlers under way
    handled,    \* handledAssistantIDs, handledAssistantEntries
    correcting, \* inFlightHITLCorrectionIDs
    tuiHandled, \* handledAssistantIDs of the TUI plugin
    dialog,     \* the message the TUI's approval dialog shows, or 0
    needs,      \* needsApproval
    flight,     \* the message inFlight delivers, or 0
    joined,     \* the messages whose callers wait for that delivery
    fixes,      \* correction prompts on their way to OpenCode
    faults,     \* what failed so far
    nudges,     \* ghost: corrections of each message by its shape
    approved,   \* ghost: messages the human approved
    declined,   \* ghost: messages the human turned down
    answered,   \* ghost: messages whose delivery ended
    owed        \* ghost: the server turned a report down, and since then the
                \* human approved none

hostVars   == <<launch, log, queue, idles, tuiIdles>>
regVars    == <<reg, pinned>>
flightVars == <<flight, joined>>
ghostVars  == <<nudges, approved, declined, answered, owed>>
vars == <<hostVars, regVars, hs, handled, correcting, tuiHandled, dialog, needs,
          flightVars, fixes, faults, ghostVars>>

Msgs  == 1..MaxMsgs
Slots == {1, 2}

\* A report the parser takes: its status, and whether the server will take
\* it too.  Anything else: some labels of a report, none, or a turn cut off.
Shapes == {"report", "partial", "plain", "aborted"}
Kinds  == [shape : {"report"}, failure : BOOLEAN, legal : BOOLEAN]
            \cup [shape : Shapes \ {"report"}, failure : {FALSE}, legal : {FALSE}]

\* Pi or OpenCode, the node's type, and its automatic failure route: it is for
\* human-in-the-loop nodes only.
Launches == {l \in [pi : BOOLEAN, hitl : BOOLEAN, auto : BOOLEAN] : l.auto => l.hitl}

Free == [pc |-> "free", idle |-> FALSE, msg |-> 0]

TypeOK ==
    /\ launch \in Launches
    /\ log \in Seq(Kinds) /\ Len(log) <= MaxMsgs
    /\ queue \in 0..MaxMsgs /\ {idles, tuiIdles} \subseteq 0..2
    /\ reg \in {"no", "trying", "yes"} /\ pinned \in BOOLEAN
    /\ hs \in [Slots -> [pc : {"free", "register", "pin", "read", "nudge", "select"},
                         idle : BOOLEAN, msg : {0} \cup Msgs]]
    /\ {handled, correcting, tuiHandled, joined, fixes} \subseteq SUBSET Msgs
    /\ {dialog, flight} \subseteq {0} \cup Msgs
    /\ needs \in BOOLEAN /\ faults \in SUBSET FaultKinds
    /\ nudges \in [Msgs -> 0..2]
    /\ {approved, declined, answered} \subseteq SUBSET Msgs /\ owed \in BOOLEAN
    /\ (flight = 0) = (joined = {})

\* The first prompt is the one on the command line.
Init ==
    /\ launch \in Launches
    /\ log = <<>> /\ queue = 1 /\ idles = 0 /\ tuiIdles = 0
    /\ reg = "no" /\ pinned = FALSE /\ hs = [h \in Slots |-> Free]
    /\ handled = {} /\ correcting = {} /\ tuiHandled = {} /\ dialog = 0
    /\ needs = FALSE /\ flight = 0 /\ joined = {} /\ fixes = {}
    /\ faults = {}
    /\ nudges = [m \in Msgs |-> 0]
    /\ approved = {} /\ declined = {} /\ answered = {} /\ owed = FALSE

-----------------------------------------------------------------------------
(* The session: what the agent, the human and the host program do.          *)

Fault(kind) ==
    /\ kind \notin faults /\ faults \cup {kind} \in Scenarios
    /\ faults' = faults \cup {kind}

Prompted(n) == queue' = IF queue + n > MaxMsgs THEN MaxMsgs ELSE queue + n

\* The agent ends a turn; without further prompts the session goes idle, and
\* the host may say so twice.  A failure differs from a success
\* only where it is routed automatically, a partial report from none at all
\* only for a human.
Write ==
    /\ queue > 0 /\ Len(log) < MaxMsgs
    /\ \E k \in Kinds :
          /\ k.failure => launch.auto
          /\ k.shape = "partial" => launch.hitl
          /\ log' = Append(log, k)
    /\ queue' = queue - 1
    /\ IF queue = 1
       THEN \E n \in {1, 2} :
               /\ IF n = 1 THEN UNCHANGED faults ELSE Fault("echo")
               /\ idles' = n
               /\ tuiIdles' = IF launch.hitl /\ ~launch.pi THEN n ELSE 0
       ELSE UNCHANGED <<idles, tuiIdles, faults>>
    /\ UNCHANGED <<launch, regVars, hs, handled, correcting, tuiHandled, dialog,
                   needs, flightVars, fixes, ghostVars>>

HumanPrompts ==
    /\ Len(log) + queue < MaxMsgs
    /\ Prompted(1)
    /\ UNCHANGED <<launch, log, idles, tuiIdles, regVars, hs, handled, correcting,
                   tuiHandled, dialog, needs, flightVars, fixes, faults,
                   ghostVars>>

\* The agent process dies and the server starts it again on the same session,
\* with a prompt: what the plugin kept in memory is gone.
Relaunch ==
    /\ Fault("death")
    /\ queue' = 1 /\ idles' = 0 /\ tuiIdles' = 0
    /\ reg' = "no" /\ pinned' = FALSE /\ hs' = [h \in Slots |-> Free]
    /\ handled' = {} /\ correcting' = {} /\ tuiHandled' = {} /\ dialog' = 0
    /\ needs' = FALSE /\ flight' = 0 /\ joined' = {} /\ fixes' = {}
    /\ owed' = FALSE
    /\ UNCHANGED <<launch, log, nudges, approved, declined, answered>>

-----------------------------------------------------------------------------
(* index.ts and what the entry points make of it.                           *)

IsReport(m)  == log[m].shape = "report"
Completed(m) == m > 0 /\ log[m].shape # "aborted"
Latest == Len(log)

\* One unacknowledged report per run and node: a later one waits for the
\* delivery under way and is not sent itself.
Deliver(m) ==
    /\ flight' = IF flight = 0 THEN m ELSE flight
    /\ joined' = joined \cup {m}

Automatic(m) == launch.auto /\ log[m].failure /\ ~needs

\* Transport failures and `internalError`: the same report again, later.
AttemptFails ==
    /\ flight # 0 /\ Fault("attempt")
    /\ UNCHANGED <<hostVars, regVars, hs, handled, correcting, tuiHandled, dialog,
                   needs, flightVars, fixes, ghostVars>>

Answers(m) == IF log[m].legal THEN {"ok", "refused"} ELSE {"ok", "refused", "invalid"}

Settle ==
    /\ flight' = 0 /\ joined' = {}
    /\ answered' = answered \cup joined

\* Pi hands the message to the agent itself, for every caller that waits.
PiCorrected == Prompted(Cardinality(joined))

\* Mutant: a rejected automatic report needs no approval.
AnswerForgets ==
    /\ flight # 0
    /\ \E a \in Answers(flight) :
          /\ needs' = needs
          /\ owed' = (owed \/ a = "invalid")
          /\ fixes' = IF a = "invalid" /\ ~launch.pi THEN fixes \cup joined ELSE fixes
          /\ IF a = "invalid" /\ launch.pi THEN PiCorrected ELSE UNCHANGED queue
    /\ Settle
    /\ UNCHANGED <<launch, log, idles, tuiIdles, regVars, hs, handled, correcting,
                   tuiHandled, dialog, faults, nudges, approved, declined>>

\* `invalidReport` goes back to the agent, once for every caller that waits,
\* and a human-in-the-loop session then needs an approval.  An accepted
\* report, or one the server knows already, and any other refusal end here.
Answer ==
    /\ flight # 0
    /\ \E a \in Answers(flight) :
          /\ needs' = (needs \/ (a = "invalid" /\ launch.hitl))
          /\ owed' = (owed \/ a = "invalid")
          /\ fixes' = IF a = "invalid" /\ ~launch.pi THEN fixes \cup joined ELSE fixes
          /\ IF a = "invalid" /\ launch.pi THEN PiCorrected ELSE UNCHANGED queue
    /\ Settle
    /\ UNCHANGED <<launch, log, idles, tuiIdles, regVars, hs, handled, correcting,
                   tuiHandled, dialog, faults, nudges, approved, declined>>

\* session.promptAsync with the server's message: answered or failed.
CorrectionCall(m) ==
    /\ m \in fixes
    /\ fixes' = fixes \ {m}
    /\ \/ Prompted(1) /\ UNCHANGED faults
       \/ Fault("call") /\ UNCHANGED queue
    /\ UNCHANGED <<launch, log, idles, tuiIdles, regVars, hs, handled, correcting,
                   tuiHandled, dialog, needs, flightVars, ghostVars>>

-----------------------------------------------------------------------------
(* Handlers of session events: register the session, pin its title, then   *)
(* look at the last message (OpenCode's server plugin and Pi).              *)

Goto(h, pc, m) == hs' = [hs EXCEPT ![h].pc = pc, ![h].msg = m]
Done(h) == hs' = [hs EXCEPT ![h] = Free]
Vacant(h) == hs[h] = Free /\ \A s \in Slots : s < h => hs[s] # Free

\* Registered, the first OpenCode handler sets the title; what has nothing
\* (more) to set goes on to the messages of an idle session.
Onward(hd, titles) ==
    IF titles THEN [hd EXCEPT !.pc = "pin"]
    ELSE IF hd.idle THEN [hd EXCEPT !.pc = "read"] ELSE Free
Titles == ~launch.pi /\ ~pinned

\* Mutant: a handler that finds a registration under way returns.
EnterOrLeave(h, idle) ==
    /\ Vacant(h)
    /\ LET new == [pc |-> "register", idle |-> idle, msg |-> 0]
       IN  hs' = [hs EXCEPT ![h] = IF reg = "yes" THEN Onward(new, Titles)
                                     ELSE IF reg = "trying" THEN Free ELSE new]
    /\ reg' = IF reg = "yes" THEN "yes" ELSE "trying"
    /\ pinned' = (pinned \/ (reg = "yes" /\ Titles))
    /\ UNCHANGED <<launch, log, queue, tuiIdles, handled, correcting,
                   tuiHandled, dialog, needs, flightVars, fixes, faults, ghostVars>>

\* A handler first registers the session unless that is done; concurrent
\* handlers share one attempt.
Enter(h, idle) ==
    /\ Vacant(h)
    /\ LET new == [pc |-> "register", idle |-> idle, msg |-> 0]
       IN  hs' = [hs EXCEPT ![h] = IF reg = "yes" THEN Onward(new, Titles) ELSE new]
    /\ reg' = IF reg = "yes" THEN "yes" ELSE "trying"
    /\ pinned' = (pinned \/ (reg = "yes" /\ Titles))
    /\ UNCHANGED <<launch, log, queue, tuiIdles, handled, correcting,
                   tuiHandled, dialog, needs, flightVars, fixes, faults, ghostVars>>

Started(h) == log = <<>> /\ reg # "yes" /\ Enter(h, FALSE) /\ UNCHANGED idles
Idle(h) == idles > 0 /\ idles' = idles - 1 /\ Enter(h, TRUE)

\* The handlers that wait for the registration go on, one of them first.
Waiting == {h \in Slots : hs[h].pc = "register"}
Resumed(first, titles) ==
    [h \in Slots |-> IF h \in Waiting THEN Onward(hs[h], titles /\ h = first) ELSE hs[h]]

\* A registration that fails ends OpenCode's handlers, the report they came
\* for with them; Pi's go on.  The next event tries again.
Registered ==
    /\ reg = "trying"
    /\ \/ \E first \in Waiting :
             /\ reg' = "yes" /\ hs' = Resumed(first, Titles)
             /\ pinned' = (pinned \/ Titles) /\ UNCHANGED faults
       \/ /\ Fault("call") /\ reg' = "no" /\ UNCHANGED pinned
          /\ hs' = [h \in Slots |-> IF h \notin Waiting THEN hs[h]
                                    ELSE IF launch.pi THEN Onward(hs[h], FALSE) ELSE Free]
    /\ UNCHANGED <<hostVars, handled, correcting, tuiHandled, dialog, needs,
                   flightVars, fixes, ghostVars>>

\* The title is set by a call to OpenCode.  It counts as set while the call is
\* under way, so an overlapping handler goes on; a failure ends this one only.
Pin(h) ==
    /\ hs[h].pc = "pin"
    /\ \/ /\ IF hs[h].idle THEN Goto(h, "read", 0) ELSE Done(h)
          /\ UNCHANGED <<pinned, faults>>
       \/ Fault("call") /\ pinned' = FALSE /\ Done(h)
    /\ UNCHANGED <<hostVars, reg, handled, correcting, tuiHandled, dialog, needs,
                   flightVars, fixes, ghostVars>>

Nudged(m) == nudges' = [nudges EXCEPT ![m] = IF @ = 2 THEN 2 ELSE @ + 1]

ReadFrame == UNCHANGED <<launch, log, idles, tuiIdles, regVars, tuiHandled, dialog,
                         needs, fixes, approved, declined, answered, owed>>

\* Mutant: corrections under way are not remembered.
ReadUnguarded(h) ==
    /\ hs[h].pc = "read" /\ ~launch.pi
    /\ LET m == Latest
           new == Completed(m) /\ m \notin handled
       IN  \/ /\ new /\ ~launch.hitl /\ IsReport(m)
              /\ handled' = handled \cup {m} /\ Deliver(m) /\ Done(h)
              /\ UNCHANGED <<correcting, faults>>
           \/ /\ new /\ ~launch.hitl /\ ~IsReport(m)
              /\ Goto(h, "nudge", m)
              /\ UNCHANGED <<handled, correcting, flightVars, faults>>
           \/ /\ new /\ launch.hitl /\ log[m].shape = "partial"
              /\ correcting' = correcting \cup {m} /\ Goto(h, "nudge", m)
              /\ UNCHANGED <<handled, flightVars, faults>>
           \/ /\ ~new \/ (launch.hitl /\ log[m].shape # "partial")
              /\ Done(h)
              /\ UNCHANGED <<handled, correcting, flightVars, faults>>
           \/ /\ Fault("call") /\ Done(h)
              /\ UNCHANGED <<handled, correcting, flightVars>>
    /\ UNCHANGED <<queue, nudges>> /\ ReadFrame

\* OpenCode's server plugin got the messages.  A human's reports are the TUI's.
Read(h) ==
    /\ hs[h].pc = "read" /\ ~launch.pi
    /\ LET m == Latest
           new == Completed(m) /\ m \notin handled \cup correcting
       IN  \/ /\ new /\ ~launch.hitl /\ IsReport(m)
              /\ handled' = handled \cup {m} /\ Deliver(m) /\ Done(h)
              /\ UNCHANGED <<correcting, faults>>
           \/ /\ new /\ ~launch.hitl /\ ~IsReport(m)
              /\ Goto(h, "nudge", m)
              /\ UNCHANGED <<handled, correcting, flightVars, faults>>
           \/ /\ new /\ launch.hitl /\ log[m].shape = "partial"
              /\ correcting' = correcting \cup {m} /\ Goto(h, "nudge", m)
              /\ UNCHANGED <<handled, flightVars, faults>>
           \/ /\ ~new \/ (launch.hitl /\ log[m].shape # "partial")
              /\ Done(h)
              /\ UNCHANGED <<handled, correcting, flightVars, faults>>
           \/ /\ Fault("call") /\ Done(h)
              /\ UNCHANGED <<handled, correcting, flightVars>>
    /\ UNCHANGED <<queue, nudges>> /\ ReadFrame

\* The correction prompt was sent, or the call failed and the message stays
\* unhandled for the next event.
NudgeCall(h) ==
    /\ hs[h].pc = "nudge"
    /\ LET m == hs[h].msg
       IN  /\ correcting' = correcting \ {m}
           /\ \/ /\ handled' = handled \cup {m} /\ Prompted(1) /\ Nudged(m)
                 /\ UNCHANGED faults
              \/ Fault("call") /\ UNCHANGED <<handled, queue, nudges>>
    /\ Done(h)
    /\ UNCHANGED flightVars /\ ReadFrame

\* Pi reads and decides at once; only the approval is waited for, and a
\* handler of the same message then waits for the first one's.
PiActive(m) == \E s \in Slots : hs[s].pc = "select" /\ hs[s].msg = m
PiSettled(h) ==
    /\ hs[h].pc = "read" /\ launch.pi
    /\ LET m == Latest
           new == Completed(m) /\ m \notin handled /\ ~PiActive(m)
           nudge == IF launch.hitl THEN log[m].shape = "partial" ELSE ~IsReport(m)
           send == IsReport(m) /\ (~launch.hitl \/ Automatic(m))
           ask == IsReport(m) /\ ~send
       IN  /\ handled' = IF new /\ ~ask THEN handled \cup {m} ELSE handled
           /\ IF new /\ ask THEN Goto(h, "select", m) ELSE Done(h)
           /\ IF new /\ send THEN Deliver(m) ELSE UNCHANGED flightVars
           /\ IF new /\ nudge THEN Prompted(1) /\ Nudged(m)
                              ELSE UNCHANGED <<queue, nudges>>
    /\ UNCHANGED <<correcting, faults>> /\ ReadFrame

\* Mutant: a message is marked handled only when it is delivered.
PiChoiceUnmarked(h) ==
    /\ hs[h].pc = "select"
    /\ LET m == hs[h].msg
       IN  \/ /\ handled' = handled \cup {m} /\ needs' = FALSE /\ owed' = FALSE /\ Deliver(m)
              /\ approved' = approved \cup {m} /\ UNCHANGED declined
           \/ /\ declined' = declined \cup {m}
              /\ UNCHANGED <<handled, needs, owed, flightVars, approved>>
    /\ Done(h)
    /\ UNCHANGED <<hostVars, regVars, correcting, tuiHandled, dialog, fixes, faults,
                   nudges, answered>>

PiChoice(h) ==
    /\ hs[h].pc = "select"
    /\ LET m == hs[h].msg
       IN  /\ handled' = handled \cup {m}
           /\ \/ /\ needs' = FALSE /\ owed' = FALSE /\ Deliver(m)
                 /\ approved' = approved \cup {m} /\ UNCHANGED declined
              \/ /\ declined' = declined \cup {m}
                 /\ UNCHANGED <<needs, owed, flightVars, approved>>
    /\ Done(h)
    /\ UNCHANGED <<hostVars, regVars, correcting, tuiHandled, dialog, fixes, faults,
                   nudges, answered>>

-----------------------------------------------------------------------------
(* The TUI plugin: one synchronous handler and a dialog.                    *)

\* Nothing comes of an event while the terminal shows another session.
TuiIdle ==
    /\ tuiIdles > 0 /\ tuiIdles' = tuiIdles - 1
    /\ \E shown \in BOOLEAN : LET m == Latest
           new == shown /\ queue = 0 /\ Completed(m) /\ m \notin tuiHandled
           send == new /\ IsReport(m) /\ Automatic(m)
           ask == new /\ IsReport(m) /\ ~Automatic(m)
       IN  /\ tuiHandled' = IF new THEN tuiHandled \cup {m} ELSE tuiHandled
           /\ IF send THEN Deliver(m) ELSE UNCHANGED flightVars
           /\ dialog' = IF ask THEN m ELSE dialog
           /\ declined' = IF ask THEN declined \cup ({dialog} \ {0}) ELSE declined
    /\ UNCHANGED <<launch, log, queue, idles, regVars, hs, handled, correcting, needs,
                   fixes, faults, nudges, approved, answered, owed>>

\* Approve, or reject and dismiss; a dialog that is replaced is dismissed.
TuiChoice ==
    /\ dialog # 0 /\ dialog' = 0
    /\ \/ /\ needs' = FALSE /\ owed' = FALSE /\ Deliver(dialog)
          /\ approved' = approved \cup {dialog} /\ UNCHANGED declined
       \/ /\ declined' = declined \cup {dialog}
          /\ UNCHANGED <<needs, owed, flightVars, approved>>
    /\ UNCHANGED <<hostVars, regVars, hs, handled, correcting, tuiHandled, fixes,
                   faults, nudges, answered>>

-----------------------------------------------------------------------------
Handler(h) == Idle(h) \/ Pin(h) \/ Read(h) \/ NudgeCall(h) \/ PiSettled(h)

Next ==
    \/ Write \/ HumanPrompts \/ Relaunch
    \/ AttemptFails \/ Answer \/ \E m \in Msgs : CorrectionCall(m)
    \/ Registered
    \/ \E h \in Slots : Handler(h) \/ Started(h) \/ PiChoice(h)
    \/ TuiIdle \/ TuiChoice

Spec == Init /\ [][Next]_vars

\* The plugin's own calls return, its events arrive and the server answers in
\* the end (TicketRun's liveness is about that); nobody has to write or choose.
FairSpec ==
    /\ Spec
    /\ WF_vars(Answer) /\ WF_vars(Registered) /\ WF_vars(TuiIdle)
    /\ \A h \in Slots : WF_vars(Handler(h))

-----------------------------------------------------------------------------
(* Properties.                                                              *)

\* Only a human's `Approve` of that very message sends a human-in-the-loop
\* report, or the workflow's automatic failure route while no report of this
\* agent process was turned down without an approval since.
HumanGate ==
    [][\A m \in Msgs : launch.hitl /\ flight = 0 /\ flight' = m =>
          \/ m \in approved'
          \/ launch.auto /\ log[m].failure /\ ~owed]_vars

\* What was decided stays decided, whatever events repeat: a message whose
\* delivery ended, or that the human turned down, is never delivered or
\* offered again.
DecidedOnce ==
    [][\A m \in answered \cup declined :
          /\ m \in joined' => m \in joined
          /\ dialog' = m => dialog = m
          /\ \A h \in Slots : hs'[h] # hs[h] => ~(hs'[h].pc = "select" /\ hs'[h].msg = m)]_vars

\* A message in the wrong shape is corrected once, though its idle event comes
\* twice and the handlers overlap.  OpenCode's agent nodes have no guard.
CorrectedOnce ==
    launch.pi \/ launch.hitl => \A m \in Msgs : nudges[m] <= 1

\* An agent that goes idle on a report is heard, if the plugin's own calls do
\* not fail: its delivery ends, behind whatever other delivery it met, unless
\* the agent has spoken or was prompted since.
AgentIsHeard ==
    \A m \in Msgs :
        /\ Latest = m /\ IsReport(m) /\ queue = 0 /\ ~launch.hitl
        ~> m \in answered \/ Latest > m \/ queue > 0 \/ "call" \in faults
===============================================================================
