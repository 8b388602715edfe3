-------------------------- MODULE AgentHarness_proofs --------------------------
(***************************************************************************)
(* The agent's side of a visit, for any number of messages and any faults: *)
(* a message is corrected once, sent only if it may be, and what was       *)
(* decided about it stays decided.                                         *)
(*                                                                         *)
(* The plugin's memory of the messages it has handled dies with the agent  *)
(* process, so the argument is not that a message is remembered: it is     *)
(* remembered, or no event under way will look at it again, because only   *)
(* an idle event does, and that comes with a later message.                *)
(***************************************************************************)
EXTENDS AgentHarness, TLAPS

Said == 1..Len(log)
HandlerStates == [pc : {"free", "register", "pin", "read", "nudge", "select"},
                  idle : BOOLEAN, msg : Nat]
ByTui == launch.hitl /\ ~launch.pi

Shape ==
    /\ launch \in Launches
    /\ log \in Seq(Kinds) /\ Len(log) <= MaxMsgs
    /\ idles \in Nat /\ tuiIdles \in Nat
    /\ hs \in [Slots -> HandlerStates]
    /\ \A h \in Slots : hs[h].pc \in {"read", "nudge", "select"} => hs[h].idle
    /\ \A h \in Slots : hs[h].pc \in {"nudge", "select"} => hs[h].msg \in Said
    /\ \A h \in Slots : /\ hs[h].pc = "nudge" => ~launch.pi
                        /\ hs[h].pc = "select" => launch.pi
    /\ tuiIdles > 0 => ByTui
    /\ nudges \in [Msgs -> 0..2]

(* No event that is under way will look at message m: there is a later one,  *)
(* or nobody comes to look.                                                *)
Quiet == idles = 0 /\ \A h \in Slots : ~hs[h].idle
Passed(m)    == m < Len(log) \/ Quiet
TuiPassed(m) == m < Len(log) \/ tuiIdles = 0

(* A correction under way is remembered, a finished one too, if it matters. *)
CorrectedInv ==
    launch.pi \/ launch.hitl =>
       /\ \A m \in Msgs : nudges[m] # 0 =>
             nudges[m] = 1 /\ m \in Said /\ (m \in handled \/ Passed(m))
       /\ \A h \in Slots : hs[h].pc = "nudge" =>
             hs[h].msg \in correcting /\ nudges[hs[h].msg] = 0
       /\ \A h, g \in Slots :
             hs[h].pc = "nudge" /\ hs[g].pc = "nudge" /\ hs[h].msg = hs[g].msg => h = g

(* What is sent or decided is remembered where it matters, and what is     *)
(* offered is not decided.                                                 *)
Taken == answered \cup declined \cup joined
DecidedInv ==
    /\ \A m \in Taken : m \in Said
    /\ \A m \in Taken : IF ByTui THEN m \in tuiHandled \/ TuiPassed(m)
                                 ELSE m \in handled \/ Passed(m)
    /\ dialog # 0 => ByTui /\ dialog \in Said /\ dialog \in tuiHandled /\ dialog \notin Taken
    /\ \A h \in Slots : hs[h].pc = "select" => hs[h].msg \notin handled \cup Taken
    /\ \A h, g \in Slots :
          hs[h].pc = "select" /\ hs[g].pc = "select" /\ hs[h].msg = hs[g].msg => h = g

(* A report that was turned down asks for an approval. *)
GateInv == needs \in BOOLEAN /\ owed \in BOOLEAN /\ (launch.hitl /\ owed => needs)

HarnessInv == Shape /\ CorrectedInv /\ DecidedInv /\ GateInv

-----------------------------------------------------------------------------
(* What the steps do to the handlers.                                      *)

\* A handler that goes on is at no message yet.
LEMMA OnwardIs ==
    ASSUME NEW hd \in HandlerStates, NEW titles \in BOOLEAN
    PROVE  /\ Onward(hd, titles) \in HandlerStates
           /\ Onward(hd, titles).pc \in {"pin", "read", "free"}
           /\ Onward(hd, titles).idle => hd.idle
           /\ Onward(hd, titles).pc = "read" => Onward(hd, titles).idle
<1> DEFINE atPin == [hd EXCEPT !.pc = "pin"]
           atRead == [hd EXCEPT !.pc = "read"]
<1>1. /\ Free \in HandlerStates /\ Free.pc = "free" /\ Free.idle = FALSE
      /\ atPin \in HandlerStates /\ atPin.pc = "pin" /\ atPin.idle = hd.idle
      /\ atRead \in HandlerStates /\ atRead.pc = "read" /\ atRead.idle = hd.idle
  BY DEF Free, HandlerStates
<1>2. \/ Onward(hd, titles) = atPin \/ Onward(hd, titles) = Free
      \/ hd.idle /\ Onward(hd, titles) = atRead
  BY DEF Onward
<1> HIDE DEF atPin, atRead
<1> QED BY <1>1, <1>2

\* A handler that ends.
LEMMA FreeIs == Free \in HandlerStates /\ Free.pc = "free" /\ ~Free.idle /\ Free.msg = 0
BY DEF Free, HandlerStates

\* The steps before a handler reads the messages leave it at none, and wake
\* nobody but for an idle event.
Unread == UNCHANGED <<launch, log, tuiIdles, handled, correcting, tuiHandled, dialog, needs, flight,
                      joined, nudges, approved, declined, answered, owed>>
EarlySteps(next) ==
    /\ next \in [Slots -> HandlerStates]
    /\ \A h \in Slots :
          next[h] = hs[h] \/ (/\ next[h].pc \in {"free", "register", "pin", "read"}
                              /\ next[h].pc = "read" => next[h].idle)
    /\ Quiet => \A h \in Slots : ~next[h].idle

LEMMA EarlyMoves ==
    ASSUME Shape, NEW h \in Slots, Idle(h) \/ Started(h) \/ Registered \/ Pin(h)
    PROVE  EarlySteps(hs') /\ Unread /\ idles' \in Nat /\ (idles = 0 => idles' = 0)
<1>t. hs \in [Slots -> HandlerStates] /\ idles \in Nat
  BY DEF Shape
<1>1. CASE Registered
  <2> DEFINE next(g, titles) == Onward(hs[g], titles)
  <2>1. PICK first \in Slots \cup {0}, titles \in BOOLEAN :
           /\ hs' = [g \in Slots |-> hs'[g]]
           /\ \A g \in Slots : \/ hs'[g] = hs[g]
                              \/ hs'[g] = next(g, titles /\ g = first)
                              \/ hs'[g] = Free
    <3> DEFINE one == [g \in Slots |-> IF g \notin Waiting THEN hs[g]
                                      ELSE IF launch.pi THEN Onward(hs[g], FALSE) ELSE Free]
    <3>1. CASE \E first \in Waiting : hs' = Resumed(first, Titles)
      <4>1. PICK first \in Slots : hs' = Resumed(first, Titles)
        BY <3>1 DEF Waiting
      <4>2. Titles \in BOOLEAN
        BY DEF Titles
      <4> QED BY <4>1, <4>2 DEF Resumed
    <3>2. CASE hs' = one
      BY <3>2
    <3> QED BY <1>1, <3>1, <3>2 DEF Registered
  <2>4. \A g \in Slots : /\ next(g, titles /\ g = first) \in HandlerStates
                         /\ next(g, titles /\ g = first).pc \in {"pin", "read", "free"}
                         /\ next(g, titles /\ g = first).idle => hs[g].idle
                         /\ next(g, titles /\ g = first).pc = "read"
                               => next(g, titles /\ g = first).idle
    BY <1>t, OnwardIs
  <2> HIDE DEF next
  <2>2. hs' \in [Slots -> HandlerStates]
    <3>1. \A g \in Slots : hs'[g] \in HandlerStates
      BY <1>t, <2>1, <2>4, FreeIs
    <3> QED BY <2>1, <3>1
  <2>3. /\ Unread /\ UNCHANGED idles
    BY <1>1 DEF Registered, hostVars, flightVars, ghostVars, Unread
  <2>5. EarlySteps(hs')
    BY <2>1, <2>2, <2>4, FreeIs DEF EarlySteps, Quiet
  <2> QED BY <1>t, <2>3, <2>5
<1>2. CASE Pin(h)
  <2>1. \/ hs' = [hs EXCEPT ![h] = Free]
        \/ hs[h].idle /\ hs' = [hs EXCEPT ![h].pc = "read", ![h].msg = 0]
    BY <1>2 DEF Pin, Done, Goto
  <2>2. Unread /\ UNCHANGED idles
    BY <1>2 DEF Pin, hostVars, flightVars, ghostVars, Unread
  <2>3. hs' \in [Slots -> HandlerStates]
    BY <1>t, <2>1, FreeIs DEF HandlerStates
  <2>4. EarlySteps(hs')
    BY <1>t, <2>1, <2>3, FreeIs DEF EarlySteps, Quiet, HandlerStates
  <2> QED BY <1>t, <2>2, <2>4
<1>3. ASSUME NEW idle \in BOOLEAN, Enter(h, idle), Quiet => ~idle
      PROVE  EarlySteps(hs') /\ Unread
  <2> DEFINE new == [pc |-> "register", idle |-> idle, msg |-> 0]
  <2>1. new \in HandlerStates /\ new.pc = "register" /\ new.idle = idle
    BY DEF HandlerStates
  <2>2. PICK next \in {new} \cup {Onward(new, titles) : titles \in BOOLEAN} :
           hs' = [hs EXCEPT ![h] = next]
    <3>1. Titles \in BOOLEAN
      BY DEF Titles
    <3>2. hs' = [hs EXCEPT ![h] = new] \/ hs' = [hs EXCEPT ![h] = Onward(new, Titles)]
      BY <1>3 DEF Enter
    <3> HIDE DEF new
    <3> QED BY <3>1, <3>2
  <2> HIDE DEF new
  <2>3. /\ next \in HandlerStates /\ next.pc \in {"free", "register", "pin", "read"}
        /\ next.pc = "read" => next.idle
        /\ next.idle => idle
    BY <2>1, <2>2, OnwardIs
  <2>4. EarlySteps(hs')
    BY <1>3, <1>t, <2>2, <2>3 DEF EarlySteps, Quiet
  <2>5. Unread
    BY <1>3 DEF Enter, flightVars, ghostVars, Unread
  <2> QED BY <2>4, <2>5
<1>4. CASE Idle(h)
  <2>1. idles > 0 /\ idles' = idles - 1 /\ Enter(h, TRUE)
    BY <1>4 DEF Idle
  <2>2. ~Quiet /\ idles' \in Nat /\ idles # 0
    BY <1>t, <2>1 DEF Quiet
  <2> QED BY <1>3, <2>1, <2>2
<1>5. CASE Started(h)
  BY <1>3, <1>5, <1>t DEF Started
<1> QED BY <1>1, <1>2, <1>4, <1>5

-----------------------------------------------------------------------------
(* What holds of the log, the counters and the handlers.                   *)

LEMMA SaidIs ==
    ASSUME Shape
    PROVE  /\ Len(log) \in Nat /\ Said \subseteq Msgs /\ MaxMsgs \in Nat
           /\ Latest > 0 => Latest \in Said
BY BoundAssumption DEF Shape, Said, Msgs, Latest

\* The agent says one thing more.
LEMMA WriteMoves ==
    ASSUME Shape, Write
    PROVE  /\ log' \in Seq(Kinds) /\ Len(log') <= MaxMsgs /\ Len(log') = Len(log) + 1
           /\ Said \subseteq Said' /\ \A m \in Said : m < Len(log')
           /\ idles' \in Nat /\ tuiIdles' \in Nat /\ (tuiIdles' > 0 => ByTui')
           /\ UNCHANGED <<launch, hs, handled, correcting, tuiHandled, dialog, needs, flight, joined,
                          nudges, approved, declined, answered, owed>>
<1>1. PICK k \in Kinds : log' = Append(log, k)
  BY DEF Write
<1>2. log' \in Seq(Kinds) /\ Len(log') = Len(log) + 1 /\ Len(log) \in Nat
  BY <1>1 DEF Shape
<1>3. Len(log') <= MaxMsgs /\ Said \subseteq Said' /\ \A m \in Said : m < Len(log')
  BY <1>2, BoundAssumption DEF Write, Said
<1>4. idles' \in Nat /\ tuiIdles' \in Nat /\ (tuiIdles' > 0 => ByTui')
  BY DEF Write, Shape, ByTui
<1>5. UNCHANGED <<launch, hs, handled, correcting, tuiHandled, dialog, needs, flight, joined, nudges,
                  approved, declined, answered, owed>>
  BY DEF Write, regVars, flightVars, ghostVars
<1> QED BY <1>2, <1>3, <1>4, <1>5

\* Everything the plugin kept is gone.
LEMMA RelaunchMoves ==
    ASSUME Relaunch
    PROVE  /\ idles' = 0 /\ tuiIdles' = 0 /\ hs' = [h \in Slots |-> Free]
           /\ handled' = {} /\ correcting' = {} /\ tuiHandled' = {} /\ dialog' = 0
           /\ needs' = FALSE /\ owed' = FALSE /\ flight' = 0 /\ joined' = {}
           /\ UNCHANGED <<launch, log, nudges, approved, declined, answered>>
BY DEF Relaunch

Settled(h) == hs' = [hs EXCEPT ![h] = Free]

\* One handler looks at the last message.
ReadMoves(h) ==
    /\ hs[h].pc = "read" /\ ~launch.pi
    /\ UNCHANGED <<launch, log, idles, tuiIdles, tuiHandled, dialog, needs, nudges, approved, declined,
                   answered, owed>>
    /\ \/ /\ Latest > 0 /\ Latest \notin handled \cup correcting /\ ~launch.hitl
          /\ handled' = handled \cup {Latest} /\ joined' = joined \cup {Latest}
          /\ Settled(h) /\ UNCHANGED correcting
       \/ /\ Latest > 0 /\ Latest \notin handled \cup correcting
          /\ launch.hitl => correcting' = correcting \cup {Latest}
          /\ ~launch.hitl => UNCHANGED correcting
          /\ hs' = [hs EXCEPT ![h].pc = "nudge", ![h].msg = Latest]
          /\ UNCHANGED <<handled, joined, flight>>
       \/ Settled(h) /\ UNCHANGED <<handled, correcting, joined, flight>>

LEMMA ReadIs == ASSUME NEW h \in Slots, Read(h) PROVE ReadMoves(h)
<1>1. /\ hs[h].pc = "read" /\ ~launch.pi
      /\ UNCHANGED <<launch, log, idles, tuiIdles, tuiHandled, dialog, needs, nudges, approved,
                     declined, answered, owed>>
  BY DEF Read, ReadFrame
<1>2. Completed(Latest) => Latest > 0
  BY DEF Completed
<1> QED BY <1>1, <1>2 DEF Read, ReadMoves, Settled, Done, Goto, Deliver, flightVars

NudgeMoves(h) ==
    /\ hs[h].pc = "nudge" /\ Settled(h)
    /\ UNCHANGED <<launch, log, idles, tuiIdles, tuiHandled, dialog, needs, approved, declined,
                   answered, owed, flight, joined>>
    /\ correcting' = correcting \ {hs[h].msg}
    /\ \/ /\ handled' = handled \cup {hs[h].msg}
          /\ nudges' = [nudges EXCEPT ![hs[h].msg] = IF nudges[hs[h].msg] = 2 THEN 2
                                                    ELSE nudges[hs[h].msg] + 1]
       \/ UNCHANGED <<handled, nudges>>

LEMMA NudgeIs == ASSUME NEW h \in Slots, NudgeCall(h) PROVE NudgeMoves(h)
BY DEF NudgeCall, ReadFrame, NudgeMoves, Settled, Done, Nudged, flightVars

\* Pi looks, and does one of: nothing, correct, send, ask.
PiMoves(h) ==
    /\ hs[h].pc = "read" /\ launch.pi
    /\ UNCHANGED <<launch, log, idles, tuiIdles, tuiHandled, dialog, needs, approved, declined,
                   answered, owed, correcting>>
    /\ \/ Settled(h) /\ UNCHANGED <<handled, nudges, joined, flight>>
       \/ /\ Latest > 0 /\ Latest \notin handled /\ ~PiActive(Latest)
          /\ \/ /\ handled' = handled \cup {Latest} /\ Settled(h)
                /\ \/ UNCHANGED <<nudges, joined, flight>>
                   \/ /\ joined' = joined \cup {Latest} /\ UNCHANGED nudges
                      /\ ~launch.hitl \/ Automatic(Latest)
                      /\ flight' = IF flight = 0 THEN Latest ELSE flight
                   \/ /\ UNCHANGED <<joined, flight>>
                      /\ nudges' = [nudges EXCEPT ![Latest] = IF nudges[Latest] = 2 THEN 2
                                                             ELSE nudges[Latest] + 1]
             \/ /\ UNCHANGED <<handled, nudges, joined, flight>>
                /\ hs' = [hs EXCEPT ![h].pc = "select", ![h].msg = Latest]

LEMMA PiIs == ASSUME NEW h \in Slots, PiSettled(h) PROVE PiMoves(h)
<1>1. /\ hs[h].pc = "read" /\ launch.pi
      /\ UNCHANGED <<launch, log, idles, tuiIdles, tuiHandled, dialog, needs, approved, declined,
                     answered, owed, correcting>>
  BY DEF PiSettled, ReadFrame
<1> DEFINE m == Latest
           new == Completed(m) /\ m \notin handled /\ ~PiActive(m)
           nudge == IF launch.hitl THEN log[m].shape = "partial" ELSE ~IsReport(m)
           send == IsReport(m) /\ (~launch.hitl \/ Automatic(m))
           ask == IsReport(m) /\ ~send
<1>2. /\ handled' = IF new /\ ~ask THEN handled \cup {m} ELSE handled
      /\ IF new /\ ask THEN Goto(h, "select", m) ELSE Done(h)
      /\ IF new /\ send THEN Deliver(m) ELSE UNCHANGED flightVars
      /\ IF new /\ nudge THEN Prompted(1) /\ Nudged(m) ELSE UNCHANGED <<queue, nudges>>
  BY DEF PiSettled
<1>3. ~(nudge /\ IsReport(m)) /\ ~(nudge /\ send)
  BY DEF IsReport
<1>4. Completed(m) => m > 0
  BY DEF Completed
<1>5. send => ~launch.hitl \/ Automatic(m)
  OBVIOUS
<1>6. ask => IsReport(m) /\ ~send
  OBVIOUS
<1> HIDE DEF nudge, send, ask
<1>7. CASE ~new
  BY <1>1, <1>2, <1>7 DEF PiMoves, Settled, Done, flightVars
<1>8. CASE new /\ ask
  BY <1>1, <1>2, <1>3, <1>4, <1>6, <1>8 DEF PiMoves, Goto, flightVars
<1>9. CASE new /\ ~ask
  <2>1. m > 0 /\ m \notin handled /\ ~PiActive(m)
    BY <1>4, <1>9
  <2>2. handled' = handled \cup {m} /\ Settled(h)
    BY <1>2, <1>9 DEF Settled, Done
  <2>3. CASE send
    <3>1. joined' = joined \cup {m} /\ flight' = (IF flight = 0 THEN m ELSE flight) /\ UNCHANGED nudges
      BY <1>2, <1>3, <1>9, <2>3 DEF Deliver
    <3> QED BY <1>1, <1>5, <2>1, <2>2, <2>3, <3>1 DEF PiMoves
  <2>4. CASE ~send /\ nudge
    <3>1. UNCHANGED <<joined, flight>> /\ Nudged(m)
      BY <1>2, <1>9, <2>4 DEF flightVars
    <3> QED BY <1>1, <2>1, <2>2, <3>1 DEF PiMoves, Nudged
  <2>5. CASE ~send /\ ~nudge
    BY <1>1, <1>2, <1>9, <2>1, <2>2, <2>5 DEF PiMoves, flightVars
  <2> QED BY <2>3, <2>4, <2>5
<1> QED BY <1>7, <1>8, <1>9

\* The human answers the question about message m.
ChoiceOf(m) ==
    /\ UNCHANGED <<launch, log, idles, tuiIdles, nudges, answered, correcting>>
    /\ \/ /\ joined' = joined \cup {m} /\ approved' = approved \cup {m}
          /\ flight' = IF flight = 0 THEN m ELSE flight
          /\ needs' = FALSE /\ owed' = FALSE /\ UNCHANGED declined
       \/ /\ declined' = declined \cup {m}
          /\ UNCHANGED <<joined, flight, needs, owed, approved>>

LEMMA PiChoiceIs ==
    ASSUME NEW h \in Slots, PiChoice(h)
    PROVE  /\ hs[h].pc = "select" /\ ChoiceOf(hs[h].msg) /\ Settled(h)
           /\ handled' = handled \cup {hs[h].msg} /\ UNCHANGED <<tuiHandled, dialog>>
BY DEF PiChoice, ChoiceOf, Settled, Done, Deliver, hostVars, flightVars

LEMMA TuiChoiceIs ==
    ASSUME TuiChoice
    PROVE  /\ dialog # 0 /\ dialog' = 0 /\ ChoiceOf(dialog)
           /\ UNCHANGED <<hs, handled, tuiHandled>>
BY DEF TuiChoice, ChoiceOf, Deliver, hostVars, flightVars

\* The terminal looks at the last message, and sends it or offers it.
TuiMoves ==
    /\ tuiIdles > 0 /\ tuiIdles' = tuiIdles - 1
    /\ UNCHANGED <<launch, log, idles, hs, handled, correcting, needs, nudges, approved, answered,
                   owed>>
    /\ \/ UNCHANGED <<tuiHandled, joined, flight, dialog, declined>>
       \/ /\ Latest > 0 /\ Latest \notin tuiHandled /\ tuiHandled' = tuiHandled \cup {Latest}
          /\ \/ UNCHANGED <<joined, flight, dialog, declined>>
             \/ /\ Automatic(Latest) /\ joined' = joined \cup {Latest}
                /\ flight' = IF flight = 0 THEN Latest ELSE flight
                /\ UNCHANGED <<dialog, declined>>
             \/ /\ dialog' = Latest /\ declined' = declined \cup ({dialog} \ {0})
                /\ UNCHANGED <<joined, flight>>

LEMMA TuiIs == ASSUME TuiIdle PROVE TuiMoves
<1>1. /\ tuiIdles > 0 /\ tuiIdles' = tuiIdles - 1
      /\ UNCHANGED <<launch, log, idles, hs, handled, correcting, needs, nudges, approved, answered,
                     owed>>
  BY DEF TuiIdle
<1> DEFINE m == Latest
<1>2. PICK shown \in BOOLEAN :
        LET new == shown /\ queue = 0 /\ Completed(m) /\ m \notin tuiHandled
            send == new /\ IsReport(m) /\ Automatic(m)
            ask == new /\ IsReport(m) /\ ~Automatic(m)
        IN  /\ tuiHandled' = IF new THEN tuiHandled \cup {m} ELSE tuiHandled
            /\ IF send THEN Deliver(m) ELSE UNCHANGED flightVars
            /\ dialog' = IF ask THEN m ELSE dialog
            /\ declined' = IF ask THEN declined \cup ({dialog} \ {0}) ELSE declined
  BY DEF TuiIdle
<1>3. Completed(m) => m > 0
  BY DEF Completed
<1>4. CASE ~(shown /\ queue = 0 /\ Completed(m) /\ m \notin tuiHandled)
  <2>1. UNCHANGED <<tuiHandled, joined, flight, dialog, declined>>
    BY <1>2, <1>4 DEF flightVars
  <2> QED BY <1>1, <2>1 DEF TuiMoves
<1>5. CASE shown /\ queue = 0 /\ Completed(m) /\ m \notin tuiHandled
  <2>1. /\ Latest > 0 /\ Latest \notin tuiHandled /\ tuiHandled' = tuiHandled \cup {Latest}
    BY <1>2, <1>3, <1>5
  <2>2. \/ UNCHANGED <<joined, flight, dialog, declined>>
        \/ /\ Automatic(Latest) /\ joined' = joined \cup {Latest}
           /\ flight' = IF flight = 0 THEN Latest ELSE flight
           /\ UNCHANGED <<dialog, declined>>
        \/ /\ dialog' = Latest /\ declined' = declined \cup ({dialog} \ {0})
           /\ UNCHANGED <<joined, flight>>
    BY <1>2, <1>5 DEF Deliver, flightVars
  <2> QED BY <1>1, <2>1, <2>2 DEF TuiMoves
<1> QED BY <1>4, <1>5

\* The server's answer to a delivery.
AnswerMoves ==
    /\ UNCHANGED <<launch, log, idles, tuiIdles, hs, handled, correcting, tuiHandled, dialog, nudges,
                   approved, declined>>
    /\ flight' = 0 /\ joined' = {} /\ answered' = answered \cup joined
    /\ \/ UNCHANGED <<needs, owed>>
       \/ owed' = TRUE /\ needs' = (needs \/ launch.hitl)

LEMMA AnswerIs == ASSUME GateInv, Answer PROVE AnswerMoves
<1>1. PICK a \in Answers(flight) : /\ needs' = (needs \/ (a = "invalid" /\ launch.hitl))
                                   /\ owed' = (owed \/ a = "invalid")
  BY DEF Answer
<1>2. CASE a = "invalid"
  <2>1. owed' = TRUE /\ needs' = (needs \/ launch.hitl)
    BY <1>1, <1>2, Zenon
  <2> QED BY <2>1 DEF AnswerMoves, Answer, Settle, regVars
<1>3. CASE a # "invalid"
  <2>1. UNCHANGED <<needs, owed>>
    BY <1>1, <1>3 DEF GateInv
  <2> QED BY <2>1 DEF AnswerMoves, Answer, Settle, regVars
<1> QED BY <1>2, <1>3

\* Prompts and calls that concern no message of the log.
AsideMoves == UNCHANGED <<launch, log, idles, tuiIdles, hs, handled, correcting, tuiHandled, dialog,
                          needs, flight, joined, nudges, approved, declined, answered, owed>>

LEMMA AsideIs ==
    ASSUME HumanPrompts \/ AttemptFails \/ (\E m \in Msgs : CorrectionCall(m)) PROVE AsideMoves
<1>1. CASE HumanPrompts
  BY <1>1 DEF HumanPrompts, AsideMoves, regVars, flightVars, ghostVars
<1>2. CASE AttemptFails
  BY <1>2 DEF AttemptFails, AsideMoves, hostVars, regVars, flightVars, ghostVars
<1>3. CASE \E m \in Msgs : CorrectionCall(m)
  BY <1>3 DEF CorrectionCall, AsideMoves, regVars, flightVars, ghostVars
<1> QED BY <1>1, <1>2, <1>3

\* So a step is one of these.
LEMMA Moves ==
    ASSUME HarnessInv, Next
    PROVE  \/ Write \/ Relaunch \/ AsideMoves \/ AnswerMoves \/ TuiMoves
           \/ dialog # 0 /\ dialog' = 0 /\ ChoiceOf(dialog) /\ UNCHANGED <<hs, handled, tuiHandled>>
           \/ EarlySteps(hs') /\ Unread /\ idles' \in Nat /\ (idles = 0 => idles' = 0)
           \/ \E h \in Slots :
                 \/ ReadMoves(h) \/ NudgeMoves(h) \/ PiMoves(h)
                 \/ /\ hs[h].pc = "select" /\ ChoiceOf(hs[h].msg) /\ Settled(h)
                    /\ handled' = handled \cup {hs[h].msg} /\ UNCHANGED <<tuiHandled, dialog>>
<1>1. CASE Registered
  <2>1. 1 \in Slots
    BY DEF Slots
  <2> QED BY <1>1, <2>1, EarlyMoves DEF HarnessInv
<1>2. ASSUME NEW h \in Slots, Handler(h) \/ Started(h) \/ PiChoice(h)
      PROVE  \/ EarlySteps(hs') /\ Unread /\ idles' \in Nat /\ (idles = 0 => idles' = 0)
             \/ ReadMoves(h) \/ NudgeMoves(h) \/ PiMoves(h)
             \/ /\ hs[h].pc = "select" /\ ChoiceOf(hs[h].msg) /\ Settled(h)
                /\ handled' = handled \cup {hs[h].msg} /\ UNCHANGED <<tuiHandled, dialog>>
  <2>1. CASE Idle(h) \/ Pin(h) \/ Started(h)
    BY <2>1, EarlyMoves DEF HarnessInv
  <2>2. CASE Read(h)
    BY <2>2, ReadIs
  <2>3. CASE NudgeCall(h)
    BY <2>3, NudgeIs
  <2>4. CASE PiSettled(h)
    BY <2>4, PiIs
  <2>5. CASE PiChoice(h)
    BY <2>5, PiChoiceIs
  <2> QED BY <1>2, <2>1, <2>2, <2>3, <2>4, <2>5 DEF Handler
<1>3. CASE Answer
  BY <1>3, AnswerIs DEF HarnessInv
<1>4. CASE TuiIdle
  BY <1>4, TuiIs
<1>5. CASE TuiChoice
  BY <1>5, TuiChoiceIs
<1>6. CASE HumanPrompts \/ AttemptFails \/ \E m \in Msgs : CorrectionCall(m)
  BY <1>6, AsideIs
<1> QED BY <1>1, <1>2, <1>3, <1>4, <1>5, <1>6, Zenon DEF Next

-----------------------------------------------------------------------------
(* The invariant, part by part.                                            *)

\* Where one handler ends or goes to message m, the others stay.
LEMMA OneMoves ==
    ASSUME Shape, NEW h \in Slots
    PROVE  /\ Settled(h) => /\ hs' \in [Slots -> HandlerStates] /\ hs'[h].pc = "free"
                            /\ ~hs'[h].idle /\ \A g \in Slots : g # h => hs'[g] = hs[g]
           /\ \A pc \in {"nudge", "select"}, m \in Nat :
                 hs' = [hs EXCEPT ![h].pc = pc, ![h].msg = m] =>
                    /\ hs' \in [Slots -> HandlerStates] /\ hs'[h].pc = pc /\ hs'[h].msg = m
                    /\ hs'[h].idle = hs[h].idle /\ \A g \in Slots : g # h => hs'[g] = hs[g]
<1>t. hs \in [Slots -> HandlerStates]
  BY DEF Shape
<1>1. Settled(h) => /\ hs' \in [Slots -> HandlerStates] /\ hs'[h].pc = "free"
                    /\ ~hs'[h].idle /\ \A g \in Slots : g # h => hs'[g] = hs[g]
  BY <1>t, FreeIs DEF Settled
<1>2. ASSUME NEW pc \in {"nudge", "select"}, NEW m \in Nat,
             hs' = [hs EXCEPT ![h].pc = pc, ![h].msg = m]
      PROVE  /\ hs' \in [Slots -> HandlerStates] /\ hs'[h].pc = pc /\ hs'[h].msg = m
             /\ hs'[h].idle = hs[h].idle /\ \A g \in Slots : g # h => hs'[g] = hs[g]
  BY <1>t, <1>2 DEF HandlerStates
<1> QED BY <1>1, <1>2

\* The part of Shape about the handlers.
HandlersOK(next) ==
    /\ next \in [Slots -> HandlerStates]
    /\ \A h \in Slots : next[h].pc \in {"read", "nudge", "select"} => next[h].idle
    /\ \A h \in Slots : next[h].pc \in {"nudge", "select"} => next[h].msg \in Said
    /\ \A h \in Slots : /\ next[h].pc = "nudge" => ~launch.pi
                        /\ next[h].pc = "select" => launch.pi

LEMMA HandlersStay ==
    ASSUME HarnessInv, Next, ~Write, ~Relaunch
    PROVE  /\ UNCHANGED <<launch, log>> /\ HandlersOK(hs') /\ (Quiet => Quiet')
           /\ idles' \in Nat /\ tuiIdles' \in Nat /\ (tuiIdles' > 0 => ByTui)
           /\ tuiIdles = 0 => tuiIdles' = 0
<1>t. /\ Shape /\ HandlersOK(hs) /\ idles \in Nat /\ tuiIdles \in Nat /\ (tuiIdles > 0 => ByTui)
  BY DEF HarnessInv, Shape, HandlersOK
<1>n. Said \subseteq Nat /\ (Latest > 0 => Latest \in Said)
  BY <1>t, SaidIs DEF Said
<1>s. ASSUME NEW h \in Slots, Settled(h) PROVE HandlersOK(hs') /\ (Quiet /\ idles' = 0 => Quiet')
  <2>1. /\ hs' \in [Slots -> HandlerStates] /\ hs'[h].pc = "free"
        /\ ~hs'[h].idle /\ \A g \in Slots : g # h => hs'[g] = hs[g]
    BY <1>s, <1>t, OneMoves
  <2> QED BY <1>t, <2>1 DEF HandlersOK, Quiet
<1>m. ASSUME NEW h \in Slots, hs[h].pc = "read", Latest > 0, NEW pc \in {"nudge", "select"},
             pc = "nudge" <=> ~launch.pi,
             hs' = [hs EXCEPT ![h].pc = pc, ![h].msg = Latest]
      PROVE  HandlersOK(hs') /\ (Quiet /\ idles' = 0 => Quiet')
  <2>1. /\ hs' \in [Slots -> HandlerStates] /\ hs'[h].pc = pc /\ hs'[h].msg = Latest
        /\ hs'[h].idle = hs[h].idle /\ \A g \in Slots : g # h => hs'[g] = hs[g]
    BY <1>m, <1>n, <1>t, OneMoves
  <2>2. hs[h].idle /\ Latest \in Said
    BY <1>m, <1>n, <1>t DEF HandlersOK
  <2> QED BY <1>m, <1>t, <2>1, <2>2 DEF HandlersOK, Quiet
<1>1. CASE AsideMoves \/ AnswerMoves
  BY <1>1, <1>t DEF AsideMoves, AnswerMoves, HandlersOK, Quiet
<1>2. CASE TuiMoves
  BY <1>2, <1>t DEF TuiMoves, HandlersOK, Quiet
<1>3. CASE ChoiceOf(dialog) /\ UNCHANGED hs
  BY <1>3, <1>t DEF ChoiceOf, HandlersOK, Quiet
<1>4. CASE EarlySteps(hs') /\ Unread /\ idles' \in Nat /\ (idles = 0 => idles' = 0)
  BY <1>4, <1>t DEF EarlySteps, Unread, HandlersOK, Quiet
<1>5. ASSUME NEW h \in Slots, ReadMoves(h)
      PROVE  /\ UNCHANGED <<launch, log>> /\ HandlersOK(hs') /\ (Quiet => Quiet')
             /\ UNCHANGED <<idles, tuiIdles>>
  <2>1. UNCHANGED <<launch, log, idles, tuiIdles>> /\ ~launch.pi /\ hs[h].pc = "read"
    BY <1>5 DEF ReadMoves
  <2>2. CASE Settled(h)
    BY <1>s, <2>1, <2>2 DEF Quiet
  <2>3. CASE Latest > 0 /\ hs' = [hs EXCEPT ![h].pc = "nudge", ![h].msg = Latest]
    BY <1>m, <2>1, <2>3 DEF Quiet
  <2> QED BY <1>5, <2>2, <2>3 DEF ReadMoves
<1>6. ASSUME NEW h \in Slots, PiMoves(h)
      PROVE  /\ UNCHANGED <<launch, log>> /\ HandlersOK(hs') /\ (Quiet => Quiet')
             /\ UNCHANGED <<idles, tuiIdles>>
  <2>1. UNCHANGED <<launch, log, idles, tuiIdles>> /\ launch.pi /\ hs[h].pc = "read"
    BY <1>6 DEF PiMoves
  <2>2. CASE Settled(h)
    BY <1>s, <2>1, <2>2 DEF Quiet
  <2>3. CASE Latest > 0 /\ hs' = [hs EXCEPT ![h].pc = "select", ![h].msg = Latest]
    BY <1>m, <2>1, <2>3 DEF Quiet
  <2> QED BY <1>6, <2>2, <2>3 DEF PiMoves
<1>7. ASSUME NEW h \in Slots, NudgeMoves(h) \/ (ChoiceOf(hs[h].msg) /\ Settled(h))
      PROVE  /\ UNCHANGED <<launch, log>> /\ HandlersOK(hs') /\ (Quiet => Quiet')
             /\ UNCHANGED <<idles, tuiIdles>>
  <2>1. UNCHANGED <<launch, log, idles, tuiIdles>> /\ Settled(h)
    BY <1>7 DEF NudgeMoves, ChoiceOf
  <2> QED BY <1>s, <2>1 DEF Quiet
<1> QED BY <1>1, <1>2, <1>3, <1>4, <1>5, <1>6, <1>7, <1>t, Moves

LEMMA NudgesStay ==
    ASSUME HarnessInv, Next PROVE nudges' \in [Msgs -> 0..2]
<1>t. nudges \in [Msgs -> 0..2]
  BY DEF HarnessInv, Shape
<1>1. ASSUME NEW m, nudges' = [nudges EXCEPT ![m] = IF nudges[m] = 2 THEN 2 ELSE nudges[m] + 1]
      PROVE  nudges' \in [Msgs -> 0..2]
  <2>1. CASE m \in Msgs
    BY <1>1, <1>t, <2>1
  <2>2. CASE m \notin Msgs
    BY <1>1, <1>t, <2>2
  <2> QED BY <2>1, <2>2
<1>2. CASE UNCHANGED nudges
  BY <1>2, <1>t
<1>3. CASE Write \/ Relaunch
  BY <1>2, <1>3, WriteMoves, RelaunchMoves DEF HarnessInv
<1>4. ASSUME NEW h \in Slots, ReadMoves(h) \/ NudgeMoves(h) \/ PiMoves(h)
      PROVE  nudges' \in [Msgs -> 0..2]
  <2>1. \/ UNCHANGED nudges
        \/ \E m : nudges' = [nudges EXCEPT ![m] = IF nudges[m] = 2 THEN 2 ELSE nudges[m] + 1]
    BY <1>4 DEF ReadMoves, NudgeMoves, PiMoves
  <2> QED BY <1>1, <1>2, <2>1
<1>5. CASE AsideMoves \/ AnswerMoves \/ TuiMoves \/ (\E m : ChoiceOf(m)) \/ Unread
  BY <1>2, <1>5 DEF AsideMoves, AnswerMoves, TuiMoves, ChoiceOf, Unread
<1> QED BY <1>3, <1>4, <1>5, Moves

LEMMA ShapeNext == ASSUME HarnessInv, Next PROVE Shape'
<1>t. Shape /\ nudges' \in [Msgs -> 0..2]
  BY NudgesStay DEF HarnessInv
<1>1. CASE Write
  <2>1. \A h \in Slots : hs'[h] = hs[h]
    BY <1>1, <1>t, WriteMoves
  <2> QED BY <1>1, <1>t, <2>1, WriteMoves DEF Shape
<1>2. CASE Relaunch
  <2>1. hs' \in [Slots -> HandlerStates] /\ \A h \in Slots : hs'[h].pc = "free"
    BY <1>2, RelaunchMoves, FreeIs
  <2> QED BY <1>2, <1>t, <2>1, RelaunchMoves DEF Shape
<1>3. CASE ~Write /\ ~Relaunch
  BY <1>3, <1>t, HandlersStay DEF Shape, HandlersOK, ByTui, Said
<1> QED BY <1>1, <1>2, <1>3

\* A step that leaves the corrections alone, and the messages they concern.
LEMMA CorrectionsRest ==
    ASSUME CorrectedInv, UNCHANGED <<launch, nudges, correcting>>,
           Said \subseteq Said', handled \subseteq handled',
           \A m \in Said : Passed(m) => Passed(m)',
           \A h \in Slots : hs'[h] = hs[h] \/ hs'[h].pc # "nudge"
    PROVE  CorrectedInv'
BY DEF CorrectedInv

LEMMA CorrectedNext == ASSUME HarnessInv, Next PROVE CorrectedInv'
<1> SUFFICES ASSUME launch.pi \/ launch.hitl PROVE CorrectedInv'
  <2>1. UNCHANGED launch
    BY WriteMoves, RelaunchMoves, HandlersStay DEF HarnessInv
  <2> QED BY <2>1 DEF CorrectedInv
<1>t. Shape /\ CorrectedInv /\ hs \in [Slots -> HandlerStates] /\ nudges \in [Msgs -> 0..2]
  BY DEF HarnessInv, Shape
<1>n. Said \subseteq Nat /\ Said \subseteq Msgs /\ Len(log) \in Nat /\ (Latest > 0 => Latest \in Said)
  BY <1>t, SaidIs DEF Said
<1>1. CASE Write
  <2>1. /\ UNCHANGED <<launch, nudges, correcting, handled, hs>> /\ Said \subseteq Said'
        /\ \A m \in Said : m < Len(log')
    BY <1>1, <1>t, WriteMoves
  <2> QED BY <1>t, <2>1, CorrectionsRest DEF Passed
<1>2. CASE Relaunch
  <2>1. /\ UNCHANGED <<launch, log, nudges>> /\ idles' = 0
        /\ \A h \in Slots : hs'[h].pc = "free" /\ ~hs'[h].idle
    BY <1>2, RelaunchMoves, FreeIs
  <2>2. Quiet'
    BY <2>1 DEF Quiet
  <2> QED BY <1>t, <2>1, <2>2 DEF CorrectedInv, Passed, Said
<1>3. CASE ~Write /\ ~Relaunch
  <2>0. UNCHANGED <<launch, log>> /\ (Quiet => Quiet') /\ Said' = Said
    BY <1>3, HandlersStay DEF Said
  <2>p. \A m \in Said : Passed(m) => Passed(m)'
    BY <2>0 DEF Passed
  <2>r. ASSUME UNCHANGED <<nudges, correcting>>, handled \subseteq handled',
               \A h \in Slots : hs'[h] = hs[h] \/ hs'[h].pc # "nudge"
        PROVE  CorrectedInv'
    BY <1>t, <2>0, <2>p, <2>r, CorrectionsRest
  <2>1. CASE AsideMoves \/ AnswerMoves \/ TuiMoves
    BY <2>1, <2>r DEF AsideMoves, AnswerMoves, TuiMoves
  <2>2. CASE ChoiceOf(dialog) /\ UNCHANGED <<hs, handled>>
    BY <2>2, <2>r DEF ChoiceOf
  <2>3. CASE EarlySteps(hs') /\ Unread
    BY <2>3, <2>r DEF EarlySteps, Unread
  <2>4. ASSUME NEW h \in Slots, hs[h].pc = "select", ChoiceOf(hs[h].msg), Settled(h),
               handled' = handled \cup {hs[h].msg}
        PROVE  CorrectedInv'
    BY <1>t, <2>4, <2>r, OneMoves DEF ChoiceOf
  <2>5. ASSUME NEW h \in Slots, ReadMoves(h) PROVE CorrectedInv'
    <3>0. launch.hitl /\ ~launch.pi /\ UNCHANGED nudges /\ hs[h].pc = "read" /\ hs[h].idle
      BY <1>t, <2>5 DEF ReadMoves, Shape
    <3>1. CASE Settled(h) /\ UNCHANGED <<handled, correcting>>
      BY <1>t, <2>r, <3>0, <3>1, OneMoves
    <3>2. CASE /\ Latest > 0 /\ Latest \notin handled \cup correcting
               /\ correcting' = correcting \cup {Latest} /\ UNCHANGED handled
               /\ hs' = [hs EXCEPT ![h].pc = "nudge", ![h].msg = Latest]
      <4>1. /\ hs'[h].pc = "nudge" /\ hs'[h].msg = Latest
            /\ \A g \in Slots : g # h => hs'[g] = hs[g]
        BY <1>n, <1>t, <3>2, OneMoves
      <4>2. Latest \in Said /\ ~Passed(Latest)
        BY <1>n, <3>0, <3>2 DEF Passed, Quiet, Latest
      <4>3. nudges[Latest] = 0
        BY <1>n, <1>t, <3>0, <3>2, <4>2 DEF CorrectedInv
      <4> QED BY <1>t, <2>0, <2>p, <3>0, <3>2, <4>1, <4>2, <4>3 DEF CorrectedInv
    <3> QED BY <2>5, <3>0, <3>1, <3>2 DEF ReadMoves
  <2>6. ASSUME NEW h \in Slots, NudgeMoves(h) PROVE CorrectedInv'
    <3> DEFINE m == hs[h].msg
    <3>0. /\ hs[h].pc = "nudge" /\ m \in Said /\ m \in Msgs /\ nudges[m] = 0
          /\ correcting' = correcting \ {m}
      BY <1>n, <1>t, <2>6 DEF NudgeMoves, Shape, CorrectedInv
    <3>1. hs'[h].pc = "free" /\ \A g \in Slots : g # h => hs'[g] = hs[g]
      BY <1>t, <2>6, OneMoves DEF NudgeMoves
    <3>2. \A g \in Slots : hs'[g].pc = "nudge" => hs'[g] = hs[g] /\ hs[g].msg # m
      BY <1>t, <3>0, <3>1 DEF CorrectedInv
    <3> HIDE DEF m
    <3>3. \/ nudges' = nudges /\ handled' = handled
          \/ /\ handled' = handled \cup {m} /\ nudges'[m] = 1
             /\ \A k \in Msgs : k # m => nudges'[k] = nudges[k]
      BY <1>t, <2>6, <3>0 DEF NudgeMoves, m
    <3>4. \A k \in Msgs : nudges'[k] # 0 =>
             nudges'[k] = 1 /\ k \in Said' /\ (k \in handled' \/ Passed(k)')
      BY <1>t, <2>0, <2>p, <3>0, <3>3 DEF CorrectedInv
    <3>5. \A g \in Slots : hs'[g].pc = "nudge" =>
             hs'[g].msg \in correcting' /\ nudges'[hs'[g].msg] = 0
      <4> SUFFICES ASSUME NEW g \in Slots, hs'[g].pc = "nudge"
                   PROVE  hs[g].msg \in correcting' /\ nudges'[hs[g].msg] = 0
        BY <3>2
      <4>1. hs[g].pc = "nudge" /\ hs[g].msg # m /\ hs[g].msg \in Msgs
        BY <1>n, <1>t, <3>2 DEF Shape
      <4>2. hs[g].msg \in correcting /\ nudges[hs[g].msg] = 0
        BY <1>t, <4>1 DEF CorrectedInv
      <4> QED BY <3>0, <3>3, <4>1, <4>2
    <3>6. \A f, g \in Slots :
             hs'[f].pc = "nudge" /\ hs'[g].pc = "nudge" /\ hs'[f].msg = hs'[g].msg => f = g
      BY <1>t, <3>2 DEF CorrectedInv
    <3> QED BY <3>4, <3>5, <3>6 DEF CorrectedInv
  <2>7. ASSUME NEW h \in Slots, PiMoves(h) PROVE CorrectedInv'
    <3>0. /\ launch.pi /\ UNCHANGED correcting /\ hs[h].pc = "read" /\ hs[h].idle
          /\ \A g \in Slots : hs[g].pc # "nudge"
      BY <1>t, <2>7 DEF PiMoves, Shape
    <3>1. \A g \in Slots : hs'[g].pc # "nudge"
      <4>1. CASE Settled(h)
        BY <1>t, <3>0, <4>1, OneMoves
      <4>2. CASE Latest > 0 /\ hs' = [hs EXCEPT ![h].pc = "select", ![h].msg = Latest]
        BY <1>n, <1>t, <3>0, <4>2, OneMoves
      <4> QED BY <2>7, <4>1, <4>2 DEF PiMoves
    <3>2. CASE UNCHANGED nudges
      <4>1. handled \subseteq handled'
        BY <2>7 DEF PiMoves
      <4> QED BY <2>r, <3>0, <3>1, <3>2, <4>1
    <3>3. CASE /\ Latest > 0 /\ Latest \notin handled /\ handled' = handled \cup {Latest}
               /\ nudges' = [nudges EXCEPT ![Latest] = IF nudges[Latest] = 2 THEN 2
                                                      ELSE nudges[Latest] + 1]
      <4>1. Latest \in Said /\ ~Passed(Latest) /\ Latest \in Msgs
        BY <1>n, <3>0, <3>3 DEF Passed, Quiet, Latest
      <4>2. nudges[Latest] = 0
        BY <1>t, <3>0, <3>3, <4>1 DEF CorrectedInv
      <4>3. nudges'[Latest] = 1 /\ \A k \in Msgs : k # Latest => nudges'[k] = nudges[k]
        BY <1>t, <3>3, <4>1, <4>2
      <4> QED BY <1>t, <2>0, <2>p, <3>0, <3>1, <3>3, <4>1, <4>3 DEF CorrectedInv
    <3> QED BY <2>7, <3>2, <3>3 DEF PiMoves
  <2> QED BY <1>3, <2>1, <2>2, <2>3, <2>4, <2>5, <2>6, <2>7, Moves
<1> QED BY <1>1, <1>2, <1>3

\* A step that takes no message, offers none, and forgets none.
LEMMA DecisionsRest ==
    ASSUME DecidedInv, UNCHANGED <<launch, dialog>>, Taken' = Taken,
           Said \subseteq Said', tuiHandled \subseteq tuiHandled', handled' = handled,
           \A m \in Said : (Passed(m) => Passed(m)') /\ (TuiPassed(m) => TuiPassed(m)'),
           \A h \in Slots : hs'[h] = hs[h] \/ hs'[h].pc # "select"
    PROVE  DecidedInv'
BY DEF DecidedInv, ByTui

\* A step keeps what was decided.
DecidedStep ==
    \A m \in answered \cup declined :
       /\ m \in joined' => m \in joined
       /\ dialog' = m => dialog = m
       /\ \A h \in Slots : hs'[h] # hs[h] => ~(hs'[h].pc = "select" /\ hs'[h].msg = m)

LEMMA DecidedNext == ASSUME HarnessInv, Next PROVE DecidedInv' /\ DecidedStep
<1>t. Shape /\ DecidedInv /\ hs \in [Slots -> HandlerStates]
  BY DEF HarnessInv, Shape
<1>n. Said \subseteq Nat /\ 0 \notin Said /\ Len(log) \in Nat /\ (Latest > 0 => Latest \in Said)
  BY <1>t, SaidIs DEF Said
<1>d. \A m \in Taken : m \in Said
  BY <1>t DEF DecidedInv
<1>1. CASE Write
  <2>1. /\ UNCHANGED <<launch, dialog, hs, handled, tuiHandled, answered, declined, joined>>
        /\ Said \subseteq Said' /\ \A m \in Said : m < Len(log')
    BY <1>1, <1>t, WriteMoves
  <2> QED BY <1>t, <2>1, DecisionsRest DEF Passed, TuiPassed, Taken, DecidedStep
<1>2. CASE Relaunch
  <2>1. /\ UNCHANGED <<launch, log, answered, declined>> /\ idles' = 0 /\ tuiIdles' = 0
        /\ joined' = {} /\ dialog' = 0 /\ \A h \in Slots : hs'[h].pc = "free" /\ ~hs'[h].idle
    BY <1>2, RelaunchMoves, FreeIs
  <2>2. Taken' \subseteq Taken /\ Said' = Said /\ \A m : Passed(m)' /\ TuiPassed(m)'
    BY <2>1 DEF Taken, Said, Passed, TuiPassed, Quiet
  <2>3. DecidedInv'
    BY <1>d, <2>1, <2>2 DEF DecidedInv
  <2> QED BY <1>d, <1>n, <2>1, <2>3 DEF DecidedStep, Taken
<1>3. CASE ~Write /\ ~Relaunch
  <2>0. UNCHANGED <<launch, log>> /\ (Quiet => Quiet') /\ Said' = Said /\ (ByTui' <=> ByTui)
    BY <1>3, HandlersStay DEF Said, ByTui
  <2>p. \A m : (Passed(m) => Passed(m)') /\ (TuiPassed(m) => TuiPassed(m)')
    BY <1>3, <2>0, HandlersStay DEF Passed, TuiPassed
  <2>r. ASSUME UNCHANGED <<dialog, handled>>, Taken' = Taken, tuiHandled \subseteq tuiHandled',
               \A h \in Slots : hs'[h] = hs[h] \/ hs'[h].pc # "select"
        PROVE  DecidedInv'
    BY <1>t, <2>0, <2>p, <2>r, DecisionsRest
  <2>1. CASE AsideMoves \/ (EarlySteps(hs') /\ Unread)
    <3>1. /\ UNCHANGED <<dialog, handled, tuiHandled, joined>> /\ Taken' = Taken
          /\ \A h \in Slots : hs'[h] = hs[h] \/ hs'[h].pc # "select"
      BY <2>1 DEF AsideMoves, EarlySteps, Unread, Taken
    <3> QED BY <2>r, <3>1 DEF DecidedStep
  <2>2. CASE AnswerMoves
    <3>1. /\ UNCHANGED <<dialog, handled, tuiHandled, hs>> /\ joined' = {} /\ Taken' = Taken
      BY <2>2 DEF AnswerMoves, Taken
    <3> QED BY <2>r, <3>1 DEF DecidedStep
  <2>3. ASSUME NEW h \in Slots, NudgeMoves(h) PROVE DecidedInv' /\ DecidedStep
    <3>1. /\ UNCHANGED <<dialog, tuiHandled, joined>> /\ Taken' = Taken /\ handled \subseteq handled'
      BY <2>3 DEF NudgeMoves, Taken
    <3>2. \A g \in Slots : hs[g].pc # "select" /\ hs'[g].pc # "select"
      BY <1>t, <2>3, OneMoves DEF NudgeMoves, Shape
    <3>3. DecidedInv'
      BY <1>t, <2>0, <2>p, <3>1, <3>2 DEF DecidedInv
    <3> QED BY <3>1, <3>2, <3>3 DEF DecidedStep
  <2>4. ASSUME NEW h \in Slots, ReadMoves(h) PROVE DecidedInv' /\ DecidedStep
    <3>0. /\ ~launch.pi /\ hs[h].pc = "read" /\ hs[h].idle /\ ~Quiet
          /\ UNCHANGED <<dialog, tuiHandled, answered, declined>>
      BY <1>t, <2>4 DEF ReadMoves, Shape, Quiet
    <3>1. \A g \in Slots : hs[g].pc # "select" /\ hs'[g].pc # "select"
      <4>1. CASE Settled(h)
        BY <1>t, <3>0, <4>1, OneMoves DEF Shape
      <4>2. CASE Latest > 0 /\ hs' = [hs EXCEPT ![h].pc = "nudge", ![h].msg = Latest]
        BY <1>n, <1>t, <3>0, <4>2, OneMoves DEF Shape
      <4> QED BY <2>4, <4>1, <4>2 DEF ReadMoves
    <3>2. CASE UNCHANGED <<handled, joined>>
      <4>1. Taken' = Taken
        BY <3>0, <3>2 DEF Taken
      <4> QED BY <2>r, <3>0, <3>1, <3>2, <4>1 DEF DecidedStep
    <3>3. CASE /\ Latest > 0 /\ Latest \notin handled /\ ~launch.hitl
               /\ handled' = handled \cup {Latest} /\ joined' = joined \cup {Latest}
      <4>1. Taken' = Taken \cup {Latest} /\ ~ByTui /\ dialog = 0
        BY <1>t, <3>0, <3>3 DEF Taken, ByTui, DecidedInv
      <4>2. Latest \notin Taken
        BY <1>n, <1>t, <3>0, <3>3, <4>1 DEF DecidedInv, Passed, Latest
      <4>3. DecidedInv'
        BY <1>n, <1>t, <2>0, <2>p, <3>0, <3>1, <3>3, <4>1 DEF DecidedInv
      <4> QED BY <3>0, <3>1, <3>3, <4>2, <4>3 DEF DecidedStep, Taken
    <3> QED BY <2>4, <3>2, <3>3 DEF ReadMoves
  <2>5. ASSUME NEW h \in Slots, PiMoves(h) PROVE DecidedInv' /\ DecidedStep
    <3>0. /\ launch.pi /\ ~ByTui /\ dialog = 0 /\ hs[h].pc = "read" /\ hs[h].idle /\ ~Quiet
          /\ UNCHANGED <<dialog, tuiHandled, answered, declined>>
      BY <1>t, <2>5 DEF PiMoves, Shape, Quiet, ByTui, DecidedInv
    <3>1. CASE Settled(h) /\ UNCHANGED <<handled, joined>>
      <4>1. \A g \in Slots : hs'[g] = hs[g] \/ hs'[g].pc # "select"
        BY <1>t, <3>1, OneMoves
      <4>2. Taken' = Taken
        BY <3>0, <3>1 DEF Taken
      <4> QED BY <2>r, <3>0, <3>1, <4>1, <4>2 DEF DecidedStep
    <3>2. CASE Latest > 0 /\ Latest \notin handled /\ ~PiActive(Latest)
      <4>0. /\ Latest \in Said /\ Latest \notin Taken
            /\ \A g \in Slots : hs[g].pc = "select" => hs[g].msg # Latest
        BY <1>n, <1>t, <3>0, <3>2 DEF DecidedInv, Passed, Latest, PiActive
      <4>1. CASE /\ handled' = handled \cup {Latest} /\ Settled(h)
                 /\ joined' \in {joined, joined \cup {Latest}}
        <5>1. \A g \in Slots : hs'[g].pc = "select" => hs'[g] = hs[g]
          BY <1>t, <4>1, OneMoves
        <5>2. Taken' = Taken \/ Taken' = Taken \cup {Latest}
          BY <3>0, <4>1 DEF Taken
        <5>3. DecidedInv'
          BY <1>t, <2>0, <2>p, <3>0, <4>0, <4>1, <5>1, <5>2 DEF DecidedInv
        <5> QED BY <3>0, <4>0, <4>1, <5>1, <5>3 DEF DecidedStep, Taken
      <4>2. CASE /\ UNCHANGED <<handled, joined>>
                 /\ hs' = [hs EXCEPT ![h].pc = "select", ![h].msg = Latest]
        <5>1. /\ hs'[h].pc = "select" /\ hs'[h].msg = Latest
              /\ \A g \in Slots : g # h => hs'[g] = hs[g]
          BY <1>n, <1>t, <4>0, <4>2, OneMoves
        <5>2. Taken' = Taken
          BY <3>0, <4>2 DEF Taken
        <5>3. DecidedInv'
          BY <1>t, <2>0, <2>p, <3>0, <3>2, <4>0, <4>2, <5>1, <5>2 DEF DecidedInv
        <5> QED BY <3>0, <4>0, <4>2, <5>1, <5>3 DEF DecidedStep, Taken
      <4> QED BY <2>5, <3>1, <3>2, <4>1, <4>2 DEF PiMoves
    <3> QED BY <2>5, <3>1, <3>2 DEF PiMoves
  <2>6. ASSUME NEW h \in Slots, hs[h].pc = "select", ChoiceOf(hs[h].msg), Settled(h),
               handled' = handled \cup {hs[h].msg}, UNCHANGED <<tuiHandled, dialog>>
        PROVE  DecidedInv' /\ DecidedStep
    <3> DEFINE m == hs[h].msg
    <3>0. launch.pi /\ ~ByTui /\ dialog = 0 /\ m \in Said /\ m \notin handled /\ m \notin Taken
      BY <1>t, <2>6 DEF Shape, ByTui, DecidedInv
    <3>1. \A g \in Slots : hs'[g].pc = "select" => hs'[g] = hs[g] /\ hs[g].msg # m
      BY <1>t, <2>6, OneMoves DEF DecidedInv
    <3>2. /\ Taken' = Taken \cup {m} /\ joined' \subseteq joined \cup {m}
          /\ handled' = handled \cup {m}
      BY <2>6 DEF ChoiceOf, Taken
    <3> HIDE DEF m
    <3>3. DecidedInv'
      BY <1>t, <2>0, <2>p, <2>6, <3>0, <3>1, <3>2 DEF DecidedInv
    <3> QED BY <2>6, <3>0, <3>1, <3>2, <3>3 DEF DecidedStep, Taken
  <2>7. CASE TuiMoves
    <3>0. /\ ByTui /\ ~TuiPassed(Latest) /\ UNCHANGED <<hs, handled, answered>>
          /\ \A g \in Slots : hs[g].pc # "select"
      BY <1>n, <1>t, <2>7 DEF TuiMoves, Shape, ByTui, TuiPassed, Latest
    <3>1. CASE UNCHANGED <<tuiHandled, joined, dialog, declined>>
      <4>1. Taken' = Taken
        BY <3>0, <3>1 DEF Taken
      <4> QED BY <2>r, <3>0, <3>1, <4>1 DEF DecidedStep
    <3>2. CASE Latest > 0 /\ Latest \notin tuiHandled /\ tuiHandled' = tuiHandled \cup {Latest}
      <4>0. Latest \in Said /\ Latest \notin Taken /\ dialog # Latest
        BY <1>n, <1>t, <3>0, <3>2 DEF DecidedInv
      <4>1. CASE UNCHANGED <<dialog, declined>> /\ joined' \in {joined, joined \cup {Latest}}
        <5>1. Taken' = Taken \/ Taken' = Taken \cup {Latest}
          BY <3>0, <4>1 DEF Taken
        <5>2. DecidedInv'
          BY <1>t, <2>0, <2>p, <3>0, <3>2, <4>0, <4>1, <5>1 DEF DecidedInv
        <5> QED BY <3>0, <4>0, <4>1, <5>2 DEF DecidedStep, Taken
      <4>2. CASE /\ dialog' = Latest /\ declined' = declined \cup ({dialog} \ {0})
                 /\ UNCHANGED joined
        <5>1. Taken' = Taken \cup ({dialog} \ {0})
          BY <3>0, <4>2 DEF Taken
        <5>2. DecidedInv'
          BY <1>t, <2>0, <2>p, <3>0, <3>2, <4>0, <4>2, <5>1 DEF DecidedInv
        <5> QED BY <3>0, <4>0, <4>2, <5>2 DEF DecidedStep, Taken
      <4> QED BY <2>7, <3>1, <3>2, <4>1, <4>2 DEF TuiMoves
    <3> QED BY <2>7, <3>1, <3>2 DEF TuiMoves
  <2>8. CASE dialog # 0 /\ dialog' = 0 /\ ChoiceOf(dialog) /\ UNCHANGED <<hs, handled, tuiHandled>>
    <3>0. ByTui /\ dialog \in Said /\ dialog \in tuiHandled /\ dialog \notin Taken
      BY <1>t, <2>8 DEF DecidedInv
    <3>1. Taken' = Taken \cup {dialog} /\ joined' \subseteq joined \cup {dialog}
      BY <2>8 DEF ChoiceOf, Taken
    <3>2. \A g \in Slots : hs[g].pc # "select"
      BY <1>t, <3>0 DEF Shape, ByTui
    <3>3. DecidedInv'
      BY <1>t, <2>0, <2>p, <2>8, <3>0, <3>1, <3>2 DEF DecidedInv
    <3> QED BY <1>d, <1>n, <2>8, <3>0, <3>1, <3>3 DEF DecidedStep, Taken
  <2> QED BY <1>3, <2>1, <2>2, <2>3, <2>4, <2>5, <2>6, <2>7, <2>8, Moves
<1> QED BY <1>1, <1>2, <1>3

\* Who asks for an approval again, and who is approved.
GateStep ==
    \A m \in Msgs : launch.hitl /\ flight = 0 /\ flight' = m =>
       m \in approved' \/ (launch.auto /\ log[m].failure /\ ~owed)

LEMMA GateNext == ASSUME HarnessInv, Next PROVE GateInv' /\ GateStep
<1>t. GateInv /\ 0 \notin Msgs
  BY BoundAssumption DEF HarnessInv, Msgs
<1>a. \A m : Automatic(m) => launch.auto /\ log[m].failure /\ (launch.hitl => ~owed)
  BY <1>t DEF Automatic, GateInv
<1>1. CASE Write
  BY <1>1, <1>t, WriteMoves DEF HarnessInv, GateInv, GateStep
<1>2. CASE Relaunch
  BY <1>2, <1>t, RelaunchMoves DEF GateInv, GateStep
<1>3. CASE AsideMoves \/ Unread
  BY <1>3, <1>t DEF AsideMoves, Unread, GateInv, GateStep
<1>4. CASE AnswerMoves
  <2>1. GateStep /\ UNCHANGED launch
    BY <1>4, <1>t DEF AnswerMoves, GateStep
  <2>2. CASE UNCHANGED <<needs, owed>>
    BY <1>t, <2>1, <2>2 DEF GateInv
  <2>3. CASE owed' = TRUE /\ needs' = (needs \/ launch.hitl)
    <3>1. launch.hitl \in BOOLEAN
      BY DEF HarnessInv, Shape, Launches
    <3>2. needs' \in BOOLEAN /\ (launch.hitl => needs')
      BY <2>3, <3>1, Zenon
    <3> QED BY <2>1, <2>3, <3>2 DEF GateInv
  <2> QED BY <1>4, <2>2, <2>3 DEF AnswerMoves
<1>5. CASE TuiMoves
  BY <1>5, <1>a, <1>t DEF TuiMoves, GateInv, GateStep
<1>6. ASSUME NEW m, ChoiceOf(m) PROVE GateInv' /\ GateStep
  <2>0. \/ UNCHANGED flight
        \/ approved' = approved \cup {m} /\ flight' = IF flight = 0 THEN m ELSE flight
    BY <1>6 DEF ChoiceOf
  <2>1. GateStep
    <3> SUFFICES ASSUME NEW k \in Msgs, flight = 0, flight' = k PROVE k \in approved'
      BY DEF GateStep
    <3> QED BY <1>t, <2>0
  <2>2. GateInv'
    <3>1. UNCHANGED launch /\ (UNCHANGED <<needs, owed>> \/ (needs' = FALSE /\ owed' = FALSE))
      BY <1>6 DEF ChoiceOf
    <3>2. CASE UNCHANGED <<needs, owed>>
      BY <1>t, <3>1, <3>2 DEF GateInv
    <3>3. CASE needs' = FALSE /\ owed' = FALSE
      BY <3>3, Zenon DEF GateInv
    <3> QED BY <3>1, <3>2, <3>3
  <2> QED BY <2>1, <2>2
<1>7. ASSUME NEW h \in Slots, ReadMoves(h) PROVE GateInv' /\ GateStep
  <2>1. UNCHANGED <<launch, needs, owed>> /\ (launch.hitl => UNCHANGED flight)
    BY <1>7 DEF ReadMoves
  <2> QED BY <1>t, <2>1 DEF GateInv, GateStep
<1>8. ASSUME NEW h \in Slots, NudgeMoves(h) PROVE GateInv' /\ GateStep
  BY <1>8, <1>t DEF NudgeMoves, GateInv, GateStep
<1>9. ASSUME NEW h \in Slots, PiMoves(h) PROVE GateInv' /\ GateStep
  <2>1. /\ UNCHANGED <<launch, needs, owed>>
        /\ \/ UNCHANGED flight
           \/ (~launch.hitl \/ Automatic(Latest)) /\ flight' = IF flight = 0 THEN Latest ELSE flight
    BY <1>9 DEF PiMoves
  <2> QED BY <1>a, <1>t, <2>1 DEF GateInv, GateStep
<1> QED BY <1>1, <1>2, <1>3, <1>4, <1>5, <1>6, <1>7, <1>8, <1>9, Moves

-----------------------------------------------------------------------------
LEMMA HarnessStep ==
    HarnessInv /\ [Next]_vars => HarnessInv' /\ [DecidedStep]_vars /\ [GateStep]_vars
<1>1. ASSUME HarnessInv, Next PROVE HarnessInv' /\ DecidedStep /\ GateStep
  BY <1>1, ShapeNext, CorrectedNext, DecidedNext, GateNext DEF HarnessInv
<1>2. ASSUME HarnessInv, UNCHANGED vars PROVE HarnessInv'
  <2>1. UNCHANGED <<launch, log, idles, tuiIdles, hs, handled, correcting, tuiHandled, dialog, needs,
                    joined, nudges, declined, answered, owed>>
    BY <1>2 DEF vars, hostVars, flightVars, ghostVars
  <2>2. Shape' /\ CorrectedInv'
    BY <1>2, <2>1 DEF HarnessInv, Shape, CorrectedInv, Said, Passed, Quiet, ByTui
  <2>3. DecidedInv' /\ GateInv'
    BY <1>2, <2>1 DEF HarnessInv, DecidedInv, GateInv, Taken, Said, Passed, TuiPassed, Quiet, ByTui
  <2> QED BY <2>2, <2>3 DEF HarnessInv
<1> QED BY <1>1, <1>2

LEMMA HarnessInit == Init => HarnessInv
<1> SUFFICES ASSUME Init PROVE HarnessInv
  OBVIOUS
<1>1. hs \in [Slots -> HandlerStates] /\ \A h \in Slots : hs[h].pc = "free" /\ ~hs[h].idle
  BY FreeIs DEF Init
<1>2. Shape
  BY <1>1, BoundAssumption DEF Init, Shape
<1>3. CorrectedInv
  BY <1>1 DEF Init, CorrectedInv
<1>4. DecidedInv
  BY <1>1 DEF Init, DecidedInv, Taken
<1>5. GateInv
  BY DEF Init, GateInv
<1> QED BY <1>2, <1>3, <1>4, <1>5 DEF HarnessInv

LEMMA HarnessAlways == Spec => []HarnessInv
BY HarnessInit, HarnessStep, PTL DEF Spec

(* A message in the wrong shape is corrected once, however many idle events  *)
(* the host sends and however the handlers overlap (handledAssistantIDs and *)
(* inFlightHITLCorrectionIDs in relay-flow.ts, the entries of pi.ts).       *)
THEOREM OneCorrectionEach == Spec => []CorrectedOnce
<1>1. HarnessInv => CorrectedOnce
  BY DEF HarnessInv, Shape, CorrectedInv, CorrectedOnce
<1> QED BY <1>1, HarnessAlways, PTL

(* A report of a human-in-the-loop session leaves it only as the human      *)
(* approved it, or by the automatic failure route, and not after a report   *)
(* was turned down (needsApproval).                                        *)
THEOREM TheHumanDecides == Spec => HumanGate
<1>1. HarnessInv /\ [Next]_vars =>
        [\A m \in Msgs : launch.hitl /\ flight = 0 /\ flight' = m =>
            \/ m \in approved'
            \/ launch.auto /\ log[m].failure /\ ~owed]_vars
  BY HarnessStep DEF GateStep
<1> QED BY <1>1, HarnessAlways, PTL DEF Spec, HumanGate

(* What was sent and answered, or turned down by the human, is not sent or  *)
(* offered a second time, also not by an agent started again.              *)
THEOREM DecidedForGood == Spec => DecidedOnce
<1>1. HarnessInv /\ [Next]_vars =>
        [\A m \in answered \cup declined :
            /\ m \in joined' => m \in joined
            /\ dialog' = m => dialog = m
            /\ \A h \in Slots : hs'[h] # hs[h] => ~(hs'[h].pc = "select" /\ hs'[h].msg = m)]_vars
  BY HarnessStep DEF DecidedStep
<1> QED BY <1>1, HarnessAlways, PTL DEF Spec, DecidedOnce
===============================================================================
