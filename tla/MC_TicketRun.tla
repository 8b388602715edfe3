----------------------------- MODULE MC_TicketRun -----------------------------
(* Small instances of TicketRun: a two-node workflow with a loop back,     *)
(* coding -> review -> (coding | end), which may also finish from coding.  *)
EXTENDS TicketRun, TLC

MCNodes == {"coding", "review"}
MCLegal == [coding |-> {"review", "end"}, review |-> {"coding", "end"}]
\* coding may also follow itself: one report is enough to visit a node again.
MCAgain == [MCLegal EXCEPT !.coding = MCNodes \cup {"end"}]

NoFault  == [fail |-> 0, crash |-> 0, death |-> 0, db |-> 0]
Crashing == [NoFault EXCEPT !.crash = 1]
Failing  == [NoFault EXCEPT !.fail = 1]
Dying    == [NoFault EXCEPT !.death = 1]

\* A failing activity whose retry cannot be recorded either.
Unrecorded == [Failing EXCEPT !.db = 1]

\* An agent dies while its server is down.
Unattended == [Crashing EXCEPT !.death = 1]

Faultless == {NoFault}
AnyOne    == {Crashing, Failing, Dying}
Abandoned == {Unrecorded}
OneOrAbandoned == AnyOne \cup Abandoned
Recovering == {Unattended, Failing}

\* Reports are told apart by identity only, and so are operators' reasons.
Symmetry == Permutations(ReportIds) \cup Permutations(Reasons)
===============================================================================
