---------------------------- MODULE MC_TemporalRun ----------------------------
(* Small instances of TemporalRun: coding may follow itself, review sends  *)
(* everything back to coding, and one fault strikes, or two failing calls. *)
EXTENDS TemporalRun

MCNodes == {"coding", "review"}
MCLegal == [coding |-> {"coding", "review", "end"}, review |-> {"coding"}]

NoFault == [fail |-> 0, crash |-> 0, death |-> 0, loss |-> 0, call |-> 0]
AnyOne  == {[NoFault EXCEPT ![k] = 1] : k \in FaultKinds}
OneOrTwo == AnyOne \cup {[NoFault EXCEPT !.fail = 2]}
===============================================================================
