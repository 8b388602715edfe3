--------------------------- MODULE MC_ServerRollout ---------------------------
(* Two documents of one workflow name, both for one repository.           *)
EXTENDS ServerRollout

MCTargets == [d \in Docs |-> {"api"}]

\* A failing step and then a crash, also beside a repository request; a failing
\* rebind and a crash or a failing rollback; two repository requests at once,
\* also beside an operation.
Pairwise ==
    {[NoFaults EXCEPT !.fail = 1, !.crash = 1, !.mixed = 1],
     [NoFaults EXCEPT !.bind = 1, !.crash = 1],
     [NoFaults EXCEPT !.bind = 1, !.fail = 1],
     [NoFaults EXCEPT !.overlap = 1, !.mixed = 1]}
===============================================================================
