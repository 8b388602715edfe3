-------------------------- MODULE MC_AgentHarness -----------------------------
(* At most one fault, or a repeated idle event and one more.                *)
EXTENDS AgentHarness

EchoAndOne == {{"echo", k} : k \in FaultKinds} \cup {{k} : k \in FaultKinds} \cup {{}}
===============================================================================
