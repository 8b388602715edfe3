---------------------------- MODULE DocumentStore -----------------------------
(* What the workflow store promises of one name: a durable document that   *)
(* only an operation changes, from the accepted one to the requested one   *)
(* and, if the operation is refused, back again.  A crash may fall before  *)
(* or after the change, never inside it.  Once an operation has answered   *)
(* that its rollback failed too, nothing is promised.                      *)
VARIABLES
    doc,      \* the document a restart would find
    pend,     \* the operation under way: its documents and its answer,
              \* "open", "accepted" or "refused"; "closed" when there is none
    trusted   \* no operation has reported a failed rollback

docVars == <<doc, pend, trusted>>

DocInit == pend.answer = "closed" /\ trusted = TRUE

Begin ==
    /\ pend.answer = "closed"
    /\ pend'.old = doc /\ pend'.answer = "open"
    /\ UNCHANGED <<doc, trusted>>

Decide ==
    /\ pend.answer = "open"
    /\ doc' \in {pend.old, pend.new}
    /\ UNCHANGED <<pend, trusted>>

Answer ==
    /\ pend.answer = "open"
    /\ \/ doc = pend.new /\ pend' = [pend EXCEPT !.answer = "accepted"]
       \/ doc = pend.old /\ pend' = [pend EXCEPT !.answer = "refused"]
    /\ UNCHANGED <<doc, trusted>>

\* The caller has the answer, or the process died before it could give one.
End == pend'.answer = "closed" /\ UNCHANGED <<doc, trusted>>

ReportBroken == trusted /\ ~trusted'
Unpromised   == ~trusted /\ ~trusted'

DocNext == Begin \/ Decide \/ Answer \/ End \/ ReportBroken \/ Unpromised

DocSpec == DocInit /\ [][DocNext]_docVars
===============================================================================
