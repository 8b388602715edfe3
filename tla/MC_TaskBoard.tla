--------------------------- MODULE MC_TaskBoard --------------------------------
(* Jira's classic workflow: forward, done from progress, and reopening; a    *)
(* parent may be done from the start.  A lost answer or half a batch with    *)
(* any one fault more, or a person who moves issues twice.                   *)
EXTENDS TaskBoard

Classic == {<<"start", "work">>, <<"work", "end">>, <<"end", "work">>,
            <<"work", "start">>, <<"end", "start">>}

Own    == {"refused", "lost", "partial", "crash"}
Others == {"human", "late"}

Mixed == {{a, b} : a \in {"lost", "partial"}, b \in Own \cup Others}
             \cup {{b} : b \in Own \cup Others} \cup {{}, {"human", "again"}}

Losing == {{}, {"lost"}}
===============================================================================
