----------------------------- MODULE PollerGroup ------------------------------
(***************************************************************************)
(* The pollers (internal/repo/poller.go): one goroutine per registered     *)
(* Repo value, started and canceled by the group's loop, at most           *)
(* MaxConcurrent of them polling at a time.                                *)
(*                                                                         *)
(* A Repo value is a name and a generation: registering a name again makes *)
(* a new value.  Time is left out: a tick may come whenever it is awaited. *)
(* Left out: the stop of the group itself, which cancels every poller.     *)
(***************************************************************************)
EXTENDS Naturals, FiniteSets

CONSTANTS
    RepoNames,
    MaxGen,        \* bound on the Repo values one name gets in a process
    MaxConcurrent  \* capacity of the shared semaphore

ASSUME PollerAssumption == MaxGen \in Nat \ {0} /\ MaxConcurrent \in Nat \ {0}

Values == RepoNames \X (1..MaxGen)

VARIABLES
    desired,  \* group.pollers: the Repo values to poll
    running,  \* Run's map of live, uncanceled pollers
    poller    \* each goroutine

pollerVars == <<desired, running, poller>>

PollerTypeOK ==
    /\ {desired, running} \subseteq SUBSET Values
    /\ poller \in [Values -> {"gone", "ready", "handling"}]

PollersStart(vs) ==
    /\ desired' = vs /\ running' = {}
    /\ poller' = [v \in Values |-> "gone"]

PollersVanish ==
    /\ desired' = {} /\ running' = {}
    /\ poller' = [v \in Values |-> "gone"]

ReplaceRepos(vs) ==
    /\ desired' = vs
    /\ UNCHANGED <<running, poller>>

\* Mutant: running pollers are compared by the name they poll.
ReconcileByName ==
    /\ running # desired
    /\ LET kept == {v \in running : \E w \in desired : w[1] = v[1]}
           new  == {w \in desired : \A v \in kept : w[1] # v[1]}
       IN /\ running' = kept \cup new
          /\ poller' = [v \in Values |-> IF v \in new THEN "ready" ELSE poller[v]]
    /\ UNCHANGED <<desired>>

\* Mutant: the pollers of removed repositories are forgotten, not canceled.
ReconcileStartsOnly ==
    /\ running # desired
    /\ running' = running \cup desired
    /\ poller' = [v \in Values |-> IF v \in desired \ running THEN "ready" ELSE poller[v]]
    /\ UNCHANGED <<desired>>

\* reconcile: ReplaceRepos wakes the loop, and so does its own tick.
Reconcile ==
    /\ running # desired
    /\ running' = desired
    /\ poller' = [v \in Values |-> IF v \in desired \ running THEN "ready" ELSE poller[v]]
    /\ UNCHANGED <<desired>>

Goto(v, st) == poller' = [poller EXCEPT ![v] = st] /\ UNCHANGED <<desired, running>>

Handling == {v \in Values : poller[v] = "handling"}

\* poll, from a tick to the handler's call: a place in the semaphore, and an
\* answer of TaskSystem.Poll, which fails once its context is canceled.
\* A poll that fails leaves nothing behind.
BeginPoll(v) ==
    /\ poller[v] = "ready" /\ v \in running
    /\ Cardinality(Handling) < MaxConcurrent
    /\ Goto(v, "handling")

\* The handler runs to its end whatever was canceled meanwhile.
Handled(v) == poller[v] = "handling" /\ Goto(v, "ready")

Exit(v) == poller[v] = "ready" /\ v \notin running /\ Goto(v, "gone")

PollerStep(v) == BeginPoll(v) \/ Handled(v) \/ Exit(v)
===============================================================================
