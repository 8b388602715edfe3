---------------------------- MODULE ServerRollout -----------------------------
(***************************************************************************)
(* How a definition reaches the pollers, and a repository too: one server  *)
(* process from `serve` to its stop (cmd/relay-flow/serve.go), with        *)
(* workflow.Service over the WorkflowStore, repo.Service over the machine  *)
(* configuration, the in-memory registries and bindings, and PollerGroup.  *)
(*                                                                         *)
(* Submissions and removals of the workflow hold the lifecycle gate; the   *)
(* repository handlers do not.  What a poll does with its tickets is       *)
(* RunDispatch's; here it only meets the bindings of its Repo value.       *)
(*                                                                         *)
(* Left out: a second workflow name, repositories whose adapter cannot be  *)
(* built at startup, and the checks of a submission or registration that   *)
(* only read (parsing, active runs, connectivity): they refuse and change  *)
(* nothing.                                                                *)
(***************************************************************************)
EXTENDS WorkflowStore, PollerGroup

CONSTANTS
    Targets,   \* Targets[d]: the repositories document d lists
    Handlers   \* repository requests served at the same time

ASSUME TargetAssumption == Targets \in [Docs -> (SUBSET RepoNames) \ {{}}]

VARIABLES
    config,   \* the repositories of the machine configuration on disk
    repoReg,  \* repo.Registry: the generation registered under a name, or 0
    made,     \* Repo values made for a name
    bound,    \* Repo.Workflows of each value
    reg,      \* workflow.Registry: document and health
    prevReg,  \* Submit and Remove: the entry before
    rq,       \* repository requests
    parted,   \* ghost: since the start a repository went away, or another value
              \* was registered under its name, while a served document listed it
    latest    \* ghost: the request that took the latest list of repositories;
              \* "polled" once it has handed it to the pollers, "overtaken" once
              \* an older list was handed to them after it

memVars == <<repoReg, made, bound, reg, prevReg, rq>>
vars    == <<storeVars, pollerVars, config, memVars, parted, latest>>

ServiceSteps == {"rebind", "rebindBack", "rebindBroken", "accepted", "idle", "down"}
Booting == {"bYaml", "bHash", "bFinish", "loaded", "blocked"}

Entries == [doc : Docs \cup {None},
            health : {"none", "healthy", "unverified", "outdated", "blocked"}]
NoEntry == [doc |-> None, health |-> "none"]
IdleReq == [op |-> "idle", name |-> CHOOSE n \in RepoNames : TRUE, at |-> "save",
            names |-> {}, vals |-> {}]

TypeOK ==
    /\ StoreTypeOK /\ PollerTypeOK
    /\ at \in StoreSteps \cup ServiceSteps
    /\ config \subseteq RepoNames
    /\ repoReg \in [RepoNames -> 0..MaxGen] /\ made \in [RepoNames -> 0..MaxGen]
    /\ bound \in [Values -> Docs \cup {None}]
    /\ reg \in Entries /\ prevReg \in Entries
    /\ rq \in [Handlers -> [op : {"idle", "register", "remove"}, name : RepoNames,
                            at : {"save", "apply", "list", "resync"},
                            names : SUBSET RepoNames, vals : SUBSET Values]]
    /\ parted \in BOOLEAN /\ latest \in Handlers \cup {"polled", "overtaken"}

NoMemory ==
    /\ repoReg' = [n \in RepoNames |-> 0] /\ made' = [n \in RepoNames |-> 0]
    /\ bound' = [v \in Values |-> None]
    /\ reg' = NoEntry /\ prevReg' = NoEntry /\ rq' = [h \in Handlers |-> IdleReq]
    /\ parted' = FALSE /\ latest' = "polled"

Init ==
    /\ StoreInit /\ at = "down"
    /\ config \in SUBSET RepoNames
    /\ desired = {} /\ running = {}
    /\ poller = [v \in Values |-> "gone"]
    /\ repoReg = [n \in RepoNames |-> 0] /\ made = [n \in RepoNames |-> 0]
    /\ bound = [v \in Values |-> None]
    /\ reg = NoEntry /\ prevReg = NoEntry /\ rq = [h \in Handlers |-> IdleReq]
    /\ parted = FALSE /\ latest = "polled"

Up == at \notin Booting \cup {"down"}

Listed(e) == IF e.doc = None THEN {} ELSE Targets[e.doc]
Routable(e) == e.health = "healthy"
Registered(regs) == {v \in Values : v[2] = regs[v[1]]}

-----------------------------------------------------------------------------
(* Starting and stopping *)

DiskFrame == UNCHANGED <<config, parted, latest>>

\* LoadAllRecords: recoverTransactions first.
StartServer ==
    /\ at = "down" /\ BeginRecovery
    /\ UNCHANGED <<pollerVars, memVars, faults>> /\ DiskFrame

\* A record that cannot be bound is isolated; the pollers start last.
Serve ==
    /\ at \in {"loaded", "blocked"} /\ at' = "idle"
    /\ repoReg' = [n \in RepoNames |-> IF n \in config THEN 1 ELSE 0]
    /\ made' = repoReg'
    /\ reg' = IF at = "blocked" \/ (Routable(Loaded) /\ ~(Listed(Loaded) \subseteq config))
              THEN [Loaded EXCEPT !.health = "blocked"] ELSE Loaded
    /\ bound' = [v \in Values |-> IF Routable(reg') /\ v[2] = repoReg'[v[1]]
                                     /\ v[1] \in Listed(reg') THEN reg'.doc ELSE None]
    /\ PollersStart(Registered(repoReg'))
    /\ call' = NoCall /\ faults' = NoFaults
    /\ UNCHANGED <<files, journal, trusted, prevReg, rq>> /\ DiskFrame

Crash ==
    /\ at # "down" /\ Spend("crash")
    /\ at' = "down" /\ call' = NoCall
    /\ NoMemory /\ PollersVanish
    /\ UNCHANGED <<files, journal, trusted, config>>

-----------------------------------------------------------------------------
(* workflow.Service *)

ServiceFrame == UNCHANGED <<pollerVars, repoReg, made, rq>> /\ DiskFrame

\* Bounds: no operation follows one that reported a failed rollback, and how
\* often one starts beside a repository request.
Quiet == \A h \in Handlers : rq[h].op = "idle"

Operate(new) ==
    /\ at = "idle" /\ trusted
    /\ \/ Quiet /\ UNCHANGED faults
       \/ ~Quiet /\ Spend("mixed")
    /\ at' = "journal" /\ call' = [new |-> new, prev |-> files]
    /\ prevReg' = reg
    /\ UNCHANGED <<files, journal, trusted, bound, reg>> /\ ServiceFrame

Submit(d) == (\A n \in Targets[d] : repoReg[n] # 0) /\ Operate(Pair(d))

RemoveWorkflow == files.yaml # None /\ Operate(Absent)

ReplaceEntry ==
    /\ at = "stored" /\ at' = "rebind"
    /\ reg' = IF call.new = Absent THEN NoEntry
              ELSE [doc |-> call.new.yaml, health |-> "healthy"]
    /\ UNCHANGED <<files, journal, call, trusted, faults, bound, prevReg>> /\ ServiceFrame

\* BindWorkflows: every Repo value registered now, none other.
Bindable == Routable(reg) => \A n \in Listed(reg) : repoReg[n] # 0
Rebound  == [v \in Values |-> IF v \notin Registered(repoReg) THEN bound[v]
                              ELSE IF Routable(reg) /\ v[1] \in Listed(reg) THEN reg.doc
                              ELSE None]

\* All or nothing: a filter that does not compile leaves the old bindings.
BindWorkflows(here, next, failed) ==
    /\ at = here
    /\ \/ Bindable /\ bound' = Rebound /\ at' = next /\ UNCHANGED faults
       \/ /\ \/ ~Bindable /\ UNCHANGED faults
             \/ Bindable /\ Routable(reg) /\ Spend("bind")
          /\ at' = failed /\ UNCHANGED bound
    /\ trusted' = (trusted /\ at' # "broken")
    /\ UNCHANGED <<files, journal, call, reg, prevReg>> /\ ServiceFrame

\* Mutant: the registry keeps the candidate.
RestoreNothing ==
    /\ \/ at = "restored"   /\ at' = "rebindBack"
       \/ at = "unrestored" /\ at' = "rebindBroken"
    /\ UNCHANGED <<reg, files, journal, call, trusted, faults, bound, prevReg>> /\ ServiceFrame

RestoreEntry ==
    /\ \/ at = "restored"   /\ at' = "rebindBack"
       \/ at = "unrestored" /\ at' = "rebindBroken"
    /\ reg' = prevReg
    /\ UNCHANGED <<files, journal, call, trusted, faults, bound, prevReg>> /\ ServiceFrame

Answer ==
    /\ at \in {"accepted", "refused", "broken"} /\ at' = "idle"
    /\ call' = NoCall /\ prevReg' = NoEntry
    /\ faults' = [faults EXCEPT !.fail = 0, !.bind = 0, !.crash = 0]
    /\ UNCHANGED <<files, journal, trusted, bound, reg>> /\ ServiceFrame

ServiceStep ==
    \/ StoreStep /\ UNCHANGED <<pollerVars, memVars>> /\ DiskFrame
    \/ ReplaceEntry
    \/ BindWorkflows("rebind", "accepted", "rJournal")
    \/ RestoreEntry
    \/ BindWorkflows("rebindBack", "refused", "broken")
    \/ BindWorkflows("rebindBroken", "broken", "broken")
    \/ Answer

-----------------------------------------------------------------------------
(* repo.Service and the handlers around it *)

Continue(h, step) == rq' = [rq EXCEPT ![h].at = step]
Reply(h)    == rq' = [rq EXCEPT ![h] = IdleReq]
Bound(h, op, step) == Up /\ rq[h].op = op /\ rq[h].at = step

\* A request takes a free place: beside another request or an operation, as
\* often as a scenario allows.
Begins(h) ==
    /\ h = CHOOSE g \in Handlers : rq[g].op = "idle"
    /\ \/ Quiet /\ at = "idle" /\ UNCHANGED faults
       \/ ~Quiet /\ at = "idle" /\ Spend("overlap")
       \/ at # "idle" /\ Spend("mixed")

RepoFrame   == UNCHANGED <<files, journal, at, call, trusted, reg, prevReg>>

\* Both read the configuration they will save.
Register(h, n) ==
    /\ Up /\ rq[h].op = "idle"
    /\ n \notin config /\ made[n] < MaxGen /\ Begins(h)
    /\ rq' = [rq EXCEPT ![h] = [op |-> "register", name |-> n, at |-> "save",
                                names |-> config \cup {n}, vals |-> {}]]
    /\ UNCHANGED <<pollerVars, config, repoReg, made, bound, parted, latest>> /\ RepoFrame

Unregister(h, n) ==
    /\ Up /\ rq[h].op = "idle"
    /\ n \notin Listed(reg) /\ n \in config /\ Begins(h)
    /\ rq' = [rq EXCEPT ![h] = [op |-> "remove", name |-> n, at |-> "save",
                                names |-> config \ {n}, vals |-> {}]]
    /\ UNCHANGED <<pollerVars, config, repoReg, made, bound, parted, latest>> /\ RepoFrame

SaveMachine(h) ==
    /\ Up /\ rq[h].op # "idle" /\ rq[h].at = "save"
    /\ \/ config' = rq[h].names /\ Continue(h, "apply")
       \/ config' \in {config, rq[h].names} /\ Reply(h)
    /\ UNCHANGED <<pollerVars, repoReg, made, bound, faults, parted, latest>> /\ RepoFrame

\* No lock: two registrations of one name may both get here.
PublishRepo(h) ==
    /\ Bound(h, "register", "apply") /\ Continue(h, "list")
    /\ LET n == rq[h].name
       IN /\ made[n] < MaxGen
          /\ made' = [made EXCEPT ![n] = @ + 1]
          /\ repoReg' = [repoReg EXCEPT ![n] = made'[n]]
          /\ parted' = (parted \/ (repoReg[n] # 0 /\ n \in Listed(reg)))
    /\ UNCHANGED <<pollerVars, config, bound, faults, latest>> /\ RepoFrame

DropRepo(h) ==
    /\ Bound(h, "remove", "apply") /\ Continue(h, "list")
    /\ repoReg' = [repoReg EXCEPT ![rq[h].name] = 0]
    /\ parted' = (parted \/ rq[h].name \in Listed(reg))
    /\ UNCHANGED <<pollerVars, config, made, bound, faults, latest>> /\ RepoFrame

\* onReposChanged: list the registry, then replace the set, under no lock.
ListRepos(h) ==
    /\ Up /\ rq[h].op # "idle" /\ rq[h].at = "list"
    /\ rq' = [rq EXCEPT ![h].at = "resync", ![h].vals = Registered(repoReg)]
    /\ latest' = h
    /\ UNCHANGED <<pollerVars, config, repoReg, made, bound, faults, parted>> /\ RepoFrame

Resync(h) ==
    /\ Up /\ rq[h].op # "idle" /\ rq[h].at = "resync"
    /\ ReplaceRepos(rq[h].vals) /\ Reply(h)
    /\ latest' = CASE latest = h -> "polled"
                   [] latest \in Handlers \ {h} -> latest
                   [] OTHER -> "overtaken"
    /\ UNCHANGED <<config, repoReg, made, bound, faults, parted>> /\ RepoFrame

RepoStep(h) == SaveMachine(h) \/ PublishRepo(h) \/ DropRepo(h) \/ ListRepos(h) \/ Resync(h)

-----------------------------------------------------------------------------
PollFrame == UNCHANGED <<storeVars, memVars>> /\ DiskFrame

GroupStep == Up /\ Reconcile /\ PollFrame
Poll(v)   == Up /\ PollerStep(v) /\ PollFrame

Next ==
    \/ StartServer \/ Serve \/ Crash
    \/ (\E d \in Docs : Submit(d)) \/ RemoveWorkflow \/ ServiceStep
    \/ \E h \in Handlers : RepoStep(h) \/ \E n \in RepoNames : Register(h, n) \/ Unregister(h, n)
    \/ GroupStep
    \/ \E v \in Values : Poll(v)

Spec == Init /\ [][Next]_vars

(* Handlers and goroutines run on, the semaphore serves its waiters in     *)
(* turn, and the task system answers at last.  Nobody has to start the     *)
(* server.                                                                 *)
FairSpec ==
    /\ Spec /\ WF_vars(ServiceStep) /\ WF_vars(GroupStep)
    /\ \A h \in Handlers : WF_vars(RepoStep(h))
    /\ \A v \in Values : SF_vars(Poll(v))

-----------------------------------------------------------------------------
Operating == Up /\ at # "idle"

DurableStore == INSTANCE DocumentStore WITH
    doc     <- Target,
    pend    <- [old |-> call.prev, new |-> call.new,
                answer |-> IF ~Operating THEN "closed"
                           ELSE IF at \in {"accepted", "refused"} THEN at ELSE "open"],
    trusted <- trusted

(* The three files behave as one durable document: whatever step fails or  *)
(* is cut short by a crash, a restart finds the definition accepted before *)
(* or the one requested, and the answer says which, unless it says that    *)
(* the rollback failed too (the journal of Put, Remove and restorePair).   *)
StoreSpec == DurableStore!DocSpec

(* Between operations the server serves what a restart would load, and the *)
(* repositories it lists, no others, route by that very document: also     *)
(* after a failed rebind, a refused submission, a recovery that isolated   *)
(* the workflow and a repository registered anew.  The exceptions: a       *)
(* removal that slipped between a submission's check and its end, and a    *)
(* second value registered under the name of a repository that is served   *)
(* (two registrations at once, or one after a removal that failed although *)
(* the configuration was saved).                                           *)
ServedIsStored ==
    Up /\ at = "idle" /\ trusted =>
       /\ reg.doc = Target.yaml
       /\ Routable(reg) => files = Pair(reg.doc)
       /\ \A v \in Registered(repoReg) :
             bound[v] # None => bound[v] = reg.doc /\ Routable(reg) /\ v[1] \in Listed(reg)
       /\ Routable(reg) /\ ~parted =>
             \A n \in Listed(reg) : repoReg[n] # 0 /\ bound[<<n, repoReg[n]>>] = reg.doc

(* An accepted workflow is routed in each of its repositories: as long as  *)
(* it is served, a poll of the registered Repo value that carries its      *)
(* binding comes to handle tickets, however often repositories were        *)
(* registered anew or pollers replaced (reconcile compares values, not     *)
(* names).  The exception: onReposChanged lists the registry and hands the *)
(* list over without a lock, so of two requests served at once the one     *)
(* that listed first may hand over last; until the next request a          *)
(* repository it did not see has no poller.                                *)
ServedIn(d, n) ==
    /\ Up /\ at = "idle" /\ trusted /\ ~parted /\ latest # "overtaken"
    /\ reg = [doc |-> d, health |-> "healthy"] /\ n \in Targets[d]

RoutedIn(d, n) == \E v \in Values : /\ v = <<n, repoReg[n]>> /\ poller[v] = "handling"
                                    /\ bound[v] = d

AcceptedRoutes ==
    \A d \in Docs, n \in RepoNames : ServedIn(d, n) ~> (RoutedIn(d, n) \/ ~ServedIn(d, n))

(* A repository that is removed stops being polled, also if its poller was *)
(* in the middle of a poll, waited for a slot or had just been started.    *)
(* The same exception: an older list handed over after a newer one brings  *)
(* the poller back.                                                        *)
RemovedFallSilent ==
    \A v \in Values :
       (Up /\ poller[v] # "gone" /\ v \notin Registered(repoReg))
          ~> (poller[v] = "gone" \/ latest = "overtaken")
===============================================================================
