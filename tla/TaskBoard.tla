------------------------------- MODULE TaskBoard -------------------------------
(***************************************************************************)
(* What a run writes to its task system, call by call: the mailboxes of a   *)
(* parent ticket, their statuses and the marked comments.  TicketRun takes  *)
(* each of these operations as one step; here every operation is the calls  *)
(* its adapter makes, any of which may fail, be carried out without an      *)
(* answer, or be cut off by a crash, whereupon the whole operation is tried *)
(* again.                                                                  *)
(*                                                                         *)
(* Two adapters: Beads (beads.go, bdcli.go) reads an issue before each      *)
(* write; Jira (jira.go, rest/client.go) trusts a cache of issue statuses   *)
(* and of transition ids that one process shares.  People move issues, too. *)
(*                                                                         *)
(* Left out: claims and labels (RunDispatch), assignees, the text of        *)
(* descriptions and comments, paging, and Jira projects whose transitions   *)
(* start from every status alike.                                          *)
(***************************************************************************)
EXTENDS Naturals, Sequences, FiniteSets, TLC

CONSTANTS
    Offered,  \* pairs of statuses Jira has a transition for
    Scenarios \* the faults that may happen together, each of them once

\* Of the project's own vocabulary: to do, in progress, done, and one that
\* relay-flow never sets.
Statuses == {"start", "work", "end", "human"}

\* A call fails, is carried out unanswered, creates some of a batch; the
\* server dies; somebody moves an issue, and again; a poll is slow.
FaultKinds == {"refused", "lost", "partial", "crash", "human", "again", "late"}

ASSUME BoundAssumption ==
    Offered \subseteq Statuses \X Statuses /\ Scenarios \subseteq SUBSET FaultKinds

Nodes   == {"coding", "review"}
Issues  == {"parent"} \cup Nodes
Markers == {"summary", "feedback", "approval"}

Adapters == {"jira", "beads"}
Modes    == {"fresh", "restart", "recover"}

VARIABLES
    adapter,  \* "jira" or "beads"
    owned,    \* the workflow filters by assignee: polls re-read the ticket
    mode,     \* a first attempt, an explicit restart, or database recovery
    at,       \* the operation under way
    k,        \* its move under way
    pc,       \* the call it is at
    listing,  \* the mailboxes the operation saw
    id,       \* the transition it is about to request
    titled,   \* how many issues carry a mailbox's title
    status,   \* of each issue
    comments, \* how many comments carry a marker
    cache,    \* issues: the status the Jira client remembers
    known,    \* transitions: the ids it remembers
    snapshot, \* what a slow poll was told
    faults    \* what happened so far

run   == <<adapter, owned, mode>>
board == <<titled, status, comments>>
op    == <<k, pc, listing, id>>
vars  == <<run, at, op, board, cache, known, snapshot, faults>>

NoId    == <<"none", "none">>
Unknown == [i \in Issues |-> "unknown"]

TypeOK ==
    /\ adapter \in Adapters /\ owned \in BOOLEAN
    /\ mode \in Modes
    /\ at \in Nat /\ k \in 1..3
    /\ pc \in {"begin", "create", "comment", "recheck", "post", "done"}
    /\ listing \subseteq Nodes /\ id \in {NoId} \cup Offered
    /\ titled \in [Nodes -> 0..2]
    /\ status \in [Issues -> Statuses \cup {"none"}]
    /\ comments \in [Markers -> 0..2]
    /\ {cache, snapshot} \subseteq [Issues -> Statuses \cup {"unknown"}]
    /\ DOMAIN known \subseteq BOOLEAN \X Statuses \X Statuses
    /\ \A key \in DOMAIN known : known[key] \in Offered
    /\ faults \subseteq FaultKinds

-----------------------------------------------------------------------------
(* The operations of a run, in the order of runGraph.                       *)

\* Beads: the statuses an issue may be moved from.  "Blind" reads nothing.
Move(i, to, from) == [issue |-> i, to |-> to, from |-> from, blind |-> FALSE]

MailboxSources(to) == IF to = "work" THEN {"start", "end"} ELSE {"work"}
ParentSources(to)  == IF to = "end" THEN {"start", "work"} ELSE {"start"}

Mailbox(n, to) == Move(n, to, MailboxSources(to))
Parent(to)     == Move("parent", to, ParentSources(to))
Reopen(n)      == Move(n, "start", {"start", "work", "end"})
Reset(a, i)    == [Reopen(i) EXCEPT !.blind = a = "beads"]

Moves(s)   == [kind |-> "move", moves |-> s, marker |-> "none"]
Comment(m) == [kind |-> "comment", moves |-> <<>>, marker |-> m]
Ensure     == [kind |-> "ensure", moves |-> <<>>, marker |-> "none"]

PrepareRestart == Moves(<<Reopen("coding"), Reopen("review")>>)

\* Beads resets the parent, too.
ResetForRecovery(a) ==
    Moves((IF a = "beads" THEN <<Reset(a, "parent")>> ELSE <<>>)
              \o <<Reset(a, "coding"), Reset(a, "review")>>)

\* Jira's start status is the one it starts from, Beads' is in_progress.
ApplyStart(a) == Moves(<<Parent(IF a = "jira" THEN "start" ELSE "work")>>)
Work(n)    == Moves(<<Mailbox(n, "work"), Parent("work")>>)

Opening(a, m) ==
    CASE m = "fresh"   -> <<Ensure>>
      [] m = "restart" -> <<Ensure, PrepareRestart>>
      [] m = "recover" -> <<Ensure, ResetForRecovery(a), Ensure>>

\* One function, so that TLC evaluates the scripts once.
Scripts == [a \in Adapters |-> [m \in Modes |->
    Opening(a, m) \o
    << ApplyStart(a),
       Work("coding"), Comment("summary"), Comment("feedback"),
       Moves(<<Mailbox("coding", "end")>>),
       Work("review"), Comment("approval"), Moves(<<Mailbox("review", "end")>>),
       Moves(<<Parent("end")>>) >>]]

Script == Scripts[adapter][mode]

Over == at > Len(Script)
Op   == Script[at]
M    == Op.moves[k]

Pending(kind, p) == ~Over /\ Op.kind = kind /\ pc = p

Existing == {n \in Nodes : titled[n] > 0}

\* What an attempt before may have left: one node works at a time, on a parent
\* at work, and none before all mailboxes exist.
LeftBehind ==
    /\ Cardinality({n \in Nodes : status[n] = "work"}) <= 1
    /\ mode = "fresh" => status["parent"] = "start"
    /\ (\E n \in Existing : status[n] # "start")
           => status["parent"] = "work" /\ Existing = Nodes

Init ==
    /\ adapter \in Adapters
    /\ owned \in IF adapter = "jira" THEN BOOLEAN ELSE {FALSE}
    /\ mode \in Modes
    /\ titled \in [Nodes -> IF mode = "fresh" THEN {0}
                            ELSE IF mode = "restart" THEN {1} ELSE {0, 1}]
    /\ status \in [Issues -> Statuses \cup {"none"}]
    /\ \A n \in Nodes : IF n \in Existing THEN status[n] \in {"start", "work", "end"}
                                          ELSE status[n] = "none"
    /\ status["parent"] \in {"start", "work"}
    /\ LeftBehind
    /\ comments = [m \in Markers |-> 0]
    /\ at = 1 /\ k = 1 /\ pc = "begin" /\ listing = {} /\ id = NoId
    /\ cache = Unknown /\ known = <<>> /\ snapshot = Unknown /\ faults = {}

-----------------------------------------------------------------------------
(* Faults, and how an operation goes on.                                    *)

Fault(kind) ==
    /\ kind \notin faults /\ faults \cup {kind} \in Scenarios
    /\ faults' = faults \cup {kind}

\* Any error returns from the operation; the retry starts it over.
Again == pc' = "begin" /\ k' = 1 /\ listing' = {} /\ id' = NoId

Onward ==
    /\ IF k < Len(Op.moves) THEN k' = k + 1 /\ pc' = "begin" ELSE pc' = "done" /\ k' = k
    /\ id' = NoId /\ UNCHANGED listing

\* The answer of a write is lost, or it leads on.
Sent(next) == (next /\ UNCHANGED faults) \/ (Again /\ Fault("lost"))

CallFails ==
    /\ ~Over /\ pc # "done" /\ Fault("refused") /\ Again
    /\ UNCHANGED <<run, at, board, cache, known, snapshot>>

\* The server dies, perhaps before the operation's success is recorded.  The
\* client's memory goes with it.
Crash ==
    /\ ~Over /\ Fault("crash") /\ Again
    /\ cache' = Unknown /\ known' = <<>> /\ snapshot' = Unknown
    /\ UNCHANGED <<run, at, board>>

Recorded ==
    /\ ~Over /\ pc = "done" /\ at' = at + 1 /\ Again
    /\ UNCHANGED <<run, board, cache, known, snapshot, faults>>

-----------------------------------------------------------------------------
(* Mailboxes and comments: look, then write what is missing.                *)

\* What the Jira client is told about an issue it remembers.
Told(issues) == [i \in Issues |-> IF i \in issues THEN status[i] ELSE cache[i]]

ListMailboxes ==
    /\ Pending("ensure", "begin")
    /\ listing' = Existing /\ pc' = "create"
    /\ cache' = IF adapter = "jira" THEN Told({"parent"} \cup Existing) ELSE cache
    /\ UNCHANGED <<run, at, k, id, board, known, snapshot, faults>>

\* A new issue has the first status of its workflow, which Jira's adapter
\* does not presume to know.
Created(made) ==
    /\ titled' = [n \in Nodes |-> IF n \in made THEN titled[n] + 1 ELSE titled[n]]
    /\ status' = [i \in Issues |-> IF i \in made THEN "start" ELSE status[i]]

\* Jira creates in one batch, Beads one by one.  Existing mailboxes are only
\* described again.
CreateMailboxes ==
    /\ Pending("ensure", "create")
    /\ LET missing == Nodes \ listing
       IN  \/ missing = {} /\ Onward /\ UNCHANGED <<titled, status, faults>>
           \/ /\ adapter = "jira" /\ missing # {} /\ Created(missing)
              /\ Sent(Onward)
           \/ /\ adapter = "jira" /\ Fault("partial") /\ Again
              /\ \E made \in SUBSET missing : made # missing /\ Created(made)
           \/ /\ adapter = "beads"
              /\ \E n \in missing :
                    /\ Created({n})
                    /\ Sent(listing' = listing \cup {n} /\ UNCHANGED <<k, pc, id>>)
    /\ UNCHANGED <<run, at, comments, cache, known, snapshot>>

\* Mutant: the comment is posted without a look at those that are there.
ListNoComments ==
    /\ Pending("comment", "begin")
    /\ pc' = "comment"
    /\ UNCHANGED <<run, at, k, listing, id, board, cache, known, snapshot, faults>>

ListComments ==
    /\ Pending("comment", "begin")
    /\ pc' = IF comments[Op.marker] > 0 THEN "done" ELSE "comment"
    /\ UNCHANGED <<run, at, k, listing, id, board, cache, known, snapshot, faults>>

AddComment ==
    /\ Pending("comment", "comment")
    /\ comments' = [comments EXCEPT ![Op.marker] = @ + 1]
    /\ Sent(Onward)
    /\ UNCHANGED <<run, at, titled, status, cache, known, snapshot>>

-----------------------------------------------------------------------------
(* Statuses on Beads: bd show, then at most one unconditional bd update.    *)

Moved(to) == status' = [status EXCEPT ![M.issue] = to]

BeadsShow ==
    /\ Pending("move", "begin") /\ adapter = "beads"
    /\ \/ M.blind /\ pc' = "post" /\ UNCHANGED <<k, listing, id>>
       \/ ~M.blind /\ status[M.issue] = M.to /\ Onward
       \/ /\ ~M.blind /\ status[M.issue] \in M.from \ {M.to}
          /\ pc' = "post" /\ UNCHANGED <<k, listing, id>>
       \/ ~M.blind /\ status[M.issue] \notin M.from \cup {M.to} /\ Again
    /\ UNCHANGED <<run, at, board, cache, known, snapshot, faults>>

BeadsUpdate ==
    /\ Pending("move", "post") /\ adapter = "beads"
    /\ Moved(M.to) /\ Sent(Onward)
    /\ UNCHANGED <<run, at, titled, comments, cache, known, snapshot>>

-----------------------------------------------------------------------------
(* Statuses on Jira: HTTPClient.Transition and its caches.                  *)

Remembered(s) == cache' = [cache EXCEPT ![M.issue] = s]

\* Mutant: an id is remembered for its target alone.
KeyByTarget == <<M.issue = "parent", M.to, M.to>>

\* The project is one, the issue type the parent's or a mailbox's.
Key == <<M.issue = "parent", cache[M.issue], M.to>>

RefreshUnknown ==
    /\ Pending("move", "begin") /\ adapter = "jira" /\ cache[M.issue] = "unknown"
    /\ Remembered(status[M.issue])
    /\ UNCHANGED <<run, at, op, board, known, snapshot, faults>>

\* The transitions Jira lists start from the true status, and are remembered
\* under the cached one.
FindTransition ==
    /\ Pending("move", "begin") /\ adapter = "jira" /\ cache[M.issue] # "unknown"
    /\ LET listed == <<status[M.issue], M.to>>
       IN  \/ cache[M.issue] = M.to /\ Onward /\ UNCHANGED known
           \/ /\ cache[M.issue] # M.to /\ Key \in DOMAIN known
              /\ id' = known[Key] /\ pc' = "post" /\ UNCHANGED <<k, listing, known>>
           \/ /\ cache[M.issue] # M.to /\ Key \notin DOMAIN known /\ listed \in Offered
              /\ known' = known @@ (Key :> listed)
              /\ id' = listed /\ pc' = "post" /\ UNCHANGED <<k, listing>>
           \/ /\ cache[M.issue] # M.to /\ Key \notin DOMAIN known /\ listed \notin Offered
              /\ pc' = "recheck" /\ UNCHANGED <<k, listing, id, known>>
    /\ UNCHANGED <<run, at, board, cache, snapshot, faults>>

\* There already, or a conflict.
Recheck ==
    /\ Pending("move", "recheck")
    /\ Remembered(status[M.issue])
    /\ IF status[M.issue] = M.to THEN Onward ELSE Again
    /\ UNCHANGED <<run, at, board, known, snapshot, faults>>

\* Mutant: the new status is remembered before Jira has confirmed it.
PostRemembersFirst ==
    /\ Pending("move", "post") /\ adapter = "jira"
    /\ Remembered(M.to)
    /\ \/ id[1] = status[M.issue] /\ Moved(M.to) /\ Sent(Onward)
       \/ id[1] # status[M.issue] /\ Again /\ UNCHANGED <<status, faults>>
       \/ Fault("refused") /\ Again /\ UNCHANGED status
    /\ UNCHANGED <<run, at, titled, comments, known, snapshot>>

\* Jira refuses a transition that does not start from the true status; what
\* the client remembers stays.
PostTransition ==
    /\ Pending("move", "post") /\ adapter = "jira"
    /\ IF id[1] = status[M.issue]
       THEN /\ Moved(M.to)
            /\ \/ Onward /\ Remembered(M.to) /\ UNCHANGED faults
               \/ Again /\ Fault("lost") /\ UNCHANGED cache
       ELSE Again /\ UNCHANGED <<status, cache, faults>>
    /\ UNCHANGED <<run, at, titled, comments, known, snapshot>>

-----------------------------------------------------------------------------
(* Others: people, and the polls of the same process.                       *)

HumanMoves ==
    /\ Fault("human") \/ Fault("again")
    /\ \E i \in {"parent"} \cup Existing, s \in Statuses :
          status' = [status EXCEPT ![i] = s]
    /\ UNCHANGED <<run, at, op, titled, comments, cache, known, snapshot>>

\* A search finds the parent unless it is done; with an assignee filter, the
\* ownership of the claimed ticket is then read with its mailboxes.
Polled == IF status["parent"] = "end" THEN {}
          ELSE {"parent"} \cup (IF owned THEN Existing ELSE {})

Poll ==
    /\ adapter = "jira" /\ ~Over
    /\ cache' = Told(Polled)
    /\ UNCHANGED <<run, at, op, board, known, snapshot, faults>>

PollReads ==
    /\ adapter = "jira" /\ ~Over /\ Polled # {} /\ Fault("late")
    /\ snapshot' = [i \in Issues |-> IF i \in Polled THEN status[i] ELSE "unknown"]
    /\ UNCHANGED <<run, at, op, board, cache, known>>

PollRemembers ==
    /\ snapshot # Unknown /\ snapshot' = Unknown
    /\ cache' = [i \in Issues |-> IF snapshot[i] = "unknown" THEN cache[i] ELSE snapshot[i]]
    /\ UNCHANGED <<run, at, op, board, known, faults>>

-----------------------------------------------------------------------------
Step ==
    \/ ListMailboxes \/ CreateMailboxes \/ ListComments \/ AddComment
    \/ BeadsShow \/ BeadsUpdate
    \/ RefreshUnknown \/ FindTransition \/ Recheck \/ PostTransition
    \/ Recorded

Next ==
    \/ Step \/ CallFails \/ Crash \/ HumanMoves
    \/ Poll \/ PollReads \/ PollRemembers

Spec == Init /\ [][Next]_vars

\* Failed operations are retried, polls keep coming and are answered.
FairSpec ==
    Spec /\ WF_vars(Step) /\ WF_vars(Poll) /\ WF_vars(PollRemembers)

-----------------------------------------------------------------------------
(* Properties.                                                              *)

\* However often an operation is retried, over failed calls, lost answers,
\* half a batch, crashes and slow polls, nothing is written twice: one issue
\* for a mailbox, one comment for a marker.
NothingTwice ==
    /\ \A n \in Nodes : titled[n] <= 1
    /\ \A m \in Markers : comments[m] <= 1

\* An operation that reports success has been carried out, whatever failed on
\* the way: unless people moved issues meanwhile, or a poll that was answered
\* late made Jira's client believe in an old status.
AnsweredIsDone ==
    pc = "done" =>
        /\ Op.kind = "ensure" => Existing = Nodes
        /\ Op.kind = "comment" => comments[Op.marker] > 0
        /\ Op.kind = "move" /\ {"human", "again", "late"} \cap faults = {} =>
              \A j \in DOMAIN Op.moves : status[Op.moves[j].issue] = Op.moves[j].to

\* A status that Beads leaves to the people who set it.
Conflicted ==
    /\ Pending("move", "begin") /\ adapter = "beads" /\ ~M.blind
    /\ status[M.issue] \notin M.from \cup {M.to}

\* Every operation ends in the end, or a person's status blocks it for good.
\* Of Jira this holds while its cache is right: people, late polls and lost
\* answers can leave it wrong for good (see LostCompletionSettles).
OpsSettle ==
    \/ <>Over
    \/ []<>Conflicted
    \/ <>(adapter = "jira" /\ {"human", "again", "late", "lost"} \cap faults # {})

\* A status already is the "end" that the operation under way is to set.
Completing ==
    /\ ~Over /\ Op.kind = "move" /\ pc # "done"
    /\ M.to = "end" /\ status[M.issue] = "end"

\* openspec/specs/node-mailboxes/spec.md:94-96: a provider that completed the
\* mailbox though the acknowledgement was lost is recognized on the retry, so
\* the operation does not stay at it.
LostCompletionSettles == Completing ~> ~Completing
===============================================================================
