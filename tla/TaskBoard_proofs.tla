--------------------------- MODULE TaskBoard_proofs ---------------------------
(***************************************************************************)
(* Whatever transitions a Jira project offers and whatever faults strike:  *)
(* a run writes nothing twice, and an operation that reports success has   *)
(* been carried out.                                                       *)
(*                                                                         *)
(* The first rests on what an operation knows between its look at the      *)
(* ticket and its write (Looked).  The second needs that the issues of an  *)
(* operation are distinct, a fact about the scripts, and how far Jira's    *)
(* cache can be trusted (CacheRight).                                      *)
(***************************************************************************)
EXTENDS TaskBoard, TLAPS

(* What the scripts are made of. *)
Steps == [issue : Issues, to : Statuses, from : SUBSET Statuses, blind : BOOLEAN]

Operations ==
    {o \in [kind : {"ensure", "comment", "move"}, moves : Seq(Steps),
            marker : Markers \cup {"none"}] :
        /\ o.kind = "comment" => o.marker \in Markers
        /\ o.kind = "move" <=> Len(o.moves) # 0
        /\ \A i, j \in DOMAIN o.moves : o.moves[i].issue = o.moves[j].issue => i = j}

\* An operation may move one issue, or two different ones.
LEMMA MovesOnce ==
    /\ \A a \in Steps : Moves(<<a>>) \in Operations
    /\ \A a, b \in Steps : a.issue # b.issue => Moves(<<a, b>>) \in Operations
<1>1. ASSUME NEW a \in Steps PROVE Moves(<<a>>) \in Operations
  BY DEF Operations, Moves
<1>2. ASSUME NEW a \in Steps, NEW b \in Steps, a.issue # b.issue
      PROVE  Moves(<<a, b>>) \in Operations
  BY <1>2 DEF Operations, Moves
<1> QED BY <1>1, <1>2

\* Every move is one.
LEMMA MovesTyped ==
    /\ \A n \in Nodes : Reopen(n) \in Steps /\ Reopen(n).issue = n
    /\ \A i \in Issues, a \in Adapters : Reset(a, i) \in Steps /\ Reset(a, i).issue = i
    /\ \A n \in Nodes, to \in {"work", "end"} : Mailbox(n, to) \in Steps /\ Mailbox(n, to).issue = n
    /\ \A to \in Statuses : Parent(to) \in Steps /\ Parent(to).issue = "parent"
BY DEF Steps, Reopen, Reset, Mailbox, Parent, Move, MailboxSources, ParentSources, Issues, Nodes,
   Statuses, Adapters

\* A script opens with the mailboxes, and every entry is an operation.
LEMMA ScriptTyped ==
    \A a \in Adapters, m \in Modes :
        /\ Scripts[a][m] \in Seq(Operations) /\ Len(Scripts[a][m]) > 0
        /\ Scripts[a][m][1].kind = "ensure"
<1> SUFFICES ASSUME NEW a \in Adapters, NEW m \in Modes
             PROVE  /\ Scripts[a][m] \in Seq(Operations) /\ Len(Scripts[a][m]) > 0
                    /\ Scripts[a][m][1].kind = "ensure"
  OBVIOUS
<1>1. Ensure \in Operations /\ Ensure.kind = "ensure"
  BY DEF Ensure, Operations, Markers
<1>2. \A x \in Markers : Comment(x) \in Operations
  BY DEF Comment, Operations
<1>3. PrepareRestart \in Operations
  BY MovesOnce, MovesTyped DEF PrepareRestart, Nodes
<1>4. ResetForRecovery(a) \in Operations
  <2>1. CASE a = "beads"
    <3> DEFINE s == <<Reset(a, "parent")>> \o <<Reset(a, "coding"), Reset(a, "review")>>
    <3>1. /\ s \in Seq(Steps) /\ Len(s) = 3 /\ DOMAIN s = 1..3
          /\ s[1].issue = "parent" /\ s[2].issue = "coding" /\ s[3].issue = "review"
      BY MovesTyped DEF Issues, Nodes
    <3>2. ResetForRecovery(a) = Moves(s)
      BY <2>1 DEF ResetForRecovery
    <3> HIDE DEF s
    <3>3. Moves(s) \in Operations
      BY <3>1 DEF Moves, Operations
    <3> QED BY <3>2, <3>3
  <2>2. CASE a = "jira"
    <3>1. ResetForRecovery(a) = Moves(<<Reset(a, "coding"), Reset(a, "review")>>)
      BY <2>2 DEF ResetForRecovery
    <3> QED BY <3>1, MovesOnce, MovesTyped DEF Issues, Nodes
  <2> QED BY <2>1, <2>2 DEF Adapters
<1>5. ApplyStart(a) \in Operations
  BY MovesOnce, MovesTyped DEF ApplyStart, Statuses
<1>6. \A n \in Nodes : Work(n) \in Operations /\ Moves(<<Mailbox(n, "end")>>) \in Operations
  BY MovesOnce, MovesTyped DEF Work, Nodes, Statuses
<1>7. Moves(<<Parent("end")>>) \in Operations
  BY MovesOnce, MovesTyped DEF Statuses
<1> DEFINE Rest == << ApplyStart(a),
       Work("coding"), Comment("summary"), Comment("feedback"),
       Moves(<<Mailbox("coding", "end")>>),
       Work("review"), Comment("approval"), Moves(<<Mailbox("review", "end")>>),
       Moves(<<Parent("end")>>) >>
<1>8. Rest \in Seq(Operations)
  BY <1>2, <1>5, <1>6, <1>7 DEF Markers, Nodes
<1>9. Opening(a, m) \in Seq(Operations) /\ Len(Opening(a, m)) > 0 /\ Opening(a, m)[1] = Ensure
  BY <1>1, <1>3, <1>4 DEF Opening, Modes
<1>10. Scripts[a][m] = Opening(a, m) \o Rest
  BY DEF Scripts
<1> HIDE DEF Rest
<1> QED BY <1>1, <1>8, <1>9, <1>10

\* The script in use, and where the run is in it.
AtWork == adapter \in Adapters /\ mode \in Modes /\ at \in Nat \ {0}

LEMMA InScript ==
    ASSUME AtWork, ~Over
    PROVE  /\ Op \in Operations /\ (at = 1 => Op.kind = "ensure")
           /\ Op.kind = "comment" => Op.marker \in Markers
<1>1. Script \in Seq(Operations) /\ at \in 1..Len(Script) /\ Script[1].kind = "ensure"
  BY ScriptTyped DEF AtWork, Over, Script
<1>2. Op \in Operations /\ (at = 1 => Op.kind = "ensure")
  BY <1>1 DEF Op
<1> QED BY <1>2 DEF Operations

\* Between its look and its write an operation knows what is missing: nobody
\* else creates mailboxes or comments.
Looked ==
    /\ AtWork
    /\ pc \in {"begin", "create", "comment", "recheck", "post", "done"}
    /\ titled \in [Nodes -> 0..1] /\ comments \in [Markers -> 0..1]
    /\ pc = "create" => \A n \in Nodes \ listing : titled[n] = 0
    /\ pc = "comment" => comments[Op.marker] = 0

LEMMA InitLooked == Init => Looked
BY DEF Init, Looked, AtWork, Nodes, Markers

LEMMA NextLooked == Looked /\ [Next]_vars => Looked'
<1> SUFFICES ASSUME Looked, [Next]_vars PROVE Looked'
  OBVIOUS
<1> USE DEF Looked
<1>a. AtWork'
  BY DEF AtWork, Next, vars, Step, ListMailboxes, CreateMailboxes, ListComments, AddComment,
     BeadsShow, BeadsUpdate, RefreshUnknown, FindTransition, Recheck, PostTransition, Recorded,
     CallFails, Crash, HumanMoves, Poll, PollReads, PollRemembers, run
<1>0. CASE UNCHANGED <<pc, listing, titled, comments, at, run>>
  BY <1>a, <1>0 DEF run, Op, Script
<1>1. CASE ListMailboxes
  BY <1>a, <1>1 DEF ListMailboxes, run, board, Op, Script, Existing, Nodes
<1>2. CASE CreateMailboxes
  <2>1. comments' = comments /\ pc' \in {"begin", "create", "done"}
    BY <1>2 DEF CreateMailboxes, Pending, Sent, Onward, Again
  <2>2. ASSUME NEW made \in SUBSET (Nodes \ listing), Created(made)
        PROVE  titled' \in [Nodes -> 0..1] /\ \A n \in Nodes \ made : titled'[n] = titled[n]
    BY <1>2, <2>2 DEF Created, CreateMailboxes, Pending, Nodes
  <2>3. CASE UNCHANGED titled /\ pc' \in {"begin", "done"}
    BY <1>a, <2>1, <2>3
  <2>4. CASE \E made \in SUBSET (Nodes \ listing) : Created(made) /\ pc' \in {"begin", "done"}
    BY <1>a, <2>1, <2>2, <2>4
  <2>5. CASE \E n \in Nodes \ listing : Created({n}) /\ listing' = listing \cup {n} /\ pc' = "create"
    <3>1. PICK n \in Nodes \ listing : Created({n}) /\ listing' = listing \cup {n}
      BY <2>5
    <3>2. \A m \in Nodes \ listing' : titled[m] = 0
      BY <1>2, <3>1 DEF CreateMailboxes, Pending
    <3> QED BY <1>a, <2>1, <2>2, <2>5, <3>1, <3>2
  <2>6. CASE \E n \in Nodes \ listing : Created({n}) /\ pc' = "begin"
    BY <1>a, <2>1, <2>2, <2>6
  <2> QED
    BY <1>2, <2>3, <2>4, <2>5, <2>6
    DEF CreateMailboxes, Pending, Sent, Onward, Again, Ensure
<1>3. CASE ListComments
  BY <1>a, <1>3, InScript DEF Pending, ListComments, run, board, Op, Script
<1>4. CASE AddComment
  <2>1. titled' = titled /\ pc' \in {"begin", "done"}
    BY <1>4 DEF AddComment, Sent, Onward, Again
  <2>2. comments' \in [Markers -> 0..1]
    BY <1>4, InScript DEF AddComment, Pending
  <2> QED BY <1>a, <2>1, <2>2
<1>5. CASE BeadsShow \/ BeadsUpdate \/ RefreshUnknown \/ FindTransition \/ Recheck
           \/ PostTransition \/ Recorded \/ CallFails \/ Crash
  <2>1. UNCHANGED <<titled, comments>>
    BY <1>5 DEF BeadsShow, BeadsUpdate, RefreshUnknown, FindTransition, Recheck,
       PostTransition, Recorded, CallFails, Crash, board
  <2>2. pc' \in {"begin", "recheck", "post", "done"}
    BY <1>5 DEF BeadsShow, BeadsUpdate, RefreshUnknown, FindTransition, Recheck,
       PostTransition, Recorded, CallFails, Crash, Pending, op, Again, Onward, Sent
  <2> QED BY <1>a, <2>1, <2>2
<1>6. CASE HumanMoves \/ Poll \/ PollReads \/ PollRemembers
  BY <1>0, <1>6 DEF HumanMoves, Poll, PollReads, PollRemembers, op, board
<1> QED
  BY <1>0, <1>1, <1>2, <1>3, <1>4, <1>5, <1>6 DEF Next, Step, vars, op, board

(* However often an operation is retried, over failed calls, lost answers, *)
(* half a batch and crashes, there is one issue for a mailbox and one      *)
(* comment for a marker (EnsureMailboxes, HasComment and Comment).         *)
THEOREM WrittenOnce == Spec => []NothingTwice
<1>1. Looked => NothingTwice
  BY DEF Looked, NothingTwice
<1> QED BY <1>1, InitLooked, NextLooked, PTL DEF Spec

-----------------------------------------------------------------------------
(* Where an operation is, and what it has done so far. *)
Placed ==
    /\ k \in Nat \ {0}
    /\ status \in [Issues -> Statuses \cup {"none"}]
    /\ {cache, snapshot} \subseteq [Issues -> Statuses \cup {"none", "unknown"}]
    /\ ~Over /\ Op.kind = "move" => k \in DOMAIN Op.moves
    /\ pc # "begin" => ~Over
    /\ pc = "create" => Op.kind = "ensure" /\ listing \subseteq Existing
    /\ pc = "comment" => Op.kind = "comment"
    /\ pc \in {"recheck", "post"} => Op.kind = "move"
    /\ pc = "done" /\ Op.kind = "ensure" => Existing = Nodes
    /\ pc = "done" /\ Op.kind = "comment" => comments[Op.marker] > 0
    /\ at > 1 => Existing = Nodes

Base == Looked /\ Placed

\* Neither people nor an answer that came late.
Undisturbed == {"human", "again", "late"} \cap faults = {}

\* A move that was answered by nobody has been made all the same.
Overtaken(i) ==
    /\ ~Over /\ Op.kind = "move" /\ pc # "done"
    /\ \E j \in DOMAIN Op.moves : j >= k /\ Op.moves[j].issue = i /\ Op.moves[j].to = status[i]

\* What Jira's client remembers is true, but of an issue that the operation
\* under way has moved without knowing it.
CacheRight ==
    /\ snapshot = Unknown
    /\ \A i \in Issues : cache[i] \in {"unknown", status[i]} \/ Overtaken(i)
    /\ \A n \in Nodes \ Existing : cache[n] = "unknown"

\* The moves behind the current one.
Passed ==
    ~Over /\ Op.kind = "move" =>
       \A j \in DOMAIN Op.moves : j < k \/ pc = "done" =>
          /\ status[Op.moves[j].issue] = Op.moves[j].to
          /\ adapter = "jira" => cache[Op.moves[j].issue] \in {"unknown", Op.moves[j].to}

Carried == Undisturbed => Passed /\ (adapter = "jira" => CacheRight)

\* A move of the operation under way.
LEMMA MoveTyped ==
    ASSUME Base, ~Over, Op.kind = "move"
    PROVE  /\ Op.moves \in Seq(Steps) /\ k \in DOMAIN Op.moves /\ M \in Steps
           /\ DOMAIN Op.moves = 1..Len(Op.moves)
           /\ \A j \in DOMAIN Op.moves : Op.moves[j] \in Steps
           /\ \A i, j \in DOMAIN Op.moves : Op.moves[i].issue = Op.moves[j].issue => i = j
<1>1. Op \in Operations
  BY InScript DEF Base, Looked
<1>2. Op.moves \in Seq(Steps) /\ k \in DOMAIN Op.moves
  BY <1>1 DEF Operations, Base, Placed
<1> QED BY <1>1, <1>2 DEF Operations, M

\* The other operations move nothing.
LEMMA NoMoves ==
    ASSUME Base, ~Over, Op.kind # "move"
    PROVE  Len(Op.moves) = 0
BY InScript DEF Operations, Base, Looked

LEMMA InitPlaced == Init => Base /\ Carried
<1> SUFFICES ASSUME Init PROVE Base /\ Carried
  OBVIOUS
<1>1. Looked
  BY InitLooked
<1>2. /\ at = 1 /\ k = 1 /\ pc = "begin" /\ cache = Unknown /\ snapshot = Unknown
      /\ status \in [Issues -> Statuses \cup {"none"}]
  BY DEF Init
<1>3. ~Over => Op \in Operations /\ Op.kind = "ensure"
  BY <1>1, <1>2, InScript DEF Looked
<1>4. Unknown \in [Issues -> Statuses \cup {"none", "unknown"}]
  BY DEF Unknown
<1>5. Placed
  BY <1>2, <1>3, <1>4 DEF Placed
<1>6. Passed /\ CacheRight
  BY <1>2, <1>3 DEF Passed, CacheRight, Unknown, Issues
<1> QED BY <1>1, <1>5, <1>6 DEF Base, Carried

(* The disjuncts of Next, by what they touch. *)
Reads  == ListMailboxes \/ ListComments \/ RefreshUnknown
Writes == CreateMailboxes \/ AddComment
Shifts == BeadsShow \/ BeadsUpdate \/ FindTransition \/ Recheck \/ PostTransition
Beside == HumanMoves \/ Poll \/ PollReads \/ PollRemembers

LEMMA NextCases == Next => Reads \/ Writes \/ Shifts \/ Recorded \/ CallFails \/ Crash \/ Beside
BY Zenon DEF Next, Step, Reads, Writes, Shifts, Beside

\* Only the recording of a success changes the operation under way.
LEMMA SameOperation ==
    ASSUME Reads \/ Writes \/ Shifts \/ CallFails \/ Crash \/ Beside
    PROVE  UNCHANGED <<adapter, mode, at>> /\ Op' = Op /\ Over' = Over
<1>1. UNCHANGED <<adapter, mode, at>>
  BY DEF Reads, Writes, Shifts, Beside, ListMailboxes, ListComments, RefreshUnknown,
     CreateMailboxes, AddComment, BeadsShow, BeadsUpdate, FindTransition, Recheck,
     PostTransition, CallFails, Crash, HumanMoves, Poll, PollReads, PollRemembers, run
<1> QED BY <1>1 DEF Op, Over, Script

\* Statuses stay statuses, remembered ones too.
LEMMA NextStatuses ==
    ASSUME Base, Next
    PROVE  /\ status' \in [Issues -> Statuses \cup {"none"}]
           /\ {cache', snapshot'} \subseteq [Issues -> Statuses \cup {"none", "unknown"}]
<1> DEFINE Known == [Issues -> Statuses \cup {"none", "unknown"}]
<1>t. status \in [Issues -> Statuses \cup {"none"}] /\ cache \in Known /\ snapshot \in Known
  BY DEF Base, Placed
<1>m. ~Over /\ Op.kind = "move" => M.issue \in Issues /\ M.to \in Statuses
  BY MoveTyped DEF Steps
<1>u. Unknown \in Known
  BY DEF Unknown
<1>1. CASE Reads
  BY <1>1, <1>t, <1>m DEF Reads, ListMailboxes, ListComments, RefreshUnknown, Pending, Remembered,
     Told, board, op
<1>2. CASE Writes
  <2>1. ASSUME NEW made, Created(made)
        PROVE  status' \in [Issues -> Statuses \cup {"none"}]
    BY <2>1, <1>t DEF Created, Statuses
  <2> QED BY <1>2, <1>t, <2>1 DEF Writes, CreateMailboxes, AddComment
<1>3. CASE Shifts
  <2>1. ASSUME ~Over, Op.kind = "move", Moved(M.to)
        PROVE  status' \in [Issues -> Statuses \cup {"none"}]
    BY <2>1, <1>t, <1>m DEF Moved
  <2>2. ASSUME ~Over, Op.kind = "move", NEW x \in Statuses \cup {"none"}, Remembered(x)
        PROVE  cache' \in Known
    BY <2>2, <1>t, <1>m DEF Remembered
  <2>3. ~Over /\ Op.kind = "move" => status[M.issue] \in Statuses \cup {"none"}
    BY <1>t, <1>m
  <2>4. CASE BeadsShow \/ BeadsUpdate
    BY <2>4, <1>t, <2>1 DEF BeadsShow, BeadsUpdate, Pending, board
  <2>5. CASE FindTransition
    BY <2>5, <1>t DEF FindTransition, board
  <2>6. CASE Recheck
    BY <2>6, <1>t, <2>2, <2>3 DEF Recheck, Pending, board
  <2>7. CASE PostTransition
    BY <2>7, <1>t, <1>m, <2>1, <2>2 DEF PostTransition, Pending
  <2> QED BY <1>3, <2>4, <2>5, <2>6, <2>7 DEF Shifts
<1>4. CASE Recorded \/ CallFails \/ Crash
  BY <1>4, <1>t, <1>u DEF Recorded, CallFails, Crash, board
<1>5. CASE Beside
  <2>1. CASE HumanMoves
    BY <2>1, <1>t DEF HumanMoves
  <2>2. CASE Poll \/ PollReads \/ PollRemembers
    BY <2>2, <1>t, <1>u DEF Poll, PollReads, PollRemembers, Told, board
  <2> QED BY <1>5, <2>1, <2>2 DEF Beside
<1> QED BY <1>1, <1>2, <1>3, <1>4, <1>5, NextCases

\* What exists once some mailboxes are made.
LEMMA CreatedExist ==
    ASSUME Looked, NEW made \in SUBSET Nodes, Created(made)
    PROVE  Existing' = Existing \cup made
<1>1. \A n \in Nodes : titled[n] \in 0..1 /\ titled'[n] = IF n \in made THEN titled[n] + 1 ELSE titled[n]
  BY DEF Created, Looked
<1> QED BY <1>1 DEF Existing

\* A mailbox that exists stays.
LEMMA MailboxesStay ==
    ASSUME Base, Next
    PROVE  Existing \subseteq Existing'
<1>2. CASE CreateMailboxes
  <2>1. UNCHANGED titled \/ \E made \in SUBSET Nodes : Created(made)
    BY <1>2 DEF CreateMailboxes
  <2>2. UNCHANGED titled => Existing' = Existing
    BY DEF Existing
  <2> QED BY <2>1, <2>2, CreatedExist DEF Base
<1>3. CASE ~CreateMailboxes
  <2>1. titled' = titled
    BY <1>3 DEF Next, Step, ListMailboxes, ListComments, AddComment, BeadsShow, BeadsUpdate,
       RefreshUnknown, FindTransition, Recheck, PostTransition, Recorded, CallFails, Crash,
       HumanMoves, Poll, PollReads, PollRemembers, board
  <2> QED BY <2>1 DEF Existing
<1> QED BY <1>2, <1>3

\* Where an operation goes on: to its next move, or to its end.
LEMMA OnwardPlaces ==
    ASSUME Base, ~Over, Onward, UNCHANGED <<adapter, mode, at>>
    PROVE  /\ k' \in Nat \ {0} /\ (Op.kind = "move" => k' \in DOMAIN Op.moves)
           /\ pc' \in {"begin", "done"}
           /\ pc' = "done" => k' = k /\ (Op.kind = "move" => k = Len(Op.moves))
           /\ pc' = "begin" => k' = k + 1 /\ Op.kind = "move"
<1>1. k \in Nat \ {0}
  BY DEF Base, Placed
<1>2. CASE Op.kind = "move"
  BY <1>1, <1>2, MoveTyped DEF Onward
<1>3. CASE Op.kind # "move"
  BY <1>1, <1>3, NoMoves DEF Onward
<1> QED BY <1>2, <1>3

\* An operation that starts over.
LEMMA AgainPlaces ==
    ASSUME Base, Again, UNCHANGED <<adapter, mode, at>>
    PROVE  /\ k' = 1 /\ pc' = "begin"
           /\ ~Over /\ Op.kind = "move" => k' \in DOMAIN Op.moves
BY MoveTyped DEF Again

LEMMA NextPlaced == Base /\ [Next]_vars => Base'
<1> SUFFICES ASSUME Base, [Next]_vars PROVE Placed'
  BY NextLooked DEF Base
<1>0. CASE UNCHANGED vars
  BY <1>0 DEF Base, Placed, vars, run, board, op, Op, Over, Script, Existing
<1> SUFFICES ASSUME Next PROVE Placed'
  BY <1>0
<1>t. /\ k \in Nat \ {0}
      /\ ~Over /\ Op.kind = "move" => k \in DOMAIN Op.moves
      /\ pc # "begin" => ~Over
      /\ pc = "create" => Op.kind = "ensure" /\ listing \subseteq Existing
      /\ pc = "comment" => Op.kind = "comment"
      /\ pc \in {"recheck", "post"} => Op.kind = "move"
      /\ pc = "done" /\ Op.kind = "ensure" => Existing = Nodes
      /\ pc = "done" /\ Op.kind = "comment" => comments[Op.marker] > 0
      /\ at > 1 => Existing = Nodes
  BY DEF Base, Placed
<1>e. Existing \subseteq Existing' /\ Existing' \subseteq Nodes
  BY MailboxesStay DEF Existing
<1>s. /\ status' \in [Issues -> Statuses \cup {"none"}]
      /\ {cache', snapshot'} \subseteq [Issues -> Statuses \cup {"none", "unknown"}]
  BY NextStatuses
<1> DEFINE Kept ==
             /\ k' \in Nat \ {0}
             /\ ~Over /\ Op.kind = "move" => k' \in DOMAIN Op.moves
             /\ pc' # "begin" => ~Over
             /\ pc' = "create" => Op.kind = "ensure" /\ listing' \subseteq Existing'
             /\ pc' = "comment" => Op.kind = "comment"
             /\ pc' \in {"recheck", "post"} => Op.kind = "move"
             /\ pc' = "done" /\ Op.kind = "ensure" => Existing' = Nodes
             /\ pc' = "done" /\ Op.kind = "comment" => comments'[Op.marker] > 0
<1>k. ASSUME UNCHANGED <<adapter, mode, at>>, Kept
      PROVE  Placed'
  <2>1. Op' = Op /\ Over' = Over
    BY <1>k DEF Op, Over, Script
  <2>2. at' > 1 => Existing' = Nodes
    BY <1>k, <1>t, <1>e
  <2> QED BY <1>k, <1>s, <2>1, <2>2 DEF Placed
<1> HIDE DEF Kept
<1>1. CASE Reads
  <2> SUFFICES Kept
    BY <1>1, <1>k, SameOperation
  <2>1. UNCHANGED <<k, comments, titled>>
    BY <1>1 DEF Reads, ListMailboxes, ListComments, RefreshUnknown, board, op
  <2>2. CASE ListMailboxes
    BY <1>t, <2>1, <2>2 DEF ListMailboxes, Pending, Kept, Existing
  <2>3. CASE ListComments
    BY <1>t, <2>1, <2>3 DEF ListComments, Pending, Kept, Existing
  <2>4. CASE RefreshUnknown
    BY <1>t, <2>1, <2>4 DEF RefreshUnknown, Pending, Kept, Existing, op
  <2> QED BY <1>1, <2>2, <2>3, <2>4 DEF Reads
<1>2. CASE CreateMailboxes
  <2>0. UNCHANGED <<adapter, mode, at>>
    BY <1>2, SameOperation DEF Writes
  <2> SUFFICES Kept
    BY <1>k, <2>0
  <2>1. ~Over /\ Op.kind = "ensure" /\ pc = "create"
    BY <1>2 DEF CreateMailboxes, Pending
  <2>2. CASE Again
    BY <2>1, <2>2, <1>t DEF Again, Kept
  <2>3. CASE Onward /\ Existing' = Nodes
    BY <2>0, <2>1, <2>3, <1>t, OnwardPlaces DEF Kept
  <2>4. CASE \E n \in Nodes \ listing :
                Created({n}) /\ listing' = listing \cup {n} /\ UNCHANGED <<k, pc, id>>
    <3>1. PICK n \in Nodes \ listing :
                Created({n}) /\ listing' = listing \cup {n} /\ UNCHANGED <<k, pc, id>>
      BY <2>4
    <3>2. n \in Existing'
      BY <3>1, CreatedExist DEF Base
    <3> QED BY <2>1, <1>t, <1>e, <3>1, <3>2 DEF Kept
  <2>5. ASSUME Nodes \ listing = {} PROVE Existing' = Nodes
    BY <2>1, <2>5, <1>t, <1>e
  <2>6. ASSUME Created(Nodes \ listing) PROVE Existing' = Nodes
    BY <2>1, <2>6, <1>t, <1>e, CreatedExist DEF Base
  <2>7. Again \/ (Onward /\ Existing' = Nodes)
        \/ \E n \in Nodes \ listing :
                Created({n}) /\ listing' = listing \cup {n} /\ UNCHANGED <<k, pc, id>>
    BY <1>2, <2>5, <2>6 DEF CreateMailboxes, Sent
  <2> QED BY <2>2, <2>3, <2>4, <2>7
<1>3. CASE AddComment
  <2>0. UNCHANGED <<adapter, mode, at>>
    BY <1>3, SameOperation DEF Writes
  <2>1. ~Over /\ Op.kind = "comment" /\ Op.marker \in Markers
    BY <1>3, InScript DEF AddComment, Pending, Base, Looked
  <2>2. comments'[Op.marker] > 0
    BY <1>3, <2>1 DEF AddComment, Base, Looked
  <2>3. Again \/ Onward
    BY <1>3 DEF AddComment, Sent
  <2>4. Kept
    BY <2>0, <2>1, <2>2, <2>3, <1>t, OnwardPlaces DEF Kept, Again
  <2> QED BY <1>k, <2>0, <2>4
<1>4. CASE Shifts
  <2>0. UNCHANGED <<adapter, mode, at>>
    BY <1>4, SameOperation
  <2>1. ~Over /\ Op.kind = "move"
    BY <1>4, <1>t DEF Shifts, BeadsShow, BeadsUpdate, FindTransition, Recheck, PostTransition, Pending
  <2>2. Again \/ Onward \/ (k' = k /\ pc' \in {"recheck", "post"})
    BY <1>4 DEF Shifts, BeadsShow, BeadsUpdate, FindTransition, Recheck, PostTransition, Sent
  <2>3. Kept
    BY <2>0, <2>1, <2>2, <1>t, OnwardPlaces, AgainPlaces DEF Kept
  <2> QED BY <1>k, <2>0, <2>3
<1>5. CASE Recorded
  <2>1. ~Over /\ pc = "done" /\ at' = at + 1 /\ Again /\ UNCHANGED <<adapter, mode, titled>>
    BY <1>5 DEF Recorded, run, board
  <2>2. Existing' = Nodes
    <3>1. at \in Nat \ {0} /\ (at = 1 => Op.kind = "ensure")
      BY <2>1, InScript DEF Base, Looked, AtWork
    <3>2. Existing = Nodes
      BY <2>1, <3>1, <1>t
    <3> QED BY <3>2, <1>e
  <2>3. ~Over' /\ Op'.kind = "move" => 1 \in DOMAIN Op'.moves
    <3>1. AtWork'
      BY NextLooked DEF Base, Looked
    <3>2. ~Over' => Op' \in Operations
      BY <3>1, ScriptTyped DEF AtWork, Over, Script, Op
    <3> QED BY <3>2 DEF Operations
  <2> QED BY <2>1, <2>2, <2>3, <1>s DEF Placed, Again
<1>6. CASE CallFails \/ Crash
  <2>1. UNCHANGED <<adapter, mode, at>> /\ Again
    BY <1>6, SameOperation DEF CallFails, Crash
  <2>2. Kept
    BY <2>1, <1>t, AgainPlaces DEF Kept, Again
  <2> QED BY <1>k, <2>1, <2>2
<1>7. CASE Beside
  <2>1. UNCHANGED <<k, pc, listing, comments, titled>>
    BY <1>7 DEF Beside, HumanMoves, Poll, PollReads, PollRemembers, op, board
  <2>2. Kept
    BY <2>1, <1>t DEF Kept, Existing
  <2> QED BY <1>7, <1>k, <2>2, SameOperation
<1> QED BY <1>1, <1>2, <1>3, <1>4, <1>5, <1>6, <1>7, NextCases DEF Writes

-----------------------------------------------------------------------------
(* What the client remembers. *)

\* A move that is through: its issue has its status, and it is remembered.
Through ==
    /\ status'[M.issue] = M.to
    /\ adapter = "jira" => cache'[M.issue] = M.to
    /\ \A i \in Issues \ {M.issue} : status'[i] = status[i] /\ cache'[i] = cache[i]

LEMMA PassedOn ==
    ASSUME Base, ~Over, Op.kind = "move", Passed, Onward, Through,
           UNCHANGED <<adapter, mode, at>>
    PROVE  Passed'
<1>1. Op' = Op /\ Over' = Over /\ adapter' = adapter
  BY DEF Op, Over, Script
<1>2. /\ k \in Nat \ {0} /\ k' \in Nat \ {0} /\ pc' \in {"begin", "done"}
      /\ pc' = "done" => k' = k /\ k = Len(Op.moves)
      /\ pc' = "begin" => k' = k + 1
  BY OnwardPlaces DEF Base, Placed
<1> SUFFICES ASSUME NEW j \in DOMAIN Op.moves, j < k' \/ pc' = "done"
             PROVE  /\ status'[Op.moves[j].issue] = Op.moves[j].to
                    /\ adapter = "jira" =>
                          cache'[Op.moves[j].issue] \in {"unknown", Op.moves[j].to}
  BY <1>1 DEF Passed
<1>3. j \in 1..Len(Op.moves) /\ Len(Op.moves) \in Nat /\ Op.moves[j].issue \in Issues
  BY MoveTyped DEF Steps
<1>4. j < k \/ j = k
  BY <1>2, <1>3
<1>5. CASE j = k
  BY <1>5 DEF Through, M
<1>6. CASE j < k
  <2>1. Op.moves[j].issue # M.issue
    BY <1>2, <1>6, MoveTyped DEF M
  <2> QED BY <1>3, <1>6, <2>1 DEF Through, Passed
<1> QED BY <1>4, <1>5, <1>6

LEMMA CacheOn ==
    ASSUME Base, ~Over, Op.kind = "move", CacheRight, Onward, Through, adapter = "jira",
           UNCHANGED <<adapter, mode, at, snapshot>>, Existing' = Nodes
    PROVE  CacheRight'
<1>1. Op' = Op /\ Over' = Over
  BY DEF Op, Over, Script
<1>2. /\ k \in Nat \ {0} /\ k' \in Nat \ {0} /\ pc' \in {"begin", "done"}
      /\ pc' = "done" => k' = k /\ k = Len(Op.moves)
      /\ pc' = "begin" => k' = k + 1
  BY OnwardPlaces DEF Base, Placed
<1>3. ASSUME NEW i \in Issues PROVE cache'[i] \in {"unknown", status'[i]} \/ Overtaken(i)'
  <2>1. CASE i = M.issue
    BY <2>1 DEF Through
  <2>2. CASE i # M.issue /\ Overtaken(i)
    <3>1. PICK j \in DOMAIN Op.moves : j >= k /\ Op.moves[j].issue = i /\ Op.moves[j].to = status[i]
      BY <2>2 DEF Overtaken
    <3>2. j # k /\ j \in 1..Len(Op.moves) /\ Len(Op.moves) \in Nat
      BY <2>2, <3>1, MoveTyped DEF M
    <3>3. j >= k' /\ pc' # "done"
      BY <1>2, <3>1, <3>2
    <3>4. status'[i] = status[i]
      BY <2>2 DEF Through
    <3> QED BY <1>1, <3>1, <3>3, <3>4 DEF Overtaken
  <2>3. CASE i # M.issue /\ ~Overtaken(i)
    BY <2>3 DEF Through, CacheRight
  <2> QED BY <2>1, <2>2, <2>3
<1> QED BY <1>3 DEF CacheRight

\* An operation that starts over, its statuses as they were or its move made.
LEMMA CacheAgain ==
    ASSUME Base, ~Over, Op.kind = "move", pc # "done", CacheRight, Again,
           UNCHANGED <<adapter, mode, at, snapshot>>, Existing' = Nodes,
           \A i \in Issues : cache'[i] \in {cache[i], status'[i]},
           \A i \in Issues \ {M.issue} : status'[i] = status[i],
           status'[M.issue] \in {status[M.issue], M.to}
    PROVE  CacheRight'
<1>1. Op' = Op /\ Over' = Over
  BY DEF Op, Over, Script
<1>2. k' = 1 /\ pc' = "begin" /\ DOMAIN Op.moves = 1..Len(Op.moves) /\ k \in DOMAIN Op.moves
  BY AgainPlaces, MoveTyped
<1>3. ASSUME NEW i \in Issues PROVE cache'[i] \in {"unknown", status'[i]} \/ Overtaken(i)'
  <2>1. CASE i = M.issue /\ status'[i] = M.to
    BY <1>1, <1>2, <2>1 DEF Overtaken, M
  <2>2. CASE status'[i] = status[i] /\ Overtaken(i)
    <3>1. PICK j \in DOMAIN Op.moves : Op.moves[j].issue = i /\ Op.moves[j].to = status[i]
      BY <2>2 DEF Overtaken
    <3> QED BY <1>1, <1>2, <2>2, <3>1 DEF Overtaken
  <2>3. CASE status'[i] = status[i] /\ ~Overtaken(i)
    BY <2>3 DEF CacheRight
  <2> QED BY <2>1, <2>2, <2>3
<1> QED BY <1>3 DEF CacheRight

\* Nothing is undone of what happened.
LEMMA FaultsStay == ASSUME Next PROVE faults \subseteq faults'
BY DEF Next, Step, ListMailboxes, CreateMailboxes, ListComments, AddComment, BeadsShow,
   BeadsUpdate, RefreshUnknown, FindTransition, Recheck, PostTransition, Recorded, CallFails,
   Crash, HumanMoves, Poll, PollReads, PollRemembers, Sent, Fault

\* A move starts when all mailboxes exist, and they stay.
LEMMA MovesLate ==
    ASSUME Base, ~Over, Op.kind # "ensure"
    PROVE  Existing = Nodes
BY InScript DEF Base, Looked, AtWork, Placed

LEMMA NextCarried == Base /\ Carried /\ [Next]_vars => Carried'
<1> SUFFICES ASSUME Base, Carried, [Next]_vars, Undisturbed'
             PROVE  Passed' /\ (adapter' = "jira" => CacheRight')
  BY DEF Carried
<1>0. CASE UNCHANGED vars
  BY <1>0 DEF Carried, Undisturbed, Passed, CacheRight, Overtaken, vars, run, board, op, Op, Over,
     Script, Existing
<1> SUFFICES ASSUME Next PROVE Passed' /\ (adapter' = "jira" => CacheRight')
  BY <1>0
<1>t. Passed /\ (adapter = "jira" => CacheRight)
  BY FaultsStay DEF Carried, Undisturbed
<1>e. Existing \subseteq Existing' /\ Existing' \subseteq Nodes
  BY MailboxesStay DEF Existing
<1>1. CASE Reads
  <2>0. UNCHANGED <<adapter, mode, at>> /\ Op' = Op /\ Over' = Over
    BY <1>1, SameOperation
  <2>1. CASE ListMailboxes
    <3>1. /\ Op.kind = "ensure" /\ ~Over /\ UNCHANGED <<status, snapshot, titled>>
          /\ adapter = "jira" => cache' = Told({"parent"} \cup Existing)
      BY <2>1 DEF ListMailboxes, Pending, board
    <3>2. Passed'
      BY <2>0, <3>1 DEF Passed
    <3>3. Existing' = Existing
      BY <3>1 DEF Existing
    <3>4. adapter = "jira" => CacheRight'
      BY <1>t, <2>0, <3>1, <3>3 DEF CacheRight, Overtaken, Told, Issues, Nodes
    <3> QED BY <2>0, <3>2, <3>4
  <2>2. CASE ListComments
    <3>1. Op.kind = "comment" /\ ~Over /\ UNCHANGED <<status, snapshot, titled, cache>>
      BY <2>2 DEF ListComments, Pending, board
    <3>2. Existing' = Existing
      BY <3>1 DEF Existing
    <3> QED BY <1>t, <2>0, <3>1, <3>2 DEF Passed, CacheRight, Overtaken
  <2>3. CASE RefreshUnknown
    <3>1. /\ Op.kind = "move" /\ ~Over /\ UNCHANGED <<status, snapshot, titled, k, pc>>
          /\ cache' = [cache EXCEPT ![M.issue] = status[M.issue]] /\ adapter = "jira"
          /\ pc = "begin"
      BY <2>3 DEF RefreshUnknown, Pending, board, Remembered, op
    <3>2. Existing' = Existing /\ Existing = Nodes
      BY <3>1, MovesLate DEF Existing
    <3>3. \A i \in Issues : cache'[i] = IF i = M.issue THEN status[i] ELSE cache[i]
      BY <3>1 DEF Base, Placed
    <3>4. CacheRight'
      BY <1>t, <2>0, <3>1, <3>2, <3>3 DEF CacheRight, Overtaken
    <3>5. Passed'
      BY <1>t, <2>0, <3>1, <3>3, MoveTyped DEF Passed, Steps
    <3> QED BY <3>4, <3>5
  <2> QED BY <1>1, <2>1, <2>2, <2>3 DEF Reads
<1>2. CASE Writes
  <2>0. UNCHANGED <<adapter, mode, at>> /\ Op' = Op /\ Over' = Over
    BY <1>2, SameOperation
  <2>1. ~Over /\ Op.kind # "move" /\ UNCHANGED <<cache, snapshot>>
    BY <1>2 DEF Writes, CreateMailboxes, AddComment, Pending
  <2>2. Passed'
    BY <2>0, <2>1 DEF Passed
  <2>3. CASE UNCHANGED status
    BY <1>t, <1>e, <2>0, <2>1, <2>2, <2>3 DEF CacheRight, Overtaken
  <2>4. CASE \E made \in SUBSET (Nodes \ Existing) : Created(made)
    BY <1>t, <1>e, <2>0, <2>1, <2>2, <2>4 DEF CacheRight, Overtaken, Created
  <2>5. UNCHANGED status \/ \E made \in SUBSET (Nodes \ Existing) : Created(made)
    <3>1. CASE CreateMailboxes
      <4>1. Nodes \ listing \subseteq Nodes \ Existing
        BY <3>1 DEF CreateMailboxes, Pending, Base, Looked, Existing
      <4> QED BY <3>1, <4>1 DEF CreateMailboxes
    <3> QED BY <1>2, <3>1 DEF Writes, AddComment
  <2> QED BY <2>3, <2>4, <2>5
<1>3. CASE Shifts
  <2>0. UNCHANGED <<adapter, mode, at>> /\ Op' = Op /\ Over' = Over
    BY <1>3, SameOperation
  <2>1. /\ ~Over /\ Op.kind = "move" /\ pc # "done" /\ UNCHANGED <<snapshot, titled>>
    BY <1>3 DEF Shifts, BeadsShow, BeadsUpdate, FindTransition, Recheck, PostTransition, Pending,
       board, Base, Placed
  <2>2. /\ Existing' = Nodes /\ M \in Steps
        /\ status \in [Issues -> Statuses \cup {"none"}]
        /\ cache \in [Issues -> Statuses \cup {"none", "unknown"}]
    BY <2>1, MovesLate, MoveTyped DEF Existing, Base, Placed
  <2>a. ASSUME Again PROVE Passed'
    BY <2>0, <2>1, <2>a, AgainPlaces, MoveTyped DEF Passed
  <2>k. ASSUME UNCHANGED <<status, cache, k>>, pc' # "done"
        PROVE  Passed' /\ (adapter' = "jira" => CacheRight')
    BY <1>t, <2>0, <2>1, <2>2, <2>k, MovesLate DEF Passed, CacheRight, Overtaken
  <2>3. CASE BeadsShow
    <3>1. UNCHANGED <<status, cache>> /\ adapter = "beads" /\ adapter # "jira"
      BY <2>3 DEF BeadsShow, board
    <3>2. (Onward /\ status[M.issue] = M.to) \/ Again \/ (k' = k /\ pc' = "post")
      BY <2>3 DEF BeadsShow
    <3>3. Onward /\ status[M.issue] = M.to => Through
      BY <3>1 DEF Through
    <3> QED BY <1>t, <2>0, <2>1, <2>a, <2>k, <3>1, <3>2, <3>3, PassedOn
  <2>4. CASE BeadsUpdate
    <3>1. UNCHANGED cache /\ adapter # "jira" /\ Moved(M.to) /\ (Onward \/ Again)
      BY <2>4 DEF BeadsUpdate, Sent
    <3>2. Through
      BY <2>2, <3>1 DEF Through, Moved, Steps
    <3> QED BY <1>t, <2>0, <2>1, <2>a, <3>1, <3>2, PassedOn
  <2>5. CASE FindTransition
    <3>1. UNCHANGED <<status, cache>> /\ adapter = "jira"
      BY <2>5 DEF FindTransition, board
    <3>2. (Onward /\ cache[M.issue] = M.to) \/ (k' = k /\ pc' \in {"post", "recheck"})
      BY <2>5 DEF FindTransition
    <3>3. ASSUME cache[M.issue] = M.to PROVE status[M.issue] = M.to
      <4>1. M.to # "unknown" /\ M.issue \in Issues
        BY <2>2 DEF Steps, Statuses
      <4>2. CASE Overtaken(M.issue)
        BY <2>1, <4>2, MoveTyped DEF Overtaken, M
      <4> QED BY <1>t, <3>1, <3>3, <4>1, <4>2 DEF CacheRight
    <3>4. CASE Onward /\ cache[M.issue] = M.to
      <4>1. Through
        BY <3>1, <3>3, <3>4 DEF Through
      <4> QED BY <1>t, <2>0, <2>1, <2>2, <3>1, <3>4, <4>1, PassedOn, CacheOn
    <3> QED BY <2>k, <3>1, <3>2, <3>4
  <2>6. CASE Recheck
    <3>1. UNCHANGED status /\ cache' = [cache EXCEPT ![M.issue] = status[M.issue]]
      BY <2>6 DEF Recheck, Remembered, board
    <3>2. \A i \in Issues : cache'[i] = IF i = M.issue THEN status[i] ELSE cache[i]
      BY <2>2, <3>1
    <3>3. (Onward /\ status[M.issue] = M.to) \/ Again
      BY <2>6 DEF Recheck
    <3>4. CASE Onward /\ status[M.issue] = M.to
      <4>1. Through
        BY <2>2, <3>1, <3>2, <3>4 DEF Through, Steps
      <4> QED BY <1>t, <2>0, <2>1, <2>2, <3>4, <4>1, PassedOn, CacheOn
    <3>5. CASE Again
      <4>1. adapter = "jira" => CacheRight'
        BY <1>t, <2>0, <2>1, <2>2, <3>1, <3>2, <3>5, CacheAgain
      <4> QED BY <2>0, <2>a, <3>5, <4>1
    <3> QED BY <3>3, <3>4, <3>5
  <2>7. CASE PostTransition
    <3>1. CASE Again /\ UNCHANGED <<status, cache>>
      <4>1. adapter = "jira" => CacheRight'
        BY <1>t, <2>0, <2>1, <2>2, <3>1, CacheAgain
      <4> QED BY <2>0, <2>a, <3>1, <4>1
    <3>2. CASE Moved(M.to) /\ Onward /\ Remembered(M.to)
      <4>1. Through
        BY <2>2, <3>2 DEF Through, Moved, Remembered, Steps
      <4> QED BY <1>t, <2>0, <2>1, <2>2, <3>2, <4>1, PassedOn, CacheOn
    <3>3. CASE Moved(M.to) /\ Again /\ UNCHANGED cache
      <4>1. /\ \A i \in Issues \ {M.issue} : status'[i] = status[i]
            /\ status'[M.issue] = M.to
        BY <2>2, <3>3 DEF Moved, Steps
      <4>2. adapter = "jira" => CacheRight'
        BY <1>t, <2>0, <2>1, <2>2, <3>3, <4>1, CacheAgain
      <4> QED BY <2>0, <2>a, <3>3, <4>2
    <3> QED BY <2>7, <3>1, <3>2, <3>3 DEF PostTransition
  <2> QED BY <1>3, <2>3, <2>4, <2>5, <2>6, <2>7 DEF Shifts
<1>4. CASE Recorded
  <2>1. /\ ~Over /\ pc = "done" /\ k' = 1 /\ pc' = "begin"
        /\ UNCHANGED <<adapter, mode, titled, status, cache, snapshot>>
    BY <1>4 DEF Recorded, run, board, Again
  <2>2. Existing' = Existing /\ \A i \in Issues : ~Overtaken(i)
    BY <2>1 DEF Existing, Overtaken
  <2>3. adapter = "jira" => CacheRight'
    BY <1>t, <2>1, <2>2 DEF CacheRight
  <2>4. Passed'
    <3>1. Base'
      BY NextPlaced
    <3>2. ~Over' /\ Op'.kind = "move" => DOMAIN Op'.moves \subseteq Nat \ {0}
      <4>1. AtWork'
        BY <3>1 DEF Base, Looked
      <4>2. ~Over' => Op' \in Operations
        BY <4>1, ScriptTyped DEF AtWork, Over, Script, Op
      <4> QED BY <4>2 DEF Operations
    <3> QED BY <2>1, <3>2 DEF Passed
  <2> QED BY <2>1, <2>3, <2>4
<1>5. CASE CallFails \/ Crash
  <2>0. UNCHANGED <<adapter, mode, at>> /\ Op' = Op /\ Over' = Over
    BY <1>5, SameOperation
  <2>1. /\ ~Over /\ Again /\ UNCHANGED <<status, titled>>
        /\ \/ UNCHANGED <<cache, snapshot>> /\ pc # "done"
           \/ cache' = Unknown /\ snapshot' = Unknown
    BY <1>5 DEF CallFails, Crash, board
  <2>2. Existing' = Existing
    BY <2>1 DEF Existing
  <2>3. Passed'
    BY <2>0, <2>1, AgainPlaces, MoveTyped DEF Passed
  <2>4. CASE cache' = Unknown /\ snapshot' = Unknown
    <3>1. CacheRight'
      BY <2>4, <1>e DEF CacheRight, Unknown, Issues
    <3> QED BY <2>3, <3>1
  <2>5. CASE UNCHANGED <<cache, snapshot>> /\ pc # "done"
    <3>1. CASE Op.kind = "move"
      <4>1. Existing' = Nodes
        BY <2>1, <2>2, <3>1, MovesLate
      <4>2. adapter = "jira" => CacheRight'
        BY <1>t, <2>0, <2>1, <2>5, <3>1, <4>1, CacheAgain
      <4> QED BY <2>0, <2>3, <4>2
    <3>2. CASE Op.kind # "move"
      BY <1>t, <2>0, <2>1, <2>2, <2>3, <2>5, <3>2 DEF CacheRight, Overtaken
    <3> QED BY <3>1, <3>2
  <2> QED BY <2>1, <2>4, <2>5
<1>6. CASE Beside
  <2>0. UNCHANGED <<adapter, mode, at>> /\ Op' = Op /\ Over' = Over
    BY <1>6, SameOperation
  <2>1. ~HumanMoves /\ ~PollReads
    BY DEF HumanMoves, PollReads, Fault, Undisturbed
  <2>2. CASE Poll
    <3>1. /\ UNCHANGED <<status, snapshot, titled, k, pc>> /\ cache' = Told(Polled)
          /\ Polled \subseteq {"parent"} \cup Existing
      BY <2>2 DEF Poll, board, op, Polled
    <3>2. Existing' = Existing
      BY <3>1 DEF Existing
    <3>3. \A i \in Issues : cache'[i] = IF i \in Polled THEN status[i] ELSE cache[i]
      BY <3>1 DEF Told
    <3>4. adapter = "jira" => CacheRight'
      BY <1>t, <2>0, <3>1, <3>2, <3>3 DEF CacheRight, Overtaken, Issues, Nodes
    <3>5. Passed'
      BY <1>t, <2>0, <3>1, <3>3, MoveTyped DEF Passed, Steps
    <3> QED BY <2>0, <3>4, <3>5
  <2>3. CASE PollRemembers
    <3>1. UNCHANGED <<status, titled, k, pc>> /\ snapshot # Unknown
      BY <2>3 DEF PollRemembers, board, op
    <3>2. adapter # "jira"
      BY <1>t, <3>1 DEF CacheRight
    <3> QED BY <1>t, <2>0, <3>1, <3>2 DEF Passed
  <2> QED BY <1>6, <2>1, <2>2, <2>3 DEF Beside
<1> QED BY <1>1, <1>2, <1>3, <1>4, <1>5, <1>6, NextCases

(* An operation that reports success has been carried out, whatever failed *)
(* on the way, unless people moved issues or a late poll misled the cache  *)
(* (MoveMailboxTo, HTTPClient.Transition and the retries around them).     *)
THEOREM DoneIsDone == Spec => []AnsweredIsDone
<1>1. Base /\ Carried => AnsweredIsDone
  <2> SUFFICES ASSUME Base, Carried, pc = "done"
               PROVE  /\ Op.kind = "ensure" => Existing = Nodes
                      /\ Op.kind = "comment" => comments[Op.marker] > 0
                      /\ Op.kind = "move" /\ Undisturbed =>
                            \A j \in DOMAIN Op.moves : status[Op.moves[j].issue] = Op.moves[j].to
    BY DEF AnsweredIsDone, Undisturbed
  <2> QED BY DEF Base, Placed, Carried, Passed
<1> QED BY <1>1, InitPlaced, NextPlaced, NextCarried, PTL DEF Spec
===============================================================================
