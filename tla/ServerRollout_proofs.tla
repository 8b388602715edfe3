------------------------- MODULE ServerRollout_proofs -------------------------
(***************************************************************************)
(* The definition store and what is served from it, for any documents,     *)
(* repositories, pollers and faults: the three files implement one durable *)
(* document, and the server serves the document a restart would load.      *)
(*                                                                         *)
(* DiskInv says at each step of an operation, a rollback or a recovery     *)
(* what the pair and the journal hold; the refinement follows from it step *)
(* by step.  ServedInv adds what the registry and the bindings hold.       *)
(***************************************************************************)
EXTENDS ServerRollout, TLAPS

Journals == [kind : {"none", "forward", "rollback"}, old : Pairs, new : Pairs]
StoreShape ==
    /\ files \in Pairs /\ journal \in Journals
    /\ call \in [new : Pairs, prev : Pairs] /\ trusted \in BOOLEAN

(* A restart finds the pair as it is: no journal, or that of an operation  *)
(* that has changed nothing.                                               *)
Undone == journal.kind = "none" \/ (journal.kind = "forward" /\ files = journal.old)
Logged == journal = [kind |-> "forward", old |-> call.prev, new |-> call.new]
GoesBack == journal.kind = "rollback" /\ journal.new = call.prev

Disk ==
    /\ journal.kind # "none" => /\ files.yaml \in {journal.old.yaml, journal.new.yaml}
                                /\ files.hash \in {journal.old.hash, journal.new.hash}
    /\ at = "idle" => Undone
    /\ at = "journal" => Undone /\ files = call.prev
    /\ at = "yaml" => Logged /\ files = call.prev
    /\ at = "hash" => Logged /\ files = [call.prev EXCEPT !.yaml = call.new.yaml]
    /\ at = "finish" => Logged /\ files = call.new
    /\ at \in {"stored", "rebind", "accepted", "rJournal"} =>
          journal.kind = "none" /\ files = call.new
    /\ at \in {"uYaml", "uHash", "uFinish"} => Logged
    /\ at \in {"rYaml", "rHash", "rFinish"} => GoesBack
    /\ at \in {"uHash", "rHash"} => files.yaml = call.prev.yaml
    /\ at \in {"uFinish", "rFinish"} => files = call.prev
    /\ at \in {"restored", "rebindBack"} => journal.kind = "none" /\ files = call.prev
    /\ at = "refused" => Undone /\ files = call.prev
    /\ at \in {"bYaml", "bHash", "bFinish"} => journal.kind # "none" /\ Target = call.new
    /\ at = "bHash" => files.yaml = call.new.yaml
    /\ at = "bFinish" => files = call.new
    /\ at = "loaded" => journal.kind = "none"
    /\ at \notin Unrepaired \cup {"rebindBroken"}

(* Once a rollback has been reported failed, nothing is claimed. *)
DiskInv == trusted => Disk

-----------------------------------------------------------------------------
(* What a step does to the files: one of them is replaced, or the step     *)
(* fails with or without that effect.                                      *)
Done(here, next, failed, f, j) ==
    /\ at = here /\ UNCHANGED call
    /\ \/ at' = next /\ files' = f /\ journal' = j
       \/ at' = failed /\ files' = files /\ journal' = journal
       \/ at' = failed /\ files' = f /\ journal' = j

Dropped(here, next, failed) ==
    /\ at = here /\ UNCHANGED <<call, files>>
    /\ \/ at' = next /\ journal' = NoJournal
       \/ at' = failed /\ journal' = journal

YamlTo(d) == [files EXCEPT !.yaml = d]
HashTo(d) == [files EXCEPT !.hash = d]

LEMMA MoveDone ==
    ASSUME NEW here, NEW next, NEW failed, NEW f, NEW j,
           Write(here, next, failed, f, j) \/ Unlink(here, next, failed, f, j)
    PROVE  Done(here, next, failed, f, j)
BY DEF Write, Unlink, Move, Done

LEMMA DropDone ==
    ASSUME NEW here, NEW next, NEW failed, DropJournal(here, next, failed)
    PROVE  Dropped(here, next, failed)
BY DEF DropJournal, Unlink, Move, Dropped

LEMMA SetDone ==
    ASSUME NEW here, NEW next, NEW failed, NEW d
    PROVE  /\ SetYaml(here, next, failed, d) => Done(here, next, failed, YamlTo(d), journal)
           /\ SetHash(here, next, failed, d) => Done(here, next, failed, HashTo(d), journal)
BY MoveDone DEF SetYaml, SetHash, YamlTo, HashTo

Log(kind, new) == [kind |-> kind, old |-> files, new |-> new]

PutSteps ==
    \/ Done("journal", "yaml", "refused", files, Log("forward", call.new))
    \/ Done("yaml", "hash", "uYaml", YamlTo(call.new.yaml), journal)
    \/ Done("hash", "finish", "uYaml", HashTo(call.new.hash), journal)
    \/ Dropped("finish", "stored", "uYaml")
UndoSteps ==
    \/ Done("uYaml", "uHash", "broken", YamlTo(call.prev.yaml), journal)
    \/ Done("uHash", "uFinish", "broken", HashTo(call.prev.hash), journal)
    \/ Dropped("uFinish", "refused", "broken")
RestoreSteps ==
    \/ Done("rJournal", "rYaml", "unrestored", files, Log("rollback", call.prev))
    \/ Done("rYaml", "rHash", "unrestored", YamlTo(call.prev.yaml), journal)
    \/ Done("rHash", "rFinish", "unrestored", HashTo(call.prev.hash), journal)
    \/ Dropped("rFinish", "restored", "unrestored")
RecoverSteps ==
    \/ Done("bYaml", "bHash", "blocked", YamlTo(call.new.yaml), journal)
    \/ Done("bHash", "bFinish", "blocked", HashTo(call.new.hash), journal)
    \/ Dropped("bFinish", "loaded", "blocked")

LEMMA StoreCases == StoreStep => PutSteps \/ UndoSteps \/ RestoreSteps \/ RecoverSteps
<1>1. Put => PutSteps
  BY MoveDone, DropDone, SetDone DEF Put, PutSteps, WriteJournal, Log
<1>2. Rollback => UndoSteps
  BY MoveDone, DropDone, SetDone DEF Rollback, UndoSteps
<1>3. RestorePair => RestoreSteps
  BY MoveDone, DropDone, SetDone DEF RestorePair, RestoreSteps, WriteJournal, Log
<1>4. RecoverTransaction => RecoverSteps
  BY MoveDone, DropDone, SetDone DEF RecoverTransaction, RecoverSteps
<1> QED BY <1>1, <1>2, <1>3, <1>4 DEF StoreStep

-----------------------------------------------------------------------------
(* One file at a time keeps the shapes. *)
LEMMA PairParts ==
    /\ \A f, g \in Pairs : f.yaml = g.yaml /\ f.hash = g.hash => f = g
    /\ \A f \in Pairs, d \in Docs \cup {None} :
          /\ [f EXCEPT !.yaml = d] \in Pairs /\ [f EXCEPT !.hash = d] \in Pairs
          /\ [f EXCEPT !.yaml = d].yaml = d /\ [f EXCEPT !.yaml = d].hash = f.hash
          /\ [f EXCEPT !.hash = d].hash = d /\ [f EXCEPT !.hash = d].yaml = f.yaml
    /\ \A f \in Pairs : f.yaml \in Docs \cup {None} /\ f.hash \in Docs \cup {None}
BY DEF Pairs

LEMMA JournalParts ==
    /\ NoJournal \in Journals /\ NoJournal.kind = "none"
    /\ \A k \in {"forward", "rollback"}, f, g \in Pairs :
          /\ [kind |-> k, old |-> f, new |-> g] \in Journals
          /\ [kind |-> k, old |-> f, new |-> g].kind = k
          /\ [kind |-> k, old |-> f, new |-> g].old = f
          /\ [kind |-> k, old |-> f, new |-> g].new = g
BY DEF Journals, NoJournal, Absent, Pair, Pairs

LEMMA StoreTrust == StoreStep => trusted' = (trusted /\ at' \notin Unrepaired)
BY Zenon DEF StoreStep, Put, Rollback, RestorePair, RecoverTransaction, WriteJournal, DropJournal,
   SetYaml, SetHash, Write, Unlink, Move

LEMMA StoreShapeStep ==
    ASSUME StoreShape, StoreStep
    PROVE  StoreShape'
<1>1. /\ files \in Pairs /\ journal \in Journals /\ trusted \in BOOLEAN
      /\ call.new \in Pairs /\ call.prev \in Pairs /\ call \in [new : Pairs, prev : Pairs]
  BY DEF StoreShape
<1>2. /\ call.new.yaml \in Docs \cup {None} /\ call.new.hash \in Docs \cup {None}
      /\ call.prev.yaml \in Docs \cup {None} /\ call.prev.hash \in Docs \cup {None}
  BY <1>1, PairParts
<1>3. ASSUME NEW a, NEW b, NEW c, NEW f \in Pairs, NEW j \in Journals, Done(a, b, c, f, j)
      PROVE  StoreShape'
  BY <1>1, <1>3, StoreTrust DEF Done, StoreShape
<1>d. ASSUME NEW a, NEW b, NEW c, Dropped(a, b, c)
      PROVE  StoreShape'
  BY <1>1, <1>d, StoreTrust, JournalParts DEF Dropped, StoreShape
<1>4. /\ \A d \in Docs \cup {None} : YamlTo(d) \in Pairs /\ HashTo(d) \in Pairs
      /\ Log("forward", call.new) \in Journals /\ Log("rollback", call.prev) \in Journals
  BY <1>1, PairParts, JournalParts DEF YamlTo, HashTo, Log
<1>5. PutSteps => StoreShape'
  BY <1>1, <1>2, <1>3, <1>d, <1>4 DEF PutSteps
<1>6. UndoSteps => StoreShape'
  BY <1>1, <1>2, <1>3, <1>d, <1>4 DEF UndoSteps
<1>7. RestoreSteps => StoreShape'
  BY <1>1, <1>2, <1>3, <1>d, <1>4 DEF RestoreSteps
<1>8. RecoverSteps => StoreShape'
  BY <1>1, <1>2, <1>3, <1>d, <1>4 DEF RecoverSteps
<1> QED BY <1>5, <1>6, <1>7, <1>8, StoreCases

(* A file written as another pair has it. *)
LEMMA ToParts ==
    ASSUME StoreShape, NEW g \in Pairs
    PROVE  /\ YamlTo(g.yaml) \in Pairs /\ HashTo(g.hash) \in Pairs
           /\ YamlTo(g.yaml).yaml = g.yaml /\ YamlTo(g.yaml).hash = files.hash
           /\ HashTo(g.hash).hash = g.hash /\ HashTo(g.hash).yaml = files.yaml
           /\ files.yaml = g.yaml => HashTo(g.hash) = g
<1>1. files \in Pairs /\ g.yaml \in Docs \cup {None} /\ g.hash \in Docs \cup {None}
  BY PairParts DEF StoreShape
<1>2. /\ YamlTo(g.yaml) \in Pairs /\ HashTo(g.hash) \in Pairs
      /\ YamlTo(g.yaml).yaml = g.yaml /\ YamlTo(g.yaml).hash = files.hash
      /\ HashTo(g.hash).hash = g.hash /\ HashTo(g.hash).yaml = files.yaml
  BY <1>1 DEF YamlTo, HashTo, Pairs
<1>3. files.yaml = g.yaml => HashTo(g.hash) = g
  BY <1>2, PairParts
<1> QED BY <1>2, <1>3

(* What a restart would find, before and after a step. *)
LEMMA TargetIs ==
    ASSUME journal \in Journals
    PROVE  /\ journal.kind = "none" => Target = files
           /\ journal.kind = "rollback" => Target = journal.new
           /\ journal.kind = "forward" =>
                 Target = IF files = journal.new THEN journal.new ELSE journal.old
BY DEF Target, Journals

LEMMA TargetIsAfter ==
    ASSUME journal' \in Journals
    PROVE  /\ journal'.kind = "none" => Target' = files'
           /\ journal'.kind = "rollback" => Target' = journal'.new
           /\ journal'.kind = "forward" =>
                 Target' = IF files' = journal'.new THEN journal'.new ELSE journal'.old
BY DEF Target, Journals

(* What a restart would find, while an operation is under way: the old or  *)
(* the new document; an operation is refused only with the old one.        *)
Kept ==
    /\ Target' \in {call.prev, call.new}
    /\ at' = "refused" => Target' = Target /\ Target = call.prev

LEMMA PutDisk ==
    ASSUME StoreShape, StoreShape', Disk, PutSteps, at' \notin Unrepaired
    PROVE  Disk' /\ Kept
<1>1. /\ files \in Pairs /\ journal \in Journals /\ call.new \in Pairs /\ call.prev \in Pairs
      /\ files' \in Pairs /\ journal' \in Journals
  BY DEF StoreShape
<1>2. CASE Done("journal", "yaml", "refused", files, Log("forward", call.new))
  BY <1>1, <1>2, JournalParts, TargetIs, TargetIsAfter DEF Done, Log, Disk, Undone, Logged, GoesBack, Kept, Unrepaired
<1>3. CASE Done("yaml", "hash", "uYaml", YamlTo(call.new.yaml), journal)
  <2>1. /\ at = "yaml" /\ Logged /\ files = call.prev /\ UNCHANGED <<call, journal>>
        /\ \/ at' = "hash" /\ files' = YamlTo(call.new.yaml)
           \/ at' = "uYaml" /\ files' \in {files, YamlTo(call.new.yaml)}
    BY <1>3 DEF Done, Disk
  <2>2. journal.kind = "forward" /\ journal.old = call.prev /\ journal.new = call.new /\ Logged'
    BY <1>1, <2>1, JournalParts DEF Logged
  <2>3. at' = "hash" => files' = [call'.prev EXCEPT !.yaml = call'.new.yaml]
    BY <2>1 DEF YamlTo
  <2>4. files'.yaml \in {journal.old.yaml, journal.new.yaml} /\ files'.hash = journal.old.hash
    BY <1>1, <2>1, <2>2, ToParts
  <2>5. Target' \in {call.prev, call.new}
    BY <1>1, <2>1, <2>2, TargetIsAfter
  <2> QED BY <2>1, <2>2, <2>3, <2>4, <2>5 DEF Disk, Kept, Unrepaired
<1>4. CASE Done("hash", "finish", "uYaml", HashTo(call.new.hash), journal)
  <2>1. HashTo(call.new.hash) = call.new
    BY <1>1, <1>4, ToParts DEF Done, Disk, Pairs
  <2> QED BY <1>1, <1>4, <2>1, PairParts, ToParts, JournalParts, TargetIs, TargetIsAfter
          DEF Done, Dropped, Disk, Undone, Logged, GoesBack, Kept, Unrepaired
<1>5. CASE Dropped("finish", "stored", "uYaml")
  BY <1>1, <1>5, JournalParts, TargetIs, TargetIsAfter DEF Done, Dropped, Disk, Undone, Logged, GoesBack, Kept, Unrepaired
<1> QED BY <1>2, <1>3, <1>4, <1>5 DEF PutSteps

LEMMA UndoDisk ==
    ASSUME StoreShape, StoreShape', Disk, UndoSteps, at' \notin Unrepaired
    PROVE  Disk' /\ Kept
<1>1. /\ files \in Pairs /\ journal \in Journals /\ call.new \in Pairs /\ call.prev \in Pairs
      /\ files' \in Pairs /\ journal' \in Journals
  BY DEF StoreShape
<1>2. CASE Done("uYaml", "uHash", "broken", YamlTo(call.prev.yaml), journal)
  BY <1>1, <1>2, PairParts, ToParts, JournalParts, TargetIs, TargetIsAfter
  DEF Done, Dropped, Disk, Undone, Logged, GoesBack, Kept, Unrepaired
<1>3. CASE Done("uHash", "uFinish", "broken", HashTo(call.prev.hash), journal)
  <2>1. HashTo(call.prev.hash) = call.prev
    BY <1>1, <1>3, ToParts DEF Done, Dropped, Disk, Logged
  <2> QED BY <1>1, <1>3, <2>1, PairParts, ToParts, JournalParts, TargetIs, TargetIsAfter
          DEF Done, Dropped, Disk, Undone, Logged, GoesBack, Kept, Unrepaired
<1>4. CASE Dropped("uFinish", "refused", "broken")
  BY <1>1, <1>4, JournalParts, TargetIs, TargetIsAfter
  DEF Done, Dropped, Disk, Undone, Logged, GoesBack, Kept, Unrepaired
<1> QED BY <1>2, <1>3, <1>4 DEF UndoSteps

LEMMA RestoreDisk ==
    ASSUME StoreShape, StoreShape', Disk, RestoreSteps, at' \notin Unrepaired
    PROVE  Disk' /\ Kept
<1>1. /\ files \in Pairs /\ journal \in Journals /\ call.new \in Pairs /\ call.prev \in Pairs
      /\ files' \in Pairs /\ journal' \in Journals
  BY DEF StoreShape
<1>2. CASE Done("rJournal", "rYaml", "unrestored", files, Log("rollback", call.prev))
  BY <1>1, <1>2, JournalParts, TargetIs, TargetIsAfter
  DEF Done, Log, Disk, Undone, Logged, GoesBack, Kept, Unrepaired
<1>3. CASE Done("rYaml", "rHash", "unrestored", YamlTo(call.prev.yaml), journal)
  BY <1>1, <1>3, PairParts, ToParts, JournalParts, TargetIs, TargetIsAfter
  DEF Done, Dropped, Disk, Undone, Logged, GoesBack, Kept, Unrepaired
<1>4. CASE Done("rHash", "rFinish", "unrestored", HashTo(call.prev.hash), journal)
  <2>1. HashTo(call.prev.hash) = call.prev
    BY <1>1, <1>4, ToParts DEF Done, Dropped, Disk, Logged
  <2> QED BY <1>1, <1>4, <2>1, PairParts, ToParts, JournalParts, TargetIs, TargetIsAfter
          DEF Done, Dropped, Disk, Undone, Logged, GoesBack, Kept, Unrepaired
<1>5. CASE Dropped("rFinish", "restored", "unrestored")
  BY <1>1, <1>5, JournalParts, TargetIs, TargetIsAfter
  DEF Done, Dropped, Disk, Undone, Logged, GoesBack, Kept, Unrepaired
<1> QED BY <1>2, <1>3, <1>4, <1>5 DEF RestoreSteps

LEMMA RecoverDisk ==
    ASSUME StoreShape, StoreShape', Disk, RecoverSteps, at' \notin Unrepaired
    PROVE  Disk' /\ Target' = Target
<1>1. /\ files \in Pairs /\ journal \in Journals /\ call.new \in Pairs /\ call.prev \in Pairs
      /\ files' \in Pairs /\ journal' \in Journals
  BY DEF StoreShape
<1>2. CASE Done("bYaml", "bHash", "blocked", YamlTo(call.new.yaml), journal)
  <2>1. /\ UNCHANGED <<call, journal>> /\ journal.kind # "none" /\ Target = call.new
        /\ at' = "bHash" /\ files' = YamlTo(call.new.yaml)
        /\ files.yaml \in {journal.old.yaml, journal.new.yaml}
        /\ files.hash \in {journal.old.hash, journal.new.hash}
    BY <1>2 DEF Done, Disk, Unrepaired
  <2>2. files'.yaml = call.new.yaml /\ files'.hash = files.hash
    BY <1>1, <2>1, ToParts
  <2>3. journal.old \in Pairs /\ journal.new \in Pairs
    BY <1>1 DEF Journals
  <2>4. CASE journal.kind = "rollback"
    <3>1. call.new = journal.new /\ Target' = journal.new
      BY <1>1, <2>1, <2>4, TargetIs, TargetIsAfter
    <3> QED BY <2>1, <2>2, <3>1 DEF Disk, Unrepaired
  <2>5. CASE journal.kind = "forward"
    <3>1. CASE files = journal.new
      <4>1. call.new = journal.new
        BY <1>1, <2>1, <2>5, <3>1, TargetIs
      <4>2. files' = journal.new
        BY <1>1, <2>2, <2>3, <3>1, <4>1, PairParts
      <4>3. Target' = journal.new
        BY <1>1, <2>1, <2>5, <4>2, TargetIsAfter
      <4> QED BY <2>1, <2>2, <4>1, <4>3 DEF Disk, Unrepaired
    <3>2. CASE files # journal.new
      <4>1. call.new = journal.old
        BY <1>1, <2>1, <2>5, <3>2, TargetIs
      <4>2. files' # journal.new
        <5>1. ASSUME files' = journal.new PROVE FALSE
          <6>1. files.yaml = journal.new.yaml /\ files.hash = journal.new.hash
            BY <2>1, <2>2, <4>1, <5>1
          <6> QED BY <1>1, <2>3, <3>2, <6>1, PairParts
        <5> QED BY <5>1
      <4>3. Target' = journal.old
        BY <1>1, <2>1, <2>5, <4>2, TargetIsAfter
      <4> QED BY <2>1, <2>2, <4>1, <4>3 DEF Disk, Unrepaired
    <3> QED BY <3>1, <3>2
  <2> QED BY <1>1, <2>1, <2>4, <2>5 DEF Journals
<1>3. CASE Done("bHash", "bFinish", "blocked", HashTo(call.new.hash), journal)
  <2>1. /\ UNCHANGED <<call, journal>> /\ journal.kind # "none" /\ Target = call.new
        /\ at' = "bFinish" /\ files' = HashTo(call.new.hash) /\ files.yaml = call.new.yaml
    BY <1>3 DEF Done, Disk, Unrepaired
  <2>2. files' = call.new
    BY <1>1, <2>1, ToParts
  <2>3. /\ journal.kind = "rollback" => call.new = journal.new
        /\ journal.kind = "forward" => call.new \in {journal.old, journal.new}
        /\ journal.kind \in {"rollback", "forward"}
    BY <1>1, <2>1, TargetIs DEF Journals
  <2>4. Target' = call.new
    BY <1>1, <2>1, <2>2, <2>3, TargetIsAfter
  <2>5. /\ files'.yaml \in {journal.old.yaml, journal.new.yaml}
        /\ files'.hash \in {journal.old.hash, journal.new.hash}
    BY <2>2, <2>3
  <2> QED BY <2>1, <2>2, <2>4, <2>5 DEF Disk, Unrepaired
<1>4. CASE Dropped("bFinish", "loaded", "blocked")
  BY <1>1, <1>4, JournalParts, TargetIs, TargetIsAfter
  DEF Done, Dropped, Disk, Undone, Logged, GoesBack, Unrepaired
<1> QED BY <1>2, <1>3, <1>4 DEF RecoverSteps

-----------------------------------------------------------------------------
(* The abstract store's answer, and the steps of it that steps of the      *)
(* server are.                                                             *)
Answered == IF ~Operating THEN "closed"
            ELSE IF at \in {"accepted", "refused"} THEN at ELSE "open"

StoreMoves ==
    \/ UNCHANGED <<Target, call>> /\ Answered' = Answered
    \/ UNCHANGED Target /\ Answered' = "closed"
    \/ /\ Answered = "closed" /\ Answered' = "open"
       /\ UNCHANGED Target /\ call'.prev = Target
    \/ /\ Answered = "open" /\ Answered' = "open"
       /\ UNCHANGED call /\ Target' \in {call.prev, call.new}
    \/ /\ Answered = "open" /\ UNCHANGED <<Target, call>>
       /\ \/ Answered' = "accepted" /\ Target = call.new
          \/ Answered' = "refused" /\ Target = call.prev

LEMMA MovesRefine ==
    ASSUME trusted \in BOOLEAN, trusted' \in BOOLEAN, trusted' => trusted /\ StoreMoves
    PROVE  [DurableStore!DocNext]_(DurableStore!docVars)
<1>1. CASE ~trusted
  BY <1>1 DEF DurableStore!DocNext, DurableStore!Unpromised
<1>2. CASE trusted /\ ~trusted'
  BY <1>2 DEF DurableStore!DocNext, DurableStore!ReportBroken
<1>3. CASE trusted /\ trusted'
  <2>0. UNCHANGED trusted /\ StoreMoves
    BY <1>3
  <2>1. CASE UNCHANGED <<Target, call>> /\ Answered' = Answered
    BY <2>0, <2>1 DEF Answered, DurableStore!docVars
  <2>2. CASE UNCHANGED Target /\ Answered' = "closed"
    BY <2>0, <2>2 DEF Answered, DurableStore!DocNext, DurableStore!End
  <2>3. CASE /\ Answered = "closed" /\ Answered' = "open"
             /\ UNCHANGED Target /\ call'.prev = Target
    BY <2>0, <2>3 DEF Answered, DurableStore!DocNext, DurableStore!Begin
  <2>4. CASE /\ Answered = "open" /\ Answered' = "open"
             /\ UNCHANGED call /\ Target' \in {call.prev, call.new}
    BY <2>0, <2>4 DEF Answered, DurableStore!DocNext, DurableStore!Decide
  <2>5. CASE /\ Answered = "open" /\ UNCHANGED <<Target, call>>
             /\ \/ Answered' = "accepted" /\ Target = call.new
                \/ Answered' = "refused" /\ Target = call.prev
    BY <2>0, <2>5 DEF Answered, DurableStore!DocNext, DurableStore!Answer
  <2> QED BY <2>0, <2>1, <2>2, <2>3, <2>4, <2>5 DEF StoreMoves
<1> QED BY <1>1, <1>2, <1>3

(* The steps of the files as steps of the abstract store. *)
LEMMA FilesRefine ==
    ASSUME StoreShape, DiskInv, StoreStep
    PROVE  StoreShape' /\ DiskInv' /\ (trusted' => trusted /\ StoreMoves)
<1>1. StoreShape' /\ trusted' = (trusted /\ at' \notin Unrepaired)
  BY StoreShapeStep, StoreTrust
<1>2. SUFFICES ASSUME trusted' PROVE trusted /\ Disk' /\ StoreMoves
  BY <1>1 DEF DiskInv
<1>3. trusted /\ at' \notin Unrepaired /\ Disk
  BY <1>1, <1>2 DEF DiskInv
<1>4. CASE PutSteps
  <2>1. Disk' /\ Kept
    BY <1>1, <1>3, <1>4, PutDisk
  <2>2. /\ UNCHANGED call /\ Answered = "open"
        /\ Answered' = IF at' = "refused" THEN "refused" ELSE "open"
    BY <1>4 DEF PutSteps, Done, Dropped, Answered, Operating, Up, Booting
  <2> QED BY <1>3, <2>1, <2>2 DEF Kept, StoreMoves
<1>5. CASE UndoSteps
  <2>1. Disk' /\ Kept
    BY <1>1, <1>3, <1>5, UndoDisk
  <2>2. /\ UNCHANGED call /\ Answered = "open"
        /\ Answered' = IF at' = "refused" THEN "refused" ELSE "open"
    BY <1>5 DEF UndoSteps, Done, Dropped, Answered, Operating, Up, Booting
  <2> QED BY <1>3, <2>1, <2>2 DEF Kept, StoreMoves
<1>6. CASE RestoreSteps
  <2>1. Disk' /\ Kept
    BY <1>1, <1>3, <1>6, RestoreDisk
  <2>2. UNCHANGED call /\ Answered = "open" /\ Answered' = "open"
    BY <1>6 DEF RestoreSteps, Done, Dropped, Answered, Operating, Up, Booting
  <2> QED BY <1>3, <2>1, <2>2 DEF Kept, StoreMoves
<1>7. CASE RecoverSteps
  <2>1. Disk' /\ Target' = Target
    BY <1>1, <1>3, <1>7, RecoverDisk
  <2>2. Answered' = "closed"
    BY <1>7 DEF RecoverSteps, Done, Dropped, Answered, Operating, Up, Booting
  <2> QED BY <1>3, <2>1, <2>2 DEF StoreMoves
<1> QED BY <1>4, <1>5, <1>6, <1>7, StoreCases

(* All other steps leave the files alone. *)
LEMMA OthersRefine ==
    ASSUME StoreShape, DiskInv, Next, ~StoreStep
    PROVE  StoreShape' /\ DiskInv' /\ (trusted' => trusted /\ StoreMoves)
<1>s. files \in Pairs /\ journal \in Journals /\ call \in [new : Pairs, prev : Pairs]
  BY DEF StoreShape
<1>n. NoCall \in [new : Pairs, prev : Pairs]
  BY DEF NoCall, Absent, Pair, Pairs
<1>d. trusted => Disk
  BY DEF DiskInv
<1>u. UNCHANGED <<files, journal>> => UNCHANGED Target
  BY DEF Target
<1>1. CASE StartServer
  <2>1. /\ UNCHANGED <<files, journal, trusted>> /\ call' = [new |-> Target, prev |-> files]
        /\ at' \in {"loaded", "bFinish", "bYaml"}
        /\ at' = "loaded" <=> journal.kind = "none"
        /\ at' = "bFinish" => files = Target
    BY <1>1 DEF StartServer, BeginRecovery
  <2>2. Target \in Pairs
    BY <1>s, TargetIs DEF Journals
  <2>3. call' \in [new : Pairs, prev : Pairs] /\ call'.new = Target
    BY <1>s, <2>1, <2>2
  <2>4. Answered' = "closed"
    BY <2>1 DEF Answered, Operating, Up, Booting
  <2>5. Disk => Disk'
    BY <1>u, <2>1, <2>3 DEF Disk, Unrepaired
  <2> QED BY <1>d, <1>u, <2>1, <2>3, <2>4, <2>5 DEF StoreShape, DiskInv, StoreMoves
<1>2. CASE Serve
  <2>1. /\ UNCHANGED <<files, journal, trusted>> /\ call' = NoCall /\ at' = "idle"
        /\ at \in {"loaded", "blocked"}
    BY <1>2 DEF Serve
  <2>2. Answered' = "closed"
    BY <2>1 DEF Answered, Operating
  <2>3. Disk => Disk'
    BY <2>1 DEF Disk, Undone, Unrepaired
  <2> QED BY <1>d, <1>n, <1>u, <2>1, <2>2, <2>3 DEF StoreShape, DiskInv, StoreMoves
<1>3. CASE Crash
  <2>1. UNCHANGED <<files, journal, trusted>> /\ call' = NoCall /\ at' = "down"
    BY <1>3 DEF Crash
  <2>2. Answered' = "closed"
    BY <2>1 DEF Answered, Operating, Up
  <2>3. Disk => Disk'
    BY <2>1 DEF Disk, Unrepaired
  <2> QED BY <1>d, <1>n, <1>u, <2>1, <2>2, <2>3 DEF StoreShape, DiskInv, StoreMoves
<1>4. CASE (\E d \in Docs : Submit(d)) \/ RemoveWorkflow
  <2>1. PICK new \in Pairs : Operate(new)
    BY <1>4 DEF Submit, RemoveWorkflow, Absent, Pair, Pairs
  <2>2. /\ UNCHANGED <<files, journal, trusted>> /\ call' = [new |-> new, prev |-> files]
        /\ at = "idle" /\ at' = "journal" /\ trusted
    BY <2>1 DEF Operate
  <2>3. Undone /\ Target = files
    BY <1>s, <1>d, <2>2, TargetIs DEF Disk, Undone
  <2>4. Answered = "closed" /\ Answered' = "open"
    BY <2>2 DEF Answered, Operating, Up, Booting
  <2>5. Disk'
    BY <1>d, <2>2, <2>3 DEF Disk, Undone, Unrepaired
  <2> QED BY <1>s, <1>u, <2>2, <2>3, <2>4, <2>5 DEF StoreShape, DiskInv, StoreMoves
<1>5. CASE ReplaceEntry \/ RestoreEntry
  <2>1. /\ UNCHANGED <<files, journal, trusted, call>>
        /\ \/ at = "stored" /\ at' = "rebind"
           \/ at = "restored" /\ at' = "rebindBack"
           \/ at = "unrestored" /\ at' = "rebindBroken"
    BY <1>5 DEF ReplaceEntry, RestoreEntry
  <2>2. Answered' = Answered
    BY <2>1 DEF Answered, Operating, Up, Booting
  <2>3. Disk => Disk'
    BY <2>1 DEF Disk, Unrepaired
  <2> QED BY <1>d, <1>u, <2>1, <2>2, <2>3 DEF StoreShape, DiskInv, StoreMoves
<1>6. CASE \/ BindWorkflows("rebind", "accepted", "rJournal")
           \/ BindWorkflows("rebindBack", "refused", "broken")
           \/ BindWorkflows("rebindBroken", "broken", "broken")
  <2>1. /\ UNCHANGED <<files, journal, call>> /\ trusted' = (trusted /\ at' # "broken")
        /\ \/ at = "rebind" /\ at' \in {"accepted", "rJournal"}
           \/ at = "rebindBack" /\ at' \in {"refused", "broken"}
           \/ at = "rebindBroken" /\ at' = "broken"
    BY <1>6 DEF BindWorkflows
  <2>2. /\ Answered = "open"
        /\ Answered' = IF at' \in {"accepted", "refused"} THEN at' ELSE "open"
    BY <2>1 DEF Answered, Operating, Up, Booting
  <2>3. Disk /\ at' # "broken" => Disk'
    BY <2>1 DEF Disk, Undone, Unrepaired
  <2>4. Disk /\ at' = "accepted" => Target = call.new
    BY <1>s, <2>1, TargetIs DEF Disk
  <2>5. Disk /\ at' = "refused" => Target = call.prev
    BY <1>s, <2>1, TargetIs DEF Disk
  <2> QED BY <1>d, <1>u, <2>1, <2>2, <2>3, <2>4, <2>5 DEF StoreShape, DiskInv, StoreMoves
<1>7. CASE Answer
  <2>1. /\ UNCHANGED <<files, journal, trusted>> /\ call' = NoCall /\ at' = "idle"
        /\ at \in {"accepted", "refused", "broken"}
    BY <1>7 DEF Answer
  <2>2. Answered' = "closed"
    BY <2>1 DEF Answered, Operating
  <2>3. Disk => Disk'
    BY <2>1 DEF Disk, Undone, Unrepaired
  <2> QED BY <1>d, <1>n, <1>u, <2>1, <2>2, <2>3 DEF StoreShape, DiskInv, StoreMoves
<1>8. CASE UNCHANGED <<files, journal, at, call, trusted>>
  <2>1. Disk => Disk'
    BY <1>8 DEF Disk, Undone, Logged, GoesBack, Target
  <2>2. Answered' = Answered
    BY <1>8 DEF Answered, Operating, Up
  <2> QED BY <1>8, <1>d, <1>u, <2>1, <2>2 DEF StoreShape, DiskInv, StoreMoves
<1>9. \/ StartServer \/ Serve \/ Crash \/ (\E d \in Docs : Submit(d)) \/ RemoveWorkflow
      \/ ReplaceEntry \/ RestoreEntry \/ Answer
      \/ BindWorkflows("rebind", "accepted", "rJournal")
      \/ BindWorkflows("rebindBack", "refused", "broken")
      \/ BindWorkflows("rebindBroken", "broken", "broken")
      \/ UNCHANGED <<files, journal, at, call, trusted>>
  BY DEF Next, ServiceStep, RepoStep, Register, Unregister, SaveMachine, PublishRepo, DropRepo,
     ListRepos, Resync, RepoFrame, GroupStep, Poll, PollFrame, storeVars
<1> QED BY <1>1, <1>2, <1>3, <1>4, <1>5, <1>6, <1>7, <1>8, <1>9

(* The three files implement one durable document. *)
THEOREM OneDocument == Spec => StoreSpec
<1>1. Init => StoreShape /\ DiskInv /\ DurableStore!DocInit
  <2> SUFFICES ASSUME Init PROVE StoreShape /\ DiskInv /\ DurableStore!DocInit
    OBVIOUS
  <2>1. StoreShape
    BY JournalParts DEF Init, StoreInit, StoreShape, NoCall, Absent, Pair, Pairs
  <2>2. Disk
    BY JournalParts DEF Init, StoreInit, Disk, Unrepaired
  <2>3. DurableStore!DocInit
    BY DEF Init, StoreInit, DurableStore!DocInit, Operating, Up
  <2> QED BY <2>1, <2>2, <2>3 DEF DiskInv
<1>2. StoreShape /\ DiskInv /\ [Next]_vars =>
         (StoreShape /\ DiskInv)' /\ [DurableStore!DocNext]_(DurableStore!docVars)
  <2>1. ASSUME StoreShape, DiskInv, Next
        PROVE  StoreShape' /\ DiskInv' /\ (trusted' => trusted /\ StoreMoves)
    BY <2>1, FilesRefine, OthersRefine
  <2>2. ASSUME StoreShape, DiskInv, UNCHANGED vars
        PROVE  StoreShape' /\ DiskInv' /\ UNCHANGED DurableStore!docVars
    BY <2>2 DEF vars, storeVars, StoreShape, DiskInv, Disk, Undone, Logged, GoesBack, Target,
       DurableStore!docVars, Operating, Up
  <2>3. StoreShape => trusted \in BOOLEAN
    BY DEF StoreShape
  <2>4. StoreShape' => trusted' \in BOOLEAN
    BY DEF StoreShape
  <2> QED BY <2>1, <2>2, <2>3, <2>4, MovesRefine
<1> QED BY <1>1, <1>2, PTL DEF Spec, StoreSpec, DurableStore!DocSpec

-----------------------------------------------------------------------------
(* What is served.  Entries, requests and Repo values are what they are    *)
(* declared to be.                                                         *)
Requests == [op : {"idle", "register", "remove"}, name : RepoNames \cup {IdleReq.name},
             at : {"save", "apply", "list", "resync"},
             names : SUBSET RepoNames, vals : SUBSET Values]
RouteShape ==
    /\ repoReg \in [RepoNames -> 0..MaxGen] /\ made \in [RepoNames -> 0..MaxGen]
    /\ bound \in [Values -> Docs \cup {None}]
    /\ reg \in Entries /\ prevReg \in Entries /\ config \subseteq RepoNames
    /\ rq \in [Handlers -> Requests] /\ parted \in BOOLEAN
    /\ \A h \in Handlers : rq[h].op # "idle" => rq[h].name \in RepoNames

(* The registry has the entry of the pair before, or of the candidate.     *)
Matches(e, p) == e.doc = p.yaml /\ (Routable(e) => p = Pair(e.doc))

BeforePuts == {"journal", "yaml", "hash", "finish", "stored", "uYaml", "uHash", "uFinish"}
Candidate  == {"rebind", "rJournal", "rYaml", "rHash", "rFinish", "restored"}

RegOK ==
    /\ at = "idle" => Matches(reg, files)
    /\ at \in BeforePuts => reg = prevReg /\ call.new = Pair(call.new.yaml)
    /\ at \in BeforePuts \cup Candidate => Matches(prevReg, call.prev)
    /\ at \in Candidate \cup {"accepted"} => Matches(reg, call.new)
    /\ at \in {"rebindBack", "refused"} => Matches(reg, call.prev)

(* Bindings follow the registry, but for the time between its change and   *)
(* the rebind, or the rollback after a rebind that failed.                 *)
BoundOnly ==
    \A v \in Registered(repoReg) :
       bound[v] # None => bound[v] = reg.doc /\ Routable(reg) /\ v[1] \in Listed(reg)
BoundAll ==
    Routable(reg) /\ ~parted =>
       \A n \in Listed(reg) : repoReg[n] # 0 /\ bound[<<n, repoReg[n]>>] = reg.doc
BoundOK == at \notin Candidate \cup {"rebindBack"} => BoundOnly /\ BoundAll

(* A value that is not made yet is neither registered nor bound.           *)
ReqInv ==
    /\ \A n \in RepoNames : repoReg[n] <= made[n]
    /\ \A v \in Values : v[2] > made[v[1]] => bound[v] = None

ServedInv == RouteShape /\ ReqInv /\ (Up /\ trusted => RegOK /\ BoundOK)

(* Steps of the files leave what is served alone, and the phase they are   *)
(* in tells what the registry and the bindings hold.                       *)
LEMMA StorePhases ==
    ASSUME StoreStep
    PROVE  /\ UNCHANGED call /\ (Up' <=> Up)
           /\ Up /\ at' \notin Unrepaired =>
                 \/ at \in BeforePuts /\ at' \in BeforePuts
                 \/ at \in BeforePuts /\ at' = "refused" /\ at \in {"journal", "uFinish"}
                 \/ at \in Candidate /\ at' \in Candidate
<1>1. PutSteps =>
        /\ UNCHANGED call /\ Up /\ Up' /\ at \in BeforePuts
        /\ at' \in BeforePuts \/ (at = "journal" /\ at' = "refused")
  BY DEF PutSteps, Done, Dropped, Up, Booting, BeforePuts
<1>2. UndoSteps =>
        /\ UNCHANGED call /\ Up /\ Up' /\ at \in BeforePuts
        /\ at' \in BeforePuts \/ (at = "uFinish" /\ at' = "refused") \/ at' = "broken"
  BY DEF UndoSteps, Done, Dropped, Up, Booting, BeforePuts
<1>3. RestoreSteps =>
        /\ UNCHANGED call /\ Up /\ Up' /\ at \in Candidate
        /\ at' \in Candidate \/ at' = "unrestored"
  BY DEF RestoreSteps, Done, Dropped, Up, Booting, Candidate
<1>4. RecoverSteps => UNCHANGED call /\ ~Up /\ ~Up'
  BY DEF RecoverSteps, Done, Dropped, Up, Booting
<1> QED BY <1>1, <1>2, <1>3, <1>4, StoreCases DEF Unrepaired

(* The shapes are kept by every step. *)
LEMMA RouteFrame ==
    ASSUME RouteShape, ReqInv, UNCHANGED <<repoReg, made, bound, reg, prevReg, rq, config, parted>>
    PROVE  RouteShape' /\ ReqInv'
BY DEF RouteShape, ReqInv

\* The steps of the service change the registry and the bindings of values
\* that are registered.
LEMMA RouteService ==
    ASSUME RouteShape, ReqInv, UNCHANGED <<repoReg, made, rq, config, parted>>,
           reg' \in Entries, prevReg' \in Entries, bound' \in {bound, Rebound}
    PROVE  RouteShape' /\ ReqInv'
<1>1. /\ bound' \in [Values -> Docs \cup {None}]
      /\ \A v \in Values : v \notin Registered(repoReg) => bound'[v] = bound[v]
  BY DEF RouteShape, Rebound, Entries
<1>2. \A v \in Values : v[2] > made[v[1]] => v \notin Registered(repoReg)
  <2> SUFFICES ASSUME NEW v \in Values, v[2] > made[v[1]], v \in Registered(repoReg) PROVE FALSE
    OBVIOUS
  <2>1. v[1] \in RepoNames /\ v[2] = repoReg[v[1]]
    BY DEF Values, Registered
  <2>2. repoReg[v[1]] <= made[v[1]] /\ repoReg[v[1]] \in Nat /\ made[v[1]] \in Nat
    BY <2>1, PollerAssumption DEF RouteShape, ReqInv
  <2> QED BY <2>1, <2>2
<1> QED BY <1>1, <1>2 DEF RouteShape, ReqInv

\* A request changes the configuration, the registry and itself.
LEMMA RouteRequest ==
    ASSUME RouteShape, ReqInv, NEW h \in Handlers,
           RepoStep(h) \/ \E n \in RepoNames : Register(h, n) \/ Unregister(h, n)
    PROVE  RouteShape' /\ ReqInv'
<1>t. /\ repoReg \in [RepoNames -> 0..MaxGen] /\ made \in [RepoNames -> 0..MaxGen]
      /\ rq \in [Handlers -> Requests] /\ config \subseteq RepoNames
      /\ \A g \in Handlers : rq[g].op # "idle" => rq[g].name \in RepoNames
  BY DEF RouteShape
<1>f. UNCHANGED <<bound, reg, prevReg>>
  BY DEF RepoStep, Register, Unregister, SaveMachine, PublishRepo, DropRepo, ListRepos, Resync, Bound,
     RepoFrame
<1>i. IdleReq \in Requests /\ IdleReq.op = "idle"
  BY DEF IdleReq, Requests
<1>a. ASSUME NEW r \in Requests, rq' = [rq EXCEPT ![h] = r],
             r.op # "idle" => r.name \in RepoNames
      PROVE  /\ rq' \in [Handlers -> Requests]
             /\ \A g \in Handlers : rq'[g].op # "idle" => rq'[g].name \in RepoNames
  BY <1>t, <1>a
<1>s. ASSUME NEW st \in {"apply", "list", "resync"}, Continue(h, st)
      PROVE  /\ rq' \in [Handlers -> Requests]
             /\ \A g \in Handlers : rq'[g].op # "idle" => rq'[g].name \in RepoNames
  BY <1>t, <1>s DEF Continue, Requests
<1>y. ASSUME Reply(h)
      PROVE  /\ rq' \in [Handlers -> Requests]
             /\ \A g \in Handlers : rq'[g].op # "idle" => rq'[g].name \in RepoNames
  BY <1>a, <1>i, <1>y DEF Reply
<1>1. ASSUME NEW n \in RepoNames, Register(h, n) \/ Unregister(h, n) PROVE RouteShape' /\ ReqInv'
  <2>1. PICK op \in {"register", "remove"}, names \in SUBSET RepoNames :
           rq' = [rq EXCEPT ![h] = [op |-> op, name |-> n, at |-> "save", names |-> names,
                                    vals |-> {}]]
    BY <1>t, <1>1 DEF Register, Unregister
  <2>2. UNCHANGED <<config, repoReg, made, parted>>
    BY <1>1 DEF Register, Unregister
  <2> DEFINE r == [op |-> op, name |-> n, at |-> "save", names |-> names, vals |-> {}]
  <2>3. r \in Requests /\ r.name = n
    BY DEF Requests
  <2> QED BY <1>a, <1>f, <2>1, <2>2, <2>3 DEF RouteShape, ReqInv
<1>3. CASE SaveMachine(h)
  <2>0. /\ rq[h].names \subseteq RepoNames /\ UNCHANGED <<repoReg, made, parted>>
    BY <1>t, <1>3 DEF SaveMachine, Requests
  <2>1. /\ config' \in {config, rq[h].names} /\ (Continue(h, "apply") \/ Reply(h))
    BY <1>3 DEF SaveMachine
  <2> QED BY <1>t, <1>f, <1>s, <1>y, <2>0, <2>1 DEF RouteShape, ReqInv
<1>4. CASE PublishRepo(h)
  <2> DEFINE n == rq[h].name
  <2>0. /\ Continue(h, "list") /\ n \in RepoNames /\ UNCHANGED config /\ made[n] < MaxGen
        /\ made' = [made EXCEPT ![n] = made[n] + 1]
        /\ repoReg' = [repoReg EXCEPT ![n] = made'[n]]
    BY <1>t, <1>4 DEF PublishRepo, Bound
  <2>1. parted' \in BOOLEAN
    BY <1>4, Zenon DEF PublishRepo
  <2>2. made[n] \in Nat /\ MaxGen \in Nat
    BY <1>t, <2>0, PollerAssumption
  <2> HIDE DEF n
  <2>4. /\ made' \in [RepoNames -> 0..MaxGen] /\ repoReg' \in [RepoNames -> 0..MaxGen]
        /\ made'[n] = made[n] + 1 /\ repoReg'[n] = made[n] + 1
        /\ \A m \in RepoNames : m # n => repoReg'[m] = repoReg[m] /\ made'[m] = made[m]
    BY <1>t, <2>0, <2>2
  <2>5. RouteShape'
    BY <1>t, <1>f, <1>s, <2>0, <2>1, <2>4 DEF RouteShape
  <2>6. \A m \in RepoNames : repoReg'[m] <= made'[m]
    BY <1>t, <2>2, <2>4 DEF ReqInv
  <2>7. \A v \in Values : v[2] > made'[v[1]] => v[2] > made[v[1]]
    <3> SUFFICES ASSUME NEW v \in Values, v[2] > made'[v[1]] PROVE v[2] > made[v[1]]
      OBVIOUS
    <3>1. v[1] \in RepoNames /\ v[2] \in Nat /\ made[v[1]] \in Nat
      BY <1>t, PollerAssumption DEF Values
    <3> QED BY <2>2, <2>4, <3>1
  <2> QED BY <1>f, <2>5, <2>6, <2>7 DEF ReqInv
<1>5. CASE DropRepo(h)
  <2> DEFINE n == rq[h].name
  <2>0. /\ Continue(h, "list") /\ n \in RepoNames /\ UNCHANGED <<config, made>>
        /\ repoReg' = [repoReg EXCEPT ![n] = 0]
    BY <1>t, <1>5 DEF DropRepo, Bound
  <2>1. parted' \in BOOLEAN
    BY <1>5, Zenon DEF DropRepo
  <2> HIDE DEF n
  <2>3. /\ repoReg' \in [RepoNames -> 0..MaxGen] /\ repoReg'[n] = 0
        /\ \A m \in RepoNames : m # n => repoReg'[m] = repoReg[m]
    BY <1>t, <2>0, PollerAssumption
  <2>4. RouteShape'
    BY <1>t, <1>f, <1>s, <2>0, <2>1, <2>3 DEF RouteShape
  <2>5. \A m \in RepoNames : repoReg'[m] <= made'[m]
    BY <1>t, <2>0, <2>3, PollerAssumption DEF ReqInv
  <2> QED BY <1>f, <2>0, <2>4, <2>5 DEF ReqInv
<1>6. CASE ListRepos(h)
  <2>0. /\ rq[h].op # "idle" /\ UNCHANGED <<config, repoReg, made, parted>>
        /\ rq' = [rq EXCEPT ![h].at = "resync", ![h].vals = Registered(repoReg)]
        /\ Registered(repoReg) \in SUBSET Values
    BY <1>6 DEF ListRepos, Registered
  <2>1. /\ rq' \in [Handlers -> Requests]
        /\ \A g \in Handlers : rq'[g].op = rq[g].op /\ rq'[g].name = rq[g].name
    BY <1>t, <2>0 DEF Requests
  <2> QED BY <1>t, <1>f, <2>0, <2>1 DEF RouteShape, ReqInv
<1>7. CASE Resync(h)
  <2>0. UNCHANGED <<config, repoReg, made, parted>> /\ Reply(h)
    BY <1>7 DEF Resync
  <2> QED BY <1>f, <1>y, <2>0 DEF RouteShape, ReqInv
<1> QED BY <1>1, <1>3, <1>4, <1>5, <1>6, <1>7 DEF RepoStep

(* So every step keeps them. *)
LEMMA RouteNext ==
    ASSUME StoreShape, RouteShape, ReqInv, Next
    PROVE  RouteShape' /\ ReqInv'
<1>e. /\ NoEntry \in Entries /\ Loaded \in Entries
      /\ \A d \in Docs \cup {None} : [doc |-> d, health |-> "healthy"] \in Entries
  BY DEF NoEntry, Loaded, Entries, StoreShape, Pairs
<1>t. /\ reg \in Entries /\ prevReg \in Entries /\ rq \in [Handlers -> Requests]
      /\ call.new.yaml \in Docs \cup {None}
  BY DEF RouteShape, StoreShape, Pairs
<1>1. CASE StartServer
  BY <1>1, RouteFrame DEF StartServer, memVars, DiskFrame
<1>2. CASE Serve
  <2>1. /\ repoReg' = [n \in RepoNames |-> IF n \in config THEN 1 ELSE 0] /\ made' = repoReg'
        /\ bound' = [v \in Values |-> IF Routable(reg') /\ v[2] = repoReg'[v[1]]
                                     /\ v[1] \in Listed(reg') THEN reg'.doc ELSE None]
        /\ reg' \in {[Loaded EXCEPT !.health = "blocked"], Loaded}
        /\ UNCHANGED <<prevReg, rq, config, parted>>
    BY <1>2 DEF Serve, DiskFrame
  <2>2. reg' \in Entries
    BY <1>e, <2>1 DEF Entries
  <2>4. RouteShape'
    BY <2>1, <2>2, PollerAssumption DEF RouteShape, Entries
  <2>5. \A v \in Values : v[2] > made'[v[1]] => bound'[v] = None
    BY <2>1, PollerAssumption DEF Values
  <2>6. \A n \in RepoNames : repoReg'[n] <= made'[n]
    BY <2>1
  <2> QED BY <2>4, <2>5, <2>6 DEF ReqInv
<1>3. CASE Crash
  <2>1. /\ repoReg' = [n \in RepoNames |-> 0] /\ made' = [n \in RepoNames |-> 0]
        /\ bound' = [v \in Values |-> None] /\ reg' = NoEntry /\ prevReg' = NoEntry
        /\ rq' = [h \in Handlers |-> IdleReq] /\ UNCHANGED config /\ parted' = FALSE
    BY <1>3 DEF Crash, NoMemory
  <2>2. IdleReq \in Requests /\ IdleReq.op = "idle"
    BY DEF IdleReq, Requests
  <2>3. /\ repoReg' \in [RepoNames -> 0..MaxGen] /\ made' \in [RepoNames -> 0..MaxGen]
        /\ bound' \in [Values -> Docs \cup {None}] /\ rq' \in [Handlers -> Requests]
    BY <2>1, <2>2, PollerAssumption
  <2>4. RouteShape'
    BY <1>e, <2>1, <2>2, <2>3 DEF RouteShape
  <2> QED BY <2>1, <2>4 DEF ReqInv
<1>4. CASE (\E d \in Docs : Submit(d)) \/ RemoveWorkflow
  <2>1. /\ UNCHANGED <<repoReg, made, bound, reg, rq, config, parted>> /\ prevReg' = reg
    BY <1>4 DEF Submit, RemoveWorkflow, Operate, ServiceFrame, DiskFrame
  <2> QED BY <1>t, <2>1, RouteService
<1>5. CASE StoreStep /\ UNCHANGED memVars /\ DiskFrame
  BY <1>5, RouteFrame DEF memVars, DiskFrame
<1>6. CASE ReplaceEntry \/ RestoreEntry \/ Answer
  <2>1. /\ UNCHANGED <<repoReg, made, bound, rq, config, parted>>
        /\ reg' \in Entries /\ prevReg' \in Entries
    BY <1>e, <1>t, <1>6 DEF ReplaceEntry, RestoreEntry, Answer, ServiceFrame, DiskFrame
  <2> QED BY <2>1, RouteService
<1>7. CASE \/ BindWorkflows("rebind", "accepted", "rJournal")
           \/ BindWorkflows("rebindBack", "refused", "broken")
           \/ BindWorkflows("rebindBroken", "broken", "broken")
  <2>1. /\ UNCHANGED <<repoReg, made, rq, config, parted, reg, prevReg>>
        /\ bound' \in {bound, Rebound}
    BY <1>7 DEF BindWorkflows, ServiceFrame, DiskFrame
  <2> QED BY <1>t, <2>1, RouteService
<1>8. CASE GroupStep \/ \E v \in Values : Poll(v)
  BY <1>8, RouteFrame DEF GroupStep, Poll, PollFrame, memVars, DiskFrame
<1>9. CASE \E h \in Handlers : RepoStep(h) \/ \E n \in RepoNames : Register(h, n) \/ Unregister(h, n)
  BY <1>9, RouteRequest
<1> QED BY <1>1, <1>2, <1>3, <1>4, <1>5, <1>6, <1>7, <1>8, <1>9 DEF Next, ServiceStep

(* What a document lists are names of repositories, and a registered value *)
(* has a binding of its own.                                               *)
LEMMA ListedNames ==
    ASSUME RouteShape
    PROVE  /\ Listed(reg) \subseteq RepoNames
           /\ \A n \in RepoNames : repoReg[n] # 0 => <<n, repoReg[n]>> \in Registered(repoReg)
           /\ Registered(repoReg) \subseteq Values
<1>1. Listed(reg) \subseteq RepoNames
  BY TargetAssumption DEF RouteShape, Entries, Listed
<1>2. ASSUME NEW n \in RepoNames, repoReg[n] # 0
      PROVE  <<n, repoReg[n]>> \in Registered(repoReg)
  <2>1. repoReg[n] \in 1..MaxGen
    BY <1>2, PollerAssumption DEF RouteShape
  <2> QED BY <2>1 DEF Registered, Values
<1> QED BY <1>1, <1>2 DEF Registered

(* A rebind that succeeds leaves exactly the bindings of the registry.     *)
LEMMA FreshBound ==
    ASSUME RouteShape, Bindable, bound' = Rebound, UNCHANGED <<repoReg, reg, parted>>
    PROVE  BoundOnly' /\ BoundAll'
<1>1. /\ UNCHANGED Registered(repoReg) /\ UNCHANGED Listed(reg) /\ UNCHANGED Routable(reg)
  BY DEF Registered, Listed, Routable
<1>2. \A v \in Registered(repoReg) :
         bound'[v] = IF Routable(reg) /\ v[1] \in Listed(reg) THEN reg.doc ELSE None
  BY ListedNames DEF Rebound
<1>3. BoundOnly'
  BY <1>1, <1>2 DEF BoundOnly
<1>4. ASSUME Routable(reg), NEW n \in Listed(reg)
      PROVE  repoReg[n] # 0 /\ bound'[<<n, repoReg[n]>>] = reg.doc
  <2>1. repoReg[n] # 0 /\ n \in RepoNames
    BY <1>4, ListedNames DEF Bindable
  <2> DEFINE v == <<n, repoReg[n]>>
  <2>2. v \in Registered(repoReg) /\ v[1] = n
    BY <2>1, ListedNames
  <2> QED BY <1>2, <1>4, <2>1, <2>2
<1>5. BoundAll'
  BY <1>1, <1>4 DEF BoundAll
<1> QED BY <1>3, <1>5

LEMMA BoundFrame ==
    ASSUME BoundOnly, BoundAll, UNCHANGED <<repoReg, bound, reg>>, ~parted' => ~parted
    PROVE  BoundOnly' /\ BoundAll'
BY DEF BoundOnly, BoundAll, Registered, Listed, Routable

\* Requests: a repository registered anew is listed by no entry that is
\* served, one that is dropped only if that is recorded.
LEMMA BoundRequest ==
    ASSUME RouteShape, ReqInv, BoundOnly, BoundAll, NEW h \in Handlers,
           RepoStep(h) \/ \E n \in RepoNames : Register(h, n) \/ Unregister(h, n)
    PROVE  BoundOnly' /\ BoundAll'
<1>f. UNCHANGED <<bound, reg, prevReg>>
  BY DEF RepoStep, Register, Unregister, SaveMachine, PublishRepo, DropRepo, ListRepos, Resync, Bound,
     RepoFrame, Up
<1>g. UNCHANGED Listed(reg) /\ UNCHANGED Routable(reg)
  BY <1>f DEF Listed, Routable
<1>1. CASE PublishRepo(h)
  <2> DEFINE n == rq[h].name
  <2>0. /\ n \in RepoNames /\ made[n] < MaxGen
        /\ repoReg' = [repoReg EXCEPT ![n] = made'[n]] /\ made' = [made EXCEPT ![n] = made[n] + 1]
        /\ ~parted' => ~parted /\ (repoReg[n] = 0 \/ n \notin Listed(reg))
    BY <1>1 DEF PublishRepo, Bound, RouteShape
  <2>1. made[n] \in Nat /\ MaxGen \in Nat
    BY <2>0, PollerAssumption DEF RouteShape
  <2> HIDE DEF n
  <2>2. /\ repoReg'[n] = made[n] + 1 /\ \A m \in RepoNames : m # n => repoReg'[m] = repoReg[m]
    BY <2>0 DEF RouteShape
  <2> DEFINE new == <<n, made[n] + 1>>
  <2>3. new \in Values /\ bound[new] = None
    <3>1. new \in Values /\ new[1] = n /\ new[2] = made[n] + 1
      BY <2>0, <2>1 DEF Values
    <3>2. new[2] > made[new[1]]
      BY <2>1, <3>1
    <3> QED BY <3>1, <3>2 DEF ReqInv
  <2>4. \A v \in Registered(repoReg)' : v = new \/ v \in Registered(repoReg)
    <3> SUFFICES ASSUME NEW v \in Values, v[2] = repoReg'[v[1]], v # new
                 PROVE  v[2] = repoReg[v[1]]
      BY DEF Registered
    <3>1. v = <<v[1], v[2]>> /\ v[1] \in RepoNames
      BY DEF Values
    <3> QED BY <2>2, <3>1
  <2>5. BoundOnly'
    BY <1>f, <1>g, <2>3, <2>4 DEF BoundOnly
  <2>6. BoundAll'
    <3>1. ~parted' /\ Routable(reg) => n \notin Listed(reg)
      BY <2>0 DEF BoundAll
    <3> QED BY <1>f, <1>g, <2>0, <2>2, <3>1, ListedNames DEF BoundAll
  <2> QED BY <2>5, <2>6
<1>2. CASE DropRepo(h)
  <2> DEFINE n == rq[h].name
  <2>0. /\ n \in RepoNames /\ repoReg' = [repoReg EXCEPT ![n] = 0]
        /\ ~parted' => ~parted /\ n \notin Listed(reg)
    BY <1>2 DEF DropRepo, Bound, RouteShape
  <2> HIDE DEF n
  <2>1. repoReg'[n] = 0 /\ \A m \in RepoNames : m # n => repoReg'[m] = repoReg[m]
    BY <2>0 DEF RouteShape
  <2>2. Registered(repoReg)' \subseteq Registered(repoReg)
    <3> SUFFICES ASSUME NEW v \in Values, v[2] = repoReg'[v[1]]
                 PROVE  v[2] = repoReg[v[1]]
      BY DEF Registered
    <3>1. v[1] \in RepoNames /\ v[2] # 0
      BY PollerAssumption DEF Values
    <3> QED BY <2>1, <3>1
  <2>3. BoundOnly'
    BY <1>f, <1>g, <2>2 DEF BoundOnly
  <2>4. BoundAll'
    BY <1>f, <1>g, <2>0, <2>1, ListedNames DEF BoundAll
  <2> QED BY <2>3, <2>4
<1>3. CASE ~(PublishRepo(h) \/ DropRepo(h))
  <2>1. UNCHANGED <<repoReg, parted>>
    BY <1>3 DEF RepoStep, Register, Unregister, SaveMachine, ListRepos, Resync
  <2> QED BY <1>f, <2>1, BoundFrame
<1> QED BY <1>1, <1>2, <1>3

(* The registry and the bindings, step by step. *)
LEMMA ServedNext ==
    ASSUME StoreShape, DiskInv, ServedInv, Next, Up', trusted', trusted' => trusted
    PROVE  RegOK' /\ BoundOK'
<1>i. /\ RouteShape /\ ReqInv /\ trusted /\ Disk /\ (Up => RegOK /\ BoundOK)
      /\ at \notin {"broken", "unrestored", "blocked", "rebindBroken"}
  BY DEF ServedInv, DiskInv, Disk, Unrepaired
<1>p. \A e, p : Matches(e, p) <=> e.doc = p.yaml /\ (e.health = "healthy" => p = Pair(e.doc))
  BY DEF Matches, Routable
<1>1. CASE Serve
  <2>1. /\ repoReg' = [n \in RepoNames |-> IF n \in config THEN 1 ELSE 0]
        /\ bound' = [v \in Values |-> IF Routable(reg') /\ v[2] = repoReg'[v[1]]
                                     /\ v[1] \in Listed(reg') THEN reg'.doc ELSE None]
        /\ at = "loaded" /\ at' = "idle" /\ UNCHANGED files
        /\ reg' = IF Routable(Loaded) /\ ~(Listed(Loaded) \subseteq config)
                  THEN [Loaded EXCEPT !.health = "blocked"] ELSE Loaded
    BY <1>1, <1>i DEF Serve
  <2>2. /\ reg'.doc = files.yaml
        /\ Routable(reg') => reg' = Loaded /\ Listed(reg') \subseteq config
                             /\ files.hash = files.yaml
    BY <2>1 DEF Loaded, Routable
  <2>3. Routable(reg') => files = Pair(files.yaml)
    BY <2>2, PairParts DEF StoreShape, Pair, Pairs
  <2>4. RegOK'
    BY <1>p, <2>1, <2>2, <2>3 DEF RegOK, BeforePuts, Candidate, Routable
  <2>5. BoundOnly'
    BY <2>1 DEF BoundOnly, Registered, Listed, Routable
  <2>6. BoundAll'
    <3> SUFFICES ASSUME Routable(reg'), NEW n \in Listed(reg')
                 PROVE  repoReg'[n] # 0 /\ bound'[<<n, repoReg'[n]>>] = reg'.doc
      BY DEF BoundAll, Routable, Listed
    <3>1. n \in config /\ n \in RepoNames
      BY <1>i, <2>2 DEF RouteShape
    <3>2. repoReg'[n] = 1 /\ <<n, 1>> \in Values
      BY <2>1, <3>1, PollerAssumption DEF Values
    <3> QED BY <2>1, <3>2
  <2> QED BY <2>4, <2>5, <2>6 DEF BoundOK
<1>2. CASE (\E d \in Docs : Submit(d)) \/ RemoveWorkflow
  <2>1. PICK d \in Docs \cup {None} : Operate(Pair(d))
    BY <1>2 DEF Submit, RemoveWorkflow, Absent
  <2>2. /\ at = "idle" /\ at' = "journal" /\ call' = [new |-> Pair(d), prev |-> files]
        /\ prevReg' = reg /\ UNCHANGED <<reg, bound, repoReg, parted>>
    BY <2>1 DEF Operate, ServiceFrame, DiskFrame
  <2>3. Up /\ call'.new = Pair(call'.new.yaml) /\ call'.prev = files
    BY <2>2 DEF Up, Booting, Pair
  <2>4. RegOK'
    BY <1>i, <1>p, <2>2, <2>3 DEF RegOK, BeforePuts, Candidate
  <2>5. BoundOK'
    BY <1>i, <2>2, <2>3, BoundFrame DEF BoundOK, Candidate
  <2> QED BY <2>4, <2>5
<1>3. CASE StoreStep /\ UNCHANGED memVars /\ DiskFrame
  <2>1. UNCHANGED <<repoReg, bound, reg, prevReg, parted>>
    BY <1>3 DEF memVars, DiskFrame
  <2>2. /\ UNCHANGED call /\ Up /\ at' \notin Unrepaired
        /\ \/ at \in BeforePuts /\ at' \in BeforePuts
           \/ at \in BeforePuts /\ at' = "refused"
           \/ at \in Candidate /\ at' \in Candidate
    BY <1>3, StorePhases, StoreTrust
  <2>3. RegOK'
    BY <1>i, <1>p, <2>1, <2>2 DEF RegOK, BeforePuts, Candidate
  <2>4. BoundOK'
    BY <1>i, <2>1, <2>2, BoundFrame DEF BoundOK, BeforePuts, Candidate
  <2> QED BY <2>3, <2>4
<1>4. CASE ReplaceEntry
  <2>1. /\ at = "stored" /\ at' = "rebind" /\ UNCHANGED <<call, prevReg>> /\ Up
        /\ reg' = IF call.new = Absent THEN NoEntry
                  ELSE [doc |-> call.new.yaml, health |-> "healthy"]
    BY <1>4 DEF ReplaceEntry, Up, Booting
  <2>2. call.new = Pair(call.new.yaml)
    BY <1>i, <2>1 DEF RegOK, BeforePuts
  <2>3. Matches(reg', call.new)
    BY <1>p, <2>1, <2>2 DEF NoEntry, Absent, Pair
  <2>4. RegOK'
    BY <1>i, <1>p, <2>1, <2>3 DEF RegOK, BeforePuts, Candidate
  <2> QED BY <2>1, <2>4 DEF BoundOK, Candidate
<1>5. CASE \/ BindWorkflows("rebind", "accepted", "rJournal")
           \/ BindWorkflows("rebindBack", "refused", "broken")
           \/ BindWorkflows("rebindBroken", "broken", "broken")
  <2>1. /\ UNCHANGED <<call, reg, prevReg, repoReg, parted>> /\ at' # "broken" /\ Up
        /\ \/ at = "rebind" /\ at' = "rJournal"
           \/ /\ \/ at = "rebind" /\ at' = "accepted"
                 \/ at = "rebindBack" /\ at' = "refused"
              /\ Bindable /\ bound' = Rebound
    BY <1>5, <1>i DEF BindWorkflows, ServiceFrame, DiskFrame, Up, Booting
  <2>2. RegOK'
    BY <1>i, <1>p, <2>1 DEF RegOK, BeforePuts, Candidate
  <2>3. BoundOK'
    BY <1>i, <2>1, FreshBound DEF BoundOK, Candidate
  <2> QED BY <2>2, <2>3
<1>6. CASE RestoreEntry
  <2>1. /\ at = "restored" /\ at' = "rebindBack" /\ reg' = prevReg /\ UNCHANGED call /\ Up
    BY <1>6, <1>i DEF RestoreEntry, Up, Booting
  <2>2. RegOK'
    BY <1>i, <1>p, <2>1 DEF RegOK, BeforePuts, Candidate
  <2> QED BY <2>1, <2>2 DEF BoundOK, Candidate
<1>7. CASE Answer
  <2>1. /\ at \in {"accepted", "refused"} /\ at' = "idle" /\ Up
        /\ UNCHANGED <<files, reg, bound, repoReg, parted>>
    BY <1>7, <1>i DEF Answer, ServiceFrame, DiskFrame, Up, Booting
  <2>2. /\ at = "accepted" => files = call.new
        /\ at = "refused" => files = call.prev
    BY <1>i DEF Disk
  <2>3. RegOK'
    BY <1>i, <1>p, <2>1, <2>2 DEF RegOK, BeforePuts, Candidate
  <2>4. BoundOK'
    BY <1>i, <2>1, BoundFrame DEF BoundOK, Candidate
  <2> QED BY <2>3, <2>4
<1>8. CASE \E h \in Handlers : RepoStep(h) \/ \E n \in RepoNames : Register(h, n) \/ Unregister(h, n)
  <2>1. UNCHANGED <<at, files, call, reg, prevReg>> /\ Up
    BY <1>8 DEF RepoStep, Register, Unregister, SaveMachine, PublishRepo, DropRepo, ListRepos, Resync,
       Bound, RepoFrame, Up
  <2>2. RegOK'
    BY <1>i, <1>p, <2>1 DEF RegOK
  <2>3. BoundOK'
    BY <1>i, <1>8, <2>1, BoundRequest DEF BoundOK
  <2> QED BY <2>2, <2>3
<1>9. CASE GroupStep \/ \E v \in Values : Poll(v)
  <2>1. UNCHANGED <<at, files, call, reg, prevReg, bound, repoReg, parted>> /\ Up
    BY <1>9 DEF GroupStep, Poll, PollFrame, storeVars, memVars, DiskFrame
  <2>2. RegOK'
    BY <1>i, <1>p, <2>1 DEF RegOK
  <2>3. BoundOK'
    BY <1>i, <2>1, BoundFrame DEF BoundOK
  <2> QED BY <2>2, <2>3
<1>10. ~StartServer /\ ~Crash
  BY DEF StartServer, BeginRecovery, Crash, Up, Booting
<1> QED BY <1>1, <1>2, <1>3, <1>4, <1>5, <1>6, <1>7, <1>8, <1>9, <1>10 DEF Next, ServiceStep

(* Between operations the server serves what a restart would load, however *)
(* many requests about repositories are under way.                         *)
THEOREM ServesTheStored == Spec => []ServedIsStored
<1>1. Init => StoreShape /\ DiskInv /\ ServedInv
  <2> SUFFICES ASSUME Init PROVE StoreShape /\ DiskInv /\ ServedInv
    OBVIOUS
  <2>1. StoreShape /\ DiskInv
    BY JournalParts
    DEF Init, StoreInit, StoreShape, NoCall, Absent, Pair, Pairs, DiskInv, Disk, Unrepaired
  <2>2. IdleReq \in Requests /\ IdleReq.op = "idle" /\ NoEntry \in Entries
    BY DEF IdleReq, Requests, NoEntry, Entries
  <2>3. ~Up
    BY DEF Init, Up
  <2>4. RouteShape
    <3>1. /\ repoReg \in [RepoNames -> 0..MaxGen] /\ made \in [RepoNames -> 0..MaxGen]
          /\ bound \in [Values -> Docs \cup {None}]
      BY PollerAssumption DEF Init
    <3>2. reg \in Entries /\ prevReg \in Entries /\ config \subseteq RepoNames
      BY <2>2 DEF Init
    <3>3. /\ rq \in [Handlers -> Requests]
          /\ \A h \in Handlers : rq[h].op # "idle" => rq[h].name \in RepoNames
      BY <2>2 DEF Init
    <3>4. parted \in BOOLEAN
      BY DEF Init
    <3> QED BY <3>1, <3>2, <3>3, <3>4 DEF RouteShape
  <2>5. ReqInv
    BY DEF Init, ReqInv
  <2> QED BY <2>1, <2>3, <2>4, <2>5 DEF ServedInv
<1>2. StoreShape /\ DiskInv /\ ServedInv /\ [Next]_vars => (StoreShape /\ DiskInv /\ ServedInv)'
  <2>1. ASSUME StoreShape, DiskInv, ServedInv, Next
        PROVE  StoreShape' /\ DiskInv' /\ ServedInv'
    <3>1. StoreShape' /\ DiskInv' /\ (trusted' => trusted)
      BY <2>1, FilesRefine, OthersRefine
    <3>2. RouteShape' /\ ReqInv'
      BY <2>1, RouteNext DEF ServedInv
    <3>3. Up' /\ trusted' => RegOK' /\ BoundOK'
      BY <2>1, <3>1, ServedNext
    <3> QED BY <3>1, <3>2, <3>3 DEF ServedInv
  <2>2. ASSUME StoreShape, DiskInv, ServedInv, UNCHANGED vars
        PROVE  StoreShape' /\ DiskInv' /\ ServedInv'
    <3>1. StoreShape' /\ DiskInv'
      BY <2>2 DEF vars, storeVars, StoreShape, DiskInv, Disk, Undone, Logged, GoesBack, Target
    <3>2. ServedInv'
      BY <2>2 DEF vars, storeVars, memVars, ServedInv, RouteShape, ReqInv, RegOK, BoundOK, BoundOnly,
                  BoundAll, Up
    <3> QED BY <3>1, <3>2
  <2> QED BY <2>1, <2>2
<1>3. StoreShape /\ DiskInv /\ ServedInv => ServedIsStored
  <2> SUFFICES ASSUME StoreShape, DiskInv, ServedInv, Up, at = "idle", trusted
               PROVE  /\ reg.doc = Target.yaml
                      /\ Routable(reg) => files = Pair(reg.doc)
                      /\ BoundOnly /\ BoundAll
    BY DEF ServedIsStored, BoundOnly, BoundAll
  <2>1. Matches(reg, files) /\ BoundOnly /\ BoundAll
    BY DEF ServedInv, RegOK, BoundOK, Candidate
  <2>2. Target = files
    BY TargetIs DEF StoreShape, DiskInv, Disk, Undone
  <2> QED BY <2>1, <2>2 DEF Matches
<1> QED BY <1>1, <1>2, <1>3, PTL DEF Spec
===============================================================================
