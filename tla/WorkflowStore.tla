---------------------------- MODULE WorkflowStore -----------------------------
(***************************************************************************)
(* The stored definition of one workflow name                              *)
(* (internal/workflow/store.go): its YAML, the accepted hash of it and the *)
(* transaction journal, three files replaced one at a time.  Put and       *)
(* Remove are forward transactions, restorePair is a rollback transaction, *)
(* and loading the store finishes what a dead process left behind.         *)
(*                                                                         *)
(* One file is replaced atomically (WriteAtomic), but an error may be      *)
(* reported after the rename, so a failed write may have had its effect.   *)
(* Callers hold the lifecycle gate: one operation at a time.               *)
(*                                                                         *)
(* Left out: files edited by hand, unreadable files and journals, and      *)
(* everything of a document but its identity.                              *)
(***************************************************************************)
EXTENDS Naturals

CONSTANTS
    Docs,       \* the documents that may be submitted
    None,       \* no file
    Scenarios   \* bounds by kind: the faults of one operation or start; in one
                \* process, how often repository requests meet each other
                \* ("overlap") or an operation ("mixed")

FaultKinds == {"fail", "bind", "crash", "overlap", "mixed"}
NoFaults   == [k \in FaultKinds |-> 0]

ASSUME DocAssumption   == None \notin Docs
ASSUME FaultAssumption == Scenarios \subseteq [FaultKinds -> Nat]

VARIABLES
    files,    \* the pair on disk: yaml, and the document hash was taken of
    journal,  \* the transaction file
    at,       \* the next step of the operation under way
    call,     \* its target pair and the pair before it
    trusted,  \* ghost: no operation has reported a failed rollback
    faults    \* faults of the operation or start, by kind

storeVars == <<files, journal, at, call, trusted, faults>>

Pairs     == [yaml : Docs \cup {None}, hash : Docs \cup {None}]
Pair(d)   == [yaml |-> d, hash |-> d]
Absent    == Pair(None)
NoJournal == [kind |-> "none", old |-> Absent, new |-> Absent]
NoCall    == [new |-> Absent, prev |-> Absent]

StoreSteps ==
    {"journal", "yaml", "hash", "finish", "stored", "refused",
     "uYaml", "uHash", "uFinish", "broken",
     "rJournal", "rYaml", "rHash", "rFinish", "restored", "unrestored",
     "bYaml", "bHash", "bFinish", "loaded", "blocked"}

\* A definition stored before hashes were kept has none.
StoreInit ==
    /\ files \in {Pair(d) : d \in Docs \cup {None}} \cup
                 {[yaml |-> d, hash |-> None] : d \in Docs}
    /\ journal = NoJournal /\ call = NoCall
    /\ trusted = TRUE /\ faults = NoFaults

StoreTypeOK ==
    /\ files \in Pairs
    /\ journal \in [kind : {"none", "forward", "rollback"}, old : Pairs, new : Pairs]
    /\ call \in [new : Pairs, prev : Pairs]
    /\ trusted \in BOOLEAN /\ faults \in [FaultKinds -> Nat]

Spend(kind) ==
    /\ faults' = [faults EXCEPT ![kind] = @ + 1]
    /\ \E s \in Scenarios : \A k \in FaultKinds : faults'[k] <= s[k]

-----------------------------------------------------------------------------
(* One file at a time: the step succeeds, or fails and goes elsewhere *)

Unrepaired == {"broken", "unrestored", "blocked"}

Move(here, next, failed, f, j, torn) ==
    /\ at = here
    /\ \/ at' = next /\ files' = f /\ journal' = j /\ UNCHANGED faults
       \/ /\ at' = failed /\ Spend("fail")
          /\ \E disk \in {<<files, journal>>} \cup torn :
                files' = disk[1] /\ journal' = disk[2]
    /\ trusted' = (trusted /\ at' \notin Unrepaired)
    /\ UNCHANGED call

\* config.WriteAtomic
Write(here, next, failed, f, j) == Move(here, next, failed, f, j, {<<f, j>>})

\* removeIfExists
Unlink(here, next, failed, f, j) == Move(here, next, failed, f, j, {})

SetYaml(here, next, failed, d) ==
    LET f == [files EXCEPT !.yaml = d]
    IN \/ d # None /\ Write(here, next, failed, f, journal)
       \/ d = None /\ Unlink(here, next, failed, f, journal)

SetHash(here, next, failed, d) ==
    LET f == [files EXCEPT !.hash = d]
    IN \/ d # None /\ Write(here, next, failed, f, journal)
       \/ d = None /\ Unlink(here, next, failed, f, journal)

WriteJournal(here, next, failed, kind, new) ==
    Write(here, next, failed, files, [kind |-> kind, old |-> files, new |-> new])

DropJournal(here, next, failed) == Unlink(here, next, failed, files, NoJournal)

-----------------------------------------------------------------------------
(* Operations *)

\* Mutant: the hash of the candidate is accepted before its YAML is stored.
PutHashFirst ==
    \/ SetHash("journal", "yaml", "refused", call.new.hash)
    \/ WriteJournal("yaml", "hash", "uYaml", "forward", call.new)
    \/ SetYaml("hash", "finish", "uYaml", call.new.yaml)
    \/ DropJournal("finish", "stored", "uYaml")

\* Put and Remove.  Without a journal on disk nothing needs to be undone.
Put ==
    \/ WriteJournal("journal", "yaml", "refused", "forward", call.new)
    \/ SetYaml("yaml", "hash", "uYaml", call.new.yaml)
    \/ SetHash("hash", "finish", "uYaml", call.new.hash)
    \/ DropJournal("finish", "stored", "uYaml")

\* rollbackTransaction: force the old pair back.
Rollback ==
    \/ SetYaml("uYaml", "uHash", "broken", call.prev.yaml)
    \/ SetHash("uHash", "uFinish", "broken", call.prev.hash)
    \/ DropJournal("uFinish", "refused", "broken")

\* restorePair, after the operation was committed.
RestorePair ==
    \/ WriteJournal("rJournal", "rYaml", "unrestored", "rollback", call.prev)
    \/ SetYaml("rYaml", "rHash", "unrestored", call.prev.yaml)
    \/ SetHash("rHash", "rFinish", "unrestored", call.prev.hash)
    \/ DropJournal("rFinish", "restored", "unrestored")

\* recoverTransaction: a rollback's target wins, and so does a complete new
\* pair; anything else goes back to the old one.
Target ==
    CASE journal.kind = "none" -> files
      [] journal.kind = "rollback" \/ files = journal.new -> journal.new
      [] OTHER -> journal.old

BeginRecovery ==
    /\ at' = IF journal.kind = "none" THEN "loaded"
             ELSE IF files = Target THEN "bFinish" ELSE "bYaml"
    /\ call' = [new |-> Target, prev |-> files]
    /\ UNCHANGED <<files, journal, trusted>>

\* A step that fails blocks the workflow and keeps the journal.
RecoverTransaction ==
    \/ SetYaml("bYaml", "bHash", "blocked", call.new.yaml)
    \/ SetHash("bHash", "bFinish", "blocked", call.new.hash)
    \/ DropJournal("bFinish", "loaded", "blocked")

StoreStep == Put \/ Rollback \/ RestorePair \/ RecoverTransaction

\* loadRecord: the document and the health it is published with.
Loaded ==
    [doc |-> files.yaml,
     health |-> CASE files.yaml = None -> "none"
                  [] files.hash = None -> "unverified"
                  [] files.hash # files.yaml -> "outdated"
                  [] OTHER -> "healthy"]
===============================================================================
