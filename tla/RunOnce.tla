------------------------------- MODULE RunOnce -------------------------------
(***************************************************************************)
(* Textfile mode: run and writeMetrics (infiniband_exporter.go) under      *)
(* --exporter.runonce.                                                     *)
(*                                                                         *)
(* Cron starts processes; each tries the lock file, creates a temporary    *)
(* file beside its output, collects, lets prometheus.WriteToTextfile write *)
(* a second temporary file and rename it over the first, and renames the   *)
(* first over the output.  Several cron jobs with different outputs share  *)
(* the default lock file.  A process can be killed between any two steps:  *)
(* the kernel then drops its lock, and nothing removes its files.          *)
(*                                                                         *)
(* A document is abstracted to the process that wrote it, when it was      *)
(* collected, whether it is whole, and whether the collection it reports   *)
(* succeeded.                                                              *)
(***************************************************************************)
EXTENDS Integers, FiniteSets

CONSTANTS
    Processes,  \* runs started by cron, each once
    Outputs,    \* --exporter.output paths
    OutputOf    \* OutputOf[p]: the path p was started with

ASSUME OutputsAssumption == OutputOf \in [Processes -> Outputs]

NoProcess == "none"
ASSUME ProcessesAssumption == IsFiniteSet(Processes) /\ NoProcess \notin Processes

VARIABLES
    clock,   \* counts collections: the time of the latest one
    lock,    \* the process that holds the flock
    output,  \* output[o]: the document at path o
    first,   \* first[p]: the document in writeMetrics' temporary file
    second,  \* second[p]: the document in WriteToTextfile's temporary file
    pc,      \* pc[p]: where p is
    doc,     \* doc[p]: what p's gatherer yields
    exit     \* exit[p]: "none", "ok", "error", "declined" or "killed"

vars == <<clock, lock, output, first, second, pc, doc, exit>>

NoFile == [state |-> "absent", at |-> 0, success |-> FALSE]
Document(state, d) == [state |-> state, at |-> d.at, success |-> d.success]

PCs == {"idle", "lock", "create", "collect", "gather", "write", "close",
        "installFirst", "dropSecond", "install", "dropFirst", "exit", "done"}

Init ==
    /\ clock = 0
    /\ lock = NoProcess
    /\ output = [o \in Outputs |-> NoFile]
    /\ first = [p \in Processes |-> NoFile]
    /\ second = [p \in Processes |-> NoFile]
    /\ pc = [p \in Processes |-> "idle"]
    /\ doc = [p \in Processes |-> NoFile]
    /\ exit = [p \in Processes |-> "none"]

Goto(p, label) == pc' = [pc EXCEPT ![p] = label]

Start(p) ==
    /\ pc[p] = "idle"
    /\ Goto(p, "lock")
    /\ UNCHANGED <<clock, lock, output, first, second, doc, exit>>

-----------------------------------------------------------------------------
(* run                                                                     *)

LockIgnored == TRUE  \* mutant: the result of TryLock is not looked at
LockFree == lock = NoProcess

\* flock.TryLock: it never waits.
TryLock(p) ==
    /\ pc[p] = "lock"
    /\ LockFree
    /\ lock' = p
    /\ Goto(p, "create")
    /\ UNCHANGED <<clock, output, first, second, doc, exit>>

Decline(p) ==
    /\ pc[p] = "lock"
    /\ ~LockFree
    /\ exit' = [exit EXCEPT ![p] = "declined"]
    /\ Goto(p, "exit")
    /\ UNCHANGED <<clock, lock, output, first, second, doc>>

\* Any error return: the lock file cannot be opened, a file cannot be created,
\* written or renamed, or Gather fails.  The deferred removals follow.
Error(p, from, to) ==
    /\ pc[p] = from
    /\ exit' = [exit EXCEPT ![p] = "error"]
    /\ Goto(p, to)
    /\ UNCHANGED <<clock, lock, output, first, second, doc>>

Fail(p) ==
    \/ Error(p, "lock", "exit")
    \/ Error(p, "create", "exit")
    \/ \E from \in {"gather", "write", "close", "installFirst"} : Error(p, from, "dropSecond")
    \/ Error(p, "install", "dropFirst")

-----------------------------------------------------------------------------
(* writeMetrics                                                            *)

\* os.CreateTemp: an empty file.
Create(p) ==
    /\ pc[p] = "create"
    /\ first' = [first EXCEPT ![p] = [NoFile EXCEPT !.state = "empty"]]
    /\ Goto(p, "collect")
    /\ UNCHANGED <<clock, lock, output, second, doc, exit>>

\* mutant: a collection that failed is tried again before anything is written
CollectUntilSuccess(p) ==
    /\ pc[p] = "collect"
    /\ clock' = clock + 1
    /\ \E success \in BOOLEAN :
         /\ doc' = [doc EXCEPT ![p] = [state |-> "whole", at |-> clock + 1, success |-> success]]
         /\ Goto(p, IF success THEN "gather" ELSE "collect")
    /\ UNCHANGED <<lock, output, first, second, exit>>

\* setupGathers: ibnetdiscover runs, and succeeds or not; the collectors'
\* last_execution is emitted in both cases.
Collect(p) ==
    /\ pc[p] = "collect"
    /\ clock' = clock + 1
    /\ \E success \in BOOLEAN :
         doc' = [doc EXCEPT ![p] = [state |-> "whole", at |-> clock + 1, success |-> success]]
    /\ Goto(p, "gather")
    /\ UNCHANGED <<lock, output, first, second, exit>>

-----------------------------------------------------------------------------
(* prometheus.WriteToTextfile on the first temporary file                  *)

Gather(p) ==
    /\ pc[p] = "gather"
    /\ second' = [second EXCEPT ![p] = [NoFile EXCEPT !.state = "empty"]]
    /\ Goto(p, "write")
    /\ UNCHANGED <<clock, lock, output, first, doc, exit>>

Write(p) ==
    /\ pc[p] = "write"
    /\ second' = [second EXCEPT ![p] = Document("partial", doc[p])]
    /\ Goto(p, "close")
    /\ UNCHANGED <<clock, lock, output, first, doc, exit>>

Close(p) ==
    /\ pc[p] = "close"
    /\ second' = [second EXCEPT ![p] = Document("whole", doc[p])]
    /\ Goto(p, "installFirst")
    /\ UNCHANGED <<clock, lock, output, first, doc, exit>>

InstallFirst(p) ==
    /\ pc[p] = "installFirst"
    /\ first' = [first EXCEPT ![p] = second[p]]
    /\ second' = [second EXCEPT ![p] = NoFile]
    /\ Goto(p, "dropSecond")
    /\ UNCHANGED <<clock, lock, output, doc, exit>>

\* Its deferred os.Remove.
DropSecond(p) ==
    /\ pc[p] = "dropSecond"
    /\ second' = [second EXCEPT ![p] = NoFile]
    /\ Goto(p, IF exit[p] = "error" THEN "dropFirst" ELSE "install")
    /\ UNCHANGED <<clock, lock, output, first, doc, exit>>

-----------------------------------------------------------------------------
(* writeMetrics, continued                                                 *)

\* mutant: copies the document instead of renaming the file, in two writes
InstallByCopy(p) ==
    /\ pc[p] = "install"
    /\ output' = [output EXCEPT ![OutputOf[p]] =
                    IF @.at = first[p].at THEN first[p] ELSE Document("partial", first[p])]
    /\ IF output[OutputOf[p]].at = first[p].at
         THEN Goto(p, "dropFirst") /\ exit' = [exit EXCEPT ![p] = "ok"]
         ELSE UNCHANGED <<pc, exit>>
    /\ UNCHANGED <<clock, lock, first, second, doc>>

\* os.Rename over the output, atomic within one directory.
Install(p) ==
    /\ pc[p] = "install"
    /\ output' = [output EXCEPT ![OutputOf[p]] = first[p]]
    /\ first' = [first EXCEPT ![p] = NoFile]
    /\ exit' = [exit EXCEPT ![p] = "ok"]
    /\ Goto(p, "dropFirst")
    /\ UNCHANGED <<clock, lock, second, doc>>

\* mutant: the temporary file is removed only when the rename succeeded
DropFirstOnSuccess(p) ==
    /\ pc[p] = "dropFirst"
    /\ first' = [first EXCEPT ![p] = IF exit[p] = "ok" THEN NoFile ELSE @]
    /\ Goto(p, "exit")
    /\ UNCHANGED <<clock, lock, output, second, doc, exit>>

\* The deferred os.Remove.
DropFirst(p) ==
    /\ pc[p] = "dropFirst"
    /\ first' = [first EXCEPT ![p] = NoFile]
    /\ Goto(p, "exit")
    /\ UNCHANGED <<clock, lock, output, second, doc, exit>>

\* mutant: the lock outlives the process that held it
KeepsLock(p) == lock' = lock
DropsLock(p) == lock' = IF lock = p THEN NoProcess ELSE lock

\* The process ends; the kernel closes the lock file.
Exit(p) ==
    /\ pc[p] = "exit"
    /\ DropsLock(p)
    /\ Goto(p, "done")
    /\ UNCHANGED <<clock, output, first, second, doc, exit>>

\* A signal, the OOM killer or a node failure: no deferred function runs.
Kill(p) ==
    /\ pc[p] \notin {"idle", "done"}
    /\ exit' = [exit EXCEPT ![p] = "killed"]
    /\ DropsLock(p)
    /\ Goto(p, "done")
    /\ UNCHANGED <<clock, output, first, second, doc>>

-----------------------------------------------------------------------------
Step(p) ==
    \/ TryLock(p) \/ Decline(p) \/ Fail(p)
    \/ Create(p) \/ Collect(p)
    \/ Gather(p) \/ Write(p) \/ Close(p) \/ InstallFirst(p) \/ DropSecond(p)
    \/ Install(p) \/ DropFirst(p) \/ Exit(p)

Finished == (\A p \in Processes : pc[p] = "done") /\ UNCHANGED vars

Next == (\E p \in Processes : Start(p) \/ Step(p) \/ Kill(p)) \/ Finished

Spec == Init /\ [][Next]_vars

-----------------------------------------------------------------------------
(* Properties.                                                             *)

File == [state : {"absent", "empty", "partial", "whole"},
         at : 0..Cardinality(Processes), success : BOOLEAN]

TypeOK ==
    /\ clock \in 0..Cardinality(Processes)
    /\ lock \in Processes \cup {NoProcess}
    /\ output \in [Outputs -> File]
    /\ first \in [Processes -> File]
    /\ second \in [Processes -> File]
    /\ pc \in [Processes -> PCs]
    /\ doc \in [Processes -> File]
    /\ exit \in [Processes -> {"none", "ok", "error", "declined", "killed"}]

\* node_exporter never reads an empty or half-written document, whenever a
\* process is killed.
OutputWhole == \A o \in Outputs : output[o].state \in {"absent", "whole"}

\* A run never puts back an older collection: what is installed was collected
\* later than what it replaces.  The lock gives this, not the rename.
OutputAdvances ==
    [][\A o \in Outputs : output'[o] # output[o] => output'[o].at > output[o].at]_vars

\* A run that exits with status 0 has its collection, or a later one, installed.
SuccessInstalled ==
    \A p \in Processes : exit[p] = "ok" => output[OutputOf[p]].at >= doc[p].at

\* Only a killed run leaves temporary files in the textfile directory.
NoLitter ==
    \A p \in Processes : pc[p] = "done" /\ exit[p] # "killed" => first[p] = NoFile /\ second[p] = NoFile

\* "overlapping runs are safely declined", and only those: no lock outlives
\* its process, however that ended.
DeclinedOnlyByLiving ==
    [][\A p \in Processes : exit[p] = "none" /\ exit'[p] = "declined" =>
          \E q \in Processes \ {p} : pc[q] \notin {"idle", "lock", "done"}]_vars

\* docs/metrics.md on infiniband_exporter_last_execution: "Unix timestamp of
\* last successful runonce execution".
LastExecutionSuccessful ==
    \A o \in Outputs : output[o].state = "whole" => output[o].success
=============================================================================
