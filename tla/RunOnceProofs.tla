--------------------------- MODULE RunOnceProofs ---------------------------
(***************************************************************************)
(* Proofs about RunOnce, for any number of processes and outputs: whatever *)
(* is killed or fails at whatever step, the installed file is whole and    *)
(* never goes back in time, and only a killed process leaves files behind. *)
(*                                                                         *)
(* The lock makes the argument: from its creation of a temporary file on a *)
(* process holds it (LockInv), so between a collection and its             *)
(* installation nobody else collects, and what is about to be installed is *)
(* the newest document there is (NewestInv).                               *)
(***************************************************************************)
EXTENDS RunOnce, FiniteSetTheorems, TLAPS

Doc == [state : {"absent", "empty", "partial", "whole"}, at : Nat, success : BOOLEAN]

Typed ==
    /\ clock \in Nat
    /\ lock \in Processes \cup {NoProcess}
    /\ output \in [Outputs -> Doc]
    /\ first \in [Processes -> Doc]
    /\ second \in [Processes -> Doc]
    /\ pc \in [Processes -> PCs]
    /\ doc \in [Processes -> Doc]
    /\ exit \in [Processes -> {"none", "ok", "error", "declined", "killed"}]

\* A process between Create and DropFirst holds the lock; whoever holds it runs.
Holding == {"create", "collect", "gather", "write", "close", "installFirst",
            "dropSecond", "install", "dropFirst"}
LockInv ==
    /\ \A p \in Processes : pc[p] \in Holding => lock = p
    /\ lock # NoProcess => pc[lock] \notin {"idle", "lock", "done"}

\* Documents are as old as the collections they report.
Collected == {p \in Processes : doc[p].at # 0}
ClockInv ==
    /\ \A o \in Outputs : output[o].at <= clock
    /\ \A p \in Processes :
         /\ first[p].at <= clock /\ second[p].at <= clock /\ doc[p].at <= clock
         /\ pc[p] \in {"idle", "lock", "create", "collect"} => doc[p].at = 0
    /\ clock = Cardinality(Collected)

\* What is on its way to an output is newer than anything installed.
Underway == {"gather", "write", "close", "installFirst", "dropSecond", "install"}
NewestInv ==
    \A p \in Processes : pc[p] \in Underway =>
        /\ doc[p].at = clock
        /\ \A o \in Outputs : output[o].at < clock

\* Which temporary files there are at each step, and what they hold.
FilesInv ==
    /\ \A o \in Outputs : output[o].state \in {"absent", "whole"}
    /\ \A p \in Processes :
         /\ pc[p] \in {"idle", "lock", "create", "exit"} => first[p] = NoFile
         /\ pc[p] \notin {"write", "close", "installFirst", "dropSecond", "done"} => second[p] = NoFile
         /\ pc[p] = "installFirst" => second[p].state = "whole" /\ second[p].at = doc[p].at
         /\ pc[p] = "install" \/ (pc[p] = "dropSecond" /\ exit[p] # "error") =>
              first[p].state = "whole" /\ first[p].at = doc[p].at
         /\ pc[p] = "done" /\ exit[p] # "killed" => first[p] = NoFile /\ second[p] = NoFile

\* A process has no exit status before it decides on one, and a success means
\* that its document, or a newer one, is installed.
ExitInv ==
    \A p \in Processes :
        /\ pc[p] \in PCs \ {"dropSecond", "dropFirst", "exit", "done"} => exit[p] = "none"
        /\ pc[p] = "dropSecond" => exit[p] \in {"none", "error"}
        /\ exit[p] = "ok" => output[OutputOf[p]].at >= doc[p].at

IInv == Typed /\ LockInv /\ ClockInv /\ NewestInv /\ FilesInv /\ ExitInv

-----------------------------------------------------------------------------
\* Documents are documents.
LEMMA DocumentTyped ==
    ASSUME NEW d \in Doc, NEW state \in {"absent", "empty", "partial", "whole"}
    PROVE  /\ Document(state, d) \in Doc
           /\ Document(state, d).state = state
           /\ Document(state, d).at = d.at
BY DEF Document, Doc

LEMMA NoFileTyped ==
    /\ NoFile \in Doc /\ NoFile.state = "absent" /\ NoFile.at = 0
    /\ [NoFile EXCEPT !.state = "empty"] \in Doc
    /\ [NoFile EXCEPT !.state = "empty"].at = 0
BY DEF NoFile, Doc

LEMMA InitInv == Init => IInv
<1> SUFFICES ASSUME Init PROVE IInv
  OBVIOUS
<1> USE NoFileTyped DEF Init
<1>1. Typed
  BY DEF Typed, PCs
<1>2. LockInv
  BY DEF LockInv, Holding
<1>3. ClockInv
  <2>1. Collected = {}
    BY DEF Collected
  <2> QED
    BY <2>1, FS_EmptySet DEF ClockInv
<1>4. NewestInv /\ FilesInv /\ ExitInv
  BY DEF NewestInv, Underway, FilesInv, ExitInv, PCs
<1> QED
  BY <1>1, <1>2, <1>3, <1>4 DEF IInv

\* cron starts the process.
LEMMA StartInvariant == ASSUME NEW p \in Processes, IInv, Start(p) PROVE IInv'
<1> USE NoFileTyped, ProcessesAssumption, OutputsAssumption DEF IInv, Start, Goto
<1>1. Typed'
  BY DEF Typed, PCs
<1>2. LockInv'
  BY DEF LockInv, Holding, Typed
<1>3. ClockInv'
  <2>1. Collected' = Collected
    BY DEF Collected
  <2> QED
    BY <1>1, <2>1 DEF ClockInv, Typed, Doc
<1>4. NewestInv'
  BY <1>1 DEF NewestInv, Underway, LockInv, Holding, ClockInv, Typed, Doc
<1>5. FilesInv'
  BY <1>1 DEF FilesInv, ExitInv, PCs, Typed, Doc
<1>6. ExitInv'
  BY <1>1 DEF ExitInv, PCs, NewestInv, Underway, FilesInv, ClockInv, Typed, Doc
<1> QED
  BY <1>1, <1>2, <1>3, <1>4, <1>5, <1>6

\* The lock.
LEMMA TryLockInv == ASSUME NEW p \in Processes, IInv, TryLock(p) PROVE IInv'
<1> USE NoFileTyped, ProcessesAssumption, OutputsAssumption DEF IInv, TryLock, Goto
<1>1. Typed'
  BY DEF Typed, PCs, LockFree
<1>2. LockInv'
  BY DEF LockInv, Holding, Typed, LockFree
<1>3. ClockInv'
  <2>1. Collected' = Collected
    BY DEF Collected
  <2> QED
    BY <1>1, <2>1 DEF ClockInv, Typed, Doc, LockFree
<1>4. NewestInv'
  BY <1>1 DEF NewestInv, Underway, LockInv, Holding, ClockInv, Typed, Doc, LockFree
<1>5. FilesInv'
  BY <1>1 DEF FilesInv, ExitInv, PCs, Typed, Doc, LockFree
<1>6. ExitInv'
  BY <1>1 DEF ExitInv, PCs, NewestInv, Underway, FilesInv, ClockInv, Typed, Doc, LockFree
<1> QED
  BY <1>1, <1>2, <1>3, <1>4, <1>5, <1>6

LEMMA DeclineInv == ASSUME NEW p \in Processes, IInv, Decline(p) PROVE IInv'
<1> USE NoFileTyped, ProcessesAssumption, OutputsAssumption DEF IInv, Decline, Goto
<1>1. Typed'
  BY DEF Typed, PCs, LockFree
<1>2. LockInv'
  BY DEF LockInv, Holding, Typed, LockFree
<1>3. ClockInv'
  <2>1. Collected' = Collected
    BY DEF Collected
  <2> QED
    BY <1>1, <2>1 DEF ClockInv, Typed, Doc, LockFree
<1>4. NewestInv'
  BY <1>1 DEF NewestInv, Underway, LockInv, Holding, ClockInv, Typed, Doc, LockFree
<1>5. FilesInv'
  BY <1>1 DEF FilesInv, ExitInv, PCs, Typed, Doc, LockFree
<1>6. ExitInv'
  BY <1>1 DEF ExitInv, PCs, NewestInv, Underway, FilesInv, ClockInv, Typed, Doc, LockFree
<1> QED
  BY <1>1, <1>2, <1>3, <1>4, <1>5, <1>6

\* writeMetrics and WriteToTextfile, step by step.
LEMMA CreateInv == ASSUME NEW p \in Processes, IInv, Create(p) PROVE IInv'
<1> USE NoFileTyped, ProcessesAssumption, OutputsAssumption DEF IInv, Create, Goto
<1>1. Typed'
  BY DEF Typed, PCs
<1>2. LockInv'
  BY DEF LockInv, Holding, Typed
<1>3. ClockInv'
  <2>1. Collected' = Collected
    BY DEF Collected
  <2> QED
    BY <1>1, <2>1 DEF ClockInv, Typed, Doc
<1>4. NewestInv'
  BY <1>1 DEF NewestInv, Underway, LockInv, Holding, ClockInv, Typed, Doc
<1>5. FilesInv'
  BY <1>1 DEF FilesInv, ExitInv, PCs, Typed, Doc
<1>6. ExitInv'
  BY <1>1 DEF ExitInv, PCs, NewestInv, Underway, FilesInv, ClockInv, Typed, Doc
<1> QED
  BY <1>1, <1>2, <1>3, <1>4, <1>5, <1>6

LEMMA GatherInv == ASSUME NEW p \in Processes, IInv, Gather(p) PROVE IInv'
<1> USE NoFileTyped, ProcessesAssumption, OutputsAssumption DEF IInv, Gather, Goto
<1>1. Typed'
  BY DEF Typed, PCs
<1>2. LockInv'
  BY DEF LockInv, Holding, Typed
<1>3. ClockInv'
  <2>1. Collected' = Collected
    BY DEF Collected
  <2> QED
    BY <1>1, <2>1 DEF ClockInv, Typed, Doc
<1>4. NewestInv'
  BY <1>1 DEF NewestInv, Underway, LockInv, Holding, ClockInv, Typed, Doc
<1>5. FilesInv'
  BY <1>1 DEF FilesInv, ExitInv, PCs, Typed, Doc
<1>6. ExitInv'
  BY <1>1 DEF ExitInv, PCs, NewestInv, Underway, FilesInv, ClockInv, Typed, Doc
<1> QED
  BY <1>1, <1>2, <1>3, <1>4, <1>5, <1>6

LEMMA WriteInv == ASSUME NEW p \in Processes, IInv, Write(p) PROVE IInv'
<1> USE NoFileTyped, ProcessesAssumption, OutputsAssumption DEF IInv, Write, Goto
<1>0. /\ Document("partial", doc[p]) \in Doc
      /\ Document("partial", doc[p]).state = "partial"
      /\ Document("partial", doc[p]).at = doc[p].at
  BY DocumentTyped DEF Typed
<1> USE <1>0
<1>1. Typed'
  BY DEF Typed, PCs
<1>2. LockInv'
  BY DEF LockInv, Holding, Typed
<1>3. ClockInv'
  <2>1. Collected' = Collected
    BY DEF Collected
  <2> QED
    BY <1>1, <2>1 DEF ClockInv, Typed, Doc
<1>4. NewestInv'
  BY <1>1 DEF NewestInv, Underway, LockInv, Holding, ClockInv, Typed, Doc
<1>5. FilesInv'
  BY <1>1 DEF FilesInv, ExitInv, PCs, Typed, Doc
<1>6. ExitInv'
  BY <1>1 DEF ExitInv, PCs, NewestInv, Underway, FilesInv, ClockInv, Typed, Doc
<1> QED
  BY <1>1, <1>2, <1>3, <1>4, <1>5, <1>6

LEMMA CloseInv == ASSUME NEW p \in Processes, IInv, Close(p) PROVE IInv'
<1> USE NoFileTyped, ProcessesAssumption, OutputsAssumption DEF IInv, Close, Goto
<1>0. /\ Document("whole", doc[p]) \in Doc
      /\ Document("whole", doc[p]).state = "whole"
      /\ Document("whole", doc[p]).at = doc[p].at
  BY DocumentTyped DEF Typed
<1> USE <1>0
<1>1. Typed'
  BY DEF Typed, PCs
<1>2. LockInv'
  BY DEF LockInv, Holding, Typed
<1>3. ClockInv'
  <2>1. Collected' = Collected
    BY DEF Collected
  <2> QED
    BY <1>1, <2>1 DEF ClockInv, Typed, Doc
<1>4. NewestInv'
  BY <1>1 DEF NewestInv, Underway, LockInv, Holding, ClockInv, Typed, Doc
<1>5. FilesInv'
  BY <1>1 DEF FilesInv, ExitInv, PCs, Typed, Doc
<1>6. ExitInv'
  BY <1>1 DEF ExitInv, PCs, NewestInv, Underway, FilesInv, ClockInv, Typed, Doc
<1> QED
  BY <1>1, <1>2, <1>3, <1>4, <1>5, <1>6

LEMMA InstallFirstInv == ASSUME NEW p \in Processes, IInv, InstallFirst(p) PROVE IInv'
<1> USE NoFileTyped, ProcessesAssumption, OutputsAssumption DEF IInv, InstallFirst, Goto
<1>1. Typed'
  BY DEF Typed, PCs
<1>2. LockInv'
  BY DEF LockInv, Holding, Typed
<1>3. ClockInv'
  <2>1. Collected' = Collected
    BY DEF Collected
  <2> QED
    BY <1>1, <2>1 DEF ClockInv, Typed, Doc
<1>4. NewestInv'
  BY <1>1 DEF NewestInv, Underway, LockInv, Holding, ClockInv, Typed, Doc
<1>5. FilesInv'
  BY <1>1 DEF FilesInv, ExitInv, PCs, Typed, Doc
<1>6. ExitInv'
  BY <1>1 DEF ExitInv, PCs, NewestInv, Underway, FilesInv, ClockInv, Typed, Doc
<1> QED
  BY <1>1, <1>2, <1>3, <1>4, <1>5, <1>6

LEMMA DropSecondInv == ASSUME NEW p \in Processes, IInv, DropSecond(p) PROVE IInv'
<1> USE NoFileTyped, ProcessesAssumption, OutputsAssumption DEF IInv, DropSecond, Goto
<1>1. Typed'
  BY DEF Typed, PCs
<1>2. LockInv'
  BY DEF LockInv, Holding, Typed
<1>3. ClockInv'
  <2>1. Collected' = Collected
    BY DEF Collected
  <2> QED
    BY <1>1, <2>1 DEF ClockInv, Typed, Doc
<1>4. NewestInv'
  BY <1>1 DEF NewestInv, Underway, LockInv, Holding, ClockInv, Typed, Doc
<1>5. FilesInv'
  BY <1>1 DEF FilesInv, ExitInv, PCs, Typed, Doc
<1>6. ExitInv'
  BY <1>1 DEF ExitInv, PCs, NewestInv, Underway, FilesInv, ClockInv, Typed, Doc
<1> QED
  BY <1>1, <1>2, <1>3, <1>4, <1>5, <1>6

LEMMA InstallInv == ASSUME NEW p \in Processes, IInv, Install(p) PROVE IInv'
<1> USE NoFileTyped, ProcessesAssumption, OutputsAssumption DEF IInv, Install, Goto
<1>1. Typed'
  BY DEF Typed, PCs
<1>2. LockInv'
  BY DEF LockInv, Holding, Typed
<1>3. ClockInv'
  <2>1. Collected' = Collected
    BY DEF Collected
  <2> QED
    BY <1>1, <2>1 DEF ClockInv, Typed, Doc
<1>4. NewestInv'
  BY <1>1 DEF NewestInv, Underway, LockInv, Holding, ClockInv, Typed, Doc
<1>5. FilesInv'
  BY <1>1 DEF FilesInv, ExitInv, PCs, Typed, Doc
<1>6. ExitInv'
  BY <1>1 DEF ExitInv, PCs, NewestInv, Underway, FilesInv, ClockInv, Typed, Doc
<1> QED
  BY <1>1, <1>2, <1>3, <1>4, <1>5, <1>6

LEMMA DropFirstInv == ASSUME NEW p \in Processes, IInv, DropFirst(p) PROVE IInv'
<1> USE NoFileTyped, ProcessesAssumption, OutputsAssumption DEF IInv, DropFirst, Goto
<1>1. Typed'
  BY DEF Typed, PCs
<1>2. LockInv'
  BY DEF LockInv, Holding, Typed
<1>3. ClockInv'
  <2>1. Collected' = Collected
    BY DEF Collected
  <2> QED
    BY <1>1, <2>1 DEF ClockInv, Typed, Doc
<1>4. NewestInv'
  BY <1>1 DEF NewestInv, Underway, LockInv, Holding, ClockInv, Typed, Doc
<1>5. FilesInv'
  BY <1>1 DEF FilesInv, ExitInv, PCs, Typed, Doc
<1>6. ExitInv'
  BY <1>1 DEF ExitInv, PCs, NewestInv, Underway, FilesInv, ClockInv, Typed, Doc
<1> QED
  BY <1>1, <1>2, <1>3, <1>4, <1>5, <1>6

\* The process ends, by itself or not.
LEMMA ExitInvariant == ASSUME NEW p \in Processes, IInv, Exit(p) PROVE IInv'
<1> USE NoFileTyped, ProcessesAssumption, OutputsAssumption DEF IInv, Exit, Goto
<1>1. Typed'
  BY DEF Typed, PCs, DropsLock
<1>2. LockInv'
  BY DEF LockInv, Holding, Typed, DropsLock
<1>3. ClockInv'
  <2>1. Collected' = Collected
    BY DEF Collected
  <2> QED
    BY <1>1, <2>1 DEF ClockInv, Typed, Doc, DropsLock
<1>4. NewestInv'
  BY <1>1 DEF NewestInv, Underway, LockInv, Holding, ClockInv, Typed, Doc, DropsLock
<1>5. FilesInv'
  BY <1>1 DEF FilesInv, ExitInv, PCs, Typed, Doc, DropsLock
<1>6. ExitInv'
  BY <1>1 DEF ExitInv, PCs, NewestInv, Underway, FilesInv, ClockInv, Typed, Doc, DropsLock
<1> QED
  BY <1>1, <1>2, <1>3, <1>4, <1>5, <1>6

LEMMA KillInv == ASSUME NEW p \in Processes, IInv, Kill(p) PROVE IInv'
<1> USE NoFileTyped, ProcessesAssumption, OutputsAssumption DEF IInv, Kill, Goto
<1>1. Typed'
  BY DEF Typed, PCs, DropsLock
<1>2. LockInv'
  BY DEF LockInv, Holding, Typed, DropsLock
<1>3. ClockInv'
  <2>1. Collected' = Collected
    BY DEF Collected
  <2> QED
    BY <1>1, <2>1 DEF ClockInv, Typed, Doc, DropsLock
<1>4. NewestInv'
  BY <1>1 DEF NewestInv, Underway, LockInv, Holding, ClockInv, Typed, Doc, DropsLock
<1>5. FilesInv'
  BY <1>1 DEF FilesInv, ExitInv, PCs, Typed, Doc, DropsLock
<1>6. ExitInv'
  BY <1>1 DEF ExitInv, PCs, NewestInv, Underway, FilesInv, ClockInv, Typed, Doc, DropsLock
<1> QED
  BY <1>1, <1>2, <1>3, <1>4, <1>5, <1>6

\* Any error return.
LEMMA ErrorInv == ASSUME NEW p \in Processes, IInv, NEW from, NEW to, Error(p, from, to),
       <<from, to>> \in {<<"lock", "exit">>, <<"create", "exit">>, <<"install", "dropFirst">>}
         \cup ({"gather", "write", "close", "installFirst"} \X {"dropSecond"}) PROVE IInv'
<1> USE NoFileTyped, ProcessesAssumption, OutputsAssumption DEF IInv, Error, Goto
<1>1. Typed'
  BY DEF Typed, PCs
<1>2. LockInv'
  BY DEF LockInv, Holding, Typed
<1>3. ClockInv'
  <2>1. Collected' = Collected
    BY DEF Collected
  <2> QED
    BY <1>1, <2>1 DEF ClockInv, Typed, Doc
<1>4. NewestInv'
  BY <1>1 DEF NewestInv, Underway, LockInv, Holding, ClockInv, Typed, Doc
<1>5. FilesInv'
  BY <1>1 DEF FilesInv, ExitInv, PCs, Typed, Doc
<1>6. ExitInv'
  BY <1>1 DEF ExitInv, PCs, NewestInv, Underway, FilesInv, ClockInv, Typed, Doc
<1> QED
  BY <1>1, <1>2, <1>3, <1>4, <1>5, <1>6

\* A collection: the clock counts it.
LEMMA CollectInv == ASSUME NEW p \in Processes, IInv, Collect(p) PROVE IInv'
<1> USE NoFileTyped, ProcessesAssumption, OutputsAssumption DEF IInv
<1>0. PICK success \in BOOLEAN :
        doc' = [doc EXCEPT ![p] = [state |-> "whole", at |-> clock + 1, success |-> success]]
  BY DEF Collect
<1> DEFINE new == [state |-> "whole", at |-> clock + 1, success |-> success]
<1>a. new \in Doc
  BY DEF Doc, IInv, Typed
<1>b. new.at = clock + 1
  OBVIOUS
<1>c. doc' = [doc EXCEPT ![p] = new]
  BY <1>0
<1>d. /\ pc[p] = "collect" /\ clock' = clock + 1 /\ pc' = [pc EXCEPT ![p] = "gather"]
      /\ UNCHANGED <<lock, output, first, second, exit>>
  BY DEF Collect, Goto
<1> HIDE DEF new
<1> USE <1>a, <1>b, <1>c, <1>d
<1>1. Typed'
  BY DEF Typed, PCs
<1>2. LockInv'
  BY DEF LockInv, Holding, Typed
<1>3. ClockInv'
  <2>1. Collected' = Collected \cup {p} /\ p \notin Collected
    BY DEF Collected, ClockInv, Typed, Doc
  <2>2. IsFiniteSet(Collected)
    BY FS_Subset DEF Collected
  <2>3. Cardinality(Collected') = clock + 1
    BY <2>1, <2>2, FS_AddElement DEF ClockInv
  <2> QED
    BY <1>1, <2>3 DEF ClockInv, Typed, Doc
<1>4. NewestInv'
  BY <1>1 DEF NewestInv, Underway, LockInv, Holding, ClockInv, Typed, Doc
<1>5. FilesInv'
  BY <1>1 DEF FilesInv, ExitInv, PCs, Typed, Doc
<1>6. ExitInv'
  BY <1>1 DEF ExitInv, PCs, NewestInv, Underway, FilesInv, ClockInv, Typed, Doc
<1> QED
  BY <1>1, <1>2, <1>3, <1>4, <1>5, <1>6

LEMMA FailInv == ASSUME NEW p \in Processes, IInv, Fail(p) PROVE IInv'
BY ErrorInv DEF Fail

LEMMA NextInv == IInv /\ [Next]_vars => IInv'
<1> SUFFICES ASSUME IInv, [Next]_vars PROVE IInv'
  OBVIOUS
<1>1. ASSUME NEW p \in Processes, Start(p) \/ Kill(p) PROVE IInv'
  BY <1>1, StartInvariant, KillInv
<1>2. ASSUME NEW p \in Processes, Step(p) PROVE IInv'
  BY <1>2, TryLockInv, DeclineInv, FailInv, CreateInv, CollectInv, GatherInv, WriteInv, CloseInv,
     InstallFirstInv, DropSecondInv, InstallInv, DropFirstInv, ExitInvariant DEF Step
<1>3. CASE UNCHANGED vars
  BY <1>3 DEF vars, IInv, Typed, LockInv, ClockInv, Collected, NewestInv, FilesInv, ExitInv
<1> QED
  BY <1>1, <1>2, <1>3 DEF Next, Finished

\* The inductive invariant holds in every reachable state.
THEOREM RunOnceInvariance == Spec => []IInv
BY InitInv, NextInv, PTL DEF Spec

\* Every variable keeps its type, and no more collections are made than there
\* are processes.
THEOREM RunOnceTypeCorrect == Spec => []TypeOK
<1>1. IInv => TypeOK
  <2> SUFFICES ASSUME IInv PROVE TypeOK
    OBVIOUS
  <2>1. clock <= Cardinality(Processes) /\ Cardinality(Processes) \in Nat
    BY FS_Subset, FS_CardinalityType, ProcessesAssumption DEF IInv, ClockInv, Collected
  <2>2. ASSUME NEW d \in Doc, d.at <= clock PROVE d \in File
    BY <2>1, <2>2 DEF File, Doc, IInv, Typed
  <2> QED
    BY <2>1, <2>2 DEF IInv, Typed, ClockInv, TypeOK
<1> QED
  BY <1>1, RunOnceInvariance, PTL

\* node_exporter reads a whole document or none, whatever is killed when.
THEOREM OutputIsWhole == Spec => []OutputWhole
<1>1. IInv => OutputWhole
  BY DEF IInv, FilesInv, OutputWhole
<1> QED
  BY <1>1, RunOnceInvariance, PTL

\* Exit status 0 means that the collection, or a later one, is installed.
THEOREM SuccessIsInstalled == Spec => []SuccessInstalled
<1>1. IInv => SuccessInstalled
  BY DEF IInv, ExitInv, SuccessInstalled
<1> QED
  BY <1>1, RunOnceInvariance, PTL

\* Only a killed process leaves a temporary file.
THEOREM NoLitterLeft == Spec => []NoLitter
<1>1. IInv => NoLitter
  BY DEF IInv, FilesInv, NoLitter
<1> QED
  BY <1>1, RunOnceInvariance, PTL

\* A step that changes an output installs a later collection there.
THEOREM OutputOnlyAdvances == Spec => OutputAdvances
<1> DEFINE Advances == \A o \in Outputs : output'[o] # output[o] => output'[o].at > output[o].at
<1>1. IInv /\ [Next]_vars => [Advances]_vars
  <2> SUFFICES ASSUME IInv, Next PROVE Advances
    BY DEF vars
  <2>1. ASSUME NEW p \in Processes, Install(p) PROVE Advances
    BY <2>1, OutputsAssumption DEF Install, Goto, IInv, NewestInv, Underway, FilesInv, Typed, Doc
  <2>2. CASE UNCHANGED output
    BY <2>2
  <2>3. UNCHANGED output \/ \E p \in Processes : Install(p)
    BY DEF Next, Finished, vars, Step, Start, Kill, TryLock, Decline, Fail, Error, Create, Collect,
       Gather, Write, Close, InstallFirst, DropSecond, DropFirst, Exit
  <2> QED
    BY <2>1, <2>2, <2>3
<1> QED
  BY <1>1, RunOnceInvariance, PTL DEF Spec, OutputAdvances

\* A run is only ever declined in favour of another that is really under way.
THEOREM DeclinedByLiving == Spec => DeclinedOnlyByLiving
<1> DEFINE Living ==
      \A p \in Processes : exit[p] = "none" /\ exit'[p] = "declined" =>
          \E q \in Processes \ {p} : pc[q] \notin {"idle", "lock", "done"}
<1>1. IInv /\ [Next]_vars => [Living]_vars
  <2> SUFFICES ASSUME IInv, Next PROVE Living
    BY DEF vars
  <2> SUFFICES ASSUME NEW p \in Processes, exit[p] = "none", exit'[p] = "declined"
               PROVE  \E q \in Processes \ {p} : pc[q] \notin {"idle", "lock", "done"}
    OBVIOUS
  <2>1. Decline(p)
    BY DEF Next, Finished, vars, Step, Start, Kill, TryLock, Decline, Fail, Error, Create, Collect,
       Gather, Write, Close, InstallFirst, DropSecond, Install, DropFirst, Exit, IInv, Typed
  <2>2. lock \in Processes \ {p} /\ pc[lock] \notin {"idle", "lock", "done"}
    BY <2>1 DEF Decline, LockFree, IInv, LockInv, Typed
  <2> QED
    BY <2>2
<1> QED
  BY <1>1, RunOnceInvariance, PTL DEF Spec, DeclinedOnlyByLiving
=============================================================================
