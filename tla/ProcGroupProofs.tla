--------------------------- MODULE ProcGroupProofs ---------------------------
(***************************************************************************)
(* Proofs about ProcGroup, for any number of executions, descendants and   *)
(* process numbers, and whichever executions may not be signalled: what    *)
(* the deadline kills is gone, and is reported as a timeout; what is used  *)
(* as output is complete.                                                  *)
(*                                                                         *)
(* The kill and the return meet in one place: the watcher fires only       *)
(* before cmd.Wait has met it (WatchInv), so a result is never given       *)
(* before a kill, and a kill implies that ctx.Err() is set when the caller *)
(* looks (HitInv).  A group that a kill has emptied stays empty because    *)
(* members come from forks of members only.                                *)
(***************************************************************************)
EXTENDS ProcGroup, TLAPS

\* What has been started when: there are descendants only of a leader.
StartInv ==
    \A x \in Executions :
        /\ pc[x] = "idle" => leader[x] = "none"
        /\ pc[x] = "wait" => leader[x] \in {"running", "zombie"}
        /\ pc[x] \in {"verdict", "copy"} => leader[x] = "reaped"
        /\ leader[x] = "none" => watch[x] = "off" /\ \A k \in Kids : ~kid[x][k].alive

\* The watcher is over before cmd.Run returns, and fires after the deadline.
WatchInv ==
    \A x \in Executions :
        /\ pc[x] \in {"copy", "check", "done"} => watch[x] \in {"off", "over"}
        /\ watch[x] \in {"cancel", "report"} => expired[x]

\* What a kill has reached has no member left, and its deadline had passed.
HitInv ==
    \A x, y \in Executions : y \in hit[x] =>
        /\ expired[x]
        /\ leader[y] \in {"zombie", "reaped"}
        /\ \A k \in Kids : ~(kid[y][k].alive /\ kid[y][k].group)

\* The command ended well and nobody can write its output any more.
Ended(x) ==
    /\ leader[x] = "reaped"
    /\ status[x] = "success"
    /\ \A k \in Kids : ~(kid[x][k].alive /\ kid[x][k].pipe)

\* No error means success, up to the result.
ResultInv ==
    \A x \in Executions :
        /\ pc[x] \in {"verdict", "copy"} /\ err[x] = "none" => status[x] = "success"
        /\ pc[x] = "check" /\ err[x] = "none" => Ended(x)
        /\ result[x] # "none" => pc[x] = "done"
        /\ result[x] = "ok" => Ended(x)
        /\ x \in hit[x] => result[x] \in {"none", "timeout"}

IInv == TypeOK /\ StartInv /\ WatchInv /\ HitInv /\ ResultInv

-----------------------------------------------------------------------------
LEMMA InitInv == Init => IInv
<1> SUFFICES ASSUME Init PROVE IInv
  OBVIOUS
<1> USE DEF Init, NoKid
<1>1. TypeOK
  BY DEF TypeOK, PCs, Watches, Errors
<1>2. StartInv /\ WatchInv /\ HitInv /\ ResultInv
  BY DEF StartInv, WatchInv, HitInv, ResultInv
<1> QED
  BY <1>1, <1>2 DEF IInv

\* The deadline passes.
LEMMA ExpireInv == ASSUME NEW x \in Executions, IInv, Expire(x) PROVE IInv'
<1> USE DEF IInv, Expire, Goto
<1>1. TypeOK'
  BY DEF TypeOK, PCs, Watches, Errors
<1>2. StartInv'
  BY DEF StartInv, TypeOK
<1>3. WatchInv'
  BY DEF WatchInv, StartInv, TypeOK
<1>4. HitInv'
  BY DEF HitInv, StartInv, TypeOK
<1>5. ResultInv'
  BY DEF ResultInv, Ended, HitInv, StartInv, WatchInv, TypeOK
<1> QED
  BY <1>1, <1>2, <1>3, <1>4, <1>5

\* The leader exits by itself.
LEMMA LeaderExitInv == ASSUME NEW x \in Executions, IInv, LeaderExit(x) PROVE IInv'
<1> USE DEF IInv, LeaderExit, Goto
<1>1. TypeOK'
  BY DEF TypeOK, PCs, Watches, Errors
<1>2. StartInv'
  BY DEF StartInv, TypeOK
<1>3. WatchInv'
  BY DEF WatchInv, StartInv, TypeOK
<1>4. HitInv'
  BY DEF HitInv, StartInv, TypeOK
<1>5. ResultInv'
  BY DEF ResultInv, Ended, HitInv, StartInv, WatchInv, TypeOK
<1> QED
  BY <1>1, <1>2, <1>3, <1>4, <1>5

\* Nothing is started.
LEMMA StartExpiredInv == ASSUME NEW x \in Executions, IInv, StartExpired(x) PROVE IInv'
<1> USE DEF IInv, StartExpired, Goto
<1>1. TypeOK'
  BY DEF TypeOK, PCs, Watches, Errors
<1>2. StartInv'
  BY DEF StartInv, TypeOK
<1>3. WatchInv'
  BY DEF WatchInv, StartInv, TypeOK
<1>4. HitInv'
  BY DEF HitInv, StartInv, TypeOK
<1>5. ResultInv'
  BY DEF ResultInv, Ended, HitInv, StartInv, WatchInv, TypeOK
<1> QED
  BY <1>1, <1>2, <1>3, <1>4, <1>5

LEMMA StartFailedInv == ASSUME NEW x \in Executions, IInv, StartFailed(x) PROVE IInv'
<1> USE DEF IInv, StartFailed, Goto
<1>1. TypeOK'
  BY DEF TypeOK, PCs, Watches, Errors
<1>2. StartInv'
  BY DEF StartInv, TypeOK
<1>3. WatchInv'
  BY DEF WatchInv, StartInv, TypeOK
<1>4. HitInv'
  BY DEF HitInv, StartInv, TypeOK
<1>5. ResultInv'
  BY DEF ResultInv, Ended, HitInv, StartInv, WatchInv, TypeOK
<1> QED
  BY <1>1, <1>2, <1>3, <1>4, <1>5

\* The leader is running; it has no descendants yet.
LEMMA StartInvariant == ASSUME NEW x \in Executions, IInv, Start(x) PROVE IInv'
<1> USE DEF IInv, Start, Goto
<1>0. PICK p \in Pids : pid' = [pid EXCEPT ![x] = p]
  OBVIOUS
<1>1. TypeOK'
  <2>1. pid' \in [Executions -> Pids \cup {NoPid}]
    BY <1>0 DEF TypeOK
  <2>2. /\ leader' \in [Executions -> {"none", "running", "zombie", "reaped"}]
        /\ watch' \in [Executions -> Watches] /\ pc' \in [Executions -> PCs]
    BY DEF TypeOK, Watches, PCs
  <2>3. \A y \in Executions : (status'[y] # "none") <=> (leader'[y] \in {"zombie", "reaped"})
    BY DEF TypeOK, StartInv
  <2> QED
    BY <2>1, <2>2, <2>3 DEF TypeOK
<1>2. StartInv'
  BY DEF StartInv, TypeOK
<1>3. WatchInv'
  BY DEF WatchInv, StartInv, TypeOK
<1>4. HitInv'
  BY DEF HitInv, StartInv, TypeOK
<1>5. ResultInv'
  BY DEF ResultInv, Ended, HitInv, StartInv, WatchInv, TypeOK
<1> QED
  BY <1>1, <1>2, <1>3, <1>4, <1>5

\* The watcher fires, after the deadline.
LEMMA FireInv == ASSUME NEW x \in Executions, IInv, Fire(x) PROVE IInv'
<1> USE DEF IInv, Fire, Goto
<1>1. TypeOK'
  BY DEF TypeOK, PCs, Watches, Errors
<1>2. StartInv'
  BY DEF StartInv, TypeOK
<1>3. WatchInv'
  BY DEF WatchInv, StartInv, TypeOK
<1>4. HitInv'
  BY DEF HitInv, StartInv, TypeOK
<1>5. ResultInv'
  BY DEF ResultInv, Ended, HitInv, StartInv, WatchInv, TypeOK
<1> QED
  BY <1>1, <1>2, <1>3, <1>4, <1>5

\* ESRCH or EPERM: nothing is killed.
LEMMA KillFailsInv == ASSUME NEW x \in Executions, IInv, KillFails(x) PROVE IInv'
<1> USE DEF IInv, KillFails, Goto
<1>1. TypeOK'
  BY DEF TypeOK, PCs, Watches, Errors
<1>2. StartInv'
  BY DEF StartInv, TypeOK
<1>3. WatchInv'
  BY DEF WatchInv, StartInv, TypeOK
<1>4. HitInv'
  BY DEF HitInv, StartInv, TypeOK
<1>5. ResultInv'
  BY DEF ResultInv, Ended, HitInv, StartInv, WatchInv, TypeOK
<1> QED
  BY <1>1, <1>2, <1>3, <1>4, <1>5

\* The leader's exit status becomes the error.
LEMMA ReapInv == ASSUME NEW x \in Executions, IInv, Reap(x) PROVE IInv'
<1> USE DEF IInv, Reap, Goto
<1>1. TypeOK'
  BY DEF TypeOK, PCs, Watches, Errors
<1>2. StartInv'
  BY DEF StartInv, TypeOK
<1>3. WatchInv'
  BY DEF WatchInv, StartInv, TypeOK
<1>4. HitInv'
  BY DEF HitInv, StartInv, TypeOK
<1>5. ResultInv'
  BY DEF ResultInv, Ended, HitInv, StartInv, WatchInv, TypeOK
<1> QED
  BY <1>1, <1>2, <1>3, <1>4, <1>5

\* Wait and watcher meet.
LEMMA DismissInv == ASSUME NEW x \in Executions, IInv, Dismiss(x) PROVE IInv'
<1> USE DEF IInv, Dismiss, Goto
<1>1. TypeOK'
  BY DEF TypeOK, PCs, Watches, Errors
<1>2. StartInv'
  BY DEF StartInv, TypeOK
<1>3. WatchInv'
  BY DEF WatchInv, StartInv, TypeOK
<1>4. HitInv'
  BY DEF HitInv, StartInv, TypeOK
<1>5. ResultInv'
  BY DEF ResultInv, Ended, HitInv, StartInv, WatchInv, TypeOK
<1> QED
  BY <1>1, <1>2, <1>3, <1>4, <1>5

LEMMA ReportInv == ASSUME NEW x \in Executions, IInv, Report(x) PROVE IInv'
<1> USE DEF IInv, Report, Goto
<1>1. TypeOK'
  BY DEF TypeOK, PCs, Watches, Errors
<1>2. StartInv'
  BY DEF StartInv, TypeOK
<1>3. WatchInv'
  BY DEF WatchInv, StartInv, TypeOK
<1>4. HitInv'
  BY DEF HitInv, StartInv, TypeOK
<1>5. ResultInv'
  BY DEF ResultInv, Ended, HitInv, StartInv, WatchInv, TypeOK
<1> QED
  BY <1>1, <1>2, <1>3, <1>4, <1>5

\* Nobody holds the pipe, and nobody will.
LEMMA CopiedInv == ASSUME NEW x \in Executions, IInv, Copied(x) PROVE IInv'
<1> USE DEF IInv, Copied, Goto, EndOfOutput, Holders
<1>1. TypeOK'
  BY DEF TypeOK, PCs, Watches, Errors
<1>2. StartInv'
  BY DEF StartInv, TypeOK
<1>3. WatchInv'
  BY DEF WatchInv, StartInv, TypeOK
<1>4. HitInv'
  BY DEF HitInv, StartInv, TypeOK
<1>5. ResultInv'
  BY DEF ResultInv, Ended, HitInv, StartInv, WatchInv, TypeOK
<1> QED
  BY <1>1, <1>2, <1>3, <1>4, <1>5

\* The result: no timeout is ever taken for anything else.
LEMMA CheckInv == ASSUME NEW x \in Executions, IInv, Check(x) PROVE IInv'
<1> USE DEF IInv, Check, Goto, Outcome
<1>1. TypeOK'
  BY DEF TypeOK, PCs, Watches, Errors
<1>2. StartInv'
  BY DEF StartInv, TypeOK
<1>3. WatchInv'
  BY DEF WatchInv, StartInv, TypeOK
<1>4. HitInv'
  BY DEF HitInv, StartInv, TypeOK
<1>5. ResultInv'
  BY DEF ResultInv, Ended, HitInv, StartInv, WatchInv, TypeOK
<1> QED
  BY <1>1, <1>2, <1>3, <1>4, <1>5

\* A kid's fields after a step of the processes: a new one has its parent's.
LEMMA ForkInv == ASSUME NEW x \in Executions, IInv, Fork(x) PROVE IInv'
<1> USE DEF IInv, Fork
<1>1. PICK k \in KidsOf[x] :
        /\ ~kid[x][k].alive
        /\ \/ /\ leader[x] = "running"
              /\ kid' = [kid EXCEPT ![x][k] = [alive |-> TRUE, group |-> TRUE, pipe |-> TRUE]]
           \/ \E parent \in Kids :
                /\ kid[x][parent].alive
                /\ kid' = [kid EXCEPT ![x][k] = kid[x][parent]]
  OBVIOUS
<1>2. k \in Kids
  BY KidsAssumption
<1>3. \A y \in Executions, j \in Kids : y # x \/ j # k => kid'[y][j] = kid[y][j]
  BY <1>1, <1>2 DEF TypeOK
<1>4. \/ leader[x] = "running"
      \/ \E parent \in Kids : kid[x][parent].alive /\ kid'[x][k] = kid[x][parent]
  BY <1>1, <1>2 DEF TypeOK
<1>5. TypeOK'
  <2>1. PICK new \in [alive : BOOLEAN, group : BOOLEAN, pipe : BOOLEAN] :
          kid' = [kid EXCEPT ![x][k] = new]
    <3>1. CASE kid' = [kid EXCEPT ![x][k] = [alive |-> TRUE, group |-> TRUE, pipe |-> TRUE]]
      BY <3>1
    <3>2. ASSUME NEW parent \in Kids, kid' = [kid EXCEPT ![x][k] = kid[x][parent]]
          PROVE  \E new \in [alive : BOOLEAN, group : BOOLEAN, pipe : BOOLEAN] :
                   kid' = [kid EXCEPT ![x][k] = new]
      <4>1. kid[x][parent] \in [alive : BOOLEAN, group : BOOLEAN, pipe : BOOLEAN]
        BY DEF TypeOK
      <4> QED
        BY <3>2, <4>1
    <3> QED
      BY <1>1, <3>1, <3>2
  <2> QED
    BY <1>2, <2>1 DEF TypeOK
<1>6. StartInv'
  BY <1>3, <1>4 DEF StartInv
<1>7. WatchInv'
  BY DEF WatchInv
<1>8. HitInv'
  BY <1>3, <1>4 DEF HitInv
<1>9. ResultInv'
  BY <1>3, <1>4 DEF ResultInv, Ended
<1> QED
  BY <1>5, <1>6, <1>7, <1>8, <1>9

\* An exit, a setsid or a close takes something away from one descendant.
LEMMA KidStepShrinks ==
  ASSUME NEW x \in Executions, TypeOK, KidStep(x)
  PROVE  \E k \in Kids, to \in [alive : BOOLEAN, group : BOOLEAN, pipe : BOOLEAN] :
           /\ kid' = [kid EXCEPT ![x][k] = to]
           /\ to.alive => kid[x][k].alive
           /\ to.group => kid[x][k].group
           /\ to.pipe => kid[x][k].pipe
<1>1. PICK k \in Kids :
        \E to \in {NoKid, [kid[x][k] EXCEPT !.group = FALSE], [kid[x][k] EXCEPT !.pipe = FALSE]} :
          kid' = [kid EXCEPT ![x][k] = to]
  BY DEF KidStep
<1>2. PICK to \in {NoKid, [kid[x][k] EXCEPT !.group = FALSE], [kid[x][k] EXCEPT !.pipe = FALSE]} :
        kid' = [kid EXCEPT ![x][k] = to]
  BY <1>1
<1>3. kid[x][k] \in [alive : BOOLEAN, group : BOOLEAN, pipe : BOOLEAN]
  BY DEF TypeOK
<1>4. /\ to \in [alive : BOOLEAN, group : BOOLEAN, pipe : BOOLEAN]
      /\ to.alive => kid[x][k].alive
      /\ to.group => kid[x][k].group
      /\ to.pipe => kid[x][k].pipe
  <2>1. CASE to = NoKid
    BY <2>1 DEF NoKid
  <2>2. CASE to = [kid[x][k] EXCEPT !.group = FALSE]
    BY <1>3, <2>2
  <2>3. CASE to = [kid[x][k] EXCEPT !.pipe = FALSE]
    BY <1>3, <2>3
  <2> QED
    BY <2>1, <2>2, <2>3
<1> QED
  BY <1>2, <1>4

LEMMA KidStepInv == ASSUME NEW x \in Executions, IInv, KidStep(x) PROVE IInv'
<1> USE DEF IInv
<1>1. PICK k \in Kids, to \in [alive : BOOLEAN, group : BOOLEAN, pipe : BOOLEAN] :
        /\ kid' = [kid EXCEPT ![x][k] = to]
        /\ to.alive => kid[x][k].alive
        /\ to.group => kid[x][k].group
        /\ to.pipe => kid[x][k].pipe
  BY KidStepShrinks
<1>2. UNCHANGED <<expired, leader, status, pid, pc, watch, verdict, err, result, hit>>
  BY DEF KidStep
<1>3. \A y \in Executions, j \in Kids : y # x \/ j # k => kid'[y][j] = kid[y][j]
  BY <1>1 DEF TypeOK
<1>4. kid'[x][k] = to
  BY <1>1 DEF TypeOK
<1>5. \A y \in Executions, j \in Kids :
        /\ kid'[y][j].alive => kid[y][j].alive
        /\ kid'[y][j].group => kid[y][j].group
        /\ kid'[y][j].pipe => kid[y][j].pipe
  BY <1>1, <1>3, <1>4
<1>6. TypeOK'
  BY <1>1, <1>2 DEF TypeOK
<1>7. StartInv' /\ WatchInv'
  BY <1>2, <1>5 DEF StartInv, WatchInv
<1>8. HitInv'
  BY <1>2, <1>5 DEF HitInv
<1>9. ResultInv'
  BY <1>2, <1>5 DEF ResultInv, Ended
<1> QED
  BY <1>6, <1>7, <1>8, <1>9

\* The kill: whoever it reaches has no member left and is not running.
LEMMA KillInv == ASSUME NEW x \in Executions, IInv, Kill(x) PROVE IInv'
<1> DEFINE killed == Target(x) \ Refused
<1> USE DEF IInv
<1>1. /\ watch[x] = "cancel"
      /\ leader' = [y \in Executions |->
           IF y \in killed /\ leader[y] = "running" THEN "zombie" ELSE leader[y]]
      /\ status' = [y \in Executions |->
           IF y \in killed /\ leader[y] = "running" THEN "failure" ELSE status[y]]
      /\ kid' = [y \in Executions |-> [k \in Kids |->
           IF y \in killed /\ k \in Reached(y) THEN NoKid ELSE kid[y][k]]]
      /\ hit' = [hit EXCEPT ![x] =
           @ \cup {y \in killed : leader[y] = "running" \/ Members(y) # {}}]
      /\ verdict' = [verdict EXCEPT ![x] = "deadline"]
      /\ watch' = [watch EXCEPT ![x] = "report"]
      /\ UNCHANGED <<expired, pid, pc, err, result>>
  BY DEF Kill
<1> HIDE DEF killed
<1>2. killed \subseteq Executions
  BY DEF killed, Target
<1>3. \A y \in Executions, k \in Kids :
        \/ kid'[y][k] = kid[y][k] /\ ~(y \in killed /\ kid[y][k].alive /\ kid[y][k].group)
        \/ kid'[y][k] = NoKid
  BY <1>1 DEF Reached, Members
<1>4. \A y \in Executions :
        \/ leader'[y] = leader[y] /\ status'[y] = status[y] /\ ~(y \in killed /\ leader[y] = "running")
        \/ leader[y] = "running" /\ leader'[y] = "zombie" /\ status'[y] = "failure"
  BY <1>1
<1>5. \A y, z \in Executions : z \in hit'[y] => z \in hit[y] \/
        (y = x /\ z \in killed /\ (leader[z] = "running" \/ \E k \in Kids : kid[z][k].alive))
  BY <1>1 DEF TypeOK, Members
<1>6. TypeOK'
  <2>1. /\ leader' \in [Executions -> {"none", "running", "zombie", "reaped"}]
        /\ status' \in [Executions -> {"none", "success", "failure"}]
    BY <1>1 DEF TypeOK
  <2>2. kid' \in [Executions -> [Kids -> [alive : BOOLEAN, group : BOOLEAN, pipe : BOOLEAN]]]
    BY <1>1 DEF TypeOK, NoKid
  <2>3. hit' \in [Executions -> SUBSET Executions]
    BY <1>1, <1>2 DEF TypeOK
  <2>4. verdict' \in [Executions -> Errors] /\ watch' \in [Executions -> Watches]
    BY <1>1 DEF TypeOK, Errors, Watches
  <2>5. \A y \in Executions : (status'[y] # "none") <=> (leader'[y] \in {"zombie", "reaped"})
    BY <1>4 DEF TypeOK
  <2> QED
    BY <1>1, <2>1, <2>2, <2>3, <2>4, <2>5 DEF TypeOK
<1>7. StartInv'
  BY <1>1, <1>3, <1>4 DEF StartInv, TypeOK, NoKid
<1>8. WatchInv'
  BY <1>1 DEF WatchInv, TypeOK
<1>9. HitInv'
  <2>1. \A z \in killed, k \in Kids : ~(kid'[z][k].alive /\ kid'[z][k].group)
    BY <1>2, <1>3 DEF NoKid
  <2>2. \A z \in Executions, k \in Kids :
          kid'[z][k].alive /\ kid'[z][k].group => kid[z][k].alive /\ kid[z][k].group
    BY <1>3 DEF NoKid
  <2>3. expired[x]
    BY <1>1 DEF WatchInv
  <2>4. \A z \in killed : leader[z] = "running" \/ (\E k \in Kids : kid[z][k].alive) =>
          leader'[z] \in {"zombie", "reaped"}
    BY <1>2, <1>4 DEF StartInv, TypeOK
  <2>5. ASSUME NEW y \in Executions, NEW z \in Executions, z \in hit[y]
        PROVE  /\ expired[y] /\ leader'[z] \in {"zombie", "reaped"}
               /\ \A k \in Kids : ~(kid'[z][k].alive /\ kid'[z][k].group)
    BY <1>4, <2>2, <2>5 DEF HitInv
  <2>6. expired' = expired
    BY <1>1, <2>3 DEF Kill
  <2>7. ASSUME NEW y \in Executions, NEW z \in Executions, z \in hit'[y]
        PROVE  /\ expired[y] /\ leader'[z] \in {"zombie", "reaped"}
               /\ \A k \in Kids : ~(kid'[z][k].alive /\ kid'[z][k].group)
    <3>1. CASE z \in hit[y]
      BY <3>1, <2>5
    <3>2. CASE z \notin hit[y]
      BY <3>2, <1>5, <2>1, <2>3, <2>4, <2>7
    <3> QED
      BY <3>1, <3>2
  <2> QED
    BY <2>6, <2>7 DEF HitInv
<1>10. ResultInv'
  <2>1. pc[x] \notin {"copy", "check", "done"}
    BY <1>1 DEF WatchInv
  <2>2. \A y \in Executions : Ended(y) => Ended(y)'
    BY <1>3, <1>4 DEF Ended, NoKid
  <2>3. \A y \in Executions : y \in hit'[y] => y \in hit[y] \/ y = x
    BY <1>5
  <2>4. \A y \in Executions : pc[y] \in {"verdict", "copy"} => status'[y] = status[y]
    BY <1>4 DEF StartInv
  <2> QED
    BY <1>1, <2>1, <2>2, <2>3, <2>4 DEF ResultInv
<1> QED
  BY <1>6, <1>7, <1>8, <1>9, <1>10

-----------------------------------------------------------------------------
\* Every step keeps the invariant.
LEMMA NextInv == IInv /\ [Next]_vars => IInv'
<1> SUFFICES ASSUME IInv, [Next]_vars PROVE IInv'
  OBVIOUS
<1>1. ASSUME NEW x \in Executions, Environment(x) PROVE IInv'
  BY <1>1, ExpireInv, LeaderExitInv, ForkInv, KidStepInv DEF Environment
<1>2. ASSUME NEW x \in Executions, Begin(x) PROVE IInv'
  BY <1>2, StartExpiredInv, StartFailedInv, StartInvariant DEF Begin
<1>3. ASSUME NEW x \in Executions, Run(x) PROVE IInv'
  BY <1>3, FireInv, KillInv, KillFailsInv, ReapInv, DismissInv, ReportInv, CopiedInv, CheckInv DEF Run
<1>4. CASE UNCHANGED vars
  BY <1>4 DEF vars, IInv, TypeOK, StartInv, WatchInv, HitInv, ResultInv, Ended
<1> QED
  BY <1>1, <1>2, <1>3, <1>4 DEF Next, Finished

\* The inductive invariant holds in every state of every execution.
THEOREM GroupInvariance == Spec => []IInv
BY InitInv, NextInv, PTL DEF Spec

\* Every variable keeps its type, and a leader has an exit status exactly when
\* it has exited.
THEOREM GroupTypeCorrect == Spec => []TypeOK
<1>1. IInv => TypeOK
  BY DEF IInv
<1> QED
  BY <1>1, GroupInvariance, PTL

\* What the kill of runWithProcessGroup reached is gone for good: nothing is
\* left in the group, whatever was forked meanwhile, and nothing joins it later.
THEOREM KilledGroupGone == Spec => []GroupGone
<1>1. IInv => GroupGone
  BY DEF IInv, HitInv, GroupGone, Members
<1> QED
  BY <1>1, GroupInvariance, PTL

\* A command killed by its own deadline is never reported as an error, and so
\* never retried, however the kill races with its exit.
THEOREM KilledTimesOut == Spec => []KilledIsTimeout
<1>1. IInv => KilledIsTimeout
  BY DEF IInv, ResultInv, KilledIsTimeout
<1> QED
  BY <1>1, GroupInvariance, PTL

\* The output of a successful execution is complete when it is read: the command
\* succeeded, was not killed, and no descendant can still write.
THEOREM OutputIsFinal == Spec => []OutputFinal
<1>1. IInv => OutputFinal
  BY DEF IInv, ResultInv, OutputFinal, Ended, Holders
<1> QED
  BY <1>1, GroupInvariance, PTL
-----------------------------------------------------------------------------
(* Group numbers.                                                          *)

\* No two groups that exist have the same number.
NumberInv ==
    \A x, y \in Executions : InUse(x) /\ InUse(y) /\ pid[x] = pid[y] => x = y

\* A group comes into being with its leader only; it does not come back.
LEMMA GroupsEnd ==
  ASSUME NEW x \in Executions, NEW y \in Executions, IInv,
         Environment(x) \/ StartExpired(x) \/ StartFailed(x) \/ Run(x)
  PROVE  pid' = pid /\ (InUse(y)' => InUse(y))
<1> USE DEF InUse, Members, IInv
<1>1. CASE Fork(x)
  <2>1. PICK k \in KidsOf[x] :
          \/ /\ leader[x] = "running"
             /\ kid' = [kid EXCEPT ![x][k] = [alive |-> TRUE, group |-> TRUE, pipe |-> TRUE]]
          \/ \E parent \in Kids :
               /\ kid[x][parent].alive
               /\ kid' = [kid EXCEPT ![x][k] = kid[x][parent]]
    BY <1>1 DEF Fork
  <2>2. k \in Kids
    BY KidsAssumption
  <2>3. /\ \A z \in Executions, j \in Kids : z # x \/ j # k => kid'[z][j] = kid[z][j]
        /\ leader[x] = "running" \/ \E parent \in Kids : kid'[x][k] = kid[x][parent]
    BY <2>1, <2>2 DEF TypeOK
  <2> QED
    BY <1>1, <2>3 DEF Fork
<1>2. CASE KidStep(x)
  <2>1. PICK k \in Kids, to \in [alive : BOOLEAN, group : BOOLEAN, pipe : BOOLEAN] :
          /\ kid' = [kid EXCEPT ![x][k] = to]
          /\ to.alive => kid[x][k].alive
          /\ to.group => kid[x][k].group
    BY <1>2, KidStepShrinks
  <2>2. kid'[x][k] = to /\ \A z \in Executions, j \in Kids : z # x \/ j # k => kid'[z][j] = kid[z][j]
    BY <2>1 DEF TypeOK
  <2> QED
    BY <1>2, <2>1, <2>2 DEF KidStep
<1>3. CASE Kill(x)
  <2>1. /\ \A k \in Kids : kid'[y][k] = kid[y][k] \/ kid'[y][k] = NoKid
        /\ leader'[y] = leader[y] \/ leader[y] = "running"
        /\ pid' = pid
    BY <1>3 DEF Kill
  <2> QED
    BY <2>1 DEF NoKid
<1>4. CASE Expire(x) \/ LeaderExit(x) \/ StartExpired(x) \/ StartFailed(x)
  BY <1>4 DEF Expire, LeaderExit, StartExpired, StartFailed, TypeOK
<1>5. CASE Fire(x) \/ KillFails(x) \/ Reap(x) \/ Dismiss(x) \/ Report(x) \/ Copied(x) \/ Check(x)
  BY <1>5 DEF Fire, KillFails, Reap, Dismiss, Report, Copied, Check, TypeOK
<1> QED
  BY <1>1, <1>2, <1>3, <1>4, <1>5 DEF Environment, Run

LEMMA NumberStep == IInv /\ NumberInv /\ [Next]_vars => NumberInv'
<1> SUFFICES ASSUME IInv, NumberInv, [Next]_vars PROVE NumberInv'
  OBVIOUS
<1>1. ASSUME NEW x \in Executions,
             Environment(x) \/ StartExpired(x) \/ StartFailed(x) \/ Run(x)
      PROVE  NumberInv'
  BY <1>1, GroupsEnd DEF NumberInv
<1>2. ASSUME NEW x \in Executions, Start(x) PROVE NumberInv'
  <2>1. PICK p \in Pids : Free(p) /\ pid' = [pid EXCEPT ![x] = p]
    BY <1>2 DEF Start
  <2>2. /\ pid'[x] = p
        /\ \A y \in Executions \ {x} : pid'[y] = pid[y] /\ InUse(y)' = InUse(y)
    BY <1>2, <2>1 DEF Start, IInv, TypeOK, InUse, Members
  <2>3. \A y \in Executions \ {x} : pid'[y] = p => ~InUse(y)'
    BY <2>1, <2>2 DEF Free
  <2> QED
    BY <2>2, <2>3 DEF NumberInv
<1>3. CASE UNCHANGED vars
  BY <1>3 DEF vars, NumberInv, InUse, Members
<1> QED
  BY <1>1, <1>2, <1>3 DEF Next, Begin, Finished

\* While the leader is in the reaper the kill reaches its own group only: the
\* part of the comment in exec.go that holds for every execution and number.
THEOREM ParkedKillIsOwn == Spec => ParkedKillsOwn
<1> DEFINE Own == \A x \in Executions : leader[x] # "reaped" => hit'[x] \subseteq hit[x] \cup {x}
<1>1. Init => NumberInv
  BY DEF Init, NumberInv, InUse, Members, NoKid
<1>2. IInv /\ NumberInv /\ [Next]_vars => [Own]_vars
  <2> SUFFICES ASSUME IInv, NumberInv, Next PROVE Own
    BY DEF vars
  <2>1. ASSUME NEW x \in Executions, Kill(x) PROVE Own
    <3>1. /\ watch[x] = "cancel"
          /\ hit' = [hit EXCEPT ![x] =
               @ \cup {y \in Target(x) \ Refused : leader[y] = "running" \/ Members(y) # {}}]
      BY <2>1 DEF Kill
    <3>2. leader[x] # "reaped" => InUse(x)
      BY <3>1 DEF IInv, TypeOK, StartInv, InUse
    <3>3. leader[x] # "reaped" => Target(x) \subseteq {x}
      BY <3>2 DEF Target, NumberInv
    <3>4. \A y \in Executions \ {x} : hit'[y] = hit[y]
      BY <3>1 DEF IInv, TypeOK
    <3>5. leader[x] # "reaped" => hit'[x] \subseteq hit[x] \cup {x}
      BY <3>1, <3>3 DEF IInv, TypeOK
    <3> QED
      BY <3>4, <3>5
  <2>2. CASE hit' = hit
    BY <2>2
  <2> QED
    BY <2>1, <2>2 DEF Next, Finished, vars, Environment, Begin, Run, Expire, LeaderExit, Fork, KidStep,
       StartExpired, StartFailed, Start, Fire, KillFails, Reap, Dismiss, Report, Copied, Check
<1> QED
  BY <1>1, <1>2, GroupInvariance, NumberStep, PTL DEF Spec, ParkedKillsOwn
=============================================================================
