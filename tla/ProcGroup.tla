------------------------------ MODULE ProcGroup ------------------------------
(***************************************************************************)
(* runWithProcessGroup (collectors/exec.go) and its three callers, which   *)
(* read the command's output and ctx.Err() when it returns.                *)
(*                                                                         *)
(* Each execution starts a command as the leader of a process group of its *)
(* own.  The leader may fork descendants (ibswinfo.sh runs flint, mst,     *)
(* mlxlink), which share its group and its output pipe until they leave    *)
(* or close them.  Two goroutines of os/exec meet: Wait, which reaps the   *)
(* leader, then takes the watcher's verdict, then waits for the end of the *)
(* output; and the watcher, which calls Cancel when the deadline passes.   *)
(* Cancel kills by group number, and a group's number is its leader's PID, *)
(* which the kernel gives out again once the leader has been reaped and    *)
(* the group is empty.  Executions are concurrent: the collectors run one  *)
(* in each of their workers.                                               *)
(***************************************************************************)
EXTENDS Integers, FiniteSets

CONSTANTS
    Executions,  \* calls of runWithProcessGroup, concurrent or successive
    Kids,        \* names for living descendants
    KidsOf,      \* KidsOf[x]: those that execution x can have at a time
    Pids,        \* the process numbers leaders can get
    Refused      \* executions whose processes Cancel may not signal: --sudo
                 \* runs them as root, the exporter need not

ASSUME RefusedAssumption == Refused \subseteq Executions
ASSUME KidsAssumption == KidsOf \in [Executions -> SUBSET Kids]

NoPid == "nopid"
ASSUME PidsAssumption == NoPid \notin Pids

VARIABLES
    expired,   \* expired[x]: the deadline of x's context has passed
    leader,    \* leader[x]: "none", "running", "zombie" or "reaped"
    status,    \* status[x]: how the leader ended, "none" before
    pid,       \* pid[x]: cmd.Process.Pid, the number of x's group
    kid,       \* kid[x][k]: a descendant
    pc,        \* pc[x]: where cmd.Run and its caller are
    watch,     \* watch[x]: where the goroutine of watchCtx is
    verdict,   \* verdict[x]: the error the watcher reports
    err,       \* err[x]: the error cmd.Run returns; both are reset after use
    result,    \* result[x]: "none", then what the caller makes of it
    hit        \* history: hit[x] is the executions whose processes x's Cancel killed

vars == <<expired, leader, status, pid, kid, pc, watch, verdict, err, result, hit>>

PCs == {"idle", "wait", "verdict", "copy", "check", "done"}
Watches == {"off", "armed", "cancel", "report", "over"}
Errors == {"none", "deadline", "failed"}
NoKid == [alive |-> FALSE, group |-> FALSE, pipe |-> FALSE]

Init ==
    /\ expired = [x \in Executions |-> FALSE]
    /\ leader = [x \in Executions |-> "none"]
    /\ status = [x \in Executions |-> "none"]
    /\ pid = [x \in Executions |-> NoPid]
    /\ kid = [x \in Executions |-> [k \in Kids |-> NoKid]]
    /\ pc = [x \in Executions |-> "idle"]
    /\ watch = [x \in Executions |-> "off"]
    /\ verdict = [x \in Executions |-> "none"]
    /\ err = [x \in Executions |-> "none"]
    /\ result = [x \in Executions |-> "none"]
    /\ hit = [x \in Executions |-> {}]

Goto(x, label) == pc' = [pc EXCEPT ![x] = label]

Members(x) == {k \in Kids : kid[x][k].alive /\ kid[x][k].group}
Holders(x) == {k \in Kids : kid[x][k].alive /\ kid[x][k].pipe}

\* A number stays taken while its process is there, or its group.
InUse(x) == leader[x] \in {"running", "zombie"} \/ Members(x) # {}
AnyGroup(p) == TRUE  \* mutant: Pgid names a group that may exist
Free(p) == \A x \in Executions : pid[x] = p => ~InUse(x)

-----------------------------------------------------------------------------
(* The context, and the processes: these need not ever take a step.        *)

Expire(x) ==
    /\ ~expired[x] /\ pc[x] # "done"
    /\ expired' = [expired EXCEPT ![x] = TRUE]
    /\ UNCHANGED <<leader, status, pid, kid, pc, watch, verdict, err, result, hit>>

LeaderExit(x) ==
    /\ leader[x] = "running"
    /\ leader' = [leader EXCEPT ![x] = "zombie"]
    /\ \E s \in {"success", "failure"} : status' = [status EXCEPT ![x] = s]
    /\ UNCHANGED <<expired, pid, kid, pc, watch, verdict, err, result, hit>>

\* A fork inherits its parent's group and pipe.
Fork(x) ==
    \E k \in KidsOf[x] :
        /\ ~kid[x][k].alive
        /\ \/ /\ leader[x] = "running"
              /\ kid' = [kid EXCEPT ![x][k] = [alive |-> TRUE, group |-> TRUE, pipe |-> TRUE]]
           \/ \E parent \in Kids :
                /\ kid[x][parent].alive
                /\ kid' = [kid EXCEPT ![x][k] = kid[x][parent]]
        /\ UNCHANGED <<expired, leader, status, pid, pc, watch, verdict, err, result, hit>>

\* A descendant exits, leaves the group (setsid), or closes its end of the pipe.
KidStep(x) ==
    \E k \in Kids :
        /\ kid[x][k].alive
        /\ \E to \in {NoKid, [kid[x][k] EXCEPT !.group = FALSE], [kid[x][k] EXCEPT !.pipe = FALSE]} :
             /\ to # kid[x][k]
             /\ kid' = [kid EXCEPT ![x][k] = to]
        /\ UNCHANGED <<expired, leader, status, pid, pc, watch, verdict, err, result, hit>>

-----------------------------------------------------------------------------
(* cmd.Start                                                               *)

\* The deadline has passed before anything was started.
StartExpired(x) ==
    /\ pc[x] = "idle"
    /\ expired[x]
    /\ err' = [err EXCEPT ![x] = "deadline"]
    /\ Goto(x, "check")
    /\ UNCHANGED <<expired, leader, status, pid, kid, watch, verdict, result, hit>>

\* No such program, no process to be had.
StartFailed(x) ==
    /\ pc[x] = "idle"
    /\ ~expired[x]
    /\ err' = [err EXCEPT ![x] = "failed"]
    /\ Goto(x, "check")
    /\ UNCHANGED <<expired, leader, status, pid, kid, watch, verdict, result, hit>>

\* Setpgid: the new process leads a group with its own number.
Start(x) ==
    /\ pc[x] = "idle"
    /\ ~expired[x]
    /\ \E p \in Pids : Free(p) /\ pid' = [pid EXCEPT ![x] = p]
    /\ leader' = [leader EXCEPT ![x] = "running"]
    /\ watch' = [watch EXCEPT ![x] = "armed"]
    /\ Goto(x, "wait")
    /\ UNCHANGED <<expired, status, kid, verdict, err, result, hit>>

-----------------------------------------------------------------------------
(* The watcher                                                             *)

Fire(x) ==
    /\ watch[x] = "armed"
    /\ expired[x]
    /\ watch' = [watch EXCEPT ![x] = "cancel"]
    /\ UNCHANGED <<expired, leader, status, pid, kid, pc, verdict, err, result, hit>>

\* The executions that have a process, dead or alive, in the group numbered
\* pid[x]: x itself, or whoever was given the number since.
Target(x) == {y \in Executions : pid[y] = pid[x] /\ InUse(y)}

\* mutant: kill(pid) instead of kill(-pid)
LeaderOnly(y) == {}
\* The descendants that a signal to y's group reaches.
Reached(y) == Members(y)

\* syscall.Kill(-pid, SIGKILL): every member dies at once, a fork under way included.
Kill(x) ==
    /\ watch[x] = "cancel"
    /\ Target(x) \ Refused # {}
    /\ LET killed == Target(x) \ Refused IN
         /\ leader' = [y \in Executions |->
              IF y \in killed /\ leader[y] = "running" THEN "zombie" ELSE leader[y]]
         /\ status' = [y \in Executions |->
              IF y \in killed /\ leader[y] = "running" THEN "failure" ELSE status[y]]
         /\ kid' = [y \in Executions |-> [k \in Kids |->
              IF y \in killed /\ k \in Reached(y) THEN NoKid ELSE kid[y][k]]]
         /\ hit' = [hit EXCEPT ![x] =
              @ \cup {y \in killed : leader[y] = "running" \/ Members(y) # {}}]
    /\ verdict' = [verdict EXCEPT ![x] = "deadline"]
    /\ watch' = [watch EXCEPT ![x] = "report"]
    /\ UNCHANGED <<expired, pid, pc, err, result>>

\* ESRCH or EPERM: neither is os.ErrProcessDone, so it becomes the verdict.
KillFails(x) ==
    /\ watch[x] = "cancel"
    /\ Target(x) \subseteq Refused
    /\ verdict' = [verdict EXCEPT ![x] = "failed"]
    /\ watch' = [watch EXCEPT ![x] = "report"]
    /\ UNCHANGED <<expired, leader, status, pid, kid, pc, err, result, hit>>

-----------------------------------------------------------------------------
(* cmd.Wait                                                                *)

\* mutant: Wait does not wait for the leader to exit
ReapRunning(x) ==
    /\ pc[x] = "wait"
    /\ leader' = [leader EXCEPT ![x] = "reaped"]
    /\ err' = [err EXCEPT ![x] = IF status[x] = "success" THEN "none" ELSE "failed"]
    /\ Goto(x, "verdict")
    /\ UNCHANGED <<expired, status, pid, kid, watch, verdict, result, hit>>

\* Process.Wait: from here on the leader's number is free.
Reap(x) ==
    /\ pc[x] = "wait"
    /\ leader[x] = "zombie"
    /\ leader' = [leader EXCEPT ![x] = "reaped"]
    /\ err' = [err EXCEPT ![x] = IF status[x] = "success" THEN "none" ELSE "failed"]
    /\ Goto(x, "verdict")
    /\ UNCHANGED <<expired, status, pid, kid, watch, verdict, result, hit>>

\* Wait meets a watcher that has not fired; it ends without a verdict.
Dismiss(x) ==
    /\ pc[x] = "verdict"
    /\ watch[x] = "armed"
    /\ watch' = [watch EXCEPT ![x] = "over"]
    /\ Goto(x, "copy")
    /\ UNCHANGED <<expired, leader, status, pid, kid, verdict, err, result, hit>>

\* Wait meets a watcher that has fired.  The leader's own failure comes first.
Report(x) ==
    /\ pc[x] = "verdict"
    /\ watch[x] = "report"
    /\ err' = [err EXCEPT ![x] = IF @ = "none" THEN verdict[x] ELSE @]
    /\ verdict' = [verdict EXCEPT ![x] = "none"]
    /\ watch' = [watch EXCEPT ![x] = "over"]
    /\ Goto(x, "copy")
    /\ UNCHANGED <<expired, leader, status, pid, kid, result, hit>>

\* mutant: a WaitDelay that has elapsed
NoLongerWaited(x) == TRUE
\* The copiers have seen the end of the pipe: nobody holds its other end.
EndOfOutput(x) == Holders(x) = {}

\* awaitGoroutines, with no WaitDelay: for ever, if need be.
Copied(x) ==
    /\ pc[x] = "copy"
    /\ EndOfOutput(x)
    /\ Goto(x, "check")
    /\ UNCHANGED <<expired, leader, status, pid, kid, watch, verdict, err, result, hit>>

-----------------------------------------------------------------------------
(* The caller: perfquery, ibnetdiscover, ibswinfo                          *)

\* mutant: errors.Is(err, context.DeadlineExceeded) instead of ctx.Err()
ByError(x) == CASE err[x] = "deadline" -> "timeout" [] err[x] = "failed" -> "error" [] OTHER -> "ok"
Outcome(x) == CASE expired[x] -> "timeout" [] ~expired[x] /\ err[x] # "none" -> "error" [] OTHER -> "ok"

Check(x) ==
    /\ pc[x] = "check"
    /\ result' = [result EXCEPT ![x] = Outcome(x)]
    /\ err' = [err EXCEPT ![x] = "none"]
    /\ Goto(x, "done")
    /\ UNCHANGED <<expired, leader, status, pid, kid, watch, verdict, hit>>

-----------------------------------------------------------------------------
Environment(x) == Expire(x) \/ LeaderExit(x) \/ Fork(x) \/ KidStep(x)
Begin(x) == StartExpired(x) \/ StartFailed(x) \/ Start(x)
Run(x) ==
    \/ Fire(x) \/ Kill(x) \/ KillFails(x)
    \/ Reap(x) \/ Dismiss(x) \/ Report(x) \/ Copied(x) \/ Check(x)

Finished == (\A x \in Executions : pc[x] = "done") /\ UNCHANGED vars

Next == (\E x \in Executions : Environment(x) \/ Begin(x) \/ Run(x)) \/ Finished

Spec == Init /\ [][Next]_vars

\* Goroutines run and deadlines pass.  No process need ever exit.
Fairness == \A x \in Executions : WF_vars(Run(x)) /\ WF_vars(Expire(x))

FairSpec == Spec /\ Fairness

-----------------------------------------------------------------------------
(* Properties.                                                             *)

TypeOK ==
    /\ expired \in [Executions -> BOOLEAN]
    /\ leader \in [Executions -> {"none", "running", "zombie", "reaped"}]
    /\ status \in [Executions -> {"none", "success", "failure"}]
    /\ pid \in [Executions -> Pids \cup {NoPid}]
    /\ kid \in [Executions -> [Kids -> [alive : BOOLEAN, group : BOOLEAN, pipe : BOOLEAN]]]
    /\ pc \in [Executions -> PCs]
    /\ watch \in [Executions -> Watches]
    /\ verdict \in [Executions -> Errors]
    /\ err \in [Executions -> Errors]
    /\ result \in [Executions -> {"none", "ok", "error", "timeout"}]
    /\ hit \in [Executions -> SUBSET Executions]
    /\ \A x \in Executions : (status[x] # "none") <=> (leader[x] \in {"zombie", "reaped"})

\* "on context deadline we can kill the whole subtree with one syscall": once
\* the kill has reached an execution's group, no process is or ever comes to be
\* in it, whatever its members were doing and forked meanwhile.
GroupGone ==
    \A x, y \in Executions : y \in hit[x] => leader[y] # "running" /\ Members(y) = {}

\* A command that its own deadline killed is reported as timed out, although
\* the error of cmd.Run is then "signal: killed": perfqueryWithRetry repeats
\* errors and must not repeat timeouts.
KilledIsTimeout ==
    \A x \in Executions : x \in hit[x] => result[x] \in {"none", "timeout"}

\* The output that the parsers get is complete and final: the command ended
\* well, nothing of it was cut short by the deadline, and no descendant that
\* could still write to the buffer is left.
OutputFinal ==
    \A x \in Executions : result[x] = "ok" =>
        status[x] = "success" /\ x \notin hit[x] /\ Holders(x) = {}

\* What can keep cmd.Run waiting after the deadline: a leader that may not be
\* killed, a descendant holding the pipe from outside the group, and one in the
\* group whose leader exited by itself, so that nothing is left to kill it.
Outlives(x) ==
    \/ leader[x] = "running" /\ x \in Refused
    \/ \E k \in Holders(x) : ~kid[x][k].group \/ (leader[x] # "running" /\ x \notin hit[x])

\* The assumption of all other modules, that an execution ends by its deadline,
\* holds except while such a process lives: only if one always does, cmd.Run
\* does not return.
ReturnsUnlessOutlived ==
    \A x \in Executions : []<>~Outlives(x) => (pc[x] = "wait" ~> pc[x] = "done")

\* As long as the leader has not been reaped the number means its own group, and
\* the kill reaches no other execution's processes.
ParkedKillsOwn ==
    [][\A x \in Executions : leader[x] # "reaped" => hit'[x] \subseteq hit[x] \cup {x}]_vars

\* The comment of runWithProcessGroup on why the kill is not racy: it "runs
\* while every process is still alive and the leader is still parked in our
\* reaper", so that its number cannot mean another group.
OnlyOwnGroup == \A x \in Executions : hit[x] \subseteq {x}
=============================================================================
