-------------------------------- MODULE Jobber --------------------------------
(***************************************************************************)
(* The job spooler of lab4: the job table and its operations (src/jobs.c), *)
(* the handler that reaps runner processes (src/signal_handlers.c), called *)
(* by sf_readline before it waits for input, and the runner processes.     *)
(*                                                                         *)
(* The main process works on the table alone: SIGCHLD only sets a flag.    *)
(* But runners start, stop, continue and end at any time between two of    *)
(* its system calls.  A command is one step; so is an iteration of the     *)
(* loops over waitpid.  A task has one pipeline.                           *)
(***************************************************************************)
EXTENDS Integers, FiniteSets, FiniteSetsExt

CONSTANTS
  MAX_JOBS, MAX_RUNNERS,
  MaxForks   \* bound: runner processes in a behaviour, none has another's pid

ASSUME TableAssumption ==
  MAX_JOBS \in Nat \ {0} /\ MAX_RUNNERS \in Nat \ {0} /\ MaxForks \in Nat

Jobs == 0..MAX_JOBS - 1
Pids == 1..MaxForks
NoPid == 0   \* -1 in the code

VARIABLES
  jobs_table, active_runners, enabler,
  sig_child_flag,   \* set by the handler of SIGCHLD
  sigchld,          \* SIGCHLD has been raised and not been delivered
  pc,               \* where the main process is
  \* the runner processes
  forks,            \* number of them so far
  runner,           \* the state of each
  event,            \* a stop or continuation that waitpid would report
  sawstop,          \* its waitpid has reported that its pipeline stopped
  task              \* what its pipeline does

table == <<jobs_table, active_runners, enabler>>
signals == <<sig_child_flag, sigchld>>
processes == <<forks, runner, event, sawstop, task>>
vars == <<table, signals, pc, processes>>

Held == {"RUNNING", "PAUSED", "CANCELED"}    \* the states with a runner
Ended == {"COMPLETED", "ABORTED"}

Zombie == {"exited", "signaled"}
Alive == {"starting", "running", "stopped"}

(* jobs_init.  No job is in the table, and starting jobs is disabled. *)
Init ==
  /\ jobs_table = [j \in Jobs |->
       [status |-> "NEW", is_free |-> TRUE, is_canceled |-> FALSE,
        pgid |-> NoPid]]
  /\ active_runners = 0 /\ enabler = 0
  /\ sig_child_flag = FALSE /\ sigchld = FALSE
  /\ pc = "hook"
  /\ forks = 0
  /\ runner = [p \in Pids |-> "unborn"] /\ event = [p \in Pids |-> "none"]
  /\ sawstop = [p \in Pids |-> FALSE] /\ task = [p \in Pids |-> "none"]

Goto(from, to) == pc = from /\ pc' = to

Waiting(tbl) == {j \in Jobs : tbl[j].status = "WAITING"}
-----------------------------------------------------------------------------
(* How many of the jobs S the loops over the table visit before job j.     *)
Rank(S, j) == Cardinality({i \in S : i < j})

(* run_task for each of the jobs `chosen' of table tbl, in order: fork a   *)
(* runner, which has yet to make a process group of its own.               *)
RunTasks(tbl, chosen) ==
  LET Pid(j) == forks + 1 + Rank(chosen, j)
      started == {Pid(j) : j \in chosen}
  IN  /\ jobs_table' = [j \in Jobs |->
           IF j \in chosen
             THEN [tbl[j] EXCEPT !.pgid = Pid(j), !.status = "RUNNING"]
             ELSE tbl[j]]
      /\ active_runners' = active_runners + Cardinality(chosen)
      /\ forks' = forks + Cardinality(chosen)
      /\ runner' = [p \in Pids |-> IF p \in started THEN "starting"
                                                    ELSE runner[p]]
      /\ task' = [p \in Pids |-> IF p \in started THEN "running" ELSE task[p]]
      /\ UNCHANGED <<event, sawstop>>

(* The loop of jobs_set_enabled: the first waiting jobs, as many as there  *)
(* are runners left.                                                       *)
StartWaiting ==
  LET waiting == Waiting(jobs_table)
  IN  RunTasks(jobs_table,
               {j \in waiting : active_runners + Rank(waiting, j)
                                < MAX_RUNNERS})

Enable ==
  /\ Goto("prompt", "hook")
  /\ enabler' = 1
  /\ StartWaiting
  /\ UNCHANGED signals

Disable ==
  /\ Goto("prompt", "hook")
  /\ enabler' = 0
  /\ UNCHANGED <<jobs_table, active_runners, signals, processes>>

(* job_create: the first free row, and a runner if there is one left.      *)
JobCreate(j) ==
  LET filled == [jobs_table EXCEPT
                   ![j] = [@ EXCEPT !.status = "WAITING", !.is_free = FALSE]]
  IN  /\ Goto("prompt", "hook")
      /\ jobs_table[j].is_free
      /\ \A i \in Jobs : i < j => ~ jobs_table[i].is_free
      /\ forks + Cardinality(Waiting(jobs_table)) < MaxForks
      /\ RunTasks(filled,
                  IF enabler = 0 \/ active_runners = MAX_RUNNERS THEN {}
                                                                 ELSE {j})
      /\ UNCHANGED <<enabler, signals>>

(* job_expunge.  The row keeps its pgid. *)
JobExpunge(j) ==
  /\ Goto("prompt", "hook")
  /\ ~ jobs_table[j].is_free /\ jobs_table[j].status \in Ended
  /\ jobs_table' = [jobs_table EXCEPT
       ![j] = [@ EXCEPT !.is_free = TRUE, !.status = "NONE",
                        !.is_canceled = FALSE]]
  /\ UNCHANGED <<active_runners, enabler, signals, processes>>

(* killpg finds the group of a runner that has made one and not been       *)
(* reaped: one that has ended keeps it until then.                         *)
HasGroup(p) == runner[p] \in {"running", "stopped"} \cup Zombie

(* SIGKILL to the groups of `victims'. *)
Kill(victims) ==
  LET killed == {p \in victims : runner[p] \in Alive}
  IN  /\ runner' = [p \in Pids |-> IF p \in killed THEN "signaled"
                                                   ELSE runner[p]]
      /\ event' = [p \in Pids |-> IF p \in killed THEN "none" ELSE event[p]]
      /\ task' = [p \in Pids |-> IF p \in victims THEN "ended" ELSE task[p]]
      /\ sigchld' = (sigchld \/ killed # {})
      /\ sawstop' = [p \in Pids |-> sawstop[p] /\ p \notin killed]
      /\ UNCHANGED forks

Canceled(row, status) == [row EXCEPT !.is_canceled = TRUE, !.status = status]

(* job_cancel: of a job with a runner, which is killed if its group is     *)
(* found, or of a waiting one, which the code makes ABORTED.               *)
JobCancel(j) ==
  LET row == jobs_table[j]
  IN  /\ Goto("prompt", "hook")
      /\ \/ /\ row.status \in {"RUNNING", "PAUSED"} /\ HasGroup(row.pgid)
            /\ Kill({row.pgid})
            /\ jobs_table' = [jobs_table EXCEPT ![j] = Canceled(@, "CANCELED")]
         \/ /\ row.status = "WAITING"
            /\ jobs_table' = [jobs_table EXCEPT ![j] = Canceled(@, "ABORTED")]
            /\ UNCHANGED <<sigchld, processes>>
      /\ UNCHANGED <<active_runners, enabler, sig_child_flag>>

(* job_pause: SIGSTOP to the group.  The waitpid of the runner may report  *)
(* that its pipeline has stopped before the runner itself stops, or when   *)
(* it is continued.                                                        *)
JobPause(j) ==
  LET p == jobs_table[j].pgid
  IN  /\ Goto("prompt", "hook")
      /\ jobs_table[j].status = "RUNNING" /\ HasGroup(p)
      /\ jobs_table' = [jobs_table EXCEPT ![j].status = "PAUSED"]
      /\ IF runner[p] = "running"
           THEN /\ runner' = [runner EXCEPT ![p] = "stopped"]
                /\ event' = [event EXCEPT ![p] = "stopped"]
                /\ \E b \in BOOLEAN : sawstop' = [sawstop EXCEPT ![p] = @ \/ b]
                /\ sigchld' = TRUE
           ELSE UNCHANGED <<runner, event, sawstop, sigchld>>
      /\ UNCHANGED <<active_runners, enabler, sig_child_flag, forks, task>>

(* job_resume: SIGCONT to the group. *)
JobResume(j) ==
  LET p == jobs_table[j].pgid
  IN  /\ Goto("prompt", "hook")
      /\ jobs_table[j].status = "PAUSED" /\ HasGroup(p)
      /\ jobs_table' = [jobs_table EXCEPT ![j].status = "RUNNING"]
      /\ IF runner[p] = "stopped"
           THEN /\ runner' = [runner EXCEPT ![p] = "running"]
                /\ event' = [event EXCEPT ![p] = "continued"]
                /\ sigchld' = TRUE
           ELSE UNCHANGED <<runner, event, sigchld>>
      /\ UNCHANGED <<active_runners, enabler, sig_child_flag, forks, sawstop,
                     task>>

(* The user types: a command that fails, or a character of one. *)
Keystroke ==
  /\ Goto("prompt", "hook")
  /\ UNCHANGED <<table, signals, processes>>
-----------------------------------------------------------------------------
(* sf_readline: pselect is interrupted by SIGCHLD, whose handler sets the  *)
(* flag, and the hook is called again; a signal raised earlier is noticed  *)
(* before the signals are blocked for the hook.                            *)

SignalWakes ==
  /\ Goto("prompt", "hook")
  /\ sigchld
  /\ sig_child_flag' = TRUE /\ sigchld' = FALSE
  /\ UNCHANGED <<table, processes>>

HookBegins ==
  /\ pc = "hook"
  /\ sig_child_flag' = (sig_child_flag \/ sigchld) /\ sigchld' = FALSE
  /\ pc' = IF sig_child_flag' THEN "reap" ELSE "prompt"
  /\ UNCHANGED <<table, processes>>

RowsOf(p) == {j \in Jobs : jobs_table[j].pgid = p}

(* Faulty: a task ended by a signal counts as completed, too. *)
Outcome_completed(row, p) ==
  [row EXCEPT !.status = "COMPLETED"]

(* What a row says once its runner has been reaped. *)
Outcome(row, p) ==
  [row EXCEPT !.status = IF runner[p] = "exited" THEN "COMPLETED"
                                                 ELSE "ABORTED"]

(* Faulty: the runner is not counted out. *)
ReapEnded_keeps_count(p) ==
  /\ pc = "reap" /\ runner[p] \in Zombie
  /\ runner' = [runner EXCEPT ![p] = "reaped"]
  /\ IF RowsOf(p) = {}
       THEN pc' = "prompt" /\ UNCHANGED jobs_table
       ELSE /\ jobs_table' = [jobs_table EXCEPT ![Min(RowsOf(p))]
                                                  = Outcome(@, p)]
            /\ UNCHANGED pc
  /\ UNCHANGED <<active_runners, enabler, signals, forks, event, sawstop, task>>

(* waitpid reports a runner that has ended.  If no row has its pid the     *)
(* handler returns.                                                        *)
ReapEnded(p) ==
  /\ pc = "reap" /\ runner[p] \in Zombie
  /\ runner' = [runner EXCEPT ![p] = "reaped"]
  /\ IF RowsOf(p) = {}
       THEN pc' = "prompt" /\ UNCHANGED <<jobs_table, active_runners>>
       ELSE /\ jobs_table' = [jobs_table EXCEPT ![Min(RowsOf(p))]
                                                  = Outcome(@, p)]
            /\ active_runners' = active_runners - 1
            /\ UNCHANGED pc
  /\ UNCHANGED <<enabler, signals, forks, event, sawstop, task>>

(* Faulty: the flag is cleared before the early return. *)
ReapChanged_clears(p) ==
  /\ Goto("reap", "prompt")
  /\ runner[p] \in Alive /\ event[p] # "none"
  /\ event' = [event EXCEPT ![p] = "none"]
  /\ sig_child_flag' = FALSE
  /\ UNCHANGED <<table, sigchld, forks, runner, sawstop, task>>

(* It reports one that has stopped or continued: the handler returns,      *)
(* leaving the flag up and everything else for its next call.              *)
ReapChanged(p) ==
  /\ Goto("reap", "prompt")
  /\ runner[p] \in Alive /\ event[p] # "none"
  /\ event' = [event EXCEPT ![p] = "none"]
  /\ UNCHANGED <<table, signals, forks, runner, sawstop, task>>

NothingToReap ==
  \A p \in Pids : runner[p] \notin Zombie /\ event[p] = "none"

(* Faulty: no job takes the place of those that ended. *)
ReapNone_starts_none ==
  /\ Goto("reap", "prompt")
  /\ NothingToReap
  /\ sig_child_flag' = FALSE
  /\ UNCHANGED <<table, sigchld, processes>>

(* It has nothing more to report: waiting jobs are started. *)
ReapNone ==
  /\ Goto("reap", "prompt")
  /\ NothingToReap
  /\ IF enabler = 1 THEN StartWaiting
                    ELSE UNCHANGED <<jobs_table, active_runners, processes>>
  /\ sig_child_flag' = FALSE
  /\ UNCHANGED <<enabler, sigchld>>
-----------------------------------------------------------------------------
(* jobs_fini: cancel all jobs, wait for all runners, expunge all jobs.     *)

(* Faulty: paused jobs are left alone. *)
Quit_spares_paused ==
  LET held == {j \in Jobs : /\ jobs_table[j].status = "RUNNING"
                            /\ HasGroup(jobs_table[j].pgid)}
  IN  /\ Goto("prompt", "fini")
      /\ jobs_table' = [j \in Jobs |->
           IF j \in held THEN Canceled(jobs_table[j], "CANCELED")
           ELSE IF j \in Waiting(jobs_table)
                  THEN Canceled(jobs_table[j], "ABORTED")
           ELSE jobs_table[j]]
      /\ Kill({jobs_table[j].pgid : j \in held})
      /\ UNCHANGED <<active_runners, enabler, sig_child_flag>>

Quit ==
  LET held == {j \in Jobs : /\ jobs_table[j].status \in {"RUNNING", "PAUSED"}
                            /\ HasGroup(jobs_table[j].pgid)}
  IN  /\ Goto("prompt", "fini")
      /\ jobs_table' = [j \in Jobs |->
           IF j \in held THEN Canceled(jobs_table[j], "CANCELED")
           ELSE IF j \in Waiting(jobs_table)
                  THEN Canceled(jobs_table[j], "ABORTED")
           ELSE jobs_table[j]]
      /\ Kill({jobs_table[j].pgid : j \in held})
      /\ UNCHANGED <<active_runners, enabler, sig_child_flag>>

(* waitpid, which does not ask for continuations here, reports a runner.   *)
(* One that has only stopped is counted out, too.                          *)
FiniReap(p) ==
  /\ pc = "fini"
  /\ runner[p] \in Zombie \/ event[p] = "stopped"
  /\ runner' = [runner EXCEPT ![p] = IF @ \in Zombie THEN "reaped" ELSE @]
  /\ event' = [event EXCEPT ![p] = "none"]
  /\ IF RowsOf(p) = {}
       THEN UNCHANGED <<jobs_table, active_runners>>
       ELSE /\ jobs_table' = [jobs_table EXCEPT
                 ![Min(RowsOf(p))] = IF runner[p] \in Zombie THEN Outcome(@, p)
                                                             ELSE @]
            /\ active_runners' = active_runners - 1
  /\ UNCHANGED <<enabler, signals, pc, forks, sawstop, task>>

(* Faulty: expunges completed jobs only. *)
FiniDone_completed ==
  /\ Goto("fini", "exited")
  /\ \A p \in Pids : runner[p] \in {"unborn", "reaped"}
  /\ jobs_table' = [j \in Jobs |->
       IF jobs_table[j].status = "COMPLETED"
         THEN [jobs_table[j] EXCEPT !.is_free = TRUE, !.status = "NONE",
                                    !.is_canceled = FALSE]
         ELSE jobs_table[j]]
  /\ UNCHANGED <<active_runners, enabler, signals, processes>>

(* No child is left. *)
FiniDone ==
  /\ Goto("fini", "exited")
  /\ \A p \in Pids : runner[p] \in {"unborn", "reaped"}
  /\ jobs_table' = [j \in Jobs |->
       IF ~ jobs_table[j].is_free /\ jobs_table[j].status \in Ended
         THEN [jobs_table[j] EXCEPT !.is_free = TRUE, !.status = "NONE",
                                    !.is_canceled = FALSE]
         ELSE jobs_table[j]]
  /\ UNCHANGED <<active_runners, enabler, signals, processes>>

Exited == pc = "exited" /\ UNCHANGED vars
-----------------------------------------------------------------------------
(* The runner processes (the child's part of run_task).                    *)

(* setpgid(0, 0) *)
RunnerGroup(p) ==
  /\ runner[p] = "starting"
  /\ runner' = [runner EXCEPT ![p] = "running"]
  /\ UNCHANGED <<table, signals, pc, forks, event, sawstop, task>>

(* The pipeline ends, and the runner the same way: it exits with the       *)
(* status of the pipeline or kills itself with its signal.                 *)
PipelineEnds(p, how) ==
  /\ runner[p] = "running" /\ ~ sawstop[p]
  /\ runner' = [runner EXCEPT ![p] = how]
  /\ task' = [task EXCEPT ![p] = "ended"]
  /\ event' = [event EXCEPT ![p] = "none"]
  /\ sigchld' = TRUE
  /\ UNCHANGED <<table, sig_child_flag, pc, forks, sawstop>>

(* The runner takes a pipeline that had stopped for one that has ended. *)
RunnerExits(p) ==
  /\ runner[p] = "running" /\ sawstop[p]
  /\ runner' = [runner EXCEPT ![p] = "exited"]
  /\ event' = [event EXCEPT ![p] = "none"]
  /\ sigchld' = TRUE
  /\ UNCHANGED <<table, sig_child_flag, pc, forks, sawstop, task>>
-----------------------------------------------------------------------------
Command ==
  \/ Enable \/ Disable
  \/ \E j \in Jobs : \/ JobCreate(j) \/ JobExpunge(j) \/ JobCancel(j)
                     \/ JobPause(j) \/ JobResume(j)
  \/ Quit

Handler ==
  \/ SignalWakes \/ HookBegins
  \/ \E p \in Pids : ReapEnded(p) \/ ReapChanged(p)
  \/ ReapNone

Fini == FiniDone \/ \E p \in Pids : FiniReap(p)

Runner(p) ==
  RunnerGroup(p) \/ RunnerExits(p) \/ \E how \in Zombie : PipelineEnds(p, how)

Next ==
  \/ Command \/ Keystroke
  \/ Handler
  \/ Fini
  \/ \E p \in Pids : Runner(p)
  \/ Exited

Spec == Init /\ [][Next]_vars

(* Processes run and tasks end; and the user types something at times.     *)
FairSpec ==
  /\ Spec
  /\ WF_vars(Handler) /\ WF_vars(Fini) /\ WF_vars(Keystroke)
  /\ \A p \in Pids : WF_vars(Runner(p))
-----------------------------------------------------------------------------
(* PROPERTIES *)

Unreaped == {p \in Pids : runner[p] \in Alive \cup Zombie}
HeldRows == {j \in Jobs : jobs_table[j].status \in Held}

(* The count of runners, the rows that say they have one and the processes *)
(* that have not been reaped agree, whatever was paused, cancelled or has  *)
(* ended meanwhile; a job that is paused has no running runner.            *)
RunnersAccounted ==
  /\ active_runners = Cardinality(HeldRows)
  /\ {jobs_table[j].pgid : j \in HeldRows} = Unreaped
  /\ Cardinality(Unreaped) = Cardinality(HeldRows)
  /\ \A j \in HeldRows : jobs_table[j].status = "PAUSED" =>
       runner[jobs_table[j].pgid] \in {"stopped"} \cup Zombie

(* No runner stays unused: when the handler has dealt with every signal,   *)
(* a job waits only if starting jobs is disabled or all runners are busy.  *)
NoIdleRunner ==
  pc = "prompt" /\ ~ sig_child_flag /\ enabler = 1 =>
    Waiting(jobs_table) = {} \/ active_runners = MAX_RUNNERS

(* The states of a job: one that ended stays so until it is expunged, one  *)
(* that is cancelled is not run any further, and a job gets no second      *)
(* runner.  The code differs from jobber.h in one of them: a WAITING job   *)
(* that is cancelled becomes ABORTED at once (jobs.c:344-346), where       *)
(* jobber.h:33-34 and 206-208 have it CANCELED.                            *)
Successors(s) ==
  CASE s \in {"NEW", "NONE"} -> {"WAITING", "RUNNING"}
    [] s = "WAITING"  -> {"RUNNING", "ABORTED"}
    [] s = "RUNNING"  -> {"PAUSED", "CANCELED"} \cup Ended
    [] s = "PAUSED"   -> {"RUNNING", "CANCELED"} \cup Ended
    [] s = "CANCELED" -> Ended
    [] s \in Ended    -> {"NONE"}

(* Each job goes through the states of jobber.h, with the one difference   *)
(* above, which takes a cancellation, and leaves the states with a runner  *)
(* only with the outcome of that runner.  One whose task still runs is     *)
(* reported as COMPLETED only if its runner took the pausing of the        *)
(* pipeline for its end.                                                   *)
JobLife ==
  [][\A j \in Jobs :
       LET old == jobs_table[j] new == jobs_table'[j]
       IN  /\ new.status # old.status => new.status \in Successors(old.status)
           /\ old.status = "WAITING" /\ new.status = "ABORTED" => new.is_canceled
           /\ old.status \in Held /\ new.status \in Ended =>
                /\ new.pgid = old.pgid /\ runner[old.pgid] \in Zombie
                /\ new.status = "COMPLETED" <=> runner[old.pgid] = "exited"
                /\ new.status = "COMPLETED" =>
                     task[old.pgid] = "ended" \/ sawstop[old.pgid]]_vars

(* jobs_fini cancels what remains, waits for it and expunges it: nothing   *)
(* is left in the table and no runner is left behind.                      *)
QuitLeavesNothing ==
  pc = "exited" => /\ \A j \in Jobs : jobs_table[j].is_free
                   /\ Unreaped = {}

(* The end of a runner is noticed, if the user stops pausing and resuming  *)
(* jobs: no signal is lost between flag, handler and early returns.        *)
EndNoticed ==
  <>[][\A j \in Jobs : ~ JobPause(j) /\ ~ JobResume(j)]_vars =>
    \A p \in Pids : runner[p] \in Zombie ~> runner[p] = "reaped"

(* jobs_fini returns, if tasks end: even a paused one does not block it.   *)
FiniReturns == pc = "fini" ~> pc = "exited"

=============================================================================
