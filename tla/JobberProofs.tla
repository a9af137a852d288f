---------------------------- MODULE JobberProofs ----------------------------
(* The job table, the count of runners and the processes agree, and no     *)
(* runner stays unused, for any numbers of jobs, runners and processes:    *)
(* Inv is inductive.                                                       *)
EXTENDS Jobber, SetLemmas

Statuses == {"NEW", "NONE", "WAITING"} \cup Held \cup Ended

Row == [status : Statuses, is_free : BOOLEAN, is_canceled : BOOLEAN,
        pgid : 0..MaxForks]

Processes == {"unborn", "reaped"} \cup Alive \cup Zombie

TypeOK ==
  /\ jobs_table \in [Jobs -> Row]
  /\ active_runners \in 0..MAX_RUNNERS
  /\ enabler \in {0, 1}
  /\ sig_child_flag \in BOOLEAN /\ sigchld \in BOOLEAN
  /\ pc \in {"hook", "reap", "prompt", "fini", "exited"}
  /\ forks \in 0..MaxForks
  /\ runner \in [Pids -> Processes]
  /\ event \in [Pids -> {"none", "stopped", "continued"}]
  /\ sawstop \in [Pids -> BOOLEAN]
  /\ task \in [Pids -> {"none", "running", "ended"}]

HeldIn(tbl) == {j \in Jobs : tbl[j].status \in Held}

(* The runner of a paused job does not run; that of a cancelled job has    *)
(* ended.                                                                  *)
Rests(row, procs) ==
  /\ row.status = "PAUSED" => procs[row.pgid] \in {"stopped"} \cup Zombie
  /\ row.status = "CANCELED" => procs[row.pgid] \in Zombie

(* What a row says.  A job that claims a runner has one that has not been  *)
(* reaped.                                                                 *)
RowInv(tbl) ==
  \A j \in Jobs :
    /\ tbl[j].is_free <=> tbl[j].status \in {"NEW", "NONE"}
    /\ tbl[j].pgid <= forks
    /\ tbl[j].status \in Held => tbl[j].pgid \in Unreaped
    /\ Rests(tbl[j], runner)

(* No two rows have had the same runner. *)
OwnRunner(tbl) ==
  \A i, j \in Jobs : tbl[i].pgid = tbl[j].pgid /\ tbl[i].pgid # NoPid => i = j

(* Every runner that has not been reaped is that of a job which says so.   *)
Attended(tbl) == \A p \in Unreaped : \E j \in HeldIn(tbl) : tbl[j].pgid = p

(* A table agrees with the processes and with the count of runners.        *)
Agrees(tbl) ==
  /\ tbl \in [Jobs -> Row]
  /\ RowInv(tbl) /\ OwnRunner(tbl) /\ Attended(tbl)
  /\ active_runners = Cardinality(HeldIn(tbl))
  /\ forks + Cardinality(Waiting(tbl)) <= MaxForks

(* What has come of each process. *)
ProcessInv ==
  \A p \in Pids :
    /\ runner[p] = "unborn" <=> p > forks
    /\ event[p] # "none" => runner[p] \in {"running", "stopped"}
    /\ sawstop[p] => runner[p] \in {"running", "stopped", "exited", "reaped"}
    /\ runner[p] = "exited" => task[p] = "ended" \/ sawstop[p]

(* A job waits only while there is a reason, or while a call of the        *)
(* handler is due.                                                         *)
WaitInv ==
  /\ pc = "reap" => sig_child_flag
  /\ pc \in {"hook", "prompt"} /\ ~ sig_child_flag /\ enabler = 1 =>
       Waiting(jobs_table) = {} \/ active_runners = MAX_RUNNERS

(* jobs_fini lets no job wait and leaves no runner that may still stop.    *)
QuitInv ==
  pc \in {"fini", "exited"} =>
    /\ Waiting(jobs_table) = {}
    /\ \A p \in Pids : event[p] = "none"

Inv ==
  /\ TypeOK /\ Agrees(jobs_table) /\ ProcessInv /\ WaitInv /\ QuitInv
  /\ QuitLeavesNothing
-----------------------------------------------------------------------------
(* The order in which a loop over the table visits the jobs of a set.      *)

LEMMA FiniteJobs ==
  ASSUME NEW S \in SUBSET Jobs
  PROVE  IsFiniteSet(S) /\ Cardinality(S) \in Nat
<1>1. IsFiniteSet(Jobs)
  BY TableAssumption, FS_Interval DEF Jobs
<1> QED
  BY <1>1, FS_Subset, FS_CardinalityType

LEMMA RankBounds ==
  ASSUME NEW S \in SUBSET Jobs, NEW j \in S
  PROVE  Rank(S, j) \in 0..Cardinality(S) - 1
<1> DEFINE before == {i \in S : i < j}
<1>1. IsFiniteSet(S) /\ Cardinality(S) \in Nat
  BY FiniteJobs
<1>2. Cardinality(S \ {j}) = Cardinality(S) - 1 /\ IsFiniteSet(S \ {j})
  BY <1>1, FS_RemoveElement
<1>3. before \in SUBSET (S \ {j})
  BY DEF Jobs
<1>4. Cardinality(before) <= Cardinality(S \ {j})
  BY <1>2, <1>3, FS_Subset
<1>5. Cardinality(before) \in Nat
  BY <1>3, FiniteJobs
<1> QED
  BY <1>1, <1>2, <1>4, <1>5 DEF Rank

LEMMA RankAscends ==
  ASSUME NEW S \in SUBSET Jobs, NEW j \in S, NEW k \in S, j < k
  PROVE  Rank(S, j) < Rank(S, k)
<1> DEFINE older == {i \in S : i < k}
<1>1. older \in SUBSET Jobs /\ j \in older
  OBVIOUS
<1>2. {i \in S : i < j} = {i \in older : i < j}
  <2>1. \A i \in S : i \in Int
    BY DEF Jobs
  <2>2. \A i \in S : i < j => i < k
    BY <2>1
  <2> QED
    BY <2>2
<1>3. Rank(S, j) = Rank(older, j)
  BY <1>2 DEF Rank
<1>4. Rank(older, j) \in 0..Cardinality(older) - 1
  BY <1>1, RankBounds
<1>5. Cardinality(older) \in Nat
  BY <1>1, FiniteJobs
<1> QED
  BY <1>3, <1>4, <1>5 DEF Rank

LEMMA RankInjective ==
  ASSUME NEW S \in SUBSET Jobs, NEW j \in S, NEW k \in S,
         Rank(S, j) = Rank(S, k)
  PROVE  j = k
<1>1. j \in Int /\ k \in Int
  BY DEF Jobs
<1>2. Rank(S, j) \in Int /\ Rank(S, k) \in Int
  BY RankBounds, FiniteJobs
<1> QED
  BY <1>1, <1>2, RankAscends

(* There is a job of every rank: the ranks are as many as the jobs.        *)
LEMMA RankOnto ==
  ASSUME NEW S \in SUBSET Jobs, NEW n \in 0..Cardinality(S) - 1
  PROVE  \E j \in S : Rank(S, j) = n
<1> DEFINE T == 0..Cardinality(S) - 1
           f == [j \in S |-> Rank(S, j)]
<1>1. IsFiniteSet(S) /\ Cardinality(S) \in Nat
  BY FiniteJobs
<1>2. IsFiniteSet(T) /\ Cardinality(T) = Cardinality(S)
  BY <1>1, FS_Interval
<1>3. f \in [S -> T]
  BY RankBounds
<1>4. \A j, k \in S : f[j] = f[k] => j = k
  BY RankInjective
<1>5. f \in Injection(S, T)
  BY <1>3, <1>4 DEF Injection, IsInjective
<1>6. f \in Surjection(S, T)
  BY <1>2, <1>5, FS_Injection
<1> QED
  BY <1>6 DEF Surjection

(* The loop of jobs_set_enabled takes the first of the waiting jobs until  *)
(* none is left or the runners are all used.                               *)
LEMMA FirstAffordable ==
  ASSUME NEW W \in SUBSET Jobs, NEW m \in Nat, NEW a \in 0..m
  PROVE  LET C == {j \in W : a + Rank(W, j) < m}
         IN  /\ a + Cardinality(C) <= m
             /\ C = W \/ a + Cardinality(C) = m
<1> DEFINE C == {j \in W : a + Rank(W, j) < m}
<1>0. /\ Cardinality(C) \in Nat /\ Cardinality(W) \in Nat
      /\ C \in SUBSET Jobs /\ \A j \in W : Rank(W, j) \in 0..Cardinality(W) - 1
  BY FiniteJobs, RankBounds
<1>1. ASSUME NEW j \in C
      PROVE  Rank(C, j) = Rank(W, j)
  <2>1. ASSUME NEW i \in W, i < j
        PROVE  i \in C
    <3>1. Rank(W, i) < Rank(W, j)
      BY <2>1, RankAscends
    <3> QED
      BY <1>0, <3>1
  <2>2. {i \in C : i < j} = {i \in W : i < j}
    BY <2>1
  <2> QED
    BY <2>2 DEF Rank
<1>2. a + Cardinality(C) <= m
  <2> SUFFICES ASSUME a + Cardinality(C) > m
               PROVE  FALSE
    BY <1>0
  <2>0. m - a \in 0..Cardinality(C) - 1
    BY <1>0
  <2>1. PICK j \in C : Rank(C, j) = m - a
    BY <1>0, <2>0, RankOnto
  <2> QED
    BY <1>0, <1>1, <2>1
<1>3. ASSUME C # W
      PROVE  a + Cardinality(C) = m
  <2> SUFFICES ASSUME a + Cardinality(C) < m
               PROVE  FALSE
    BY <1>0, <1>2
  <2>1. PICK k \in W : a + Rank(W, k) >= m
    BY <1>0, <1>3
  <2>2. Cardinality(C) \in 0..Cardinality(W) - 1
    BY <1>0, <2>1
  <2>3. PICK j \in W : Rank(W, j) = Cardinality(C)
    BY <2>2, RankOnto
  <2>4. j \in C
    BY <1>0, <2>3
  <2>5. Rank(C, j) \in 0..Cardinality(C) - 1
    BY <1>0, <2>4, RankBounds
  <2> QED
    BY <1>0, <1>1, <2>3, <2>4, <2>5
<1> QED
  BY <1>2, <1>3
-----------------------------------------------------------------------------
(* The two ways in which the agreement survives a step that forks nothing. *)

(* Rows change only among the states with a runner, or to one without that *)
(* does not wait; no process is born or reaped.                            *)
LEMMA AgreementKept ==
  ASSUME TypeOK, Agrees(jobs_table), jobs_table' \in [Jobs -> Row],
         Unreaped' = Unreaped, UNCHANGED <<forks, active_runners>>,
         \A j \in Jobs :
           LET old == jobs_table[j] new == jobs_table'[j]
           IN  /\ new.pgid = old.pgid
               /\ new.status \in Held <=> old.status \in Held
               /\ new.status = "WAITING" => old.status = "WAITING"
               /\ new.is_free <=> new.status \in {"NEW", "NONE"}
               /\ Rests(new, runner')
  PROVE  /\ Agrees(jobs_table)'
         /\ Waiting(jobs_table)' \subseteq Waiting(jobs_table)
<1>1. HeldIn(jobs_table)' = HeldIn(jobs_table)
  BY DEF HeldIn
<1>2. Waiting(jobs_table)' \subseteq Waiting(jobs_table)
  BY DEF Waiting
<1>3. RowInv(jobs_table)'
  BY DEF Agrees, RowInv
<1>4. OwnRunner(jobs_table)'
  BY DEF Agrees, OwnRunner
<1>5. Attended(jobs_table)'
  <2> SUFFICES ASSUME NEW p \in Unreaped
               PROVE  \E j \in HeldIn(jobs_table) : jobs_table'[j].pgid = p
    BY <1>1 DEF Attended
  <2>1. PICK j \in HeldIn(jobs_table) : jobs_table[j].pgid = p
    BY DEF Agrees, Attended
  <2> QED
    BY <2>1 DEF HeldIn
<1>6. active_runners' = Cardinality(HeldIn(jobs_table)')
  BY <1>1 DEF Agrees
<1>7. forks' + Cardinality(Waiting(jobs_table)') <= MaxForks
  <2>1. Waiting(jobs_table) \in SUBSET Jobs
    BY DEF Waiting
  <2>2. /\ IsFiniteSet(Waiting(jobs_table))
        /\ Cardinality(Waiting(jobs_table)) \in Nat
        /\ Cardinality(Waiting(jobs_table)') \in Nat
    BY <1>2, <2>1, FiniteJobs
  <2>3. Cardinality(Waiting(jobs_table)') <= Cardinality(Waiting(jobs_table))
    BY <1>2, <2>2, FS_Subset
  <2>4. /\ forks + Cardinality(Waiting(jobs_table)) <= MaxForks
        /\ forks' = forks /\ forks \in Nat /\ MaxForks \in Nat
    BY TableAssumption DEF Agrees, TypeOK
  <2> QED
    BY ONLY <2>2, <2>3, <2>4
<1> QED
  BY <1>2, <1>3, <1>4, <1>5, <1>6, <1>7 DEF Agrees

(* A runner that has ended is that of exactly one row, which says so, and  *)
(* no other row has its number.                                            *)
LEMMA RowOfRunner ==
  ASSUME TypeOK, Agrees(jobs_table), NEW p \in Unreaped
  PROVE  \E j \in HeldIn(jobs_table) : RowsOf(p) = {j} /\ Min(RowsOf(p)) = j
<1>1. PICK j \in HeldIn(jobs_table) : jobs_table[j].pgid = p
  BY DEF Agrees, Attended
<1>2. p # NoPid /\ j \in Jobs
  BY DEF Unreaped, Pids, NoPid, HeldIn
<1>3. RowsOf(p) = {j}
  BY <1>1, <1>2 DEF RowsOf, Agrees, OwnRunner
<1>4. RowsOf(p) \in SUBSET Nat
  BY DEF RowsOf, Jobs
<1>5. Min(RowsOf(p)) \in RowsOf(p)
  BY <1>3, <1>4, MinOfPositions
<1> QED
  BY <1>3, <1>5

(* Reaping a runner that has ended takes it from the processes, its job    *)
(* from those with a runner and one from the count.                        *)
LEMMA ReapingKeepsAgreement ==
  ASSUME TypeOK, Agrees(jobs_table), ProcessInv,
         NEW p \in Pids, runner[p] \in Zombie,
         runner' = [runner EXCEPT ![p] = "reaped"],
         NEW j \in HeldIn(jobs_table), RowsOf(p) = {j},
         jobs_table' = [jobs_table EXCEPT ![j] = Outcome(@, p)],
         active_runners' = active_runners - 1, UNCHANGED forks
  PROVE  /\ Agrees(jobs_table)'
         /\ Waiting(jobs_table)' = Waiting(jobs_table)
         /\ active_runners' \in 0..MAX_RUNNERS
<1>0. j \in Jobs /\ jobs_table \in [Jobs -> Row] /\ jobs_table[j] \in Row
  BY DEF HeldIn, TypeOK
<1>1. jobs_table[j].status \in Held /\ jobs_table[j].pgid = p
  BY DEF HeldIn, RowsOf
<1>2. /\ \A i \in Jobs : i # j => jobs_table'[i] = jobs_table[i]
      /\ jobs_table'[j] = Outcome(jobs_table[j], p)
  BY <1>0
<1>3. /\ jobs_table'[j] \in Row /\ jobs_table'[j].status \in Ended
      /\ jobs_table'[j].pgid = p
      /\ jobs_table'[j].is_free = jobs_table[j].is_free
  BY <1>0, <1>1, <1>2 DEF Outcome, Row, Statuses, Ended
<1>4. jobs_table' \in [Jobs -> Row]
  BY <1>0, <1>3 DEF Outcome
<1>5. Unreaped' = Unreaped \ {p}
  BY DEF Unreaped, Alive, Zombie, TypeOK
<1>6. \A i \in Jobs : i # j => jobs_table[i].pgid # p
  BY DEF RowsOf
<1>7. RowInv(jobs_table)'
  <2> SUFFICES ASSUME NEW i \in Jobs
               PROVE  /\ jobs_table'[i].is_free <=>
                           jobs_table'[i].status \in {"NEW", "NONE"}
                      /\ jobs_table'[i].pgid <= forks'
                      /\ jobs_table'[i].status \in Held =>
                           jobs_table'[i].pgid \in Unreaped'
                      /\ Rests(jobs_table'[i], runner')
    BY DEF RowInv
  <2>1. CASE i = j
    BY <1>0, <1>1, <1>3, <2>1 DEF Agrees, RowInv, Held, Ended, Rests
  <2>2. CASE i # j
    <3>1. jobs_table'[i] = jobs_table[i] /\ jobs_table[i].pgid # p
      BY <1>2, <1>6, <2>2
    <3>2. jobs_table[i].status \in Held => jobs_table[i].pgid \in Pids
      BY DEF Agrees, RowInv, Unreaped
    <3>3. jobs_table[i].status \in Held =>
            runner'[jobs_table[i].pgid] = runner[jobs_table[i].pgid]
      BY <3>1, <3>2 DEF TypeOK
    <3>4. Rests(jobs_table[i], runner')
      BY <3>3 DEF Agrees, RowInv, Rests, Held
    <3> QED
      BY <1>5, <3>1, <3>4 DEF Agrees, RowInv
  <2> QED
    BY <2>1, <2>2
<1>8. OwnRunner(jobs_table)'
  <2>1. \A i \in Jobs : jobs_table'[i].pgid = jobs_table[i].pgid
    BY <1>1, <1>2, <1>3
  <2> QED
    BY <2>1 DEF Agrees, OwnRunner
<1>9. HeldIn(jobs_table)' = HeldIn(jobs_table) \ {j}
  BY <1>2, <1>3 DEF HeldIn, Held, Ended
<1>10. Attended(jobs_table)'
  <2> SUFFICES ASSUME NEW q \in Unreaped, q # p
               PROVE  \E i \in HeldIn(jobs_table)' : jobs_table'[i].pgid = q
    BY <1>5 DEF Attended
  <2>1. PICK i \in HeldIn(jobs_table) : jobs_table[i].pgid = q
    BY DEF Agrees, Attended
  <2>2. i # j
    BY <1>1, <2>1
  <2> QED
    BY <1>2, <1>9, <2>1, <2>2 DEF HeldIn
<1>11. Waiting(jobs_table)' = Waiting(jobs_table)
  BY <1>1, <1>2, <1>3 DEF Waiting, Held, Ended
<1>12. /\ active_runners' = Cardinality(HeldIn(jobs_table)')
       /\ active_runners' \in 0..MAX_RUNNERS
  <2>1. HeldIn(jobs_table) \in SUBSET Jobs
    BY DEF HeldIn
  <2>2. IsFiniteSet(HeldIn(jobs_table))
    BY <2>1, FiniteJobs
  <2>3. Cardinality(HeldIn(jobs_table) \ {j})
          = Cardinality(HeldIn(jobs_table)) - 1
    BY <2>2, FS_RemoveElement
  <2>4. Cardinality(HeldIn(jobs_table)') \in Nat
    BY <1>9, <2>1, FiniteJobs
  <2>5. /\ active_runners = Cardinality(HeldIn(jobs_table))
        /\ active_runners \in 0..MAX_RUNNERS /\ MAX_RUNNERS \in Nat
    BY TableAssumption DEF Agrees, TypeOK
  <2>6. active_runners' = active_runners - 1
    OBVIOUS
  <2> QED
    BY ONLY <1>9, <2>3, <2>4, <2>5, <2>6
<1>13. forks' + Cardinality(Waiting(jobs_table)') <= MaxForks
  BY <1>11 DEF Agrees
<1> QED
  BY <1>4, <1>7, <1>8, <1>10, <1>11, <1>12, <1>13 DEF Agrees
-----------------------------------------------------------------------------
(* What forking a runner for some of the waiting jobs does.                *)

LEMMA NewRunners ==
  ASSUME forks \in Nat, NEW C \in SUBSET Jobs
  PROVE  LET Pid(j) == forks + 1 + Rank(C, j)
         IN  /\ \A j \in C : Pid(j) \in forks + 1..forks + Cardinality(C)
             /\ \A i, j \in C : Pid(i) = Pid(j) => i = j
             /\ {Pid(j) : j \in C} = forks + 1..forks + Cardinality(C)
<1> DEFINE Pid(j) == forks + 1 + Rank(C, j)
<1>0. /\ Cardinality(C) \in Nat
      /\ \A j \in C : Rank(C, j) \in 0..Cardinality(C) - 1
  BY FiniteJobs, RankBounds
<1>1. \A j \in C : Pid(j) \in forks + 1..forks + Cardinality(C)
  BY <1>0
<1>2. ASSUME NEW i \in C, NEW j \in C, Pid(i) = Pid(j)
      PROVE  i = j
  BY <1>0, <1>2, RankInjective
<1>3. ASSUME NEW p \in forks + 1..forks + Cardinality(C)
      PROVE  \E j \in C : Pid(j) = p
  <2>1. p - forks - 1 \in 0..Cardinality(C) - 1
    BY <1>0, <1>3
  <2>2. PICK j \in C : Rank(C, j) = p - forks - 1
    BY <2>1, RankOnto
  <2> QED
    BY <2>2
<1> QED
  BY <1>1, <1>2, <1>3

(* What run_task leaves of the agreement of a table and the processes: the *)
(* chosen jobs and the new processes join those that agreed before.        *)
LEMMA RunTasksKeepsBooks ==
  ASSUME TypeOK, ProcessInv, NEW tbl, Agrees(tbl),
         NEW C \in SUBSET Waiting(tbl),
         active_runners + Cardinality(C) <= MAX_RUNNERS,
         RunTasks(tbl, C)
  PROVE  /\ Agrees(jobs_table)' /\ ProcessInv'
         /\ Waiting(jobs_table)' = Waiting(tbl) \ C
         /\ active_runners' = active_runners + Cardinality(C)
         /\ active_runners' \in 0..MAX_RUNNERS /\ forks' \in 0..MaxForks
         /\ runner' \in [Pids -> Processes]
         /\ task' \in [Pids -> {"none", "running", "ended"}]
<1> DEFINE Pid(j) == forks + 1 + Rank(C, j)
           started == {Pid(j) : j \in C}
           n == Cardinality(C)
<1>0. /\ C \in SUBSET Jobs /\ n \in Nat /\ forks \in Nat
      /\ Waiting(tbl) \in SUBSET Jobs
      /\ IsFiniteSet(Waiting(tbl)) /\ Cardinality(Waiting(tbl)) \in Nat
      /\ MAX_RUNNERS \in Nat /\ MaxForks \in Nat /\ active_runners \in Nat
  BY FiniteJobs, TableAssumption DEF Waiting, TypeOK
<1>1. /\ \A j \in C : Pid(j) \in forks + 1..forks + n
      /\ \A i, j \in C : Pid(i) = Pid(j) => i = j
      /\ started = forks + 1..forks + n
  BY <1>0, NewRunners
<1>2. /\ jobs_table' = [j \in Jobs |->
           IF j \in C THEN [tbl[j] EXCEPT !.pgid = Pid(j), !.status = "RUNNING"]
                      ELSE tbl[j]]
      /\ active_runners' = active_runners + n
      /\ forks' = forks + n
      /\ runner' = [p \in Pids |-> IF p \in started THEN "starting"
                                                    ELSE runner[p]]
      /\ task' = [p \in Pids |-> IF p \in started THEN "running" ELSE task[p]]
      /\ UNCHANGED <<event, sawstop>>
  BY DEF RunTasks
<1> HIDE DEF Pid, started, n
<1>3. n <= Cardinality(Waiting(tbl))
  BY <1>0, FS_Subset DEF n
<1>4. forks' \in 0..MaxForks /\ forks + n <= MaxForks
  <2>1. forks + Cardinality(Waiting(tbl)) <= MaxForks
    BY DEF Agrees
  <2>2. forks' = forks + n
    BY <1>2
  <2> HIDE DEF n
  <2> QED
    BY ONLY <1>0, <1>3, <2>1, <2>2
<1>5. started \subseteq Pids
  BY <1>0, <1>1, <1>4 DEF Pids
<1>6. \A p \in started : runner[p] = "unborn" /\ p > forks
  BY <1>0, <1>1, <1>5 DEF ProcessInv
<1>7. ProcessInv'
  <2> SUFFICES ASSUME NEW p \in Pids
               PROVE  /\ runner'[p] = "unborn" <=> p > forks'
                      /\ event'[p] # "none" =>
                           runner'[p] \in {"running", "stopped"}
                      /\ sawstop'[p] =>
                           runner'[p] \in {"running", "stopped", "exited",
                                           "reaped"}
                      /\ runner'[p] = "exited" =>
                           task'[p] = "ended" \/ sawstop'[p]
    BY DEF ProcessInv
  <2>1. CASE p \in started
    <3>1. runner'[p] = "starting" /\ task'[p] = "running"
      BY <1>2, <2>1
    <3>2. event'[p] = event[p] /\ sawstop'[p] = sawstop[p]
      BY <1>2
    <3>3. forks' = forks + n /\ p \in forks + 1..forks + n
      BY <1>1, <1>2, <2>1
    <3>4. runner[p] = "unborn"
      BY <1>6, <2>1
    <3>5. ~ (p > forks')
      BY ONLY <1>0, <3>3
    <3> QED
      BY <3>1, <3>2, <3>4, <3>5 DEF ProcessInv
  <2>2. CASE p \notin started
    <3>1. p > forks <=> p > forks + n
      BY <1>0, <1>1, <2>2 DEF Pids
    <3> QED
      BY <1>2, <2>2, <3>1 DEF ProcessInv
  <2> QED
    BY <2>1, <2>2
<1>8. Unreaped' = Unreaped \cup started
  BY <1>2, <1>5 DEF Unreaped, Alive, Zombie
<1>9. \A j \in Jobs : tbl[j] \in Row
  BY DEF Agrees
<1>10. \A j \in C : jobs_table'[j] = [tbl[j] EXCEPT !.pgid = Pid(j),
                                                    !.status = "RUNNING"]
  BY <1>0, <1>2
<1>11. \A j \in C : /\ jobs_table'[j].status = "RUNNING"
                    /\ jobs_table'[j].pgid = Pid(j)
                    /\ jobs_table'[j].is_free = tbl[j].is_free
                    /\ tbl[j].status = "WAITING" /\ ~ tbl[j].is_free
  <2> SUFFICES ASSUME NEW j \in C
               PROVE  /\ jobs_table'[j].status = "RUNNING"
                      /\ jobs_table'[j].pgid = Pid(j)
                      /\ jobs_table'[j].is_free = tbl[j].is_free
                      /\ tbl[j].status = "WAITING" /\ ~ tbl[j].is_free
    OBVIOUS
  <2>1. tbl[j] \in Row
    BY <1>0, <1>9
  <2>2. tbl[j].status = "WAITING"
    BY DEF Waiting
  <2>3. ~ tbl[j].is_free
    BY <1>0, <2>2 DEF Agrees, RowInv
  <2> QED
    BY <1>10, <2>1, <2>2, <2>3 DEF Row
<1>12. \A j \in Jobs \ C : jobs_table'[j] = tbl[j]
  BY <1>2
<1>13. jobs_table' \in [Jobs -> Row]
  <2>1. \A j \in C : Pid(j) \in 0..MaxForks
    BY <1>0, <1>1, <1>4
  <2>2. \A j \in C : jobs_table'[j] \in Row
    BY <1>0, <1>9, <1>10, <2>1 DEF Row, Statuses, Held
  <2> QED
    BY <1>2, <1>9, <1>12, <2>2
<1>14. RowInv(jobs_table)'
  <2> SUFFICES ASSUME NEW j \in Jobs
               PROVE  /\ jobs_table'[j].is_free <=>
                           jobs_table'[j].status \in {"NEW", "NONE"}
                      /\ jobs_table'[j].pgid <= forks'
                      /\ jobs_table'[j].status \in Held =>
                           jobs_table'[j].pgid \in Unreaped'
                      /\ Rests(jobs_table'[j], runner')
    BY DEF RowInv
  <2>1. CASE j \in C
    <3>1. Pid(j) \in started /\ Pid(j) <= forks + n
      BY <1>0, <1>1, <2>1
    <3>2. /\ jobs_table'[j].status = "RUNNING"
          /\ jobs_table'[j].pgid = Pid(j) /\ ~ jobs_table'[j].is_free
      BY <1>11, <2>1
    <3>3. forks' = forks + n
      BY <1>2
    <3>4. Rests(jobs_table'[j], runner')
      BY <3>2 DEF Rests
    <3> QED
      BY <1>8, <3>1, <3>2, <3>3, <3>4
  <2>2. CASE j \notin C
    <3>1. jobs_table'[j] = tbl[j] /\ tbl[j].pgid <= forks + n
      BY <1>0, <1>9, <1>12, <2>2 DEF Agrees, RowInv, Row
    <3>2. Rests(tbl[j], runner')
      <4> SUFFICES ASSUME tbl[j].status \in Held
                   PROVE  Rests(tbl[j], runner')
        BY DEF Rests, Held
      <4>1. tbl[j].pgid \in Unreaped /\ runner[tbl[j].pgid] # "unborn"
        BY DEF Agrees, RowInv, Unreaped, Alive, Zombie
      <4>2. tbl[j].pgid \in Pids /\ tbl[j].pgid \notin started
        BY <1>6, <4>1 DEF Unreaped
      <4>3. runner'[tbl[j].pgid] = runner[tbl[j].pgid]
        BY <1>2, <4>2
      <4> QED
        BY <4>3 DEF Agrees, RowInv, Rests
    <3>3. forks' = forks + n
      BY <1>2
    <3>4. /\ tbl[j].is_free <=> tbl[j].status \in {"NEW", "NONE"}
          /\ tbl[j].status \in Held => tbl[j].pgid \in Unreaped
      BY DEF Agrees, RowInv
    <3> QED
      BY <1>8, <3>1, <3>2, <3>3, <3>4
  <2> QED
    BY <2>1, <2>2
<1>15. OwnRunner(jobs_table)'
  <2> SUFFICES ASSUME NEW i \in Jobs, NEW j \in Jobs,
                      jobs_table'[i].pgid = jobs_table'[j].pgid,
                      jobs_table'[i].pgid # NoPid
               PROVE  i = j
    BY DEF OwnRunner
  <2>1. \A k \in Jobs \ C : jobs_table'[k].pgid <= forks
    BY <1>12 DEF Agrees, RowInv
  <2>2. \A k \in C : jobs_table'[k].pgid > forks
    BY <1>0, <1>1, <1>11
  <2>3. \A k \in Jobs \ C : jobs_table'[k].pgid \in Nat
    BY <1>9, <1>12, <1>0 DEF Row
  <2>4. CASE i \in C /\ j \in C
    BY <1>1, <1>11, <2>4
  <2>5. CASE i \notin C /\ j \notin C
    BY <1>12, <2>5 DEF Agrees, OwnRunner
  <2> QED
    BY <1>0, <2>1, <2>2, <2>3, <2>4, <2>5
<1>16. HeldIn(jobs_table)' = HeldIn(tbl) \cup C /\ HeldIn(tbl) \cap C = {}
  BY <1>0, <1>11, <1>12 DEF HeldIn, Held
<1>17. Attended(jobs_table)'
  <2> SUFFICES ASSUME NEW p \in Unreaped'
               PROVE  \E j \in HeldIn(jobs_table)' : jobs_table'[j].pgid = p
    BY DEF Attended
  <2>1. CASE p \in started
    BY <1>11, <1>16, <2>1 DEF started
  <2>2. CASE p \in Unreaped
    <3>1. PICK j \in HeldIn(tbl) : tbl[j].pgid = p
      BY <2>2 DEF Agrees, Attended
    <3> QED
      BY <1>12, <1>16, <3>1 DEF HeldIn
  <2> QED
    BY <1>8, <2>1, <2>2
<1>18. active_runners' = Cardinality(HeldIn(jobs_table)')
  <2>1. HeldIn(tbl) \in SUBSET Jobs
    BY DEF HeldIn
  <2>2. /\ IsFiniteSet(HeldIn(tbl)) /\ IsFiniteSet(C)
        /\ Cardinality(HeldIn(tbl)) \in Nat
    BY <1>0, <2>1, FiniteJobs
  <2>3. Cardinality(HeldIn(tbl) \cup C)
          = Cardinality(HeldIn(tbl)) + n - Cardinality(HeldIn(tbl) \cap C)
    BY <2>2, FS_Union DEF n
  <2>4. Cardinality(HeldIn(tbl) \cap C) = 0
    BY <1>16, FS_EmptySet
  <2>5. active_runners' = Cardinality(HeldIn(tbl)) + n
    BY <1>2 DEF Agrees
  <2> QED
    BY <1>0, <1>16, <2>2, <2>3, <2>4, <2>5
<1>19. Waiting(jobs_table)' = Waiting(tbl) \ C
  BY <1>0, <1>11, <1>12 DEF Waiting
<1>20. forks' + Cardinality(Waiting(jobs_table)') <= MaxForks
  <2>1. Waiting(tbl) = (Waiting(tbl) \ C) \cup C
    OBVIOUS
  <2>2. /\ IsFiniteSet(Waiting(tbl) \ C) /\ IsFiniteSet(C)
        /\ Cardinality(Waiting(tbl) \ C) \in Nat
    BY <1>0, FiniteJobs
  <2>3. (Waiting(tbl) \ C) \cap C = {}
    OBVIOUS
  <2> DEFINE rest == Waiting(tbl) \ C
  <2>4. Cardinality(rest \cup C)
          = Cardinality(rest) + n - Cardinality(rest \cap C)
    BY <2>2, FS_Union DEF n
  <2>5. Cardinality(rest \cap C) = 0
    BY <2>3, FS_EmptySet
  <2>6. Cardinality(rest) \in Nat
    BY <2>2
  <2>7. Cardinality(Waiting(tbl)) = Cardinality(rest) + n
    <3>1. Waiting(tbl) = rest \cup C
      BY <2>1
    <3> HIDE DEF rest
    <3> QED
      BY ONLY <1>0, <2>4, <2>5, <2>6, <3>1
  <2>8. /\ Waiting(jobs_table)' = rest /\ forks' = forks + n
        /\ forks + Cardinality(Waiting(tbl)) <= MaxForks
    BY <1>2, <1>19 DEF Agrees
  <2> HIDE DEF rest
  <2> QED
    BY ONLY <1>0, <2>6, <2>7, <2>8
<1>21. Agrees(jobs_table)'
  BY <1>13, <1>14, <1>15, <1>17, <1>18, <1>20 DEF Agrees
<1>22. active_runners' \in 0..MAX_RUNNERS
  <2>1. active_runners' = active_runners + n
    BY <1>2
  <2>2. active_runners + n <= MAX_RUNNERS
    BY DEF n
  <2> QED
    BY ONLY <1>0, <2>1, <2>2
<1>23. /\ runner' \in [Pids -> Processes]
       /\ task' \in [Pids -> {"none", "running", "ended"}]
  BY <1>2 DEF TypeOK, Processes, Alive
<1> QED
  BY <1>2, <1>4, <1>7, <1>19, <1>21, <1>22, <1>23 DEF n
-----------------------------------------------------------------------------
(* Inv is inductive. *)

LEMMA InitInv ==
  ASSUME Init
  PROVE  Inv
<1>1. /\ 0 \in 0..MAX_RUNNERS /\ 0 \in 0..MaxForks /\ MaxForks \in Nat
      /\ \A p \in Pids : p > 0
  BY TableAssumption DEF Pids
<1>2. TypeOK
  BY <1>1 DEF Init, TypeOK, Row, Statuses, Processes, NoPid
<1>3. Unreaped = {}
  BY DEF Init, Unreaped, Alive, Zombie
<1>4. HeldIn(jobs_table) = {} /\ Waiting(jobs_table) = {}
  BY DEF Init, HeldIn, Waiting, Held
<1>5. Agrees(jobs_table)
  <2>1. RowInv(jobs_table) /\ OwnRunner(jobs_table)
    BY <1>1 DEF Init, RowInv, OwnRunner, Rests, Held, NoPid
  <2>2. Attended(jobs_table)
    BY <1>3 DEF Attended
  <2>3. /\ active_runners = Cardinality(HeldIn(jobs_table))
        /\ forks + Cardinality(Waiting(jobs_table)) <= MaxForks
    <3>1. active_runners = 0 /\ forks = 0 /\ Cardinality({}) = 0
      BY FS_EmptySet DEF Init
    <3> QED
      BY ONLY <1>1, <1>4, <3>1
  <2> QED
    BY <1>2, <2>1, <2>2, <2>3 DEF Agrees, TypeOK
<1>6. ProcessInv
  BY <1>1 DEF Init, ProcessInv
<1> QED
  BY <1>2, <1>5, <1>6 DEF Inv, Init, WaitInv, QuitInv, QuitLeavesNothing

(* The loop of jobs_set_enabled leaves no reason to wait. *)
LEMMA StartWaitingEffect ==
  ASSUME Inv, StartWaiting
  PROVE  /\ Agrees(jobs_table)' /\ ProcessInv'
         /\ Waiting(jobs_table)' = {} \/ active_runners' = MAX_RUNNERS
         /\ active_runners' \in 0..MAX_RUNNERS /\ forks' \in 0..MaxForks
         /\ runner' \in [Pids -> Processes]
         /\ task' \in [Pids -> {"none", "running", "ended"}]
         /\ UNCHANGED <<event, sawstop>>
<1> DEFINE W == Waiting(jobs_table)
           C == {j \in W : active_runners + Rank(W, j) < MAX_RUNNERS}
<1>1. RunTasks(jobs_table, C)
  BY DEF StartWaiting
<1>2. UNCHANGED <<event, sawstop>>
  BY <1>1 DEF RunTasks
<1>3. /\ W \in SUBSET Jobs /\ C \in SUBSET W
      /\ MAX_RUNNERS \in Nat /\ active_runners \in 0..MAX_RUNNERS
  BY TableAssumption DEF Waiting, Inv, TypeOK
<1>4. /\ active_runners + Cardinality(C) <= MAX_RUNNERS
      /\ C = W \/ active_runners + Cardinality(C) = MAX_RUNNERS
  BY <1>3, FirstAffordable
<1> HIDE DEF C
<1>5. /\ Agrees(jobs_table)' /\ ProcessInv'
      /\ Waiting(jobs_table)' = W \ C
      /\ active_runners' = active_runners + Cardinality(C)
      /\ active_runners' \in 0..MAX_RUNNERS /\ forks' \in 0..MaxForks
      /\ runner' \in [Pids -> Processes]
      /\ task' \in [Pids -> {"none", "running", "ended"}]
  BY <1>1, <1>3, <1>4, RunTasksKeepsBooks DEF Inv
<1> QED
  BY <1>2, <1>4, <1>5

LEMMA EnableInv ==
  ASSUME Inv, Enable
  PROVE  Inv'
<1>1. StartWaiting /\ pc' = "hook" /\ enabler' = 1 /\ UNCHANGED signals
  BY DEF Enable, Goto
<1>2. /\ Agrees(jobs_table)' /\ ProcessInv'
      /\ Waiting(jobs_table)' = {} \/ active_runners' = MAX_RUNNERS
      /\ active_runners' \in 0..MAX_RUNNERS /\ forks' \in 0..MaxForks
      /\ runner' \in [Pids -> Processes]
      /\ task' \in [Pids -> {"none", "running", "ended"}]
      /\ UNCHANGED <<event, sawstop>>
  BY <1>1, StartWaitingEffect
<1>3. TypeOK'
  BY <1>1, <1>2 DEF Inv, TypeOK, Agrees, signals
<1>4. WaitInv' /\ QuitInv' /\ QuitLeavesNothing'
  BY <1>1, <1>2 DEF WaitInv, QuitInv, QuitLeavesNothing
<1> QED
  BY <1>2, <1>3, <1>4 DEF Inv

LEMMA ReapNoneInv ==
  ASSUME Inv, ReapNone
  PROVE  Inv'
<1>1. /\ pc' = "prompt" /\ sig_child_flag' = FALSE
      /\ UNCHANGED <<enabler, sigchld>>
  BY DEF ReapNone, Goto
<1>2. CASE enabler = 1
  <2>1. StartWaiting
    BY <1>2 DEF ReapNone
  <2>2. /\ Agrees(jobs_table)' /\ ProcessInv'
        /\ Waiting(jobs_table)' = {} \/ active_runners' = MAX_RUNNERS
        /\ active_runners' \in 0..MAX_RUNNERS /\ forks' \in 0..MaxForks
        /\ runner' \in [Pids -> Processes]
        /\ task' \in [Pids -> {"none", "running", "ended"}]
        /\ UNCHANGED <<event, sawstop>>
    BY <2>1, StartWaitingEffect
  <2>3. TypeOK'
    BY <1>1, <2>2 DEF Inv, TypeOK, Agrees
  <2>4. WaitInv' /\ QuitInv' /\ QuitLeavesNothing'
    BY <1>1, <2>2 DEF WaitInv, QuitInv, QuitLeavesNothing
  <2> QED
    BY <2>2, <2>3, <2>4 DEF Inv
<1>3. CASE enabler # 1
  <2>1. UNCHANGED <<jobs_table, active_runners, processes>>
    BY <1>3 DEF ReapNone
  <2>2. TypeOK'
    BY <1>1, <2>1 DEF Inv, TypeOK, processes
  <2>3. Agrees(jobs_table)' /\ ProcessInv'
    BY <2>1 DEF Inv, Agrees, RowInv, OwnRunner, Attended, HeldIn, Waiting,
                ProcessInv, Unreaped, processes
  <2>4. WaitInv' /\ QuitInv' /\ QuitLeavesNothing'
    BY <1>1, <1>3 DEF WaitInv, QuitInv, QuitLeavesNothing
  <2> QED
    BY <2>2, <2>3, <2>4 DEF Inv
<1> QED
  BY <1>2, <1>3

(* Steps that leave table, count and processes alone. *)
LEMMA QuietInv ==
  ASSUME Inv, UNCHANGED <<jobs_table, active_runners, processes>>,
         enabler' \in {0, 1}, sig_child_flag' \in BOOLEAN, sigchld' \in BOOLEAN,
         pc' \in {"hook", "reap", "prompt"}, WaitInv'
  PROVE  Inv'
<1>1. TypeOK'
  BY DEF Inv, TypeOK, processes
<1>2. Agrees(jobs_table)' /\ ProcessInv'
  BY DEF Inv, Agrees, RowInv, OwnRunner, Attended, HeldIn, Waiting,
         ProcessInv, Unreaped, processes
<1> QED
  BY <1>1, <1>2 DEF Inv, QuitInv, QuitLeavesNothing

LEMMA DisableInv ==
  ASSUME Inv, Disable
  PROVE  Inv'
<1>1. WaitInv'
  BY DEF Disable, Goto, WaitInv
<1> QED
  BY <1>1, QuietInv DEF Disable, Goto, Inv, TypeOK, signals

LEMMA KeystrokeInv ==
  ASSUME Inv, Keystroke
  PROVE  Inv'
<1>1. WaitInv'
  BY DEF Keystroke, Goto, Inv, WaitInv, Waiting, table, signals
<1> QED
  BY <1>1, QuietInv DEF Keystroke, Goto, Inv, TypeOK, table, signals

LEMMA SignalWakesInv ==
  ASSUME Inv, SignalWakes
  PROVE  Inv'
<1>1. WaitInv'
  BY DEF SignalWakes, Goto, WaitInv
<1> QED
  BY <1>1, QuietInv DEF SignalWakes, Goto, Inv, TypeOK, table

LEMMA HookBeginsInv ==
  ASSUME Inv, HookBegins
  PROVE  Inv'
<1>1. WaitInv'
  BY DEF HookBegins, Inv, TypeOK, WaitInv, Waiting, table
<1> QED
  BY <1>1, QuietInv DEF HookBegins, Inv, TypeOK, table

LEMMA JobCreateInv ==
  ASSUME Inv, NEW j \in Jobs, JobCreate(j)
  PROVE  Inv'
<1> DEFINE filled == [jobs_table EXCEPT
             ![j] = [@ EXCEPT !.status = "WAITING", !.is_free = FALSE]]
           C == IF enabler = 0 \/ active_runners = MAX_RUNNERS THEN {} ELSE {j}
<1>0. /\ pc = "prompt" /\ pc' = "hook" /\ UNCHANGED <<enabler, signals>>
      /\ jobs_table[j].is_free
      /\ forks + Cardinality(Waiting(jobs_table)) < MaxForks
      /\ RunTasks(filled, C)
  BY DEF JobCreate, Goto
<1>1. /\ jobs_table \in [Jobs -> Row] /\ jobs_table[j] \in Row
      /\ jobs_table[j].status \in {"NEW", "NONE"}
  BY <1>0 DEF Inv, TypeOK, Agrees, RowInv
<1>2. /\ \A i \in Jobs : i # j => filled[i] = jobs_table[i]
      /\ filled[j].status = "WAITING" /\ filled[j].is_free = FALSE
      /\ filled[j].pgid = jobs_table[j].pgid /\ filled[j] \in Row
  BY <1>1 DEF Row, Statuses
<1>3. filled \in [Jobs -> Row]
  BY <1>1, <1>2
<1> HIDE DEF filled
<1>4. HeldIn(filled) = HeldIn(jobs_table)
  BY <1>1, <1>2 DEF HeldIn, Held
<1>5. Waiting(filled) = Waiting(jobs_table) \cup {j} /\ j \notin Waiting(jobs_table)
  BY <1>1, <1>2 DEF Waiting
<1>6. Agrees(filled)
  <2>1. RowInv(filled)
    BY <1>2 DEF Inv, Agrees, RowInv, Rests, Held
  <2>2. OwnRunner(filled)
    BY <1>2 DEF Inv, Agrees, OwnRunner
  <2>3. Attended(filled)
    <3> SUFFICES ASSUME NEW p \in Unreaped
                 PROVE  \E i \in HeldIn(jobs_table) : filled[i].pgid = p
      BY <1>4 DEF Attended
    <3>1. PICK i \in HeldIn(jobs_table) : jobs_table[i].pgid = p
      BY DEF Inv, Agrees, Attended
    <3> QED
      BY <1>1, <1>2, <3>1 DEF HeldIn, Held
  <2>4. active_runners = Cardinality(HeldIn(filled))
    BY <1>4 DEF Inv, Agrees
  <2>5. forks + Cardinality(Waiting(filled)) <= MaxForks
    <3>1. /\ IsFiniteSet(Waiting(jobs_table))
          /\ Cardinality(Waiting(jobs_table)) \in Nat
      BY FiniteJobs DEF Waiting
    <3>2. Cardinality(Waiting(filled)) = Cardinality(Waiting(jobs_table)) + 1
      BY <1>5, <3>1, FS_AddElement
    <3>3. forks \in Nat /\ MaxForks \in Nat
      BY TableAssumption DEF Inv, TypeOK
    <3> QED
      BY ONLY <1>0, <3>1, <3>2, <3>3
  <2> QED
    BY <1>3, <2>1, <2>2, <2>3, <2>4, <2>5 DEF Agrees
<1>7. /\ C \in SUBSET Waiting(filled)
      /\ active_runners + Cardinality(C) <= MAX_RUNNERS
  <2>1. active_runners \in 0..MAX_RUNNERS /\ MAX_RUNNERS \in Nat
    BY TableAssumption DEF Inv, TypeOK
  <2>2. Cardinality({}) = 0 /\ Cardinality({j}) = 1
    BY FS_EmptySet, FS_Singleton
  <2>3. C \in SUBSET Waiting(filled)
    BY <1>5
  <2>4. CASE C = {}
    BY <2>1, <2>2, <2>3, <2>4
  <2>5. CASE C = {j} /\ active_runners # MAX_RUNNERS
    BY <2>1, <2>2, <2>3, <2>5
  <2> QED
    BY <2>4, <2>5
<1>8. /\ Agrees(jobs_table)' /\ ProcessInv'
      /\ Waiting(jobs_table)' = Waiting(filled) \ C
      /\ active_runners' = active_runners + Cardinality(C)
      /\ active_runners' \in 0..MAX_RUNNERS /\ forks' \in 0..MaxForks
      /\ runner' \in [Pids -> Processes]
      /\ task' \in [Pids -> {"none", "running", "ended"}]
  BY <1>0, <1>6, <1>7, RunTasksKeepsBooks DEF Inv
<1>9. TypeOK'
  BY <1>0, <1>8 DEF Inv, TypeOK, Agrees, RunTasks, signals
<1>10. WaitInv'
  <2> SUFFICES ASSUME ~ sig_child_flag, enabler = 1
               PROVE  \/ Waiting(jobs_table)' = {}
                      \/ active_runners' = MAX_RUNNERS
    BY <1>0 DEF WaitInv, signals
  <2>1. CASE active_runners = MAX_RUNNERS
    BY <1>8, <2>1, FS_EmptySet, TableAssumption
  <2>2. CASE active_runners # MAX_RUNNERS
    <3>1. Waiting(jobs_table) = {}
      BY <1>0, <2>2 DEF Inv, WaitInv
    <3> QED
      BY <1>5, <1>8, <2>2, <3>1
  <2> QED
    BY <2>1, <2>2
<1>11. QuitInv' /\ QuitLeavesNothing'
  BY <1>0 DEF QuitInv, QuitLeavesNothing
<1> QED
  BY <1>8, <1>9, <1>10, <1>11 DEF Inv

(* Waiting jobs become fewer or stay, and the count of runners stays.      *)
LEMMA FewerWait ==
  ASSUME Inv, Waiting(jobs_table)' \subseteq Waiting(jobs_table),
         UNCHANGED <<active_runners, enabler, sig_child_flag>>,
         pc = "prompt", pc' = "hook"
  PROVE  WaitInv' /\ QuitInv' /\ QuitLeavesNothing'
BY DEF Inv, WaitInv, QuitInv, QuitLeavesNothing

LEMMA JobExpungeInv ==
  ASSUME Inv, NEW j \in Jobs, JobExpunge(j)
  PROVE  Inv'
<1>0. /\ pc = "prompt" /\ pc' = "hook"
      /\ UNCHANGED <<active_runners, enabler, signals, processes>>
      /\ jobs_table[j].status \in Ended
  BY DEF JobExpunge, Goto
<1>1. jobs_table \in [Jobs -> Row] /\ jobs_table[j] \in Row
  BY DEF Inv, TypeOK
<1>2. /\ jobs_table' \in [Jobs -> Row]
      /\ \A i \in Jobs : i # j => jobs_table'[i] = jobs_table[i]
      /\ jobs_table'[j].status = "NONE" /\ jobs_table'[j].is_free
      /\ jobs_table'[j].pgid = jobs_table[j].pgid
  BY <1>1 DEF JobExpunge, Row, Statuses
<1>3. Unreaped' = Unreaped
  BY <1>0 DEF Unreaped, processes
<1>4. /\ Agrees(jobs_table)'
      /\ Waiting(jobs_table)' \subseteq Waiting(jobs_table)
  <2>1. ASSUME NEW i \in Jobs
        PROVE  LET old == jobs_table[i] new == jobs_table'[i]
               IN  /\ new.pgid = old.pgid
                   /\ new.status \in Held <=> old.status \in Held
                   /\ new.status = "WAITING" => old.status = "WAITING"
                   /\ new.is_free <=> new.status \in {"NEW", "NONE"}
                   /\ Rests(new, runner')
    <3>1. CASE i = j
      BY <1>0, <1>2, <3>1 DEF Held, Ended, Rests
    <3>2. CASE i # j
      BY <1>0, <1>2, <3>2 DEF Inv, Agrees, RowInv, processes
    <3> QED
      BY <3>1, <3>2
  <2> QED
    BY <1>0, <1>2, <1>3, <2>1, AgreementKept DEF Inv, processes
<1>5. ProcessInv'
  BY <1>0 DEF Inv, ProcessInv, processes
<1>6. TypeOK'
  BY <1>0, <1>2 DEF Inv, TypeOK, processes, signals
<1>7. WaitInv' /\ QuitInv' /\ QuitLeavesNothing'
  BY <1>0, <1>4, FewerWait DEF signals
<1> QED
  BY <1>4, <1>5, <1>6, <1>7 DEF Inv

(* What SIGKILL to some groups does to the processes. *)
LEMMA KillEffect ==
  ASSUME Inv, NEW victims, Kill(victims)
  PROVE  /\ runner' \in [Pids -> Processes]
         /\ event' \in [Pids -> {"none", "stopped", "continued"}]
         /\ sawstop' \in [Pids -> BOOLEAN] /\ sigchld' \in BOOLEAN
         /\ task' \in [Pids -> {"none", "running", "ended"}]
         /\ forks' = forks /\ Unreaped' = Unreaped /\ ProcessInv'
         /\ \A p \in Pids : /\ runner[p] \in Zombie => runner'[p] \in Zombie
                            /\ p \in victims /\ runner[p] \in Alive =>
                                 runner'[p] \in Zombie /\ event'[p] = "none"
                            /\ p \notin victims =>
                                 runner'[p] = runner[p] /\ event'[p] = event[p]
<1> DEFINE killed == {p \in victims : runner[p] \in Alive}
<1>1. /\ runner' = [p \in Pids |-> IF p \in killed THEN "signaled"
                                                   ELSE runner[p]]
      /\ event' = [p \in Pids |-> IF p \in killed THEN "none" ELSE event[p]]
      /\ task' = [p \in Pids |-> IF p \in victims THEN "ended" ELSE task[p]]
      /\ sawstop' = [p \in Pids |-> sawstop[p] /\ p \notin killed]
      /\ forks' = forks
  BY DEF Kill
<1>2. sigchld' \in BOOLEAN
  BY DEF Kill, Inv, TypeOK
<1>3. /\ runner' \in [Pids -> Processes]
      /\ event' \in [Pids -> {"none", "stopped", "continued"}]
      /\ sawstop' \in [Pids -> BOOLEAN]
      /\ task' \in [Pids -> {"none", "running", "ended"}]
  BY <1>1 DEF Inv, TypeOK, Processes, Zombie
<1>4. ASSUME NEW p \in Pids, p \in killed
      PROVE  /\ p \in victims /\ runner[p] \in Alive
             /\ runner'[p] = "signaled" /\ event'[p] = "none"
             /\ ~ sawstop'[p] /\ task'[p] = "ended"
  BY <1>1, <1>4
<1>5. ASSUME NEW p \in Pids, p \notin killed
      PROVE  /\ p \notin victims \/ runner[p] \notin Alive
             /\ runner'[p] = runner[p] /\ event'[p] = event[p]
             /\ sawstop'[p] <=> sawstop[p]
             /\ task'[p] \in {task[p], "ended"}
  BY <1>1, <1>5
<1> HIDE DEF killed
<1>6. Unreaped' = Unreaped
  <2> SUFFICES ASSUME NEW p \in Pids
               PROVE  runner'[p] \in Alive \cup Zombie <=>
                        runner[p] \in Alive \cup Zombie
    BY DEF Unreaped
  <2> QED
    BY <1>4, <1>5 DEF Alive, Zombie
<1>7. ProcessInv'
  <2> SUFFICES ASSUME NEW p \in Pids
               PROVE  /\ runner'[p] = "unborn" <=> p > forks
                      /\ event'[p] # "none" =>
                           runner'[p] \in {"running", "stopped"}
                      /\ sawstop'[p] =>
                           runner'[p] \in {"running", "stopped", "exited",
                                           "reaped"}
                      /\ runner'[p] = "exited" =>
                           task'[p] = "ended" \/ sawstop'[p]
    BY <1>1 DEF ProcessInv
  <2>1. CASE p \in killed
    BY <1>4, <2>1 DEF Inv, ProcessInv, Alive
  <2>2. CASE p \notin killed
    BY <1>5, <2>2 DEF Inv, ProcessInv
  <2> QED
    BY <2>1, <2>2
<1>8. ASSUME NEW p \in Pids
      PROVE  /\ runner[p] \in Zombie => runner'[p] \in Zombie
             /\ p \in victims /\ runner[p] \in Alive =>
                  runner'[p] \in Zombie /\ event'[p] = "none"
             /\ p \notin victims =>
                  runner'[p] = runner[p] /\ event'[p] = event[p]
  BY <1>4, <1>5 DEF Zombie
<1> QED
  BY <1>1, <1>2, <1>3, <1>6, <1>7, <1>8

(* Canceling is for the state of the row alone. *)
LEMMA CanceledRow ==
  ASSUME NEW row \in Row, NEW status \in {"CANCELED", "ABORTED"}
  PROVE  /\ Canceled(row, status) \in Row
         /\ Canceled(row, status).status = status
         /\ Canceled(row, status).pgid = row.pgid
         /\ Canceled(row, status).is_free = row.is_free
         /\ Canceled(row, status).is_canceled
BY DEF Canceled, Row, Statuses, Held, Ended

(* A row with a runner leaves its runner's number to no other row.         *)
LEMMA HeldPids ==
  ASSUME Inv, NEW j \in Jobs, jobs_table[j].status \in Held
  PROVE  /\ jobs_table[j].pgid \in Pids /\ jobs_table[j].pgid \in Unreaped
         /\ \A i \in Jobs : jobs_table[i].pgid = jobs_table[j].pgid => i = j
<1>1. jobs_table[j].pgid \in Unreaped
  BY DEF Inv, Agrees, RowInv
<1>2. jobs_table[j].pgid \in Pids /\ jobs_table[j].pgid # NoPid
  BY <1>1 DEF Unreaped, Pids, NoPid
<1> QED
  BY <1>1, <1>2 DEF Inv, Agrees, OwnRunner

LEMMA JobCancelInv ==
  ASSUME Inv, NEW j \in Jobs, JobCancel(j)
  PROVE  Inv'
<1> DEFINE p == jobs_table[j].pgid
<1>0. /\ pc = "prompt" /\ pc' = "hook"
      /\ UNCHANGED <<active_runners, enabler, sig_child_flag>>
  BY DEF JobCancel, Goto
<1>1. jobs_table \in [Jobs -> Row] /\ jobs_table[j] \in Row
  BY DEF Inv, TypeOK
<1>2. CASE /\ jobs_table[j].status \in {"RUNNING", "PAUSED"} /\ HasGroup(p)
           /\ Kill({p})
           /\ jobs_table' = [jobs_table EXCEPT ![j] = Canceled(@, "CANCELED")]
  <2>1. /\ jobs_table' \in [Jobs -> Row]
        /\ \A i \in Jobs : i # j => jobs_table'[i] = jobs_table[i]
        /\ jobs_table'[j].status = "CANCELED"
        /\ jobs_table'[j].is_free = jobs_table[j].is_free
        /\ jobs_table'[j].pgid = p
    BY <1>1, <1>2, CanceledRow
  <2>2. /\ runner' \in [Pids -> Processes]
        /\ event' \in [Pids -> {"none", "stopped", "continued"}]
        /\ sawstop' \in [Pids -> BOOLEAN] /\ sigchld' \in BOOLEAN
        /\ task' \in [Pids -> {"none", "running", "ended"}]
        /\ forks' = forks /\ Unreaped' = Unreaped /\ ProcessInv'
    BY <1>2, KillEffect
  <2>3. ASSUME NEW q \in Pids
        PROVE  /\ q # p => runner'[q] = runner[q]
               /\ q = p /\ runner[q] \in Alive \cup Zombie => runner'[q] \in Zombie
    BY <1>2, KillEffect
  <2>4. /\ p \in Pids /\ p \in Unreaped
        /\ \A i \in Jobs : jobs_table[i].pgid = p => i = j
    BY <1>2, HeldPids DEF Held
  <2>5. runner'[p] \in Zombie
    <3>1. runner[p] \in Alive \cup Zombie
      BY <2>4 DEF Unreaped
    <3> HIDE DEF p
    <3> QED
      BY ONLY <2>3, <2>4, <3>1
  <2>6. /\ Agrees(jobs_table)'
        /\ Waiting(jobs_table)' \subseteq Waiting(jobs_table)
    <3>1. ASSUME NEW i \in Jobs
          PROVE  LET old == jobs_table[i] new == jobs_table'[i]
                 IN  /\ new.pgid = old.pgid
                     /\ new.status \in Held <=> old.status \in Held
                     /\ new.status = "WAITING" => old.status = "WAITING"
                     /\ new.is_free <=> new.status \in {"NEW", "NONE"}
                     /\ Rests(new, runner')
      <4>1. CASE i = j
        BY <1>2, <2>1, <2>5, <4>1 DEF Inv, Agrees, RowInv, Rests, Held
      <4>2. CASE i # j
        <5>1. jobs_table'[i] = jobs_table[i] /\ jobs_table[i].pgid # p
          BY <2>1, <2>4, <4>2
        <5>2. ASSUME jobs_table[i].status \in Held
              PROVE  runner'[jobs_table[i].pgid] = runner[jobs_table[i].pgid]
          <6>1. jobs_table[i].pgid \in Pids
            BY <5>2, HeldPids
          <6> HIDE DEF p
          <6> QED
            BY ONLY <2>3, <5>1, <6>1
        <5> QED
          BY <5>1, <5>2 DEF Inv, Agrees, RowInv, Rests, Held
      <4> QED
        BY <4>1, <4>2
    <3> QED
      BY <1>0, <2>1, <2>2, <3>1, AgreementKept DEF Inv
  <2>7. TypeOK'
    BY <1>0, <2>1, <2>2 DEF Inv, TypeOK
  <2>8. WaitInv' /\ QuitInv' /\ QuitLeavesNothing'
    BY <1>0, <2>6, FewerWait
  <2> QED
    BY <2>2, <2>6, <2>7, <2>8 DEF Inv
<1>3. CASE /\ jobs_table[j].status = "WAITING"
           /\ jobs_table' = [jobs_table EXCEPT ![j] = Canceled(@, "ABORTED")]
           /\ UNCHANGED <<sigchld, processes>>
  <2>1. /\ jobs_table' \in [Jobs -> Row]
        /\ \A i \in Jobs : i # j => jobs_table'[i] = jobs_table[i]
        /\ jobs_table'[j].status = "ABORTED"
        /\ jobs_table'[j].is_free = jobs_table[j].is_free
        /\ jobs_table'[j].pgid = p
    BY <1>1, <1>3, CanceledRow
  <2>2. Unreaped' = Unreaped /\ UNCHANGED <<forks, active_runners>>
    BY <1>0, <1>3 DEF Unreaped, processes
  <2>3. /\ Agrees(jobs_table)'
        /\ Waiting(jobs_table)' \subseteq Waiting(jobs_table)
    <3>1. ASSUME NEW i \in Jobs
          PROVE  LET old == jobs_table[i] new == jobs_table'[i]
                 IN  /\ new.pgid = old.pgid
                     /\ new.status \in Held <=> old.status \in Held
                     /\ new.status = "WAITING" => old.status = "WAITING"
                     /\ new.is_free <=> new.status \in {"NEW", "NONE"}
                     /\ Rests(new, runner')
      <4>1. CASE i = j
        BY <1>3, <2>1, <4>1 DEF Inv, Agrees, RowInv, Rests, Held
      <4>2. CASE i # j
        BY <1>3, <2>1, <4>2 DEF Inv, Agrees, RowInv, processes
      <4> QED
        BY <4>1, <4>2
    <3> QED
      BY <2>1, <2>2, <3>1, AgreementKept DEF Inv
  <2>4. ProcessInv'
    BY <1>3 DEF Inv, ProcessInv, processes
  <2>5. TypeOK'
    BY <1>0, <1>3, <2>1 DEF Inv, TypeOK, processes
  <2>6. WaitInv' /\ QuitInv' /\ QuitLeavesNothing'
    BY <1>0, <2>3, FewerWait
  <2> QED
    BY <2>3, <2>4, <2>5, <2>6 DEF Inv
<1> QED
  BY <1>2, <1>3 DEF JobCancel

(* The row of one job changes from one state with a runner to another.     *)
LEMMA OneRowChanges ==
  ASSUME Inv, NEW j \in Jobs, jobs_table[j].status \in Held,
         NEW status \in Held,
         jobs_table' = [jobs_table EXCEPT ![j].status = status],
         Unreaped' = Unreaped, UNCHANGED <<forks, active_runners>>,
         Rests([jobs_table[j] EXCEPT !.status = status], runner'),
         \A q \in Pids : q # jobs_table[j].pgid => runner'[q] = runner[q]
  PROVE  /\ Agrees(jobs_table)' /\ jobs_table' \in [Jobs -> Row]
         /\ Waiting(jobs_table)' \subseteq Waiting(jobs_table)
<1>1. jobs_table \in [Jobs -> Row] /\ jobs_table[j] \in Row
  BY DEF Inv, TypeOK
<1>2. /\ \A i \in Jobs : i # j => jobs_table'[i] = jobs_table[i]
      /\ jobs_table'[j] = [jobs_table[j] EXCEPT !.status = status]
  BY <1>1
<1>3. /\ jobs_table'[j] \in Row /\ jobs_table'[j].status = status
      /\ jobs_table'[j].pgid = jobs_table[j].pgid
      /\ jobs_table'[j].is_free = jobs_table[j].is_free
  BY <1>1, <1>2 DEF Row, Statuses
<1>4. jobs_table' \in [Jobs -> Row]
  BY <1>1, <1>2, <1>3
<1>5. \A i \in Jobs : jobs_table[i].pgid = jobs_table[j].pgid => i = j
  BY HeldPids
<1>6. ASSUME NEW i \in Jobs
      PROVE  LET old == jobs_table[i] new == jobs_table'[i]
             IN  /\ new.pgid = old.pgid
                 /\ new.status \in Held <=> old.status \in Held
                 /\ new.status = "WAITING" => old.status = "WAITING"
                 /\ new.is_free <=> new.status \in {"NEW", "NONE"}
                 /\ Rests(new, runner')
  <2>1. CASE i = j
    <3>1. ~ jobs_table[j].is_free
      BY DEF Inv, Agrees, RowInv, Held
    <3> QED
      BY <1>2, <1>3, <2>1, <3>1 DEF Held
  <2>2. CASE i # j
    <3>1. jobs_table'[i] = jobs_table[i]
      BY <1>2, <2>2
    <3>2. ASSUME jobs_table[i].status \in Held
          PROVE  runner'[jobs_table[i].pgid] = runner[jobs_table[i].pgid]
      BY <1>5, <2>2, <3>2, HeldPids
    <3> QED
      BY <3>1, <3>2 DEF Inv, Agrees, RowInv, Rests, Held
  <2> QED
    BY <2>1, <2>2
<1> QED
  BY <1>4, <1>6, AgreementKept DEF Inv

LEMMA JobPauseInv ==
  ASSUME Inv, NEW j \in Jobs, JobPause(j)
  PROVE  Inv'
<1> DEFINE p == jobs_table[j].pgid
<1>0. /\ pc = "prompt" /\ pc' = "hook"
      /\ UNCHANGED <<active_runners, enabler, sig_child_flag, forks, task>>
      /\ jobs_table[j].status = "RUNNING" /\ HasGroup(p)
      /\ jobs_table' = [jobs_table EXCEPT ![j].status = "PAUSED"]
  BY DEF JobPause, Goto
<1>1. p \in Pids /\ p \in Unreaped
  BY <1>0, HeldPids DEF Held
<1>2. /\ runner' \in [Pids -> Processes] /\ ProcessInv'
      /\ event' \in [Pids -> {"none", "stopped", "continued"}]
      /\ sawstop' \in [Pids -> BOOLEAN] /\ sigchld' \in BOOLEAN
      /\ Unreaped' = Unreaped /\ runner'[p] \in {"stopped"} \cup Zombie
      /\ \A q \in Pids : q # p => runner'[q] = runner[q]
  <2>1. CASE runner[p] = "running"
    <3>1. /\ runner' = [runner EXCEPT ![p] = "stopped"]
          /\ event' = [event EXCEPT ![p] = "stopped"]
          /\ \E b \in BOOLEAN : sawstop' = [sawstop EXCEPT ![p] = @ \/ b]
          /\ sigchld' = TRUE
      BY <2>1 DEF JobPause
    <3>2. /\ runner'[p] = "stopped" /\ event'[p] = "stopped"
          /\ \A q \in Pids : q # p => /\ runner'[q] = runner[q]
                                     /\ event'[q] = event[q]
                                     /\ sawstop'[q] = sawstop[q]
      BY <1>1, <3>1 DEF Inv, TypeOK
    <3>3. /\ runner' \in [Pids -> Processes]
          /\ event' \in [Pids -> {"none", "stopped", "continued"}]
      BY <3>1 DEF Inv, TypeOK, Processes, Alive
    <3>4. sawstop' \in [Pids -> BOOLEAN]
      BY <3>1 DEF Inv, TypeOK
    <3>5. Unreaped' = Unreaped
      BY <1>1, <2>1, <3>2 DEF Unreaped, Alive
    <3>6. ProcessInv'
      BY <1>0, <1>1, <2>1, <3>2 DEF Inv, ProcessInv
    <3> QED
      BY <3>1, <3>2, <3>3, <3>4, <3>5, <3>6
  <2>2. CASE runner[p] # "running"
    <3>1. UNCHANGED <<runner, event, sawstop, sigchld>>
      BY <2>2 DEF JobPause
    <3>2. runner[p] \in {"stopped"} \cup Zombie
      BY <1>0, <2>2 DEF HasGroup
    <3> QED
      BY <1>0, <3>1, <3>2 DEF Inv, TypeOK, ProcessInv, Unreaped
  <2> QED
    BY <2>1, <2>2
<1>3. Rests([jobs_table[j] EXCEPT !.status = "PAUSED"], runner')
  <2>1. jobs_table[j] \in Row
    BY DEF Inv, TypeOK
  <2>2. /\ [jobs_table[j] EXCEPT !.status = "PAUSED"].status = "PAUSED"
        /\ [jobs_table[j] EXCEPT !.status = "PAUSED"].pgid = p
    BY <2>1 DEF Row
  <2> QED
    BY <1>2, <2>2 DEF Rests
<1>4. /\ Agrees(jobs_table)' /\ jobs_table' \in [Jobs -> Row]
      /\ Waiting(jobs_table)' \subseteq Waiting(jobs_table)
  BY <1>0, <1>2, <1>3, OneRowChanges DEF Held
<1>5. TypeOK'
  BY <1>0, <1>2, <1>4 DEF Inv, TypeOK
<1>6. WaitInv' /\ QuitInv' /\ QuitLeavesNothing'
  BY <1>0, <1>4, FewerWait
<1> QED
  BY <1>2, <1>4, <1>5, <1>6 DEF Inv

LEMMA JobResumeInv ==
  ASSUME Inv, NEW j \in Jobs, JobResume(j)
  PROVE  Inv'
<1> DEFINE p == jobs_table[j].pgid
<1>0. /\ pc = "prompt" /\ pc' = "hook"
      /\ UNCHANGED <<active_runners, enabler, sig_child_flag, forks, sawstop,
                     task>>
      /\ jobs_table[j].status = "PAUSED" /\ HasGroup(p)
      /\ jobs_table' = [jobs_table EXCEPT ![j].status = "RUNNING"]
  BY DEF JobResume, Goto
<1>1. p \in Pids /\ p \in Unreaped
  BY <1>0, HeldPids DEF Held
<1>2. /\ runner' \in [Pids -> Processes] /\ ProcessInv'
      /\ event' \in [Pids -> {"none", "stopped", "continued"}]
      /\ sigchld' \in BOOLEAN /\ Unreaped' = Unreaped
      /\ \A q \in Pids : q # p => runner'[q] = runner[q]
  <2>1. CASE runner[p] = "stopped"
    <3>1. /\ runner' = [runner EXCEPT ![p] = "running"]
          /\ event' = [event EXCEPT ![p] = "continued"]
          /\ sigchld' = TRUE
      BY <2>1 DEF JobResume
    <3>2. /\ runner'[p] = "running" /\ event'[p] = "continued"
          /\ \A q \in Pids : q # p => /\ runner'[q] = runner[q]
                                     /\ event'[q] = event[q]
      BY <1>1, <3>1 DEF Inv, TypeOK
    <3>3. /\ runner' \in [Pids -> Processes]
          /\ event' \in [Pids -> {"none", "stopped", "continued"}]
      BY <3>1 DEF Inv, TypeOK, Processes, Alive
    <3>4. Unreaped' = Unreaped
      BY <1>1, <2>1, <3>2 DEF Unreaped, Alive
    <3>5. ProcessInv'
      BY <1>0, <1>1, <2>1, <3>2 DEF Inv, ProcessInv
    <3> QED
      BY <3>1, <3>2, <3>3, <3>4, <3>5
  <2>2. CASE runner[p] # "stopped"
    <3>1. UNCHANGED <<runner, event, sigchld>>
      BY <2>2 DEF JobResume
    <3> QED
      BY <1>0, <3>1 DEF Inv, TypeOK, ProcessInv, Unreaped
  <2> QED
    BY <2>1, <2>2
<1>3. Rests([jobs_table[j] EXCEPT !.status = "RUNNING"], runner')
  <2>1. jobs_table[j] \in Row
    BY DEF Inv, TypeOK
  <2>2. [jobs_table[j] EXCEPT !.status = "RUNNING"].status = "RUNNING"
    BY <2>1 DEF Row
  <2> QED
    BY <2>2 DEF Rests
<1>4. /\ Agrees(jobs_table)' /\ jobs_table' \in [Jobs -> Row]
      /\ Waiting(jobs_table)' \subseteq Waiting(jobs_table)
  BY <1>0, <1>2, <1>3, OneRowChanges DEF Held
<1>5. TypeOK'
  BY <1>0, <1>2, <1>4 DEF Inv, TypeOK
<1>6. WaitInv' /\ QuitInv' /\ QuitLeavesNothing'
  BY <1>0, <1>4, FewerWait
<1> QED
  BY <1>2, <1>4, <1>5, <1>6 DEF Inv

(* waitpid reports the end of a runner: it is that of one job with a       *)
(* runner, and no handler finds a runner in no row.                        *)
LEMMA ReapEndedInv ==
  ASSUME Inv, NEW p \in Pids, ReapEnded(p)
  PROVE  Inv'
<1>0. /\ pc = "reap" /\ runner[p] \in Zombie
      /\ runner' = [runner EXCEPT ![p] = "reaped"]
      /\ UNCHANGED <<enabler, signals, forks, event, sawstop, task>>
  BY DEF ReapEnded
<1>1. PICK j \in HeldIn(jobs_table) : RowsOf(p) = {j} /\ Min(RowsOf(p)) = j
  BY <1>0, RowOfRunner DEF Inv, Unreaped
<1>2. /\ jobs_table' = [jobs_table EXCEPT ![j] = Outcome(@, p)]
      /\ active_runners' = active_runners - 1
      /\ UNCHANGED pc
  BY <1>1 DEF ReapEnded
<1>3. /\ Agrees(jobs_table)'
      /\ Waiting(jobs_table)' = Waiting(jobs_table)
      /\ active_runners' \in 0..MAX_RUNNERS
  BY <1>0, <1>1, <1>2, ReapingKeepsAgreement DEF Inv
<1>4. TypeOK'
  BY <1>0, <1>2, <1>3 DEF Inv, TypeOK, Agrees, Processes, signals
<1>5. ProcessInv'
  BY <1>0 DEF Inv, TypeOK, ProcessInv, Zombie
<1>6. WaitInv' /\ QuitInv' /\ QuitLeavesNothing'
  BY <1>0, <1>2 DEF Inv, WaitInv, QuitInv, QuitLeavesNothing, signals
<1> QED
  BY <1>3, <1>4, <1>5, <1>6 DEF Inv

LEMMA ReapChangedInv ==
  ASSUME Inv, NEW p \in Pids, ReapChanged(p)
  PROVE  Inv'
<1>0. /\ pc = "reap" /\ pc' = "prompt" /\ sig_child_flag
      /\ event' = [event EXCEPT ![p] = "none"]
      /\ UNCHANGED <<table, signals, forks, runner, sawstop, task>>
  BY DEF ReapChanged, Goto, Inv, WaitInv
<1>1. TypeOK'
  BY <1>0 DEF Inv, TypeOK, table, signals
<1>2. Agrees(jobs_table)'
  BY <1>0 DEF Inv, Agrees, RowInv, OwnRunner, Attended, HeldIn, Waiting,
              Unreaped, table
<1>3. ProcessInv'
  BY <1>0 DEF Inv, TypeOK, ProcessInv
<1>4. WaitInv' /\ QuitInv' /\ QuitLeavesNothing'
  BY <1>0 DEF WaitInv, QuitInv, QuitLeavesNothing, signals
<1> QED
  BY <1>1, <1>2, <1>3, <1>4 DEF Inv

LEMMA QuitStepInv ==
  ASSUME Inv, Quit
  PROVE  Inv'
<1> DEFINE held == {j \in Jobs :
                      /\ jobs_table[j].status \in {"RUNNING", "PAUSED"}
                      /\ HasGroup(jobs_table[j].pgid)}
           victims == {jobs_table[j].pgid : j \in held}
<1>0. /\ pc' = "fini" /\ Kill(victims)
      /\ jobs_table' = [j \in Jobs |->
           IF j \in held THEN Canceled(jobs_table[j], "CANCELED")
           ELSE IF j \in Waiting(jobs_table)
                  THEN Canceled(jobs_table[j], "ABORTED")
           ELSE jobs_table[j]]
      /\ UNCHANGED <<active_runners, enabler, sig_child_flag>>
  BY DEF Quit, Goto
<1>1. \A j \in Jobs : jobs_table[j] \in Row
  BY DEF Inv, TypeOK
<1>2. /\ runner' \in [Pids -> Processes]
      /\ event' \in [Pids -> {"none", "stopped", "continued"}]
      /\ sawstop' \in [Pids -> BOOLEAN] /\ sigchld' \in BOOLEAN
      /\ task' \in [Pids -> {"none", "running", "ended"}]
      /\ forks' = forks /\ Unreaped' = Unreaped /\ ProcessInv'
  BY <1>0, KillEffect
<1>3. ASSUME NEW p \in Pids
      PROVE  /\ p \in victims /\ p \in Unreaped => runner'[p] \in Zombie
             /\ p \notin victims =>
                  runner'[p] = runner[p] /\ event'[p] = event[p]
  <2>1. p \in Unreaped => runner[p] \in Alive \cup Zombie
    BY DEF Unreaped
  <2>2. /\ runner[p] \in Zombie => runner'[p] \in Zombie
        /\ p \in victims /\ runner[p] \in Alive => runner'[p] \in Zombie
        /\ p \notin victims => runner'[p] = runner[p] /\ event'[p] = event[p]
    BY <1>0, KillEffect
  <2> HIDE DEF victims
  <2> QED
    BY ONLY <2>1, <2>2
<1>4. ASSUME NEW j \in held
      PROVE  /\ j \in Jobs /\ jobs_table[j].status \in {"RUNNING", "PAUSED"}
             /\ jobs_table'[j] = Canceled(jobs_table[j], "CANCELED")
             /\ jobs_table[j].pgid \in victims
  BY <1>0
<1>5. ASSUME NEW j \in Jobs, j \notin held, jobs_table[j].status = "WAITING"
      PROVE  jobs_table'[j] = Canceled(jobs_table[j], "ABORTED")
  BY <1>0, <1>5 DEF Waiting
<1>6. ASSUME NEW j \in Jobs, j \notin held, jobs_table[j].status # "WAITING"
      PROVE  jobs_table'[j] = jobs_table[j]
  BY <1>0, <1>6 DEF Waiting
<1>7. ASSUME NEW j \in Jobs, j \notin held, jobs_table[j].pgid \in victims
      PROVE  jobs_table[j].status \notin Held
  <2>1. PICK i \in held : jobs_table[i].pgid = jobs_table[j].pgid
    BY <1>7
  <2> QED
    BY <1>7, <2>1, HeldPids DEF Held
<1>8. ASSUME NEW j \in Jobs, jobs_table[j].status \in {"RUNNING", "PAUSED"},
             HasGroup(jobs_table[j].pgid)
      PROVE  j \in held
  BY <1>8
<1> HIDE DEF held, victims
<1>9. jobs_table' \in [Jobs -> Row]
  <2>1. ASSUME NEW j \in Jobs
        PROVE  jobs_table'[j] \in Row
    BY <1>1, <1>4, <1>5, <1>6, CanceledRow
  <2> QED
    BY <1>0, <2>1
<1>10. /\ Agrees(jobs_table)'
       /\ Waiting(jobs_table)' \subseteq Waiting(jobs_table)
  <2>1. ASSUME NEW j \in Jobs
        PROVE  LET old == jobs_table[j] new == jobs_table'[j]
               IN  /\ new.pgid = old.pgid
                   /\ new.status \in Held <=> old.status \in Held
                   /\ new.status = "WAITING" => old.status = "WAITING"
                   /\ new.is_free <=> new.status \in {"NEW", "NONE"}
                   /\ Rests(new, runner')
    <3>1. CASE j \in held
      <4>1. /\ jobs_table'[j].status = "CANCELED"
            /\ jobs_table'[j].pgid = jobs_table[j].pgid
            /\ jobs_table'[j].is_free = jobs_table[j].is_free
        BY <1>1, <1>4, <3>1, CanceledRow
      <4>2. jobs_table[j].status \in Held /\ ~ jobs_table[j].is_free
        BY <1>4, <3>1 DEF Held, Inv, Agrees, RowInv
      <4>3. /\ jobs_table[j].pgid \in Pids /\ jobs_table[j].pgid \in Unreaped
            /\ jobs_table[j].pgid \in victims
        BY <1>4, <3>1, <4>2, HeldPids
      <4>4. runner'[jobs_table[j].pgid] \in Zombie
        BY ONLY <1>3, <4>3
      <4> QED
        BY <4>1, <4>2, <4>4 DEF Rests, Held
    <3>2. CASE j \notin held /\ jobs_table[j].status = "WAITING"
      <4>1. /\ jobs_table'[j].status = "ABORTED"
            /\ jobs_table'[j].pgid = jobs_table[j].pgid
            /\ jobs_table'[j].is_free = jobs_table[j].is_free
        BY <1>1, <1>5, <3>2, CanceledRow
      <4> QED
        BY <3>2, <4>1 DEF Rests, Held, Inv, Agrees, RowInv
    <3>3. CASE j \notin held /\ jobs_table[j].status # "WAITING"
      <4>1. jobs_table'[j] = jobs_table[j]
        BY <1>6, <3>3
      <4>2. ASSUME jobs_table[j].status \in Held
            PROVE  runner'[jobs_table[j].pgid] = runner[jobs_table[j].pgid]
        <5>1. jobs_table[j].pgid \in Pids /\ jobs_table[j].pgid \notin victims
          BY <1>7, <3>3, <4>2, HeldPids
        <5> QED
          BY ONLY <1>3, <5>1
      <4> QED
        BY <4>1, <4>2 DEF Inv, Agrees, RowInv, Rests, Held
    <3> QED
      BY <3>1, <3>2, <3>3
  <2> QED
    BY <1>0, <1>2, <1>9, <2>1, AgreementKept DEF Inv
<1>11. TypeOK'
  BY <1>0, <1>2, <1>9 DEF Inv, TypeOK
<1>12. Waiting(jobs_table)' = {}
  <2> SUFFICES ASSUME NEW j \in Jobs, jobs_table'[j].status = "WAITING"
               PROVE  FALSE
    BY DEF Waiting
  <2> QED
    BY <1>1, <1>4, <1>5, <1>6, CanceledRow
<1>13. ASSUME NEW p \in Pids, event'[p] # "none"
       PROVE  FALSE
  <2>1. runner'[p] \in {"running", "stopped"} /\ p \in Unreaped
    <3>1. runner'[p] \in {"running", "stopped"}
      BY <1>2, <1>13 DEF ProcessInv
    <3> QED
      BY <1>2, <3>1 DEF Unreaped, Alive
  <2>2. p \notin victims
    <3>1. ~ (runner'[p] \in Zombie)
      BY <2>1 DEF Zombie
    <3> QED
      BY ONLY <1>3, <2>1, <3>1
  <2>3. runner'[p] = runner[p]
    BY ONLY <1>3, <2>2
  <2>4. PICK j \in HeldIn(jobs_table) : jobs_table[j].pgid = p
    BY <2>1 DEF Inv, Agrees, Attended
  <2>5. jobs_table[j].status # "CANCELED"
    BY <2>1, <2>3, <2>4 DEF HeldIn, Inv, Agrees, RowInv, Rests, Zombie
  <2>6. HasGroup(p)
    BY <2>1, <2>3 DEF HasGroup
  <2>7. j \in held
    BY <1>8, <2>4, <2>5, <2>6 DEF HeldIn, Held
  <2> QED
    BY <1>4, <2>2, <2>4, <2>7
<1>14. WaitInv' /\ QuitInv' /\ QuitLeavesNothing'
  BY <1>0, <1>12, <1>13 DEF WaitInv, QuitInv, QuitLeavesNothing
<1> QED
  BY <1>2, <1>10, <1>11, <1>14 DEF Inv

(* In jobs_fini waitpid reports ends only: what is left cannot stop.       *)
LEMMA FiniReapsEnded ==
  ASSUME Inv, NEW p \in Pids, FiniReap(p)
  PROVE  /\ pc = "fini" /\ pc' = "fini" /\ runner[p] \in Zombie
         /\ runner' = [runner EXCEPT ![p] = "reaped"]
         /\ \E j \in HeldIn(jobs_table) :
              /\ RowsOf(p) = {j}
              /\ jobs_table' = [jobs_table EXCEPT ![j] = Outcome(@, p)]
         /\ active_runners' = active_runners - 1
         /\ UNCHANGED <<enabler, signals, forks, event, sawstop, task>>
<1>1. pc = "fini" /\ event[p] = "none"
  BY DEF FiniReap, Inv, QuitInv
<1>2. runner[p] \in Zombie
  BY <1>1 DEF FiniReap
<1>3. runner' = [runner EXCEPT ![p] = "reaped"]
  BY <1>2 DEF FiniReap, Inv, TypeOK
<1>4. event' = event
  BY <1>1 DEF FiniReap, Inv, TypeOK
<1>5. PICK j \in HeldIn(jobs_table) : RowsOf(p) = {j} /\ Min(RowsOf(p)) = j
  BY <1>2, RowOfRunner DEF Inv, Unreaped
<1>6. /\ jobs_table' = [jobs_table EXCEPT ![j] = Outcome(@, p)]
      /\ active_runners' = active_runners - 1
  BY <1>2, <1>5 DEF FiniReap, Inv, TypeOK
<1> QED
  BY <1>1, <1>2, <1>3, <1>4, <1>5, <1>6 DEF FiniReap

LEMMA FiniReapInv ==
  ASSUME Inv, NEW p \in Pids, FiniReap(p)
  PROVE  Inv'
<1>0. /\ pc = "fini" /\ pc' = "fini" /\ runner[p] \in Zombie
      /\ runner' = [runner EXCEPT ![p] = "reaped"]
      /\ active_runners' = active_runners - 1
      /\ UNCHANGED <<enabler, signals, forks, event, sawstop, task>>
  BY FiniReapsEnded
<1>1. PICK j \in HeldIn(jobs_table) :
        /\ RowsOf(p) = {j}
        /\ jobs_table' = [jobs_table EXCEPT ![j] = Outcome(@, p)]
  BY FiniReapsEnded
<1>2. /\ Agrees(jobs_table)'
      /\ Waiting(jobs_table)' = Waiting(jobs_table)
      /\ active_runners' \in 0..MAX_RUNNERS
  BY <1>0, <1>1, ReapingKeepsAgreement DEF Inv
<1>3. TypeOK'
  BY <1>0, <1>2 DEF Inv, TypeOK, Agrees, Processes, signals
<1>4. ProcessInv'
  BY <1>0 DEF Inv, TypeOK, ProcessInv, Zombie
<1>5. WaitInv' /\ QuitInv' /\ QuitLeavesNothing'
  BY <1>0, <1>2 DEF Inv, WaitInv, QuitInv, QuitLeavesNothing
<1> QED
  BY <1>2, <1>3, <1>4, <1>5 DEF Inv

(* With no runner left and no job waiting, every job has ended.            *)
LEMMA FiniDoneInv ==
  ASSUME Inv, FiniDone
  PROVE  Inv'
<1>0. /\ pc = "fini" /\ pc' = "exited"
      /\ \A p \in Pids : runner[p] \in {"unborn", "reaped"}
      /\ UNCHANGED <<active_runners, enabler, signals, processes>>
  BY DEF FiniDone, Goto
<1>1. \A j \in Jobs : jobs_table[j] \in Row
  BY DEF Inv, TypeOK
<1>2. Unreaped = {} /\ Unreaped' = {}
  BY <1>0 DEF Unreaped, Alive, Zombie, processes
<1>3. ASSUME NEW j \in Jobs
      PROVE  \/ /\ jobs_table[j].is_free /\ jobs_table'[j] = jobs_table[j]
             \/ /\ jobs_table[j].status \in Ended
                /\ jobs_table'[j] = [jobs_table[j] EXCEPT
                     !.is_free = TRUE, !.status = "NONE", !.is_canceled = FALSE]
  <2>1. jobs_table[j].status \notin Held
    BY <1>2 DEF Inv, Agrees, RowInv
  <2>2. jobs_table[j].status # "WAITING"
    BY <1>0 DEF Inv, QuitInv, Waiting
  <2>3. jobs_table[j].status \in {"NEW", "NONE"} \cup Ended
    BY <1>1, <2>1, <2>2 DEF Row, Statuses
  <2>4. jobs_table[j].is_free <=> jobs_table[j].status \in {"NEW", "NONE"}
    BY DEF Inv, Agrees, RowInv
  <2> QED
    BY <2>3, <2>4 DEF FiniDone
<1>4. ASSUME NEW j \in Jobs
      PROVE  /\ jobs_table'[j] \in Row /\ jobs_table'[j].is_free
             /\ jobs_table'[j].pgid = jobs_table[j].pgid
             /\ jobs_table'[j].status \in {"NEW", "NONE"}
             /\ jobs_table[j].status \notin Held
  <2>1. CASE jobs_table[j].is_free /\ jobs_table'[j] = jobs_table[j]
    BY <1>1, <2>1 DEF Inv, Agrees, RowInv, Held
  <2>2. CASE /\ jobs_table[j].status \in Ended
             /\ jobs_table'[j] = [jobs_table[j] EXCEPT
                  !.is_free = TRUE, !.status = "NONE", !.is_canceled = FALSE]
    BY <1>1, <2>2 DEF Row, Statuses, Held, Ended
  <2> QED
    BY <1>3, <2>1, <2>2
<1>5. jobs_table' \in [Jobs -> Row]
  BY <1>4 DEF FiniDone
<1>6. /\ Agrees(jobs_table)'
      /\ Waiting(jobs_table)' \subseteq Waiting(jobs_table)
  <2>1. ASSUME NEW j \in Jobs
        PROVE  LET old == jobs_table[j] new == jobs_table'[j]
               IN  /\ new.pgid = old.pgid
                   /\ new.status \in Held <=> old.status \in Held
                   /\ new.status = "WAITING" => old.status = "WAITING"
                   /\ new.is_free <=> new.status \in {"NEW", "NONE"}
                   /\ Rests(new, runner')
    BY <1>4 DEF Held, Rests
  <2> QED
    BY <1>0, <1>2, <1>5, <2>1, AgreementKept DEF Inv, processes
<1>7. TypeOK'
  BY <1>0, <1>5 DEF Inv, TypeOK, signals, processes
<1>8. ProcessInv'
  BY <1>0 DEF Inv, ProcessInv, processes
<1>9. WaitInv' /\ QuitInv' /\ QuitLeavesNothing'
  BY <1>0, <1>2, <1>4, <1>6 DEF Inv, WaitInv, QuitInv, QuitLeavesNothing,
                                processes
<1> QED
  BY <1>6, <1>7, <1>8, <1>9 DEF Inv

(* A step of one runner, which has not been reaped, leaves the table right. *)
LEMMA ProcessStep ==
  ASSUME Inv, NEW p \in Unreaped,
         runner[p] \in {"starting", "running"},
         NEW state \in {"running"} \cup Zombie,
         runner' = [runner EXCEPT ![p] = state],
         UNCHANGED <<table, sig_child_flag, pc, forks>>
  PROVE  /\ Agrees(jobs_table)' /\ WaitInv'
         /\ Unreaped' = Unreaped /\ runner' \in [Pids -> Processes]
<1>1. /\ p \in Pids /\ runner'[p] = state
      /\ \A q \in Pids : q # p => runner'[q] = runner[q]
  BY DEF Unreaped, Inv, TypeOK
<1>2. /\ Unreaped' = Unreaped
      /\ runner' \in [Pids -> Processes]
  BY <1>1 DEF Unreaped, Alive, Zombie, Processes, Inv, TypeOK
<1>3. UNCHANGED <<jobs_table, active_runners, enabler>>
  BY DEF table
<1>4. ASSUME NEW j \in Jobs
      PROVE  Rests(jobs_table[j], runner')
  <2> SUFFICES ASSUME jobs_table[j].status \in {"PAUSED", "CANCELED"}
               PROVE  Rests(jobs_table[j], runner')
    BY DEF Rests
  <2>1. Rests(jobs_table[j], runner) /\ jobs_table[j].pgid \in Pids
    BY HeldPids DEF Held, Inv, Agrees, RowInv
  <2>2. jobs_table[j].pgid # p
    BY <2>1 DEF Rests, Zombie
  <2> QED
    BY <1>1, <2>1, <2>2 DEF Rests
<1>5. Agrees(jobs_table)'
  <2>1. jobs_table' \in [Jobs -> Row]
    BY <1>3 DEF Inv, TypeOK
  <2>2. ASSUME NEW j \in Jobs
        PROVE  LET old == jobs_table[j] new == jobs_table'[j]
               IN  /\ new.pgid = old.pgid
                   /\ new.status \in Held <=> old.status \in Held
                   /\ new.status = "WAITING" => old.status = "WAITING"
                   /\ new.is_free <=> new.status \in {"NEW", "NONE"}
                   /\ Rests(new, runner')
    BY <1>3, <1>4 DEF Inv, Agrees, RowInv
  <2> QED
    BY <1>2, <1>3, <2>1, <2>2, AgreementKept DEF Inv
<1>6. WaitInv'
  BY <1>3 DEF Inv, WaitInv, Waiting
<1> QED
  BY <1>2, <1>5, <1>6

LEMMA RunnerInv ==
  ASSUME Inv, NEW p \in Pids, Runner(p)
  PROVE  Inv'
<1>1. CASE RunnerGroup(p)
  <2>1. /\ runner[p] = "starting" /\ runner' = [runner EXCEPT ![p] = "running"]
        /\ UNCHANGED <<table, signals, pc, forks, event, sawstop, task>>
    BY <1>1 DEF RunnerGroup
  <2>2. /\ Agrees(jobs_table)' /\ WaitInv'
        /\ Unreaped' = Unreaped /\ runner' \in [Pids -> Processes]
    BY <2>1, ProcessStep DEF Unreaped, Alive, signals
  <2>3. TypeOK'
    BY <2>1, <2>2 DEF Inv, TypeOK, table, signals
  <2>4. ProcessInv'
    BY <2>1 DEF Inv, TypeOK, ProcessInv
  <2>5. QuitInv' /\ QuitLeavesNothing'
    BY <2>1, <2>2 DEF Inv, QuitInv, QuitLeavesNothing, Waiting, table
  <2> QED
    BY <2>2, <2>3, <2>4, <2>5 DEF Inv
<1>2. CASE RunnerExits(p)
  <2>1. /\ runner[p] = "running" /\ sawstop[p]
        /\ runner' = [runner EXCEPT ![p] = "exited"]
        /\ event' = [event EXCEPT ![p] = "none"] /\ sigchld' = TRUE
        /\ UNCHANGED <<table, sig_child_flag, pc, forks, sawstop, task>>
    BY <1>2 DEF RunnerExits
  <2>2. /\ Agrees(jobs_table)' /\ WaitInv'
        /\ Unreaped' = Unreaped /\ runner' \in [Pids -> Processes]
    BY <2>1, ProcessStep DEF Unreaped, Alive, Zombie
  <2>3. TypeOK'
    BY <2>1, <2>2 DEF Inv, TypeOK, table
  <2>4. ProcessInv'
    BY <2>1 DEF Inv, TypeOK, ProcessInv
  <2>5. QuitInv' /\ QuitLeavesNothing'
    BY <2>1, <2>2 DEF Inv, TypeOK, QuitInv, QuitLeavesNothing, Waiting, table
  <2> QED
    BY <2>2, <2>3, <2>4, <2>5 DEF Inv
<1>3. CASE \E how \in Zombie : PipelineEnds(p, how)
  <2>1. PICK how \in Zombie : PipelineEnds(p, how)
    BY <1>3
  <2>2. /\ runner[p] = "running" /\ ~ sawstop[p]
        /\ runner' = [runner EXCEPT ![p] = how]
        /\ task' = [task EXCEPT ![p] = "ended"]
        /\ event' = [event EXCEPT ![p] = "none"] /\ sigchld' = TRUE
        /\ UNCHANGED <<table, sig_child_flag, pc, forks, sawstop>>
    BY <2>1 DEF PipelineEnds
  <2>3. /\ Agrees(jobs_table)' /\ WaitInv'
        /\ Unreaped' = Unreaped /\ runner' \in [Pids -> Processes]
    BY <2>2, ProcessStep DEF Unreaped, Alive
  <2>4. TypeOK'
    BY <2>2, <2>3 DEF Inv, TypeOK, table
  <2>5. ProcessInv'
    BY <2>2 DEF Inv, TypeOK, ProcessInv, Zombie
  <2>6. QuitInv' /\ QuitLeavesNothing'
    BY <2>2, <2>3 DEF Inv, TypeOK, QuitInv, QuitLeavesNothing, Waiting, table
  <2> QED
    BY <2>3, <2>4, <2>5, <2>6 DEF Inv
<1> QED
  BY <1>1, <1>2, <1>3 DEF Runner

LEMMA NextInv ==
  ASSUME Inv, [Next]_vars
  PROVE  Inv'
<1>1. CASE UNCHANGED vars
  BY <1>1 DEF vars, table, signals, processes, Inv, TypeOK, Agrees, RowInv,
              OwnRunner, Attended, HeldIn, Waiting, Unreaped, ProcessInv,
              WaitInv, QuitInv, QuitLeavesNothing
<1>2. CASE Command
  BY <1>2, EnableInv, DisableInv, JobCreateInv, JobExpungeInv, JobCancelInv,
     JobPauseInv, JobResumeInv, QuitStepInv DEF Command
<1>3. CASE Keystroke
  BY <1>3, KeystrokeInv
<1>4. CASE Handler
  BY <1>4, SignalWakesInv, HookBeginsInv, ReapEndedInv, ReapChangedInv,
     ReapNoneInv DEF Handler
<1>5. CASE Fini
  BY <1>5, FiniReapInv, FiniDoneInv DEF Fini
<1>6. CASE \E p \in Pids : Runner(p)
  BY <1>6, RunnerInv
<1>7. CASE Exited
  BY <1>1, <1>7 DEF Exited
<1> QED
  BY <1>1, <1>2, <1>3, <1>4, <1>5, <1>6, <1>7 DEF Next

(* The inductive invariant of the job spooler: what the rows of the table, *)
(* the count of runners and the processes say of each other.               *)
THEOREM Invariance == Spec => []Inv
<1>1. Init => Inv
  BY InitInv
<1>2. Inv /\ [Next]_vars => Inv'
  BY NextInv
<1> QED
  BY <1>1, <1>2, PTL DEF Spec

(* active_runners is the number of the jobs that have a runner, and these  *)
(* are in one-to-one correspondence with the processes not yet reaped.     *)
THEOREM EveryRunnerAccounted == Spec => []RunnersAccounted
<1>1. ASSUME Inv
      PROVE  RunnersAccounted
  <2> DEFINE pid == [j \in HeldRows |-> jobs_table[j].pgid]
  <2>1. HeldRows = HeldIn(jobs_table) /\ HeldRows \in SUBSET Jobs
    BY DEF HeldRows, HeldIn
  <2>2. \A j \in HeldRows : pid[j] \in Unreaped
    BY <1>1 DEF HeldRows, Inv, Agrees, RowInv
  <2>3. \A p \in Unreaped : \E j \in HeldRows : pid[j] = p
    BY <1>1, <2>1 DEF Inv, Agrees, Attended
  <2>4. \A i, j \in HeldRows : pid[i] = pid[j] => i = j
    BY <1>1, HeldPids DEF HeldRows
  <2>5. /\ pid \in Injection(HeldRows, Unreaped)
        /\ pid \in Surjection(HeldRows, Unreaped)
    BY <2>2, <2>3, <2>4 DEF Injection, Surjection, IsInjective
  <2>6. Cardinality(Unreaped) = Cardinality(HeldRows)
    <3>1. IsFiniteSet(Pids) /\ Unreaped \in SUBSET Pids
      BY TableAssumption, FS_Interval DEF Pids, Unreaped
    <3>2. IsFiniteSet(Unreaped)
      BY <3>1, FS_Subset
    <3> QED
      BY <2>5, <3>2, FS_Injection
  <2>7. {jobs_table[j].pgid : j \in HeldRows} = Unreaped
    BY <2>2, <2>3
  <2>8. \A j \in HeldRows : jobs_table[j].status = "PAUSED" =>
          runner[jobs_table[j].pgid] \in {"stopped"} \cup Zombie
    BY <1>1 DEF HeldRows, Inv, Agrees, RowInv, Rests
  <2>9. active_runners = Cardinality(HeldRows)
    BY <1>1, <2>1 DEF Inv, Agrees
  <2> QED
    BY <2>6, <2>7, <2>8, <2>9 DEF RunnersAccounted
<1> QED
  BY <1>1, Invariance, PTL

(* No runner stays unused: waiting jobs were started whenever the handler  *)
(* has dealt with the signals.                                             *)
THEOREM RunnersInUse == Spec => []NoIdleRunner
<1>1. Inv => NoIdleRunner
  BY DEF Inv, WaitInv, NoIdleRunner
<1> QED
  BY <1>1, Invariance, PTL

(* jobs_fini leaves an empty table and no runner behind.                   *)
THEOREM NothingLeft == Spec => []QuitLeavesNothing
<1>1. Inv => QuitLeavesNothing
  BY DEF Inv
<1> QED
  BY <1>1, Invariance, PTL
-----------------------------------------------------------------------------
(* What a step may do to a job: the body of JobLife. *)
Lives(j) ==
  LET old == jobs_table[j] new == jobs_table'[j]
  IN  /\ new.status # old.status => new.status \in Successors(old.status)
      /\ old.status = "WAITING" /\ new.status = "ABORTED" => new.is_canceled
      /\ old.status \in Held /\ new.status \in Ended =>
           /\ new.pgid = old.pgid /\ runner[old.pgid] \in Zombie
           /\ new.status = "COMPLETED" <=> runner[old.pgid] = "exited"
           /\ new.status = "COMPLETED" =>
                task[old.pgid] = "ended" \/ sawstop[old.pgid]

(* A row that stays, or gets a status that does not end it and may follow. *)
LEMMA LivesOn ==
  ASSUME NEW j \in Jobs,
         \/ jobs_table'[j].status = jobs_table[j].status
         \/ /\ jobs_table'[j].status \in Successors(jobs_table[j].status)
            /\ \/ jobs_table'[j].status \notin Ended
               \/ jobs_table[j].status \notin Held /\ jobs_table'[j].is_canceled
  PROVE  Lives(j)
<1>1. CASE jobs_table'[j].status = jobs_table[j].status
  BY <1>1 DEF Lives, Held, Ended
<1>2. CASE jobs_table'[j].status # jobs_table[j].status
  BY <1>2 DEF Lives, Ended
<1> QED
  BY <1>1, <1>2

LEMMA StartedLive ==
  ASSUME NEW tbl, \A j \in Jobs : tbl[j] \in Row,
         NEW C \in SUBSET Waiting(tbl), RunTasks(tbl, C),
         NEW j \in Jobs,
         tbl[j].status = jobs_table[j].status
           \/ /\ tbl[j].status = "WAITING"
              /\ jobs_table[j].status \in {"NEW", "NONE"}
  PROVE  Lives(j)
<1> DEFINE Pid(i) == forks + 1 + Rank(C, i)
<1>1. jobs_table'[j] = IF j \in C
                         THEN [tbl[j] EXCEPT !.pgid = Pid(j), !.status = "RUNNING"]
                         ELSE tbl[j]
  BY DEF RunTasks
<1> HIDE DEF Pid
<1>2. CASE j \in C
  <2>1. tbl[j].status = "WAITING" /\ tbl[j] \in Row
    BY <1>2 DEF Waiting
  <2>2. jobs_table'[j].status = "RUNNING"
    BY <1>1, <1>2, <2>1 DEF Row
  <2>3. "RUNNING" \in Successors(jobs_table[j].status)
    BY <2>1 DEF Successors, Ended
  <2> QED
    BY <2>2, <2>3, LivesOn DEF Ended
<1>3. CASE j \notin C
  <2>1. jobs_table'[j] = tbl[j]
    BY <1>1, <1>3
  <2>2. CASE tbl[j].status = jobs_table[j].status
    BY <2>1, <2>2, LivesOn
  <2>3. CASE /\ tbl[j].status = "WAITING"
             /\ jobs_table[j].status \in {"NEW", "NONE"}
    <3>1. "WAITING" \in Successors(jobs_table[j].status)
      BY <2>3 DEF Successors, Ended
    <3> QED
      BY <2>1, <2>3, <3>1, LivesOn DEF Ended
  <2> QED
    BY <2>2, <2>3
<1> QED
  BY <1>2, <1>3

(* A job whose runner is reaped ends the way the runner did. *)
LEMMA ReapedLives ==
  ASSUME Inv, NEW p \in Pids, runner[p] \in Zombie,
         NEW i \in HeldIn(jobs_table), RowsOf(p) = {i},
         jobs_table' = [jobs_table EXCEPT ![i] = Outcome(@, p)],
         NEW j \in Jobs
  PROVE  Lives(j)
<1>1. CASE j # i
  <2>1. jobs_table'[j] = jobs_table[j]
    BY <1>1 DEF Inv, TypeOK
  <2> QED
    BY <2>1, LivesOn
<1>2. CASE j = i
  <2>1. jobs_table[j] \in Row /\ jobs_table'[j] = Outcome(jobs_table[j], p)
    BY <1>2 DEF Inv, TypeOK
  <2>2. jobs_table[j].status \in Held /\ jobs_table[j].pgid = p
    BY <1>2 DEF HeldIn, RowsOf
  <2>3. /\ jobs_table'[j].pgid = p
        /\ jobs_table'[j].status =
             IF runner[p] = "exited" THEN "COMPLETED" ELSE "ABORTED"
    BY <2>1, <2>2 DEF Outcome, Row
  <2>4. jobs_table'[j].status \in Successors(jobs_table[j].status)
    BY <2>2, <2>3 DEF Successors, Held, Ended
  <2>5. runner[p] = "exited" => task[p] = "ended" \/ sawstop[p]
    BY DEF Inv, ProcessInv
  <2>6. jobs_table[j].status # "WAITING"
    BY <2>2 DEF Held
  <2> QED
    BY <2>2, <2>3, <2>4, <2>5, <2>6 DEF Lives
<1> QED
  BY <1>1, <1>2

LEMMA CommandLives ==
  ASSUME Inv, Command, NEW j \in Jobs
  PROVE  Lives(j)
<1>0. /\ jobs_table \in [Jobs -> Row] /\ \A i \in Jobs : jobs_table[i] \in Row
  BY DEF Inv, TypeOK
<1>1. CASE Enable
  BY <1>0, <1>1, StartedLive DEF Enable, StartWaiting
<1>2. CASE Disable
  BY <1>2, LivesOn DEF Disable
<1>3. ASSUME NEW i \in Jobs, JobCreate(i)
      PROVE  Lives(j)
  <2> DEFINE filled == [jobs_table EXCEPT
               ![i] = [@ EXCEPT !.status = "WAITING", !.is_free = FALSE]]
             C == IF enabler = 0 \/ active_runners = MAX_RUNNERS THEN {} ELSE {i}
  <2>1. RunTasks(filled, C) /\ jobs_table[i].is_free
    BY <1>3 DEF JobCreate
  <2>2. /\ \A k \in Jobs : k # i => filled[k] = jobs_table[k]
        /\ filled[i].status = "WAITING" /\ filled[i] \in Row
    BY <1>0 DEF Row, Statuses
  <2>3. jobs_table[i].status \in {"NEW", "NONE"}
    BY <2>1 DEF Inv, Agrees, RowInv
  <2> HIDE DEF filled
  <2>4. C \in SUBSET Waiting(filled) /\ \A k \in Jobs : filled[k] \in Row
    BY <1>0, <2>2 DEF Waiting
  <2> HIDE DEF C
  <2> QED
    BY <2>1, <2>2, <2>3, <2>4, StartedLive
<1>4. ASSUME NEW i \in Jobs, JobExpunge(i)
      PROVE  Lives(j)
  <2>1. /\ jobs_table[i].status \in Ended
        /\ jobs_table'[i].status = "NONE"
        /\ \A k \in Jobs : k # i => jobs_table'[k] = jobs_table[k]
    BY <1>0, <1>4 DEF JobExpunge, Row
  <2>2. "NONE" \in Successors(jobs_table[i].status)
    BY <2>1 DEF Successors, Ended
  <2>3. CASE j = i
    BY <2>1, <2>2, <2>3, LivesOn DEF Ended
  <2>4. CASE j # i
    BY <2>1, <2>4, LivesOn
  <2> QED
    BY <2>3, <2>4
<1>5. ASSUME NEW i \in Jobs, JobCancel(i)
      PROVE  Lives(j)
  <2>1. CASE /\ jobs_table[i].status \in {"RUNNING", "PAUSED"}
             /\ jobs_table' = [jobs_table EXCEPT ![i] = Canceled(@, "CANCELED")]
    <3>1. /\ jobs_table'[i].status = "CANCELED"
          /\ \A k \in Jobs : k # i => jobs_table'[k] = jobs_table[k]
      BY <1>0, <2>1, CanceledRow
    <3>2. "CANCELED" \in Successors(jobs_table[i].status)
      BY <2>1 DEF Successors, Ended
    <3>3. CASE j = i
      BY <3>1, <3>2, <3>3, LivesOn DEF Ended
    <3>4. CASE j # i
      BY <3>1, <3>4, LivesOn
    <3> QED
      BY <3>3, <3>4
  <2>2. CASE /\ jobs_table[i].status = "WAITING"
             /\ jobs_table' = [jobs_table EXCEPT ![i] = Canceled(@, "ABORTED")]
    <3>1. /\ jobs_table'[i].status = "ABORTED" /\ jobs_table'[i].is_canceled
          /\ \A k \in Jobs : k # i => jobs_table'[k] = jobs_table[k]
      BY <1>0, <2>2, CanceledRow
    <3>2. "ABORTED" \in Successors(jobs_table[i].status)
      BY <2>2 DEF Successors, Ended
    <3>3. CASE j = i
      BY <2>2, <3>1, <3>2, <3>3, LivesOn DEF Held
    <3>4. CASE j # i
      BY <3>1, <3>4, LivesOn
    <3> QED
      BY <3>3, <3>4
  <2> QED
    BY <1>5, <2>1, <2>2 DEF JobCancel
<1>6. ASSUME NEW i \in Jobs, JobPause(i)
      PROVE  Lives(j)
  <2>1. /\ jobs_table[i].status = "RUNNING" /\ jobs_table'[i].status = "PAUSED"
        /\ \A k \in Jobs : k # i => jobs_table'[k] = jobs_table[k]
    BY <1>0, <1>6 DEF JobPause, Row
  <2>2. "PAUSED" \in Successors("RUNNING")
    BY DEF Successors, Ended
  <2>3. CASE j = i
    BY <2>1, <2>2, <2>3, LivesOn DEF Ended
  <2>4. CASE j # i
    BY <2>1, <2>4, LivesOn
  <2> QED
    BY <2>3, <2>4
<1>7. ASSUME NEW i \in Jobs, JobResume(i)
      PROVE  Lives(j)
  <2>1. /\ jobs_table[i].status = "PAUSED" /\ jobs_table'[i].status = "RUNNING"
        /\ \A k \in Jobs : k # i => jobs_table'[k] = jobs_table[k]
    BY <1>0, <1>7 DEF JobResume, Row
  <2>2. "RUNNING" \in Successors("PAUSED")
    BY DEF Successors, Ended
  <2>3. CASE j = i
    BY <2>1, <2>2, <2>3, LivesOn DEF Ended
  <2>4. CASE j # i
    BY <2>1, <2>4, LivesOn
  <2> QED
    BY <2>3, <2>4
<1>8. CASE Quit
  <2>1. \/ /\ jobs_table[j].status \in {"RUNNING", "PAUSED"}
           /\ jobs_table'[j] = Canceled(jobs_table[j], "CANCELED")
        \/ /\ jobs_table[j].status = "WAITING"
           /\ jobs_table'[j] = Canceled(jobs_table[j], "ABORTED")
        \/ jobs_table'[j] = jobs_table[j]
    BY <1>8 DEF Quit, Waiting
  <2>2. CASE /\ jobs_table[j].status \in {"RUNNING", "PAUSED"}
             /\ jobs_table'[j] = Canceled(jobs_table[j], "CANCELED")
    <3>1. jobs_table'[j].status = "CANCELED"
      BY <1>0, <2>2, CanceledRow
    <3>2. "CANCELED" \in Successors(jobs_table[j].status)
      BY <2>2 DEF Successors, Ended
    <3> QED
      BY <3>1, <3>2, LivesOn DEF Ended
  <2>3. CASE /\ jobs_table[j].status = "WAITING"
             /\ jobs_table'[j] = Canceled(jobs_table[j], "ABORTED")
    <3>1. jobs_table'[j].status = "ABORTED" /\ jobs_table'[j].is_canceled
      BY <1>0, <2>3, CanceledRow
    <3>2. "ABORTED" \in Successors(jobs_table[j].status)
      BY <2>3 DEF Successors, Ended
    <3> QED
      BY <2>3, <3>1, <3>2, LivesOn DEF Held
  <2>4. CASE jobs_table'[j] = jobs_table[j]
    BY <2>4, LivesOn
  <2> QED
    BY <2>1, <2>2, <2>3, <2>4
<1> QED
  BY <1>1, <1>2, <1>3, <1>4, <1>5, <1>6, <1>7, <1>8 DEF Command

LEMMA NextLives ==
  ASSUME Inv, Next, NEW j \in Jobs
  PROVE  Lives(j)
<1>1. CASE UNCHANGED table
  BY <1>1, LivesOn DEF table
<1>2. CASE Command
  BY <1>2, CommandLives
<1>3. CASE Keystroke \/ Exited
  BY <1>1, <1>3 DEF Keystroke, Exited, vars
<1>4. CASE Handler
  <2>1. CASE SignalWakes \/ HookBegins
    BY <1>1, <2>1 DEF SignalWakes, HookBegins
  <2>2. ASSUME NEW p \in Pids, ReapEnded(p)
        PROVE  Lives(j)
    <3>1. runner[p] \in Zombie
      BY <2>2 DEF ReapEnded
    <3>2. PICK i \in HeldIn(jobs_table) : RowsOf(p) = {i} /\ Min(RowsOf(p)) = i
      BY <3>1, RowOfRunner DEF Inv, Unreaped
    <3>3. jobs_table' = [jobs_table EXCEPT ![i] = Outcome(@, p)]
      BY <2>2, <3>2 DEF ReapEnded
    <3> QED
      BY <3>1, <3>2, <3>3, ReapedLives
  <2>3. ASSUME NEW p \in Pids, ReapChanged(p)
        PROVE  Lives(j)
    BY <1>1, <2>3 DEF ReapChanged
  <2>4. CASE ReapNone
    <3>1. CASE enabler = 1
      BY <2>4, <3>1, StartedLive DEF ReapNone, StartWaiting, Inv, TypeOK
    <3>2. CASE enabler # 1
      BY <2>4, <3>2, LivesOn DEF ReapNone
    <3> QED
      BY <3>1, <3>2
  <2> QED
    BY <1>4, <2>1, <2>2, <2>3, <2>4 DEF Handler
<1>5. CASE Fini
  <2>1. ASSUME NEW p \in Pids, FiniReap(p)
        PROVE  Lives(j)
    <3>1. PICK i \in HeldIn(jobs_table) :
            /\ RowsOf(p) = {i}
            /\ jobs_table' = [jobs_table EXCEPT ![i] = Outcome(@, p)]
      BY <2>1, FiniReapsEnded
    <3>2. runner[p] \in Zombie
      BY <2>1, FiniReapsEnded
    <3> QED
      BY <3>1, <3>2, ReapedLives
  <2>2. CASE FiniDone
    <3>1. CASE jobs_table'[j] = jobs_table[j]
      BY <3>1, LivesOn
    <3>2. CASE jobs_table'[j] # jobs_table[j]
      <4>1. /\ jobs_table[j].status \in Ended
            /\ jobs_table'[j] = [jobs_table[j] EXCEPT
                 !.is_free = TRUE, !.status = "NONE", !.is_canceled = FALSE]
        BY <2>2, <3>2 DEF FiniDone
      <4>2. jobs_table'[j].status = "NONE"
        BY <4>1 DEF Inv, TypeOK, Row
      <4>3. "NONE" \in Successors(jobs_table[j].status)
        BY <4>1 DEF Successors, Ended
      <4> QED
        BY <4>2, <4>3, LivesOn DEF Ended
    <3> QED
      BY <3>1, <3>2
  <2> QED
    BY <1>5, <2>1, <2>2 DEF Fini
<1>6. ASSUME NEW p \in Pids, Runner(p)
      PROVE  Lives(j)
  BY <1>1, <1>6 DEF Runner, RunnerGroup, RunnerExits, PipelineEnds
<1> QED
  BY <1>2, <1>3, <1>4, <1>5, <1>6 DEF Next

(* Each job goes through the states of jobber.h, but for a WAITING one     *)
(* that is cancelled and becomes ABORTED, and ends with the outcome of its *)
(* own runner.                                                             *)
THEOREM JobsLiveOnce == Spec => JobLife
<1>1. ASSUME Inv, [Next]_vars
      PROVE  [\A j \in Jobs : Lives(j)]_vars
  BY <1>1, NextLives
<1>2. [\A j \in Jobs : Lives(j)]_vars
        <=> [\A j \in Jobs :
               LET old == jobs_table[j] new == jobs_table'[j]
               IN  /\ new.status # old.status =>
                        new.status \in Successors(old.status)
                   /\ old.status = "WAITING" /\ new.status = "ABORTED" =>
                        new.is_canceled
                   /\ old.status \in Held /\ new.status \in Ended =>
                        /\ new.pgid = old.pgid /\ runner[old.pgid] \in Zombie
                        /\ new.status = "COMPLETED"
                             <=> runner[old.pgid] = "exited"
                        /\ new.status = "COMPLETED" =>
                             task[old.pgid] = "ended" \/ sawstop[old.pgid]]_vars
  BY DEF Lives
<1> QED
  BY <1>1, <1>2, Invariance, PTL DEF Spec, JobLife
=============================================================================
