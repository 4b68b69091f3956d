------------------------------- MODULE Shell --------------------------------
(***************************************************************************)
(* Job control in apps/bin/sh.c: the job table, the foreground wait, the   *)
(* builtins fg, bg, wait and kill, pipelines, background commands and the  *)
(* && || chains of a line, against the children the shell has started.     *)
(*                                                                         *)
(* The kernel's side is what sys_wait, the stop notices and the terminal's *)
(* group promise the shell (module Proc models how they are kept): exits   *)
(* are reported before stops, a stop is reported once, continuing a group  *)
(* withdraws the notices still parked, and the terminal goes back to the   *)
(* waiting shell when the group holding it has nobody left to use it.      *)
(* What a command prints, its words and its redirections are left out.     *)
(***************************************************************************)
EXTENDS Integers, Sequences, FiniteSets, SequencesExt

CONSTANTS MaxPids,   \* bound: processes a behaviour starts
          MaxStages, \* MAX_STAGES
          MaxJobs    \* MAX_JOBS

VARIABLES kid,     \* the shell's children
          next,    \* pids given out so far
          fgpg,    \* foreground_pgid, 0 for the shell's own group
          jobs,    \* jobs[]
          nextId,  \* next_job_id
          pc,      \* where the shell is
          cur,     \* the arguments and locals of wait_foreground
          status,  \* last_exit_status
          skip,    \* skip_execution
          lost     \* history: processes of jobs the full table refused

shellVars == <<kid, next, fgpg, jobs, nextId, pc, cur, status, skip, lost>>

Pids == 1..MaxPids
NoKid == [st |-> "none", grp |-> 0, note |-> FALSE]
NoWait == [pids |-> {}, live |-> 0, pgid |-> 0, lead |-> 0, id |-> 0, status |-> 0]
STOPPED == 148

Is(s) == {p \in Pids : kid[p].st = s}
Noted == {p \in Is("stop") : kid[p].note}
Children == {p \in Pids : kid[p].st \in {"run", "stop", "zombie"}}

\* What sys_wait would report now: an exit before a stop.
Reports == IF Is("zombie") # {} THEN Is("zombie") ELSE Noted

-----------------------------------------------------------------------------
\* The job table.

JobOf(js, p) == {i \in DOMAIN js : p \in js[i].pids}

job_add(js, grp, pids, stopped) ==
    IF Len(js) >= MaxJobs THEN js
    ELSE Append(js, [id |-> nextId, pgid |-> grp, pids |-> pids, stopped |-> stopped])

\* Lost track of when there is no room.
Refused(js, pids) == IF Len(js) >= MaxJobs THEN pids ELSE {}

job_forget_pid(js, p) ==
    LET left == [i \in DOMAIN js |-> [js[i] EXCEPT !.pids = @ \ {p}]]
    IN SelectSeq(left, LAMBDA j : j.pids # {})

job_remove(js, id) == SelectSeq(js, LAMBDA j : j.id # id)

job_report_stopped(js, p) ==
    [i \in DOMAIN js |-> IF p \in js[i].pids THEN [js[i] EXCEPT !.stopped = TRUE] ELSE js[i]]

job_report_done(js, p) == job_forget_pid(js, p)

\* One report is taken: an exited child is gone, a stop notice is used up.
Taken(p) ==
    [kid EXCEPT ![p] = IF @.st = "zombie" THEN [@ EXCEPT !.st = "gone"]
                       ELSE [@ EXCEPT !.note = FALSE]]

ReportJob(js, p) ==
    IF kid[p].st = "zombie" THEN job_report_done(js, p) ELSE job_report_stopped(js, p)

\* jobs_reap: before a prompt, everything that can be reported is; then a line is read.
jobs_reap ==
    /\ pc = "reap"
    /\ \/ \E p \in Reports :
            kid' = Taken(p) /\ jobs' = ReportJob(jobs, p) /\ UNCHANGED <<pc, skip>>
       \/ Reports = {} /\ pc' = "command" /\ skip' = FALSE /\ UNCHANGED <<kid, jobs>>
    /\ UNCHANGED <<next, fgpg, nextId, cur, status, lost>>

-----------------------------------------------------------------------------
\* Waiting for the job that has the terminal.

\* The status is that of the last process, the one a pipeline is judged by.
WaitFor(pids, grp, id) ==
    [pids |-> pids, live |-> Cardinality(pids), pgid |-> grp, lead |-> Max(pids),
     id |-> id, status |-> 0]

\* The loop is left: a tracked job leaves the table, the terminal comes back.
Finished(js, st) ==
    /\ jobs' = IF cur.id # 0 THEN job_remove(js, cur.id) ELSE js
    /\ pc' = "op" /\ cur' = NoWait /\ fgpg' = 0
    /\ status' = st

\* Mutant: only a child that is a job already is recorded as stopped.
StopUnrecorded(p) == job_report_stopped(jobs, p)

\* A member of the job stopped: a fresh command becomes a job, a tracked one already is.
StopRecorded(p) ==
    IF cur.id = 0 THEN job_report_stopped(job_add(jobs, cur.pgid, cur.pids, FALSE), p)
    ELSE job_report_stopped(jobs, p)

wait_foreground ==
    /\ pc = "wait"
    /\ \/ \* nothing left to wait for at all
          /\ Children = {}
          /\ Finished(jobs, cur.status) /\ UNCHANGED <<kid, nextId, lost>>
       \/ \E p \in Reports \cap cur.pids :
            /\ kid' = Taken(p)
            /\ IF kid[p].st = "stop"
               THEN /\ jobs' = StopRecorded(p)
                    /\ nextId' = nextId + Len(jobs') - Len(jobs)
                    /\ lost' = lost \cup (IF cur.id = 0 THEN Refused(jobs, cur.pids) ELSE {})
                    /\ pc' = "op" /\ cur' = NoWait /\ fgpg' = 0 /\ status' = STOPPED
               ELSE LET js == IF cur.id # 0 THEN job_forget_pid(jobs, p) ELSE jobs IN
                    \E st \in IF p = cur.lead THEN {0, 1} ELSE {cur.status} :
                    /\ UNCHANGED <<nextId, lost>>
                    /\ IF cur.live = 1
                       THEN Finished(js, st)
                       ELSE /\ jobs' = js
                            /\ cur' = [cur EXCEPT !.live = @ - 1, !.status = st]
                            /\ UNCHANGED <<pc, fgpg, status>>
       \/ \E p \in Reports \ cur.pids :
            /\ kid' = Taken(p) /\ jobs' = ReportJob(jobs, p)
            /\ UNCHANGED <<pc, cur, fgpg, status, nextId, lost>>
    /\ UNCHANGED <<next, skip>>

-----------------------------------------------------------------------------
\* Commands.

Command == pc = "command" /\ ~skip

Done(st) == pc' = "op" /\ status' = st /\ UNCHANGED cur

\* k new children in one group led by the first.
Started(k) ==
    [p \in Pids |-> IF p \in (next + 1)..(next + k)
                    THEN [st |-> "run", grp |-> next + 1, note |-> FALSE] ELSE kid[p]]

\* One process, or one per stage of a pipeline of which k could be forked: a group
\* of its own, the terminal with it, and a wait for all of it.
StartForeground(k) ==
    /\ Command /\ next + k <= MaxPids
    /\ kid' = Started(k) /\ next' = next + k
    /\ fgpg' = next + 1
    /\ cur' = WaitFor((next + 1)..(next + k), next + 1, 0)
    /\ pc' = "wait" /\ UNCHANGED status
    /\ UNCHANGED <<jobs, nextId, skip, lost>>

run_external == StartForeground(1)

Pipeline(k) == StartForeground(k)

\* command &: a group of its own, never the terminal.
Background ==
    /\ Command /\ next < MaxPids
    /\ kid' = Started(1) /\ next' = next + 1
    /\ jobs' = job_add(jobs, next + 1, {next + 1}, FALSE)
    /\ nextId' = nextId + Len(jobs') - Len(jobs)
    /\ lost' = lost \cup Refused(jobs, {next + 1})
    /\ Done(0)
    /\ UNCHANGED <<fgpg, skip>>

\* kill(-pgid, SIG_CONT): the stopped members run, their notices are withdrawn.
Continued(grp) ==
    [p \in Pids |-> IF kid[p].grp = grp /\ kid[p].st = "stop"
                    THEN [kid[p] EXCEPT !.st = "run", !.note = FALSE] ELSE kid[p]]

fg(i) ==
    /\ Command
    /\ jobs' = [jobs EXCEPT ![i].stopped = FALSE]
    /\ fgpg' = jobs[i].pgid
    /\ kid' = Continued(jobs[i].pgid)
    /\ cur' = WaitFor(jobs[i].pids, jobs[i].pgid, jobs[i].id)
    /\ pc' = "wait"
    /\ UNCHANGED <<next, nextId, status, skip, lost>>

bg(i) ==
    /\ Command /\ jobs[i].stopped
    /\ jobs' = [jobs EXCEPT ![i].stopped = FALSE]
    /\ kid' = Continued(jobs[i].pgid)
    /\ Done(IF \E p \in Is("run") \cup Is("stop") : kid[p].grp = jobs[i].pgid THEN 0 ELSE 1)
    /\ UNCHANGED <<next, fgpg, nextId, skip, lost>>

\* Mutant: the wait does not ask whether anything is left that runs.
MayAlwaysWait == TRUE

\* wait: refused while a job is stopped, else until there are no children left or one
\* stops.
MayWait == \A i \in DOMAIN jobs : ~jobs[i].stopped

wait_builtin ==
    /\ Command
    /\ IF MayWait THEN pc' = "waitall" /\ UNCHANGED <<status, cur>> ELSE Done(1)
    /\ UNCHANGED <<kid, next, fgpg, jobs, nextId, skip, lost>>

WaitAll ==
    /\ pc = "waitall"
    /\ \/ Children = {} /\ Done(0) /\ UNCHANGED <<kid, jobs>>
       \/ \E p \in Reports :
            /\ kid' = Taken(p) /\ jobs' = ReportJob(jobs, p)
            /\ IF kid[p].st = "stop" THEN Done(1) ELSE UNCHANGED <<pc, status, cur>>
    /\ UNCHANGED <<next, fgpg, nextId, skip, lost>>

\* Every builtin that starts nothing: the shell keeps the terminal and has a status.
Builtin(st) ==
    /\ Command /\ Done(st)
    /\ UNCHANGED <<kid, next, fgpg, jobs, nextId, skip, lost>>

Signalled(p, sig) ==
    CASE sig = "TSTP" /\ kid[p].st = "run"  -> [kid[p] EXCEPT !.st = "stop", !.note = TRUE]
      [] sig = "CONT" /\ kid[p].st = "stop" -> [kid[p] EXCEPT !.st = "run", !.note = FALSE]
      [] sig = "KILL" -> [kid[p] EXCEPT !.st = "zombie", !.note = FALSE]
      [] OTHER -> kid[p]

kill_builtin(p, sig) ==
    /\ Command /\ kid[p].st \in {"run", "stop"}
    /\ kid' = [kid EXCEPT ![p] = Signalled(p, sig)]
    /\ Done(0)
    /\ UNCHANGED <<next, fgpg, jobs, nextId, skip, lost>>

\* && runs the next command when this one succeeded, || when it failed; a skipped
\* command passes && on and ends at ||.
SkipAfter(op) ==
    IF skip THEN op = "and"
    ELSE IF op = "and" THEN status # 0 ELSE status = 0

\* After a command: the line ends, or && or || decides about the next one.
NextInLine ==
    /\ pc = "op" \/ (pc = "command" /\ skip)
    /\ \/ pc' = "reap" /\ skip' = FALSE
       \/ \E op \in {"and", "or"} : pc' = "command" /\ skip' = SkipAfter(op)
    /\ UNCHANGED <<kid, next, fgpg, jobs, nextId, cur, status, lost>>

-----------------------------------------------------------------------------
\* The children, and the keyboard.

\* The group holding the terminal has nobody left who could use it: the waiting shell
\* gets it back.
Terminal(kids) ==
    IF pc = "wait" /\ ~\E q \in Pids : kids[q].grp = fgpg /\ kids[q].st = "run"
    THEN 0 ELSE fgpg

Exit(p) ==
    /\ kid[p].st = "run"
    /\ kid' = [kid EXCEPT ![p].st = "zombie"]
    /\ fgpg' = Terminal(kid')
    /\ UNCHANGED <<next, jobs, nextId, pc, cur, status, skip, lost>>

\* A stop signal to a group: every member that runs stops.
Stopped(grp) ==
    [p \in Pids |-> IF kid[p].grp = grp /\ kid[p].st = "run"
                    THEN [kid[p] EXCEPT !.st = "stop", !.note = TRUE] ELSE kid[p]]

\* Ctrl-Z goes to the foreground group; the shell ignores it.
CtrlZ ==
    /\ fgpg # 0
    /\ kid' = Stopped(fgpg)
    /\ fgpg' = Terminal(kid')
    /\ UNCHANGED <<next, jobs, nextId, pc, cur, status, skip, lost>>

\* A read of the terminal from the background stops the reader's whole group (SIG_TTIN).
ReadInBackground(p) ==
    /\ kid[p].st = "run" /\ kid[p].grp # fgpg
    /\ kid' = Stopped(kid[p].grp)
    /\ UNCHANGED <<next, fgpg, jobs, nextId, pc, cur, status, skip, lost>>

-----------------------------------------------------------------------------

ShellInit ==
    /\ kid = [p \in Pids |-> NoKid] /\ next = 0 /\ fgpg = 0
    /\ jobs = << >> /\ nextId = 1
    /\ pc = "reap" /\ cur = NoWait /\ status = 0 /\ skip = FALSE
    /\ lost = {}

ShellNext ==
    \/ jobs_reap
    \/ wait_foreground
    \/ run_external
    \/ \E k \in 1..MaxStages : Pipeline(k)
    \/ Background
    \/ \E i \in DOMAIN jobs : fg(i) \/ bg(i)
    \/ wait_builtin
    \/ WaitAll
    \/ \E p \in Pids, sig \in {"TSTP", "CONT", "KILL"} : kill_builtin(p, sig)
    \/ \E st \in {0, 1} : Builtin(st)
    \/ NextInLine
    \/ \E p \in Pids : Exit(p) \/ ReadInBackground(p)
    \/ CtrlZ

ShellSpec == ShellInit /\ [][ShellNext]_shellVars

-----------------------------------------------------------------------------

\* A child the shell knows to be stopped is in the job table, marked stopped, so that
\* fg and bg can reach it, unless the table was full when it should have been entered
\* (wait_foreground, job_add, job_report_stopped, fg, bg).
StoppedChildrenAreJobs ==
    \A p \in Is("stop") \ lost :
        ~kid[p].note => \E i \in JobOf(jobs, p) : jobs[i].stopped

\* The wait builtin never blocks on children none of which will ever report: that
\* would end the session, since nothing interrupts it (execute_command, "wait").
WaitCanEnd ==
    pc = "waitall" /\ lost = {} /\ Children # {} => Reports # {} \/ Is("run") # {}

=============================================================================
