------------------------------- MODULE Sched -------------------------------
(***************************************************************************)
(* Which task schedule() picks (kernel/proc/process.c): the ring walk from *)
(* the task after the running one, the aging of every ready task that is   *)
(* passed over, and set_priority() changing the base the chosen task falls *)
(* back to.                                                                *)
(*                                                                         *)
(* schedList      the task list, head first; the idle task is never        *)
(*                removed and a new task goes to the tail                  *)
(* schedTask      per task: ready (TASK_RUNNING), base and current         *)
(*                priority                                                 *)
(* schedCurrent   current_task                                             *)
(* schedPassed    not in the code: the calls of schedule() that passed the *)
(*                task over since it became ready or its priority was set, *)
(*                while nobody's base was above the end of aging           *)
(***************************************************************************)
EXTENDS Integers, Sequences, FiniteSets

CONSTANTS
    SchedTasks,     \* the tasks there may be: MAX_TASKS of them
    SchedIdle,      \* idle_task
    Ordinary,       \* the tasks of an ordinary user: uid # 0
    AgeCap,         \* 250, where aging stops
    UserCap,        \* 10, the most an ordinary user may ask for
    BasePriority,   \* 10, what create_process() gives
    AskedPriorities \* the priorities that set_priority() is called with

VARIABLES schedList, schedTask, schedCurrent, schedPassed

schedVars == <<schedList, schedTask, schedCurrent, schedPassed>>

NoTask == "no task"

Listed(list) == {list[i] : i \in DOMAIN list}

ListedTasks == Listed(schedList)

NewTask(base, current) == [ready |-> TRUE, base |-> base, current |-> current]

SchedInit ==
    /\ \E first \in SchedTasks \ (Ordinary \cup {SchedIdle}) :
         /\ schedList = <<SchedIdle, first>>
         /\ schedCurrent = first
         /\ schedTask = [t \in {SchedIdle, first} |->
                           IF t = SchedIdle THEN NewTask(0, 0)
                           ELSE NewTask(BasePriority, BasePriority)]
         /\ schedPassed = [t \in {SchedIdle, first} |-> 0]

------------------------------------------------------------------------------
(* The two passes of schedule() visit the tasks in this order: from the one
   after the running task, or from the head when there is none after it or the
   running task has just left the list, round to where they began. *)
WalkFrom(list, current) ==
    LET after == {i \in 2..Len(list) : list[i - 1] = current}
        start == IF after = {} THEN 1 ELSE CHOOSE i \in after : TRUE
    IN SubSeq(list, start, Len(list)) \o SubSeq(list, 1, start - 1)

(* Mutant: a task that is passed over does not gain. *)
NeverAged(task, t, current) == task[t].current

Aged(task, t, current) ==
    IF t # current /\ task[t].ready /\ task[t].current < AgeCap
    THEN task[t].current + 1 ELSE task[t].current

(* The first task of the walk that no ready task has a higher priority than. *)
FirstHighest(walk, prio, ready) ==
    LET highest == {i \in DOMAIN walk :
                      walk[i] \in ready /\ \A r \in ready : prio[r] <= prio[walk[i]]}
    IN walk[CHOOSE i \in highest : \A j \in highest : i <= j]

AgingSuffices(task) == \A t \in DOMAIN task : task[t].base <= AgeCap

(* The selection of schedule(). The idle task is always ready, so that there
   is always a task to choose and the fallbacks are not reached. *)
Select(list, task, current) ==
    LET prio  == [t \in Listed(list) |-> Aged(task, t, current)]
        ready == {t \in Listed(list) : task[t].ready}
        next  == FirstHighest(WalkFrom(list, current), prio, ready)
    IN /\ schedTask' = [t \in Listed(list) |->
                          [task[t] EXCEPT !.current =
                             IF t = next THEN task[t].base ELSE prio[t]]]
       /\ schedPassed' = [t \in Listed(list) |->
                            IF t \in ready \ {next} /\ AgingSuffices(task)
                            THEN schedPassed[t] + 1 ELSE 0]
       /\ schedCurrent' = next
       /\ schedList' = list

(* A timer tick that finds the task in Ring 3, or sys_yield(). *)
Yield == Select(schedList, schedTask, schedCurrent)

(* sleep_current_task(): the caller waits for something, and the next task is
   chosen. The idle task makes no call but yield(). *)
Block ==
    /\ schedCurrent # SchedIdle
    /\ Select(schedList, [schedTask EXCEPT ![schedCurrent].ready = FALSE], schedCurrent)

(* What a task waits for happens: wakeup_tasks(), on behalf of whoever runs. *)
Wake(t) ==
    /\ ~schedTask[t].ready
    /\ schedTask' = [schedTask EXCEPT ![t].ready = TRUE]
    /\ UNCHANGED <<schedList, schedCurrent, schedPassed>>

(* fork(): create_process() puts the child at the tail, inherit_pcb_state()
   gives it both priorities of the parent. A child of the superuser may go on
   to give itself away to an ordinary user. *)
Fork(child) ==
    /\ schedCurrent # SchedIdle
    /\ child \notin ListedTasks
    /\ schedCurrent \in Ordinary => child \in Ordinary
    /\ LET parent == schedTask[schedCurrent]
           new    == NewTask(parent.base, parent.current)
       IN /\ schedList' = Append(schedList, child)
          /\ schedTask' = [t \in ListedTasks \cup {child} |->
                             IF t = child THEN new ELSE schedTask[t]]
    /\ schedPassed' = [t \in ListedTasks \cup {child} |->
                         IF t = child THEN 0 ELSE schedPassed[t]]
    /\ UNCHANGED schedCurrent

(* exit_current_process(): reap_task() takes the task off the list,
   current_task becomes 0 and schedule() starts its walk at the head. *)
Exit ==
    /\ schedCurrent # SchedIdle
    /\ Select(SelectSeq(schedList, LAMBDA t : t # schedCurrent), schedTask, NoTask)

(* All ordinary tasks are one user's. *)
MayPrioritise(t) == schedCurrent \in Ordinary => t \in Ordinary

Capped(asked) ==
    IF schedCurrent \in Ordinary /\ asked > UserCap THEN UserCap ELSE asked

(* sys_set_priority() and set_task_priority(): the age is forgotten too. *)
SetPriority(t, asked) ==
    /\ schedCurrent # SchedIdle
    /\ MayPrioritise(t)
    /\ schedTask' = [schedTask EXCEPT ![t].base = Capped(asked),
                                      ![t].current = Capped(asked)]
    /\ schedPassed' = [schedPassed EXCEPT ![t] = 0]
    /\ UNCHANGED <<schedList, schedCurrent>>

SchedNext ==
    \/ Yield
    \/ Block
    \/ Exit
    \/ \E t \in ListedTasks : Wake(t)
    \/ \E t \in ListedTasks, asked \in AskedPriorities : SetPriority(t, asked)
    \/ \E child \in SchedTasks : Fork(child)

SchedSpec == SchedInit /\ [][SchedNext]_schedVars

------------------------------------------------------------------------------
(* A task ages to AgeCap in at most AgeCap - base calls. From then on only tasks
   that come before it in the walk are chosen first: once each, and once more
   after every exit of one of them, when the walk starts from the head again. *)
PassBound(t) ==
    LET n == Cardinality(SchedTasks)
    IN AgeCap - schedTask[t].base + (n * n) \div 2

(* No ready task is passed over more than PassBound times, whoever forks, exits,
   sleeps or changes priorities meanwhile, as long as nobody's base priority is
   above the value at which aging stops in schedule(). *)
NobodyStarves ==
    AgingSuffices(schedTask) => \A t \in ListedTasks : schedPassed[t] <= PassBound(t)
=============================================================================
