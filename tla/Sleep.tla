------------------------------- MODULE Sleep -------------------------------
(***************************************************************************)
(* sleep(): sys_sleep() in kernel/syscall/sys_process.c arms a deadline of *)
(* the tick counter and blocks; schedule() readies the sleepers whose      *)
(* deadline has passed, before it chooses a task; and the call, which      *)
(* starts again from the trap, tells its two entries apart by              *)
(* sleep_active. The counter wraps. A signal handler may run over the      *)
(* frame of a call that is to start again, and call sleep() itself; a      *)
(* sleeper may be stopped and continued, before its time or after it.      *)
(*                                                                         *)
(* sleeper[t]     waiting (TASK_WAITING for WAIT_TIMER), stopped, active   *)
(*                and deadline (sleep_active, sleep_deadline), and the     *)
(*                sleep() calls the program has made and not come back     *)
(*                from: the handler's, when there are two, is the second.  *)
(*                A call remembers what it asked for, counts the ticks     *)
(*                since, and is alone until a handler sleeps over it.      *)
(* sleepTick      timer_ticks, modulo TickMod                              *)
(* sleepCurrent   current_task; the idle task only yields                  *)
(* Which of the ready tasks is chosen is the subject of Sched.             *)
(***************************************************************************)
EXTENDS Integers, Sequences

CONSTANTS
    Sleepers,    \* the tasks that sleep
    SleepIdle,   \* the idle task
    Hz,          \* TIMER_HZ
    Requests,    \* the milliseconds that sleep() is called with
    TickMod,     \* 2^32: what the tick counter wraps at
    MaxLag,      \* the most ticks a due sleeper goes without running
    MaxTicks     \* where a call stops counting the ticks since it was made

VARIABLES sleeper, sleepTick, sleepCurrent

sleepVars == <<sleeper, sleepTick, sleepCurrent>>

(* Milliseconds to ticks, rounding up. *)
TicksOf(ms) == (ms \div 1000) * Hz + ((ms % 1000) * Hz + 999) \div 1000

(* Mutant: ticks are compared as numbers. *)
PlainlyPassed(now, deadline) == now >= deadline

(* (int32_t)(now - deadline) >= 0 *)
Passed(now, deadline) == (now - deadline) % TickMod < TickMod \div 2

Awake == [waiting |-> FALSE, stopped |-> FALSE, active |-> FALSE, deadline |-> 0, calls |-> <<>>]

SleepInit ==
    /\ sleeper = [t \in Sleepers |-> Awake]
    /\ sleepTick = 0
    /\ sleepCurrent \in Sleepers

------------------------------------------------------------------------------
(* wake_expired_sleepers(). *)
WakeExpired(tasks) ==
    [t \in Sleepers |->
       IF tasks[t].waiting /\ tasks[t].active /\ Passed(sleepTick', tasks[t].deadline)
       THEN [tasks[t] EXCEPT !.waiting = FALSE] ELSE tasks[t]]

(* schedule(): the sweep, then the choice. *)
ScheduleAfter(tasks) ==
    /\ sleeper' = WakeExpired(tasks)
    /\ sleepCurrent' \in {SleepIdle} \cup
         {t \in Sleepers : ~sleeper'[t].waiting /\ ~sleeper'[t].stopped}

(* Every call in progress has waited one tick more. *)
Older(tasks) ==
    [t \in Sleepers |->
       [tasks[t] EXCEPT !.calls =
          [i \in DOMAIN @ |->
             [@[i] EXCEPT !.ticks = IF @ < MaxTicks THEN @ + 1 ELSE @]]]]

NobodyLags ==
    \A t \in Sleepers :
      sleeper[t].active /\ Passed(sleepTick, sleeper[t].deadline)
        => (sleepTick - sleeper[t].deadline) % TickMod < MaxLag

(* The timer interrupt finds the processor in Ring 0: it only counts. *)
TickInKernel ==
    /\ NobodyLags
    /\ sleepTick' = (sleepTick + 1) % TickMod
    /\ sleeper' = Older(sleeper)
    /\ UNCHANGED sleepCurrent

(* It finds a task in Ring 3 and preempts it. *)
Tick ==
    /\ NobodyLags
    /\ sleepTick' = (sleepTick + 1) % TickMod
    /\ ScheduleAfter(Older(sleeper))

SleepYield == UNCHANGED sleepTick /\ ScheduleAfter(sleeper)

(* syscall_block_and_restart() with WAIT_TIMER, from a live Ring 3 frame. *)
BlockOnTimer(tasks, t) ==
    UNCHANGED sleepTick /\ ScheduleAfter([tasks EXCEPT ![t].waiting = TRUE])

Returned(calls) == SubSeq(calls, 1, Len(calls) - 1)

(* sys_sleep() of the task t, whose innermost call is calls[Len(calls)]: the
   entry that finds sleep_active set, then the one that does not. *)
SysSleep(t, calls) ==
    LET task == [sleeper[t] EXCEPT !.calls = calls]
        ms   == calls[Len(calls)].ms
    IN \/ /\ task.active
          /\ Passed(sleepTick, task.deadline)
          /\ sleeper' = [sleeper EXCEPT ![t] =
                           [task EXCEPT !.active = FALSE, !.deadline = 0,
                                        !.calls = Returned(calls)]]
          /\ UNCHANGED <<sleepTick, sleepCurrent>>
       \/ /\ task.active
          /\ ~Passed(sleepTick, task.deadline)
          /\ BlockOnTimer([sleeper EXCEPT ![t] = task], t)
       \/ /\ ~task.active
          /\ ms <= 0
          /\ sleeper' = [sleeper EXCEPT ![t].calls = Returned(calls)]
          /\ UNCHANGED <<sleepTick, sleepCurrent>>
       \/ /\ ~task.active
          /\ ms > 0
          /\ BlockOnTimer([sleeper EXCEPT ![t] =
                             [task EXCEPT !.active = TRUE,
                                !.deadline = (sleepTick + TicksOf(ms)) % TickMod]], t)

NewCall(ms) == [ms |-> ms, ticks |-> 0, alone |-> TRUE]

(* The running program calls sleep(). *)
CallSleep(t, ms) ==
    /\ sleepCurrent = t /\ sleeper[t].calls = <<>>
    /\ SysSleep(t, <<NewCall(ms)>>)

(* The task was readied and chosen, and its call starts again from the trap; or
   the handler makes its call. *)
RestartSleep(t) ==
    /\ sleepCurrent = t /\ sleeper[t].calls # <<>>
    /\ SysSleep(t, sleeper[t].calls)

(* A signal was pending: check_and_deliver_signals() runs the handler first,
   and the handler is about to make a sleep() of its own. *)
HandlerSleeps(t, ms) ==
    /\ sleepCurrent = t /\ Len(sleeper[t].calls) = 1
    /\ sleeper' = [sleeper EXCEPT ![t].calls =
                      <<[@[1] EXCEPT !.alone = FALSE], NewCall(ms)>>]
    /\ UNCHANGED <<sleepTick, sleepCurrent>>

(* stop_task(): the wait is put aside, and the sweep passes the task by. The running
   task gives way. *)
StopSleeper(t) ==
    LET stopped == [sleeper EXCEPT ![t].stopped = TRUE, ![t].waiting = FALSE]
    IN /\ ~sleeper[t].stopped
       /\ UNCHANGED sleepTick
       /\ IF t = sleepCurrent THEN ScheduleAfter(stopped)
          ELSE sleeper' = stopped /\ UNCHANGED sleepCurrent

(* continue_task(): released as runnable, to start its sleep() again before its time
   or after it. *)
ContinueSleeper(t) ==
    /\ sleeper[t].stopped
    /\ sleeper' = [sleeper EXCEPT ![t].stopped = FALSE]
    /\ UNCHANGED <<sleepTick, sleepCurrent>>

SleepNext ==
    \/ TickInKernel
    \/ Tick
    \/ SleepYield
    \/ \E t \in Sleepers : RestartSleep(t) \/ StopSleeper(t) \/ ContinueSleeper(t)
    \/ \E t \in Sleepers, ms \in Requests : CallSleep(t, ms) \/ HandlerSleeps(t, ms)

SleepSpec == SleepInit /\ [][SleepNext]_sleepVars

------------------------------------------------------------------------------
(* The time since the call began is what it asked for. *)
SleptEnough(call) == call.ticks * 1000 >= call.ms * Hz

(* A task sleeps its time. No sleep() returns sooner than it was asked to, whatever a
   handler does in between: sleep_active tells an entry that starts from one that
   starts again. And no task stays asleep past its deadline over a call of
   schedule(), when no handler slept in between: the sweep comes before the choice.
   Both hold across a wrap of the tick counter. *)
SleepsItsTime ==
    [][\A t \in Sleepers :
         /\ (Len(sleeper[t].calls) = 1 /\ sleeper'[t].calls = <<>>)
              => SleptEnough(sleeper[t].calls[1])
         /\ (sleeper'[t].waiting /\ sleepCurrent' # sleepCurrent)
              => LET call == sleeper'[t].calls[1]
                 IN call.alone => ~SleptEnough(call)]_sleepVars
=============================================================================
