------------------------------- MODULE Proc -------------------------------
(***************************************************************************)
(* Processes, signals and job control: kernel/proc/process.c with the      *)
(* system calls of kernel/syscall/sys_process.c and sys_ipc.c that drive   *)
(* it.                                                                     *)
(*                                                                         *)
(* The kernel is not preemptible: a system call, a fault or an interrupt   *)
(* runs to its end before any other task is looked at, so each is one      *)
(* step.  What makes it hard is how much one step does.  Killing a task    *)
(* wakes its parent, parks an exit status, hands the terminal on and       *)
(* leaves a zombie; switching tasks frees zombies and fires alarms; and    *)
(* the end of every system call acts on the pending signals of whichever   *)
(* task is current by then, which need not be the caller.  The kernel      *)
(* state is therefore one record k, and the functions of process.c are     *)
(* operators from such records to such records, composed as the code       *)
(* composes them.  Those that switch tasks yield a set of records: which   *)
(* of the runnable tasks the aging priorities favour, and which alarms     *)
(* have come due, is left open here.                                       *)
(*                                                                         *)
(* A pid is not reused, so the task list, which is appended to at its      *)
(* tail, is always in increasing order of pid and needs no variable of     *)
(* its own.  User programs are arbitrary, except that a system call that   *)
(* blocked resumes on its trap instruction and is made again.              *)
(***************************************************************************)
EXTENDS Integers, FiniteSets, FiniteSetsExt, Sequences, SequencesExt

CONSTANTS MaxPid,       \* bound: the number of processes created after idle
          MaxTasks,     \* MAX_TASKS: live tasks, the idle task included
          MaxSlots,     \* entries of exit_slots[]
          MaxKeys,      \* bound: keys held by the keyboard ring
          Signals,      \* the signals programs and the keyboard send
          Dispositions, \* the dispositions programs register
          Calls,        \* the system calls programs make
          Groups        \* bound: the process groups programs name in setpgid()

ASSUME BoundsAssumption == /\ MaxPid \in Nat \ {0}
                           /\ MaxTasks \in Nat \ {0}
                           /\ MaxSlots \in Nat \ {0}
                           /\ MaxKeys \in Nat

(* include/signal.h *)
SIG_INT  == 2
SIG_KILL == 9
SIG_PIPE == 13
SIG_ALRM == 14
SIG_TERM == 15
SIG_CONT == 18
SIG_TSTP == 20
SIG_TTIN == 21
Signal == {SIG_INT, SIG_KILL, SIG_PIPE, SIG_ALRM, SIG_TERM, SIG_CONT, SIG_TSTP, SIG_TTIN}

ASSUME SignalsAssumption == /\ Signals \subseteq Signal
                            /\ Dispositions \subseteq {"DFL", "IGN", "HANDLER"}

Idle == 0
Nobody == -1
Pid == 0..MaxPid

VARIABLE k
(***************************************************************************)
(* k.state, k.wait, k.parent, k.pgid, k.pending: the PCB fields            *)
(* k.stopWait      stopped_wait_reason                                     *)
(* k.execChild     exec_child_pid                                          *)
(* k.handler       signal_handlers[]                                       *)
(* k.inHandler     in_signal_handler                                       *)
(* k.interrupted   signal_interrupted                                      *)
(* k.alarm         alarm_active                                            *)
(* k.frame         where the saved frame resumes: "user" code of the       *)
(*                 program's choice, or the trap of a system call          *)
(* k.saved         the same for signal_saved_regs                          *)
(* k.current, k.cr3, k.fg   current_task, the directory in CR3 (named by   *)
(*                 its owner) and foreground_pgid                          *)
(* k.parked        exit_slots[], oldest first                              *)
(* k.keys          bytes in the keyboard ring                              *)
(* k.settled       history: the children of live tasks whose status was    *)
(*                 collected, or discarded by a full table                 *)
(* k.leak          history: an address space was not released although the *)
(*                 process_t it belonged to was                            *)
(***************************************************************************)

Defaults == [sig \in Signal |-> "DFL"]

Tasks(s) == {p \in Pid : s.state[p] \in {"RUNNING", "WAITING", "STOPPED"}}
Awake(s) == {p \in Pid : s.state[p] \in {"RUNNING", "WAITING"}}
Children(s, p) == {c \in Tasks(s) : s.parent[c] = p}
(* f with the value v for each member of S. *)
Assign(f, S, v) == [p \in DOMAIN f |-> IF p \in S THEN v ELSE f[p]]

TerminatesByDefault(sig) == sig \in {SIG_KILL, SIG_TERM, SIG_PIPE, SIG_INT, SIG_ALRM}
StopsByDefault(sig) == sig \in {SIG_TSTP, SIG_TTIN}
HasDefault(sig) == TerminatesByDefault(sig) \/ StopsByDefault(sig)

---------------------------------------------------------------------------
(* The table of exit statuses and stop notices. *)

(* The entries of a table that are in kept, in their order. *)
Keeping(parked, kept) ==
    LET Upto[i \in 0..Len(parked)] ==
            IF i = 0 THEN <<>>
            ELSE IF parked[i] \in kept THEN Append(Upto[i-1], parked[i])
            ELSE Upto[i-1]
    IN Upto[Len(parked)]

DropParkedStop(parked, child) ==
    Keeping(parked, {n \in Range(parked) : ~(n.stopped /\ n.child = child)})

StopNotice(s, child) == [parent |-> s.parent[child], child |-> child, stopped |-> TRUE]
ExitStatus(s, child) == [parent |-> s.parent[child], child |-> child, stopped |-> FALSE]

(* park_stop_notice() and park_exit_status(). *)
ParkChildNews(s, news) ==
    LET kept == DropParkedStop(s.parked, news.child)
        full == Len(kept) = MaxSlots
    IN [s EXCEPT !.parked = Append(IF full THEN Tail(kept) ELSE kept, news),
                 !.settled = IF full /\ ~kept[1].stopped
                             THEN @ \cup {kept[1].child} ELSE @]

(* The slots take_parked_status() and take_parked_stop() choose from. *)
NewsFor(s, p, stopped) ==
    {i \in DOMAIN s.parked : s.parked[i].parent = p /\ s.parked[i].stopped = stopped}

TakeOldest(s, p, stopped) ==
    LET i == Min(NewsFor(s, p, stopped))
    IN [s EXCEPT !.parked = RemoveAt(s.parked, i),
                 !.settled = IF stopped THEN @ ELSE @ \cup {s.parked[i].child},
                 !.frame[p] = "user"]

HasPendingChildren(s, p) ==
    \/ \E i \in DOMAIN s.parked : s.parked[i].parent = p
    \/ Children(s, p) # {}

---------------------------------------------------------------------------
(* The terminal. *)

GroupHasALiveMember(s, g, excluding) ==
    g # 0 /\ \E p \in Awake(s) \ {excluding} : s.pgid[p] = g

HandTerminalToAnyLiveTask(s, excluding) ==
    LET able == {p \in Awake(s) \ {excluding, Idle} : s.pgid[p] # 0}
    IN [s EXCEPT !.fg = IF able = {} THEN 0 ELSE s.pgid[Min(able)]]

(* Mutant: the rest of the group is not looked at. *)
MutantTerminalLeavesTheGroup(s, victim, woken) ==
    IF s.pgid[victim] # s.fg THEN s
    ELSE IF woken # Nobody THEN [s EXCEPT !.fg = s.pgid[woken]]
    ELSE HandTerminalToAnyLiveTask(s, victim)

(* The end of reap_task() and of stop_task(). *)
SettleTerminal(s, victim, woken) ==
    IF s.pgid[victim] # s.fg \/ GroupHasALiveMember(s, s.fg, victim) THEN s
    ELSE IF woken # Nobody THEN [s EXCEPT !.fg = s.pgid[woken]]
    ELSE HandTerminalToAnyLiveTask(s, victim)

---------------------------------------------------------------------------
(* Death, stopping and continuing. *)

Waits(s, p, reason) == s.state[p] = "WAITING" /\ s.wait[p] = reason

WakeUp(s, S) == [s EXCEPT !.state = Assign(@, S, "RUNNING"), !.wait = Assign(@, S, "NONE")]

(* wakeup_tasks() *)
WakeUpTasks(s, reason) == WakeUp(s, {p \in Pid : Waits(s, p, reason)})

(* Mutant: only a parent inside exec() is woken. *)
MutantWakesExecOnly(s, victim) ==
    LET q == s.parent[victim]
    IN IF q \in Pid /\ Waits(s, q, "CHILD") /\ s.execChild[q] = victim THEN q ELSE Nobody

(* The parent of victim that reap_task() or stop_task() wakes, if any. *)
WokenParent(s, victim) ==
    LET q == s.parent[victim]
        waiting == \/ Waits(s, q, "PID")
                   \/ Waits(s, q, "CHILD") /\ s.execChild[q] = victim
    IN IF q \in Pid /\ waiting THEN q ELSE Nobody

(* Mutant: the status is parked only when the parent is not woken. *)
MutantWakesWithoutParking(s, victim) ==
    LET q == WokenParent(s, victim)
    IN IF q # Nobody THEN [WakeUp(s, {q}) EXCEPT !.execChild[q] = 0]
       ELSE IF s.parent[victim] > 0 THEN ParkChildNews(s, ExitStatus(s, victim))
       ELSE s

(* A parent inside exec() is handed the status in its saved eax; any other *)
(* parent finds it in the table.                                           *)
TellOfExit(s, victim) ==
    LET q == WokenParent(s, victim)
        parked == ParkChildNews(s, ExitStatus(s, victim))
    IN IF q = Nobody THEN IF s.parent[victim] > 0 THEN parked ELSE s
       ELSE IF s.wait[q] = "PID" THEN WakeUp(parked, {q})
       ELSE [WakeUp(s, {q}) EXCEPT !.execChild[q] = 0, !.settled = @ \cup {victim}]

TellOfStop(s, victim) ==
    LET q == WokenParent(s, victim)
        parked == ParkChildNews(s, StopNotice(s, victim))
    IN IF q = Nobody THEN IF s.parent[victim] > 0 THEN parked ELSE s
       ELSE [WakeUp(parked, {q}) EXCEPT !.execChild[q] =
                IF s.wait[q] = "CHILD" THEN 0 ELSE @]

DropParkedStatuses(s, p) ==
    [s EXCEPT !.parked = Keeping(s.parked, {n \in Range(s.parked) : n.parent # p}),
              !.settled = {c \in s.settled : s.parent[c] # p}]

(* Every task holds a pipe end here, so closing its descriptors wakes the  *)
(* tasks blocked on a pipe; module Descriptors has them in full.           *)
ReapTask(s, victim) ==
    IF victim = Idle \/ s.state[victim] = "DEAD" THEN s
    ELSE LET s1 == [WakeUpTasks(s, "IPC") EXCEPT !.state[victim] = "DEAD",
                                                 !.pending[victim] = {}]
             s2 == DropParkedStatuses(TellOfExit(s1, victim), victim)
         IN SettleTerminal(s2, victim, WokenParent(s1, victim))

StopTask(s, victim, sig) ==
    IF victim = Idle \/ victim \notin Awake(s) THEN s
    ELSE LET s1 == [s EXCEPT !.stopWait[victim] = s.wait[victim],
                             !.state[victim] = "STOPPED",
                             !.wait[victim] = "NONE",
                             !.pending[victim] = @ \ {sig}]
         IN SettleTerminal(TellOfStop(s1, victim), victim, WokenParent(s1, victim))

ContinueTask(s, p) ==
    IF s.state[p] # "STOPPED" THEN s
    ELSE LET inExec == s.stopWait[p] = "CHILD"
         IN [s EXCEPT !.pending[p] = {sig \in Signal :
                         IF sig = SIG_CONT THEN sig \in s.pending[p] \/ s.handler[p][sig] = "HANDLER"
                                           ELSE sig \in s.pending[p] /\ ~StopsByDefault(sig)},
                      !.parked = DropParkedStop(s.parked, p),
                      !.state[p] = IF inExec THEN "WAITING" ELSE "RUNNING",
                      !.wait[p] = IF inExec THEN "CHILD" ELSE "NONE",
                      !.stopWait[p] = "NONE"]

---------------------------------------------------------------------------
(* Signals. *)

SendUserSignal(s, p, sig) ==
    LET byDefault == s.handler[p][sig] = "DFL" /\ p # Idle /\ p # s.current
        marked == [s EXCEPT !.pending[p] = @ \cup {sig}]
    IN IF p \notin Tasks(s) THEN s
       ELSE IF sig = SIG_CONT THEN ContinueTask(s, p)
       ELSE IF byDefault /\ StopsByDefault(sig) THEN StopTask(marked, p, sig)
       ELSE IF byDefault /\ TerminatesByDefault(sig) THEN ReapTask(marked, p)
       ELSE IF Waits(s, p, "KBD")
            THEN [WakeUp(marked, {p}) EXCEPT !.interrupted[p] = TRUE]
       ELSE marked

(* To the tasks in S but idle, in list order. *)
SendToAll(s, S, sig) ==
    LET Sent[p \in Pid] ==
            IF p = Idle THEN s
            ELSE IF p \in S THEN SendUserSignal(Sent[p-1], p, sig)
            ELSE Sent[p-1]
    IN Sent[MaxPid]

SendSignalToGroup(s, g, sig) ==
    IF g = 0 THEN s
    ELSE SendToAll(s, {p \in Tasks(s) \ {Idle} : s.pgid[p] = g}, sig)

(* Mutant: a handler may interrupt a handler. *)
MutantHandlersNest(s) ==
    LET p == s.current
        handled == {sig \in s.pending[p] : s.handler[p][sig] = "HANDLER"}
    IN IF handled = {} THEN s
       ELSE [s EXCEPT !.pending[p] = @ \ {Min(handled)}, !.inHandler[p] = TRUE,
                      !.saved[p] = s.frame[p], !.frame[p] = "user"]

(* Handlers run for the lowest pending signal that has one; signals that   *)
(* are ignored or mean nothing are discarded on the way to it.             *)
CheckAndDeliverSignals(s) ==
    LET p == s.current
        handled == {sig \in s.pending[p] : s.handler[p][sig] = "HANDLER"}
        reached == {sig \in s.pending[p] : handled = {} \/ sig <= Min(handled)}
        cleared == [s EXCEPT !.pending[p] =
                      {sig \in s.pending[p] : sig \in reached =>
                          s.handler[p][sig] = "DFL" /\ HasDefault(sig)}]
    IN IF s.inHandler[p] THEN s
       ELSE IF handled = {} THEN cleared
       ELSE [cleared EXCEPT !.inHandler[p] = TRUE,
                            !.saved[p] = s.frame[p],
                            !.frame[p] = "user"]

---------------------------------------------------------------------------
(* Switching tasks.  self is the task whose kernel stack the code runs on: *)
(* the one that was current when the kernel was entered.                   *)

(* kfree() of a process_t; whose child it was stays on record. *)
Forget(s, freed) ==
    [s EXCEPT !.state = Assign(@, freed, "FREED"), !.wait = Assign(@, freed, "NONE"),
              !.stopWait = Assign(@, freed, "NONE"), !.pgid = Assign(@, freed, 0),
              !.execChild = Assign(@, freed, 0), !.handler = Assign(@, freed, Defaults),
              !.inHandler = Assign(@, freed, FALSE),
              !.interrupted = Assign(@, freed, FALSE), !.alarm = @ \ freed,
              !.frame = Assign(@, freed, "user"), !.saved = Assign(@, freed, "user")]

(* The zombie pass.  cleanup_process_memory() refuses the directory in CR3.*)
FreeZombies(s, self) ==
    LET freed == {z \in Pid : s.state[z] = "DEAD"} \ {self}
    IN [Forget(s, freed) EXCEPT !.leak = @ \/ s.cr3 \in freed]

(* due: the tasks whose alarm_deadline has passed. *)
ExpireAlarms(s, due) ==
    SendToAll([s EXCEPT !.alarm = @ \ due], due, SIG_ALRM)

SwitchTo(s, next) ==
    IF next = s.current THEN s
    ELSE CheckAndDeliverSignals([s EXCEPT !.current = next, !.cr3 = next])

Schedule(s, self) ==
    UNION {LET t == ExpireAlarms(FreeZombies(s, self), due)
           IN {SwitchTo(t, next) : next \in {p \in Pid : t.state[p] = "RUNNING"}}
             : due \in SUBSET (s.alarm \cap Tasks(s))}

(* The idle task is always alive, so the machine never halts here. *)
ExitCurrentProcess(s, self) ==
    Schedule([ReapTask(s, s.current) EXCEPT !.current = Nobody], self)

(* Mutant: a task that stops itself is not switched away from. *)
MutantStopReturns(s, self) ==
    LET p == s.current
        acting == {sig \in s.pending[p] : s.handler[p][sig] = "DFL" /\ HasDefault(sig)}
    IN IF p = Idle \/ acting = {} THEN {s}
       ELSE IF TerminatesByDefault(Min(acting)) THEN ExitCurrentProcess(s, self)
       ELSE {StopTask(s, p, Min(acting))}

ApplyDefaultSignalAction(s, self) ==
    LET p == s.current
        acting == {sig \in s.pending[p] : s.handler[p][sig] = "DFL" /\ HasDefault(sig)}
    IN IF p = Idle THEN {[s EXCEPT !.pending[p] = {}]}
       ELSE IF acting = {} THEN {s}
       ELSE IF TerminatesByDefault(Min(acting)) THEN ExitCurrentProcess(s, self)
       ELSE Schedule(StopTask(s, p, Min(acting)), self)

(* sleep_current_task(); resume is the system call to make again, or user. *)
SleepCurrentTask(s, self, reason, resume) ==
    Schedule([s EXCEPT !.state[self] = "WAITING", !.wait[self] = reason,
                       !.frame[self] = resume], self)

(* The end of syscall_handler(), for each of the states S it may be in. *)
SyscallEnd(S, self) ==
    UNION {ApplyDefaultSignalAction(CheckAndDeliverSignals(s), self) : s \in S}

Done(s, self) == {[s EXCEPT !.frame[self] = "user"]}

---------------------------------------------------------------------------
(* create_process(); handlers are the defaults after exec() and the        *)
(* parent's after fork().                                                  *)
NextPid(s) == Min({p \in Pid : s.state[p] = "EMPTY"})
CheckFreeTaskSlot(s) ==
    Cardinality(Tasks(s)) < MaxTasks /\ \E p \in Pid : s.state[p] = "EMPTY"

CreateProcess(s, parent, handlers) ==
    LET p == NextPid(s)
    IN [s EXCEPT !.state[p] = "RUNNING", !.wait[p] = "NONE",
                 !.parent[p] = parent,
                 !.pgid[p] = IF s.pgid[parent] # 0 THEN s.pgid[parent] ELSE p,
                 !.handler[p] = handlers]

Boot ==
    [state |-> [p \in Pid |-> IF p = Idle THEN "RUNNING" ELSE "EMPTY"],
     wait |-> [p \in Pid |-> "NONE"], stopWait |-> [p \in Pid |-> "NONE"],
     parent |-> [p \in Pid |-> Nobody], pgid |-> [p \in Pid |-> 0],
     execChild |-> [p \in Pid |-> 0], pending |-> [p \in Pid |-> {}],
     handler |-> [p \in Pid |-> Defaults], inHandler |-> [p \in Pid |-> FALSE],
     interrupted |-> [p \in Pid |-> FALSE], alarm |-> {},
     frame |-> [p \in Pid |-> "user"], saved |-> [p \in Pid |-> "user"],
     current |-> Idle, cr3 |-> Idle, fg |-> 0, parked |-> <<>>, keys |-> 0,
     settled |-> {}, leak |-> FALSE]

(* start_first_task() with the first program in the foreground. *)
Init == k = [CreateProcess(Boot, Idle, Defaults) EXCEPT
                !.fg = 1, !.current = 1, !.cr3 = 1]

---------------------------------------------------------------------------
(* System calls: made from code of the program's own choosing, or again.   *)
Self == k.current
Free(call) == call \in Calls /\ Self # Idle /\ k.frame[Self] = "user"
Again(call) == Self # Idle /\ k.frame[Self] = call

Fork ==
    /\ Free("fork") /\ CheckFreeTaskSlot(k)
    /\ k' \in SyscallEnd({CreateProcess(k, Self, k.handler[Self])}, Self)

ExecWait ==
    /\ Free("exec") /\ CheckFreeTaskSlot(k)
    /\ k' \in SyscallEnd(
         SleepCurrentTask([CreateProcess(k, Self, Defaults) EXCEPT
                              !.execChild[Self] = NextPid(k)], Self, "CHILD", "user"), Self)

ExecNoWait ==
    /\ Free("exec") /\ CheckFreeTaskSlot(k)
    /\ k' \in SyscallEnd({CreateProcess(k, Self, Defaults)}, Self)

Exit == Free("exit") /\ k' \in SyscallEnd(ExitCurrentProcess(k, Self), Self)

(* page_fault_handler(): exit_current_process() returns after all, and the *)
(* scheduler runs a second time.                                           *)
Segfault ==
    /\ Free("exit")
    /\ k' \in UNION {Schedule(s, Self) : s \in ExitCurrentProcess(k, Self)}

WaitCall(untraced) == IF untraced THEN "wait(WUNTRACED)" ELSE "wait(0)"

SysWait(s, self, nohang, untraced) ==
    IF NewsFor(s, self, FALSE) # {} THEN {TakeOldest(s, self, FALSE)}
    ELSE IF untraced /\ NewsFor(s, self, TRUE) # {} THEN {TakeOldest(s, self, TRUE)}
    ELSE IF nohang \/ ~HasPendingChildren(s, self) THEN Done(s, self)
    ELSE SleepCurrentTask(s, self, "PID", WaitCall(untraced))

Wait(nohang, untraced) ==
    /\ Free("wait") \/ (~nohang /\ Again(WaitCall(untraced)))
    /\ k' \in SyscallEnd(SysWait(k, Self, nohang, untraced), Self)

(* A console read: stopped in the background, cut short by a signal,       *)
(* answered from the keyboard ring, or blocked.                            *)
SysRead(s, self) ==
    IF s.fg # 0 /\ s.pgid[self] # s.fg /\ s.handler[self][SIG_TTIN] = "DFL"
    THEN {SendSignalToGroup([s EXCEPT !.frame[self] = "read"], s.pgid[self], SIG_TTIN)}
    ELSE IF s.interrupted[self]
    THEN Done([s EXCEPT !.interrupted[self] = FALSE], self)
    ELSE IF s.keys > 0 THEN Done([s EXCEPT !.keys = @ - 1], self)
    ELSE SleepCurrentTask(s, self, "KBD", "read")

Read == (Free("read") \/ Again("read")) /\ k' \in SyscallEnd(SysRead(k, Self), Self)

(* An empty or full pipe or an empty mailbox blocks; any progress on one   *)
(* wakes every task blocked on one.                                        *)
IpcBlocks ==
    /\ Free("ipc") \/ Again("ipc")
    /\ k' \in SyscallEnd(SleepCurrentTask(k, Self, "IPC", "ipc"), Self)

IpcProceeds ==
    /\ Free("ipc") \/ Again("ipc")
    /\ k' \in SyscallEnd(Done(WakeUpTasks(k, "IPC"), Self), Self)

(* kill(0, sig) marks the idle task, which discards its signals when it    *)
(* next yields; it is left out.                                            *)
Kill(p, sig) ==
    Free("kill") /\ k' \in SyscallEnd({SendUserSignal(k, p, sig)}, Self)

KillGroup(g, sig) ==
    /\ Free("kill") /\ g # 0
    /\ \E p \in Tasks(k) : k.pgid[p] = g
    /\ k' \in SyscallEnd({SendSignalToGroup(k, g, sig)}, Self)

Setpgid(p, g) ==
    /\ Free("setpgid") /\ g # 0
    /\ p \in Tasks(k) /\ (p = Self \/ k.parent[p] = Self)
    /\ g = p \/ \E q \in Tasks(k) : k.pgid[q] = g
    /\ k' \in SyscallEnd({[k EXCEPT !.pgid[p] = g]}, Self)

Tcsetpgrp(g) ==
    LET members == {p \in Tasks(k) : k.pgid[p] = g}
    IN /\ Free("tcsetpgrp") /\ g # 0 /\ members # {}
       /\ k.pgid[Self] = g \/ \E p \in members : k.parent[p] = Self
       /\ k' \in SyscallEnd({[k EXCEPT !.fg = g]}, Self)

SignalReg(sig, disposition) ==
    /\ Free("signal")
    /\ k' \in SyscallEnd({[k EXCEPT !.handler[Self][sig] = disposition]}, Self)

Sigreturn ==
    /\ Free("signal") /\ k.inHandler[Self]
    /\ k' \in SyscallEnd({[k EXCEPT !.inHandler[Self] = FALSE,
                                    !.frame[Self] = k.saved[Self]]}, Self)

Alarm ==
    /\ Free("alarm")
    /\ \E alarm \in {k.alarm \cup {Self}, k.alarm \ {Self}} :
         k' \in SyscallEnd({[k EXCEPT !.alarm = alarm]}, Self)

(* The idle task does nothing else. *)
Yield ==
    /\ k.frame[Self] = "user"
    /\ k' \in SyscallEnd(Schedule(k, Self), Self)

---------------------------------------------------------------------------
(* Interrupts that find the processor in Ring 3. *)

Timer == k' \in Schedule(k, Self)

CtrlC == SIG_INT \in Signals /\ k' = SendSignalToGroup(k, k.fg, SIG_INT)

CtrlZ == SIG_TSTP \in Signals /\ k' = SendSignalToGroup(k, k.fg, SIG_TSTP)

(* Mutant: the reader is woken only when the ring was full. *)
MutantKeyWakesLate ==
    /\ k.keys < MaxKeys
    /\ k' = [(IF k.keys > 0 THEN WakeUpTasks(k, "KBD") ELSE k) EXCEPT !.keys = @ + 1]

Key ==
    /\ k.keys < MaxKeys
    /\ k' = [WakeUpTasks(k, "KBD") EXCEPT !.keys = @ + 1]

Next ==
    \/ Fork \/ ExecWait \/ ExecNoWait \/ Exit \/ Segfault
    \/ \E nohang, untraced \in BOOLEAN : Wait(nohang, untraced)
    \/ Read \/ IpcBlocks \/ IpcProceeds
    \/ \E p \in Pid \ {Idle}, sig \in Signals : Kill(p, sig)
    \/ \E g \in Pid, sig \in Signals : KillGroup(g, sig)
    \/ \E p \in Pid, g \in Groups : Setpgid(p, g)
    \/ \E g \in Pid : Tcsetpgrp(g)
    \/ \E sig \in Signals, d \in Dispositions : SignalReg(sig, d)
    \/ Sigreturn \/ Alarm \/ Yield
    \/ Timer \/ CtrlC \/ CtrlZ \/ Key

Spec == Init /\ [][Next]_k

---------------------------------------------------------------------------
(* Properties *)

News == [parent : Pid \ {Idle}, child : Pid \ {Idle}, stopped : BOOLEAN]
Call == {"user", "read", "ipc", "wait(0)", "wait(WUNTRACED)"}
WaitReason == {"NONE", "KBD", "IPC", "CHILD", "PID"}

(* Every field keeps its type; a task waits for something exactly when it  *)
(* is blocked, and the table of exit statuses is never overfilled.         *)
TypeOK ==
    /\ k.state \in [Pid -> {"EMPTY", "RUNNING", "WAITING", "STOPPED", "DEAD", "FREED"}]
    /\ k.wait \in [Pid -> WaitReason] /\ k.stopWait \in [Pid -> WaitReason]
    /\ k.parent \in [Pid -> Pid \cup {Nobody}] /\ k.pgid \in [Pid -> Pid]
    /\ k.execChild \in [Pid -> Pid] /\ k.pending \in [Pid -> SUBSET Signal]
    /\ k.handler \in [Pid -> [Signal -> {"DFL", "IGN", "HANDLER"}]]
    /\ k.inHandler \in [Pid -> BOOLEAN] /\ k.interrupted \in [Pid -> BOOLEAN]
    /\ k.frame \in [Pid -> Call] /\ k.saved \in [Pid -> Call]
    /\ k.alarm \subseteq Pid /\ k.current \in Pid /\ k.cr3 \in Pid /\ k.fg \in Pid
    /\ k.parked \in Seq(News) /\ Len(k.parked) <= MaxSlots
    /\ k.keys \in 0..MaxKeys /\ k.settled \subseteq Pid /\ k.leak \in BOOLEAN
    /\ \A p \in Tasks(k) : k.state[p] = "WAITING" <=> k.wait[p] # "NONE"

(* schedule() always resumes a runnable task, in that task's own address   *)
(* space: a task that blocked, stopped or died inside the kernel does not  *)
(* go on executing user code.                                              *)
ResumesARunnableTask == k.state[k.current] = "RUNNING" /\ k.cr3 = k.current

(* The task table is consistent and the processor is on a task of it.      *)
TasksAreSound == TypeOK /\ ResumesARunnableTask

(* The exit of a child is reported to its parent exactly once: while the   *)
(* parent lives, the status is either in the table once, or was collected  *)
(* by wait() or exec() or discarded by a full table, never both and never  *)
(* neither, in whatever order exit, wait(), exec(), stop and kill happen.  *)
ExitReportedOnce ==
    \A c \in Pid : k.state[c] \in {"DEAD", "FREED"} /\ k.parent[c] \in Tasks(k) \ {Idle} =>
        Cardinality({i \in DOMAIN k.parked : k.parked[i].child = c /\ ~k.parked[i].stopped})
          = IF c \in k.settled THEN 0 ELSE 1

(* No wakeup is lost between a child's death or stop and its parent's      *)
(* wait(): a parent blocked there has nothing to collect.                  *)
BlockedParentHasNoNews ==
    \A p \in Pid : Waits(k, p, "PID") =>
        /\ NewsFor(k, p, FALSE) = {}
        /\ k.frame[p] = "wait(WUNTRACED)" => NewsFor(k, p, TRUE) = {}

(* continue_task() and park_stop_notice() keep stop notices true: none is  *)
(* about a task that is running again, none is doubled, and each is filed  *)
(* under the parent of the task it is about.                               *)
StopNoticesAreCurrent ==
    \A i \in DOMAIN k.parked : k.parked[i].stopped =>
        /\ k.parked[i].child \notin Awake(k)
        /\ k.parked[i].parent = k.parent[k.parked[i].child]
        /\ \A j \in DOMAIN k.parked : k.parked[j].stopped /\ j # i =>
              k.parked[j].child # k.parked[i].child

(* wait() neither sleeps through news nor hands out stale news.            *)
WaitIsSound == BlockedParentHasNoNews /\ StopNoticesAreCurrent

(* wait() never blocks with nothing left to wait for: "a parent that       *)
(* called wait() one time too many would otherwise sleep until the machine *)
(* was rebooted" (sys_wait()).                                             *)
BlockedParentHasAChild ==
    \A p \in Pid : Waits(k, p, "PID") => Children(k, p) # {}

(* The terminal leaves a group only when tcsetpgrp() moves it or when no   *)
(* member of the group is left that could use it, and then goes to a group *)
(* with a member that can.                                                 *)
TerminalMovesWhenGroupIsDone ==
    [][\/ \E g \in Pid : Tcsetpgrp(g)
       \/ k'.fg = k.fg
       \/ /\ ~GroupHasALiveMember(k', k.fg, Nobody)
          /\ k'.fg = 0 \/ GroupHasALiveMember(k', k'.fg, Nobody)]_k

(* No keystroke and no interruption is slept through: a task blocked in a  *)
(* console read has no key to read and no pending E_INTR to report.        *)
BlockedReaderHasNoInput ==
    \A p \in Pid : Waits(k, p, "KBD") => k.keys = 0 /\ ~k.interrupted[p]

(* A system call cut short by a signal is made again: the trap it resumes  *)
(* on is given up only by the task itself making the call or by a handler  *)
(* that saves it, a handler in progress is not nested, and sigreturn       *)
(* restores what was saved.                                                *)
InterruptedCallIsMadeAgain ==
    [][\A p \in Tasks(k) \cap Tasks(k') :
         /\ k.frame[p] # "user" /\ k'.frame[p] # k.frame[p] /\ p # k.current
              => k'.inHandler[p] /\ k'.saved[p] = k.frame[p]
         /\ k.inHandler[p] =>
              IF k'.inHandler[p] THEN k'.saved[p] = k.saved[p]
                                 ELSE k'.frame[p] = k.saved[p]]_k

(* Releasing a process_t releases its address space: "a zombie that is not *)
(* the one we are standing on is never that task" (schedule()).            *)
AddressSpacesAreReleased == ~k.leak

============================================================================
