----------------------------- MODULE ProcProofs -----------------------------
(***************************************************************************)
(* Proofs about processes, signals and job control, for any number of      *)
(* tasks, slots, keys and signals.  Each call, switch, key and tick of     *)
(* Proc leaves a running task and the invariant of ProcTableProofs; from   *)
(* it follow the four properties of the process runs.                      *)
(***************************************************************************)
EXTENDS ProcTableProofs

---------------------------------------------------------------------------
(* Switching tasks.                                                        *)

(* The task a record would resume is running, and the record sound.        *)
Running(s) == KInv(s) /\ s.current \in Pid /\ s.state[s.current] = "RUNNING"

(* While a task runs the kernel is settled.                                *)
LEMMA RunningIsSettled ==
    ASSUME NEW s, Running(s)
    PROVE  Settled(s)
<1>1. s.current # Nobody => s.cr3 = s.current
  BY DEF Running, KInv, KInvBut
<1>2. s.current # Nobody
  BY BoundsAssumption DEF Running, Pid, Nobody
<1> QED BY <1>1, <1>2 DEF Running, Settled

(* check_and_deliver_signals() on the way back to user mode.               *)
LEMMA CheckAndDeliverSignalsKeeps ==
    ASSUME NEW s, Running(s), NEW t, t = CheckAndDeliverSignals(s)
    PROVE  Running(t) /\ t.current = s.current
<1> DEFINE p == s.current
           handled == {sig \in s.pending[p] : s.handler[p][sig] = "HANDLER"}
           reached == {sig \in s.pending[p] : handled = {} \/ sig <= Min(handled)}
           P == {sig \in s.pending[p] : sig \in reached => s.handler[p][sig] = "DFL" /\ HasDefault(sig)}
           cleared == [s EXCEPT !.pending[p] = P]
<1>1. /\ s \in Kernel /\ KInv(s) /\ p \in Pid /\ s.state[p] = "RUNNING"
      /\ SleepOK(s) /\ (s.current # Nobody => s.cr3 = s.current)
  BY DEF Running, KInv, KInvBut
<1>2. P \in SUBSET Signal
  BY <1>1 DEF Kernel
<1>3. \/ t = s
      \/ t = cleared
      \/ t = [cleared EXCEPT !.inHandler[p] = TRUE, !.saved[p] = s.frame[p], !.frame[p] = "user"]
  BY DEF CheckAndDeliverSignals
<1> HIDE DEF P
<1>4. CASE t = s
  BY <1>4
<1>5. CASE t = cleared
  <2>1. KInv(t) /\ Goes(s, t) /\ t.state = s.state
    BY <1>1, <1>2, <1>5, MarkKeeps
  <2> QED BY <1>1, <2>1 DEF Running, Goes
<1>6. CASE t = [cleared EXCEPT !.inHandler[p] = TRUE, !.saved[p] = s.frame[p], !.frame[p] = "user"]
  <2>1. KInv(cleared) /\ Goes(s, cleared) /\ cleared.state = s.state
    BY <1>1, <1>2, MarkKeeps
  <2>2. cleared \in Kernel /\ SleepOK(cleared) /\ (cleared.current # Nobody => cleared.cr3 = cleared.current)
    BY <2>1 DEF KInv, KInvBut
  <2> DEFINE b == TRUE
             e == s.frame[p]
  <2>3. b \in BOOLEAN /\ e \in Call /\ "user" \in Call
    BY <1>1 DEF Kernel, Call
  <2>4. t = [cleared EXCEPT !.inHandler[p] = b, !.saved[p] = e, !.frame[p] = "user"]
    BY <1>6
  <2> DEFINE ih == [cleared.inHandler EXCEPT ![p] = b]
             sv == [cleared.saved EXCEPT ![p] = e]
             fr == [cleared.frame EXCEPT ![p] = "user"]
  <2> HIDE DEF b, e, cleared
  <2>4a. t = [cleared EXCEPT !.inHandler = ih, !.saved = sv, !.frame = fr]
    BY <2>4
  <2>4b. ih \in [Pid -> BOOLEAN]
    BY <1>1, <2>2, <2>3 DEF Kernel
  <2>4c. /\ sv \in [Pid -> Call] /\ fr \in [Pid -> Call]
         /\ \A q \in Pid \ {p} : fr[q] = cleared.frame[q]
    BY <1>1, <2>2, <2>3 DEF Kernel
  <2> HIDE DEF ih, sv, fr, p
  <2>5. /\ t \in Kernel /\ t.parked = cleared.parked /\ t.parent = cleared.parent
        /\ t.settled = cleared.settled /\ t.keys = cleared.keys /\ t.current = cleared.current
        /\ t.cr3 = cleared.cr3 /\ t.interrupted = cleared.interrupted
        /\ t.state = cleared.state /\ t.wait = cleared.wait
        /\ \A q \in Pid \ {p} : t.frame[q] = cleared.frame[q]
    BY <2>2, <2>4a, <2>4b, <2>4c DEF Kernel
  <2>6. SleepOK(t) /\ (t.current # Nobody => t.cr3 = t.current)
    BY <2>2, <2>5 DEF SleepOK, Tasks
  <2>7. Quiet(cleared, t)
    BY <1>1, <2>1, <2>5 DEF Quiet, Waits
  <2>8. KInv(t)
    BY <2>1, <2>5, <2>6, <2>7, QuietKeepsInvariant
  <2> QED BY <1>1, <2>1, <2>5, <2>8 DEF Running, Goes, p
<1> QED BY <1>3, <1>4, <1>5, <1>6

(* The scheduler frees the dead that nobody asks about any more.           *)
LEMMA FreeZombiesKeeps ==
    ASSUME NEW s, KInv(s), NEW self, NEW t, t = FreeZombies(s, self)
    PROVE  KInv(t)
<1> DEFINE freed == {z \in Pid : s.state[z] = "DEAD"} \ {self}
           leak == s.leak \/ s.cr3 \in freed
           st == Assign(s.state, freed, "FREED")
           wt == Assign(s.wait, freed, "NONE")
           sw == Assign(s.stopWait, freed, "NONE")
           pg == Assign(s.pgid, freed, 0)
           ec == Assign(s.execChild, freed, 0)
           ha == Assign(s.handler, freed, Defaults)
           ih == Assign(s.inHandler, freed, FALSE)
           nt == Assign(s.interrupted, freed, FALSE)
           al == s.alarm \ freed
           fr == Assign(s.frame, freed, "user")
           sv == Assign(s.saved, freed, "user")
           u == [s EXCEPT !.state = st, !.wait = wt, !.stopWait = sw, !.pgid = pg,
                          !.execChild = ec, !.handler = ha, !.inHandler = ih,
                          !.interrupted = nt, !.alarm = al, !.frame = fr, !.saved = sv]
<1>1. /\ s \in Kernel /\ SleepOK(s) /\ (s.current # Nobody => s.cr3 = s.current)
      /\ s.state[Idle] = "RUNNING"
  BY DEF KInv, KInvBut
<1>2. \A p \in freed : p \in Pid /\ s.state[p] = "DEAD"
  OBVIOUS
<1>3. t = [u EXCEPT !.leak = leak]
  <2>1. Forget(s, freed) = u
    BY DEF Forget
  <2>2. t = [Forget(s, freed) EXCEPT !.leak = @ \/ s.cr3 \in freed]
    BY DEF FreeZombies
  <2>3. u.leak = s.leak
    BY <1>1 DEF Kernel
  <2> HIDE DEF u, freed
  <2> QED BY <2>1, <2>2, <2>3
<1>4. leak \in BOOLEAN
  BY <1>1 DEF Kernel
<1> HIDE DEF freed, leak
<1>5. /\ st \in [Pid -> State] /\ wt \in [Pid -> WaitReason] /\ sw \in [Pid -> WaitReason]
      /\ \A p \in Pid : st[p] = IF p \in freed THEN "FREED" ELSE s.state[p]
      /\ \A p \in Pid : wt[p] = IF p \in freed THEN "NONE" ELSE s.wait[p]
  <2>1. "FREED" \in State /\ "NONE" \in WaitReason
    BY DEF State, WaitReason
  <2>2. s.state \in [Pid -> State] /\ s.wait \in [Pid -> WaitReason] /\ s.stopWait \in [Pid -> WaitReason]
    BY <1>1 DEF Kernel
  <2> QED BY <2>1, <2>2 DEF Assign
<1>6. pg \in [Pid -> Pid] /\ ec \in [Pid -> Pid] /\ al \in SUBSET Pid
  <2>1. 0 \in Pid
    BY BoundsAssumption DEF Pid
  <2>2. s.pgid \in [Pid -> Pid] /\ s.execChild \in [Pid -> Pid] /\ s.alarm \in SUBSET Pid
    BY <1>1 DEF Kernel
  <2> QED BY <2>1, <2>2 DEF Assign
<1>7. ha \in [Pid -> [Signal -> {"DFL", "IGN", "HANDLER"}]]
  <2>1. Defaults \in [Signal -> {"DFL", "IGN", "HANDLER"}]
    BY DEF Defaults
  <2>2. s.handler \in [Pid -> [Signal -> {"DFL", "IGN", "HANDLER"}]]
    BY <1>1 DEF Kernel
  <2> QED BY <2>1, <2>2 DEF Assign
<1>8. /\ ih \in [Pid -> BOOLEAN] /\ nt \in [Pid -> BOOLEAN]
      /\ \A p \in Pid \ freed : nt[p] = s.interrupted[p]
  <2>1. s.inHandler \in [Pid -> BOOLEAN] /\ s.interrupted \in [Pid -> BOOLEAN]
    BY <1>1 DEF Kernel
  <2> QED BY <2>1 DEF Assign
<1>9. /\ fr \in [Pid -> Call] /\ sv \in [Pid -> Call]
      /\ \A p \in Pid : fr[p] = IF p \in freed THEN "user" ELSE s.frame[p]
  <2>1. "user" \in Call
    BY DEF Call
  <2>2. s.frame \in [Pid -> Call] /\ s.saved \in [Pid -> Call]
    BY <1>1 DEF Kernel
  <2> QED BY <2>1, <2>2 DEF Assign
<1> HIDE DEF st, wt, sw, pg, ec, ha, ih, nt, al, fr, sv
<1>10. /\ t \in Kernel /\ t.parked = s.parked /\ t.parent = s.parent /\ t.settled = s.settled
       /\ t.keys = s.keys /\ t.current = s.current /\ t.cr3 = s.cr3 /\ t.frame = fr
       /\ t.interrupted = nt /\ t.state = st /\ t.wait = wt
  <2> DEFINE v == [s EXCEPT !.state = st, !.wait = wt, !.stopWait = sw, !.pgid = pg,
                            !.execChild = ec, !.handler = ha]
             w == [v EXCEPT !.inHandler = ih, !.interrupted = nt, !.alarm = al,
                            !.frame = fr, !.saved = sv, !.leak = leak]
  <2>1. t = w
    BY <1>3
  <2>2. /\ v \in Kernel /\ v.parked = s.parked /\ v.parent = s.parent /\ v.settled = s.settled
        /\ v.keys = s.keys /\ v.current = s.current /\ v.cr3 = s.cr3
        /\ v.state = st /\ v.wait = wt
    BY <1>1, <1>5, <1>6, <1>7 DEF Kernel
  <2> HIDE DEF v
  <2>3. /\ w \in Kernel /\ w.parked = v.parked /\ w.parent = v.parent /\ w.settled = v.settled
        /\ w.keys = v.keys /\ w.current = v.current /\ w.cr3 = v.cr3 /\ w.frame = fr
        /\ w.interrupted = nt /\ w.state = v.state /\ w.wait = v.wait
    BY <1>4, <1>6, <1>8, <1>9, <2>2 DEF Kernel
  <2> QED BY <2>1, <2>2, <2>3
<1>11. SleepOK(t)
  BY <1>1, <1>5, <1>10 DEF SleepOK, Tasks
<1>12. Quiet(s, t)
  <2>1. Idle \in Pid /\ Idle \notin freed
    BY <1>1, <1>2, BoundsAssumption DEF Idle, Pid
  <2>2. \A p \in Pid : /\ t.state[p] \in Gone <=> s.state[p] \in Gone
                       /\ t.state[p] = "EMPTY" <=> s.state[p] = "EMPTY"
                       /\ s.state[p] = "STOPPED" => t.state[p] = "STOPPED"
    BY <1>2, <1>5, <1>10 DEF Gone
  <2>3. \A p \in Pid : t.state[p] = "WAITING" => p \notin freed
    BY <1>5, <1>10
  <2>4. \A p \in Pid : Waits(t, p, "PID") => Waits(s, p, "PID") /\ t.frame[p] = s.frame[p]
    BY <1>5, <1>9, <1>10, <2>3 DEF Waits
  <2>5. \A p \in Pid : Waits(t, p, "KBD") =>
                       Waits(s, p, "KBD") /\ t.interrupted[p] = s.interrupted[p]
    BY <1>5, <1>8, <1>10, <2>3 DEF Waits
  <2> QED BY <1>5, <1>10, <2>1, <2>2, <2>4, <2>5 DEF Quiet
<1>13. t.current # Nobody => t.cr3 = t.current
  BY <1>1, <1>10
<1> QED BY <1>10, <1>11, <1>12, <1>13, QuietKeepsInvariant

(* Which alarms are set does not matter to the invariant.                  *)
LEMMA AlarmKeeps ==
    ASSUME NEW s, KInv(s), NEW A \in SUBSET Pid, NEW t, t = [s EXCEPT !.alarm = A]
    PROVE  KInv(t) /\ Goes(s, t)
<1>1. s \in Kernel /\ SleepOK(s) /\ (s.current # Nobody => s.cr3 = s.current)
  BY DEF KInv, KInvBut
<1>2. /\ t \in Kernel /\ t.parked = s.parked /\ t.parent = s.parent /\ t.settled = s.settled
      /\ t.keys = s.keys /\ t.current = s.current /\ t.cr3 = s.cr3 /\ t.frame = s.frame
      /\ t.interrupted = s.interrupted /\ t.state = s.state /\ t.wait = s.wait
  BY <1>1 DEF Kernel
<1>3. SleepOK(t) /\ Quiet(s, t) /\ Goes(s, t) /\ (t.current # Nobody => t.cr3 = t.current)
  BY <1>1, <1>2 DEF SleepOK, Tasks, Quiet, Goes, Waits
<1> QED BY <1>2, <1>3, QuietKeepsInvariant

(* The alarms that are due are sent as signals.                            *)
LEMMA ExpireAlarmsKeeps ==
    ASSUME NEW s, KInv(s), NEW due, NEW t, t = ExpireAlarms(s, due)
    PROVE  KInv(t)
<1> DEFINE A == s.alarm \ due
           u == [s EXCEPT !.alarm = A]
<1>1. A \in SUBSET Pid
  BY DEF KInv, KInvBut, Kernel
<1>2. t = SendToAll(u, due, SIG_ALRM) /\ SIG_ALRM \in Signal
  BY DEF ExpireAlarms, Signal
<1> HIDE DEF A
<1>3. KInv(u)
  BY <1>1, AlarmKeeps
<1> HIDE DEF u
<1> QED BY <1>2, <1>3, SendToAllKeeps

(* Switching to a runnable task, its address space with it.                *)
LEMMA SwitchToRuns ==
    ASSUME NEW s, KInv(s), NEW next \in Pid, s.state[next] = "RUNNING",
           NEW t, t = SwitchTo(s, next)
    PROVE  Running(t)
<1>1. CASE next = s.current
  BY <1>1 DEF SwitchTo, Running
<1>2. CASE next # s.current
  <2> DEFINE u == [s EXCEPT !.current = next, !.cr3 = next]
  <2>1. s \in Kernel /\ SleepOK(s)
    BY DEF KInv, KInvBut
  <2>2. /\ u \in Kernel /\ u.parked = s.parked /\ u.parent = s.parent /\ u.settled = s.settled
        /\ u.keys = s.keys /\ u.current = next /\ u.cr3 = next /\ u.frame = s.frame
        /\ u.interrupted = s.interrupted /\ u.state = s.state /\ u.wait = s.wait
    BY <2>1 DEF Kernel
  <2>3. t = CheckAndDeliverSignals(u)
    BY <1>2 DEF SwitchTo
  <2> HIDE DEF u
  <2>4. SleepOK(u) /\ Quiet(s, u) /\ (u.current # Nobody => u.cr3 = u.current)
    BY <2>1, <2>2 DEF SleepOK, Tasks, Quiet, Waits
  <2>5. KInv(u)
    BY <2>2, <2>4, QuietKeepsInvariant
  <2>6. Running(u)
    BY <2>2, <2>5 DEF Running
  <2> QED BY <2>3, <2>6, CheckAndDeliverSignalsKeeps
<1> QED BY <1>1, <1>2

(* schedule() resumes a running task, whatever state it was called in.     *)
LEMMA ScheduleRuns ==
    ASSUME NEW s, KInv(s), NEW self, NEW t \in Schedule(s, self)
    PROVE  Running(t)
<1>1. PICK due : \E next \in {p \in Pid : ExpireAlarms(FreeZombies(s, self), due).state[p] = "RUNNING"} :
                   t = SwitchTo(ExpireAlarms(FreeZombies(s, self), due), next)
  BY DEF Schedule
<1> DEFINE u == ExpireAlarms(FreeZombies(s, self), due)
<1>2. KInv(FreeZombies(s, self))
  BY FreeZombiesKeeps
<1>3. KInv(u)
  BY <1>2, ExpireAlarmsKeeps
<1> HIDE DEF u
<1>4. PICK next \in Pid : u.state[next] = "RUNNING" /\ t = SwitchTo(u, next)
  BY <1>1 DEF u
<1> QED BY <1>3, <1>4, SwitchToRuns

(* exit_current_process() as a whole.                                      *)
LEMMA ExitCurrentProcessRuns ==
    ASSUME NEW s, Running(s), NEW self, NEW t \in ExitCurrentProcess(s, self)
    PROVE  Running(t)
<1> DEFINE r == ReapTask(s, s.current)
           u == [r EXCEPT !.current = Nobody]
<1>1. s.current \in Tasks(s) /\ KInv(s)
  BY DEF Running, Tasks
<1>2. KInv(r)
  BY <1>1, ReapTaskKeeps
<1>3. t \in Schedule(u, self)
  BY DEF ExitCurrentProcess
<1> HIDE DEF r
<1>4. r \in Kernel /\ SleepOK(r)
  BY <1>2 DEF KInv, KInvBut
<1>5. /\ u \in Kernel /\ u.parked = r.parked /\ u.parent = r.parent /\ u.settled = r.settled
      /\ u.keys = r.keys /\ u.current = Nobody /\ u.frame = r.frame
      /\ u.interrupted = r.interrupted /\ u.state = r.state /\ u.wait = r.wait
  BY <1>4 DEF Kernel
<1> HIDE DEF u
<1>6. SleepOK(u) /\ Quiet(r, u) /\ (u.current # Nobody => u.cr3 = u.current)
  BY <1>4, <1>5 DEF SleepOK, Tasks, Quiet, Waits
<1>7. KInv(u)
  BY <1>2, <1>5, <1>6, QuietKeepsInvariant
<1> QED BY <1>3, <1>7, ScheduleRuns

(* The default action of the pending signals: exit, stop or nothing.       *)
LEMMA ApplyDefaultSignalActionRuns ==
    ASSUME NEW s, Running(s), NEW self, NEW t \in ApplyDefaultSignalAction(s, self)
    PROVE  Running(t)
<1> DEFINE p == s.current
           acting == {sig \in s.pending[p] : s.handler[p][sig] = "DFL" /\ HasDefault(sig)}
           P == {}
<1>1. KInv(s) /\ p \in Pid /\ P \in SUBSET Signal
  BY DEF Running
<1>2. \/ t = [s EXCEPT !.pending[p] = {}]
      \/ t = s
      \/ t \in ExitCurrentProcess(s, self)
      \/ t \in Schedule(StopTask(s, p, Min(acting)), self)
  BY DEF ApplyDefaultSignalAction
<1>3. CASE t = [s EXCEPT !.pending[p] = {}]
  <2>1. KInv(t) /\ Goes(s, t)
    <3>1. t = [s EXCEPT !.pending[p] = P]
      BY <1>3
    <3> HIDE DEF P, p
    <3> QED BY <1>1, <3>1, MarkKeeps
  <2> QED BY <2>1 DEF Running, Goes
<1>4. CASE t = s
  BY <1>4
<1>5. CASE t \in ExitCurrentProcess(s, self)
  BY <1>5, ExitCurrentProcessRuns
<1>6. CASE t \in Schedule(StopTask(s, p, Min(acting)), self)
  <2> DEFINE sig == Min(acting)
  <2> HIDE DEF sig
  <2>1. KInv(StopTask(s, p, sig))
    BY <1>1, StopTaskKeeps
  <2> QED BY <1>6, <2>1, ScheduleRuns DEF sig
<1> QED BY <1>2, <1>3, <1>4, <1>5, <1>6

(* The end of a system call.                                               *)
LEMMA SyscallEndRuns ==
    ASSUME NEW S, \A s \in S : Running(s), NEW self, NEW t \in SyscallEnd(S, self)
    PROVE  Running(t)
<1>1. PICK s \in S : t \in ApplyDefaultSignalAction(CheckAndDeliverSignals(s), self)
  BY DEF SyscallEnd
<1>2. Running(CheckAndDeliverSignals(s))
  BY CheckAndDeliverSignalsKeeps
<1> QED BY <1>1, <1>2, ApplyDefaultSignalActionRuns

(* A task goes to sleep only with nothing to wake it on record.            *)
LEMMA SleepCurrentTaskRuns ==
    ASSUME NEW s, Running(s), NEW self, self = s.current, self # Idle,
           NEW reason \in WaitReason \ {"NONE"}, NEW resume \in Call,
           reason = "PID" => \A n \in Range(s.parked) :
              n.parent = self => n.stopped /\ resume # "wait(WUNTRACED)",
           reason = "KBD" => s.keys = 0 /\ ~s.interrupted[self],
           NEW t \in SleepCurrentTask(s, self, reason, resume)
    PROVE  Running(t)
<1> DEFINE st == [s.state EXCEPT ![self] = "WAITING"]
           wt == [s.wait EXCEPT ![self] = reason]
           fr == [s.frame EXCEPT ![self] = resume]
           u == [s EXCEPT !.state = st, !.wait = wt, !.frame = fr]
<1>1. /\ s \in Kernel /\ SleepOK(s) /\ Len(s.parked) <= MaxSlots /\ s.state[Idle] = "RUNNING"
      /\ s.current # Nobody => s.cr3 = s.current
      /\ \A p \in Pid : Waits(s, p, "KBD") => s.keys = 0 /\ ~s.interrupted[p]
      /\ \A c \in Pid : s.parent[c] \in Pid => s.state[s.parent[c]] # "EMPTY"
      /\ TableOK(s, {}) /\ self \in Pid /\ s.state[self] = "RUNNING"
  BY DEF Running, KInv, KInvBut
<1>2. \A n \in Range(s.parked) : n.child \in Pid /\ n.parent \in Pid
  BY TableTyped DEF Running, KInv
<1>3. t \in Schedule(u, self)
  BY DEF SleepCurrentTask
<1>4. st \in [Pid -> State] /\ wt \in [Pid -> WaitReason] /\ fr \in [Pid -> Call]
  <2>1. "WAITING" \in State
    BY DEF State
  <2> QED BY <1>1, <2>1 DEF Kernel
<1>5. /\ st[self] = "WAITING" /\ wt[self] = reason /\ fr[self] = resume
      /\ \A p \in Pid \ {self} : st[p] = s.state[p] /\ wt[p] = s.wait[p] /\ fr[p] = s.frame[p]
  BY <1>1 DEF Kernel
<1> HIDE DEF st, wt, fr
<1>6. /\ u \in Kernel /\ u.parked = s.parked /\ u.parent = s.parent /\ u.settled = s.settled
      /\ u.keys = s.keys /\ u.current = s.current /\ u.cr3 = s.cr3
      /\ u.interrupted = s.interrupted /\ u.state = st /\ u.wait = wt /\ u.frame = fr
  BY <1>1, <1>4 DEF Kernel
<1> HIDE DEF u
<1>7. SleepOK(u)
  BY <1>1, <1>5, <1>6 DEF SleepOK, Tasks
<1>8. ASSUME NEW n \in Range(u.parked)
      PROVE  /\ n.parent = u.parent[n.child]
             /\ u.state[n.child] \in Gone \/ (n.stopped /\ u.state[n.child] = "STOPPED")
             /\ ~n.stopped => n.child \notin u.settled
             /\ Waits(u, n.parent, "PID") => n.stopped /\ u.frame[n.parent] # "wait(WUNTRACED)"
  <2>1. n \in Range(s.parked) /\ n.child \in Pid /\ n.parent \in Pid
    BY <1>2, <1>6
  <2>2. /\ n.parent = s.parent[n.child]
        /\ s.state[n.child] \in Gone \/ (n.stopped /\ s.state[n.child] = "STOPPED")
        /\ ~n.stopped => n.child \notin s.settled
        /\ Waits(s, n.parent, "PID") => n.stopped /\ s.frame[n.parent] # "wait(WUNTRACED)"
    BY <1>1, <2>1 DEF TableOK
  <2>3. n.child # self
    BY <1>1, <2>2 DEF Gone
  <2>4. CASE n.parent = self
    BY <1>5, <1>6, <2>1, <2>2, <2>3, <2>4 DEF Waits
  <2>5. CASE n.parent # self
    BY <1>5, <1>6, <2>1, <2>2, <2>3, <2>5 DEF Waits
  <2> QED BY <2>4, <2>5
<1>9. \A c \in u.settled : u.state[c] \in Gone
  <2>1. s.settled \subseteq Pid
    BY <1>1 DEF Kernel
  <2> QED BY <1>1, <1>5, <1>6, <2>1 DEF TableOK, Gone
<1>10. \A c \in Pid : u.state[c] \in Gone /\ u.parent[c] \in Tasks(u) \ {Idle} =>
         c \in u.settled \/ [parent |-> u.parent[c], child |-> c, stopped |-> FALSE] \in Range(u.parked)
  <2>1. Tasks(u) = Tasks(s) /\ \A c \in Pid : u.state[c] \in Gone => s.state[c] \in Gone
    BY <1>1, <1>5, <1>6 DEF Tasks, Gone
  <2> QED BY <1>1, <1>6, <2>1 DEF TableOK
<1>11. TableOK(u, {})
  BY <1>1, <1>6, <1>8, <1>9, <1>10 DEF TableOK
<1>12. /\ \A p \in Pid : Waits(u, p, "KBD") => u.keys = 0 /\ ~u.interrupted[p]
       /\ \A c \in Pid : u.parent[c] \in Pid => u.state[u.parent[c]] # "EMPTY"
       /\ u.state[Idle] = "RUNNING"
  <2>1. \A p \in Pid \ {self} : Waits(u, p, "KBD") => Waits(s, p, "KBD")
    BY <1>5, <1>6 DEF Waits
  <2>2. Waits(u, self, "KBD") => s.keys = 0 /\ ~s.interrupted[self]
    BY <1>5, <1>6 DEF Waits
  <2>3. Idle \in Pid
    BY BoundsAssumption DEF Idle, Pid
  <2> QED BY <1>1, <1>5, <1>6, <2>1, <2>2, <2>3
<1>13. KInv(u)
  BY <1>1, <1>6, <1>7, <1>11, <1>12 DEF KInv, KInvBut
<1> QED BY <1>3, <1>13, ScheduleRuns

(* The call of the running task is over.                                   *)
LEMMA DoneRuns ==
    ASSUME NEW s, Running(s), NEW self, self = s.current, NEW e \in Call,
           NEW t, t = [s EXCEPT !.frame[self] = e]
    PROVE  Running(t) /\ t.current = s.current
<1>1. /\ s \in Kernel /\ SleepOK(s) /\ (s.current # Nobody => s.cr3 = s.current) /\ KInv(s)
      /\ self \in Pid /\ s.state[self] = "RUNNING"
  BY DEF Running, KInv, KInvBut
<1>2. /\ t \in Kernel /\ t.parked = s.parked /\ t.parent = s.parent /\ t.settled = s.settled
      /\ t.keys = s.keys /\ t.current = s.current /\ t.cr3 = s.cr3
      /\ \A p \in Pid \ {self} : t.frame[p] = s.frame[p]
      /\ t.interrupted = s.interrupted /\ t.state = s.state /\ t.wait = s.wait
  BY <1>1 DEF Kernel
<1>3. SleepOK(t) /\ Quiet(s, t) /\ (t.current # Nobody => t.cr3 = t.current)
  BY <1>1, <1>2 DEF SleepOK, Tasks, Quiet, Waits
<1>4. KInv(t)
  BY <1>1, <1>2, <1>3, QuietKeepsInvariant, ZenonT(40)
<1> QED BY <1>1, <1>2, <1>4 DEF Running

---------------------------------------------------------------------------
(* System calls.                                                           *)

(* A pid that was never used is mentioned nowhere.                         *)
LEMMA CreateProcessRuns ==
    ASSUME NEW s, Running(s), \E q \in Pid : s.state[q] = "EMPTY", NEW parent, parent = s.current,
           NEW handlers \in [Signal -> {"DFL", "IGN", "HANDLER"}],
           NEW t, t = CreateProcess(s, parent, handlers)
    PROVE  Running(t) /\ t.current = s.current /\ NextPid(s) \in Pid
<1> DEFINE free == {q \in Pid : s.state[q] = "EMPTY"}
           p == NextPid(s)
           g == IF s.pgid[parent] # 0 THEN s.pgid[parent] ELSE p
           st == [s.state EXCEPT ![p] = "RUNNING"]
           wt == [s.wait EXCEPT ![p] = "NONE"]
           pa == [s.parent EXCEPT ![p] = parent]
           pg == [s.pgid EXCEPT ![p] = g]
           ha == [s.handler EXCEPT ![p] = handlers]
<1>1. /\ s \in Kernel /\ SleepOK(s) /\ Len(s.parked) <= MaxSlots /\ s.state[Idle] = "RUNNING"
      /\ s.current # Nobody => s.cr3 = s.current
      /\ \A q \in Pid : Waits(s, q, "KBD") => s.keys = 0 /\ ~s.interrupted[q]
      /\ \A c \in Pid : s.parent[c] \in Pid => s.state[s.parent[c]] # "EMPTY"
      /\ TableOK(s, {}) /\ parent \in Pid /\ s.state[parent] = "RUNNING"
  BY DEF Running, KInv, KInvBut
<1>2. p \in free
  <2>1. free \subseteq Nat /\ free # {}
    BY BoundsAssumption DEF Pid
  <2>2. p = CHOOSE x \in free : \A y \in free : x <= y
    BY DEF NextPid, Min
  <2> HIDE DEF free, p
  <2> QED BY <2>1, <2>2, LeastIsChosen
<1>3. p \in Pid /\ s.state[p] = "EMPTY" /\ p # parent /\ p # Idle
  BY <1>1, <1>2
<1>4. t = [s EXCEPT !.state = st, !.wait = wt, !.parent = pa, !.pgid = pg, !.handler = ha]
  BY DEF CreateProcess
<1> HIDE DEF free, p
<1>5. g \in Pid
  BY <1>1, <1>3 DEF Kernel
<1> HIDE DEF g
<1>6. /\ st \in [Pid -> State] /\ wt \in [Pid -> WaitReason] /\ pa \in [Pid -> Pid \cup {Nobody}]
      /\ pg \in [Pid -> Pid] /\ ha \in [Pid -> [Signal -> {"DFL", "IGN", "HANDLER"}]]
  <2>1. "RUNNING" \in State /\ "NONE" \in WaitReason
    BY DEF State, WaitReason
  <2> QED BY <1>1, <1>3, <1>5, <2>1 DEF Kernel
<1>7. /\ st[p] = "RUNNING" /\ wt[p] = "NONE" /\ pa[p] = parent
      /\ \A q \in Pid \ {p} : st[q] = s.state[q] /\ wt[q] = s.wait[q] /\ pa[q] = s.parent[q]
  BY <1>1, <1>3 DEF Kernel
<1> HIDE DEF st, wt, pa, pg, ha
<1>8. /\ t \in Kernel /\ t.parked = s.parked /\ t.settled = s.settled /\ t.frame = s.frame
      /\ t.keys = s.keys /\ t.current = s.current /\ t.cr3 = s.cr3
      /\ t.interrupted = s.interrupted /\ t.state = st /\ t.wait = wt /\ t.parent = pa
  BY <1>1, <1>4, <1>6, ZenonT(40) DEF Kernel
<1>9. SleepOK(t)
  BY <1>1, <1>3, <1>7, <1>8 DEF SleepOK, Tasks
<1>10. \A q \in Pid, r \in {"PID", "KBD"} : Waits(t, q, r) => Waits(s, q, r)
  BY <1>3, <1>7, <1>8 DEF Waits
<1>11. \A n \in Range(s.parked) : n.child \in Pid /\ n.parent \in Pid
  BY TableTyped DEF Running, KInv
<1>12. ASSUME NEW n \in Range(t.parked)
       PROVE  /\ n.parent = t.parent[n.child]
              /\ t.state[n.child] \in Gone \/ (n.stopped /\ t.state[n.child] = "STOPPED")
              /\ ~n.stopped => n.child \notin t.settled
              /\ Waits(t, n.parent, "PID") => n.stopped /\ t.frame[n.parent] # "wait(WUNTRACED)"
  <2>1. n \in Range(s.parked) /\ n.child \in Pid /\ n.parent \in Pid
    BY <1>8, <1>11
  <2>2. /\ n.parent = s.parent[n.child]
        /\ s.state[n.child] \in Gone \/ (n.stopped /\ s.state[n.child] = "STOPPED")
        /\ ~n.stopped => n.child \notin s.settled
        /\ Waits(s, n.parent, "PID") => n.stopped /\ s.frame[n.parent] # "wait(WUNTRACED)"
    BY <1>1, <2>1 DEF TableOK
  <2>3. n.child # p
    BY <1>3, <2>2 DEF Gone
  <2>4. Waits(t, n.parent, "PID") => Waits(s, n.parent, "PID")
    BY <1>10, <2>1
  <2> QED BY <1>7, <1>8, <2>1, <2>2, <2>3, <2>4
<1>13. \A c \in t.settled : t.state[c] \in Gone
  <2>1. s.settled \subseteq Pid
    BY <1>1 DEF Kernel
  <2> QED BY <1>1, <1>3, <1>7, <1>8, <2>1 DEF TableOK, Gone
<1>14. ASSUME NEW c \in Pid, t.state[c] \in Gone, t.parent[c] \in Tasks(t) \ {Idle}
       PROVE  c \in t.settled \/ [parent |-> t.parent[c], child |-> c, stopped |-> FALSE] \in Range(t.parked)
  <2>1. c # p /\ s.state[c] \in Gone /\ t.parent[c] = s.parent[c] /\ s.parent[c] \in Pid
    BY <1>7, <1>8, <1>14 DEF Gone, Tasks
  <2>2. s.parent[c] # p
    BY <1>1, <1>3, <2>1
  <2>3. s.parent[c] \in Tasks(s) \ {Idle}
    BY <1>7, <1>8, <1>14, <2>1, <2>2 DEF Tasks
  <2> QED BY <1>1, <1>8, <2>1, <2>3 DEF TableOK
<1>15. TableOK(t, {})
  BY <1>1, <1>8, <1>12, <1>13, <1>14 DEF TableOK
<1>16. /\ \A q \in Pid : Waits(t, q, "KBD") => t.keys = 0 /\ ~t.interrupted[q]
       /\ t.state[Idle] = "RUNNING" /\ t.state[parent] = "RUNNING"
  <2>1. Idle \in Pid
    BY BoundsAssumption DEF Idle, Pid
  <2> QED BY <1>1, <1>3, <1>7, <1>8, <1>10, <2>1
<1>17. \A c \in Pid : t.parent[c] \in Pid => t.state[t.parent[c]] # "EMPTY"
  <2>1. \A q \in Pid : s.state[q] # "EMPTY" => t.state[q] # "EMPTY"
    BY <1>7, <1>8
  <2>2. \A c \in Pid : t.parent[c] = s.parent[c] \/ t.parent[c] = parent
    BY <1>7, <1>8
  <2> QED BY <1>1, <2>1, <2>2
<1>18. KInv(t)
  BY <1>1, <1>8, <1>9, <1>15, <1>16, <1>17 DEF KInv, KInvBut
<1> QED BY <1>1, <1>3, <1>8, <1>16, <1>18 DEF Running, p

(* wait() takes the oldest parked status.                                  *)
LEMMA TakeOldestRuns ==
    ASSUME NEW s, Running(s), NEW p, p = s.current, NEW stopped \in BOOLEAN,
           NewsFor(s, p, stopped) # {}, NEW t, t = TakeOldest(s, p, stopped)
    PROVE  Running(t)
<1> DEFINE i == Min(NewsFor(s, p, stopped))
           q == RemoveAt(s.parked, i)
           set == IF stopped THEN s.settled ELSE s.settled \cup {s.parked[i].child}
           fr == [s.frame EXCEPT ![p] = "user"]
<1>1. /\ s \in Kernel /\ SleepOK(s) /\ Len(s.parked) <= MaxSlots /\ s.state[Idle] = "RUNNING"
      /\ s.current # Nobody => s.cr3 = s.current
      /\ \A r \in Pid : Waits(s, r, "KBD") => s.keys = 0 /\ ~s.interrupted[r]
      /\ \A c \in Pid : s.parent[c] \in Pid => s.state[s.parent[c]] # "EMPTY"
      /\ TableOK(s, {}) /\ p \in Pid /\ s.state[p] = "RUNNING"
  BY DEF Running, KInv, KInvBut
<1>2. s.parked \in Seq(News) /\ Distinct(s.parked)
  BY <1>1 DEF Kernel, TableOK
<1>3. i \in NewsFor(s, p, stopped)
  <2> DEFINE N == NewsFor(s, p, stopped)
  <2>1. N \subseteq Nat /\ N # {}
    BY <1>2 DEF NewsFor
  <2>2. i = CHOOSE x \in N : \A y \in N : x <= y
    BY DEF Min
  <2> HIDE DEF N, i
  <2>3. i \in N
    BY <2>1, <2>2, LeastIsChosen
  <2> QED BY <2>3 DEF N
<1>4. i \in DOMAIN s.parked /\ s.parked[i].parent = p /\ s.parked[i].stopped = stopped
  BY <1>3 DEF NewsFor
<1>5. t = [s EXCEPT !.parked = q, !.settled = set, !.frame = fr]
  BY DEF TakeOldest
<1> HIDE DEF i
<1>6. /\ q \in Seq(News) /\ Distinct(q) /\ Len(q) = Len(s.parked) - 1
      /\ Range(q) = Range(s.parked) \ {s.parked[i]}
  BY <1>2, <1>4, RemoveEntry
<1>7. s.parked[i] \in News /\ s.parked[i] \in Range(s.parked)
  BY <1>2, <1>4 DEF Range
<1> DEFINE n0 == s.parked[i]
<1> HIDE DEF q, n0
<1>8. n0 \in News /\ n0 \in Range(s.parked) /\ n0.parent = p /\ n0.stopped = stopped
  BY <1>4, <1>7 DEF n0
<1>9. Range(q) = Range(s.parked) \ {n0} /\ set = IF stopped THEN s.settled ELSE s.settled \cup {n0.child}
  BY <1>6 DEF n0
<1> HIDE DEF set
<1>10. n0.child \in Pid /\ (~stopped => s.state[n0.child] \in Gone) /\ n0.parent = s.parent[n0.child]
  BY <1>1, <1>8 DEF TableOK, News
<1>11. /\ set \subseteq Pid /\ fr \in [Pid -> Call] /\ fr[p] = "user"
       /\ \A r \in Pid \ {p} : fr[r] = s.frame[r]
  BY <1>1, <1>9, <1>10 DEF Kernel, Call
<1> HIDE DEF fr
<1>12. /\ t \in Kernel /\ t.parked = q /\ t.settled = set /\ t.frame = fr
       /\ t.keys = s.keys /\ t.current = s.current /\ t.cr3 = s.cr3 /\ t.parent = s.parent
       /\ t.interrupted = s.interrupted /\ t.state = s.state /\ t.wait = s.wait
  BY <1>1, <1>5, <1>6, <1>11, ZenonT(40) DEF Kernel
<1>13. SleepOK(t) /\ Tasks(t) = Tasks(s) /\ \A r, w : Waits(t, r, w) <=> Waits(s, r, w)
  BY <1>1, <1>12 DEF SleepOK, Tasks, Waits
<1>14. ASSUME NEW n \in Range(t.parked)
       PROVE  /\ n.parent = t.parent[n.child]
              /\ t.state[n.child] \in Gone \/ (n.stopped /\ t.state[n.child] = "STOPPED")
              /\ ~n.stopped => n.child \notin t.settled
              /\ Waits(t, n.parent, "PID") => n.stopped /\ t.frame[n.parent] # "wait(WUNTRACED)"
  <2>1. n \in Range(s.parked) /\ n # n0 /\ n \in News
    BY <1>2, <1>9, <1>12 DEF Range
  <2>2. /\ n.parent = s.parent[n.child]
        /\ s.state[n.child] \in Gone \/ (n.stopped /\ s.state[n.child] = "STOPPED")
        /\ ~n.stopped => n.child \notin s.settled
        /\ Waits(s, n.parent, "PID") => n.stopped /\ s.frame[n.parent] # "wait(WUNTRACED)"
    BY <1>1, <2>1 DEF TableOK
  <2>3. ~n.stopped /\ ~stopped => n.child # n0.child
    BY <1>8, <1>10, <2>1, <2>2 DEF News
  <2>4. ~n.stopped => n.child \notin t.settled
    BY <1>9, <1>12, <2>2, <2>3
  <2>5. ASSUME Waits(t, n.parent, "PID")
        PROVE  n.stopped /\ t.frame[n.parent] # "wait(WUNTRACED)"
    <3>1. Waits(s, n.parent, "PID") /\ n.parent \in Pid
      BY <1>13, <2>1, <2>5 DEF News
    <3>2. n.parent # p
      BY <1>1, <3>1 DEF Waits
    <3> QED BY <1>11, <1>12, <2>2, <3>1, <3>2
  <2> QED BY <1>12, <2>2, <2>4, <2>5
<1>15. \A c \in t.settled : t.state[c] \in Gone
  BY <1>1, <1>9, <1>10, <1>12 DEF TableOK
<1>16. ASSUME NEW c \in Pid, t.state[c] \in Gone, t.parent[c] \in Tasks(t) \ {Idle}
       PROVE  c \in t.settled \/ [parent |-> t.parent[c], child |-> c, stopped |-> FALSE] \in Range(t.parked)
  <2> DEFINE e == [parent |-> s.parent[c], child |-> c, stopped |-> FALSE]
  <2>1. c \in s.settled \/ e \in Range(s.parked)
    BY <1>1, <1>12, <1>13, <1>16 DEF TableOK
  <2>2. e = n0 => ~stopped /\ n0.child = c
    BY <1>8
  <2> QED BY <1>9, <1>12, <2>1, <2>2
<1>17. TableOK(t, {})
  BY <1>6, <1>12, <1>14, <1>15, <1>16 DEF TableOK
<1>18. Len(t.parked) <= MaxSlots
  <2>1. Len(s.parked) \in Nat /\ MaxSlots \in Nat
    BY <1>2, BoundsAssumption
  <2> QED BY <1>1, <1>6, <1>12, <2>1
<1>19. KInv(t)
  BY <1>1, <1>12, <1>13, <1>17, <1>18 DEF KInv, KInvBut
<1> QED BY <1>1, <1>12, <1>19 DEF Running

(* A call that touches neither the table, nor the states, nor what another *)
(* task is blocked on.                                                     *)
OwnAffair(s, t) ==
    /\ t \in Kernel /\ t.parked = s.parked /\ t.parent = s.parent /\ t.settled = s.settled
    /\ t.keys = s.keys /\ t.current = s.current /\ t.cr3 = s.cr3
    /\ \A p \in Pid \ {s.current} : t.frame[p] = s.frame[p] /\ t.interrupted[p] = s.interrupted[p]
    /\ t.state = s.state /\ t.wait = s.wait

(* A step that changes only what is the running task's own.                *)
LEMMA OwnAffairRuns ==
    ASSUME NEW s, Running(s), NEW t, OwnAffair(s, t)
    PROVE  Running(t) /\ t.current = s.current
<1>1. /\ s \in Kernel /\ SleepOK(s) /\ (s.current # Nobody => s.cr3 = s.current) /\ KInv(s)
      /\ s.current \in Pid /\ s.state[s.current] = "RUNNING"
  BY DEF Running, KInv, KInvBut
<1>2. SleepOK(t) /\ (t.current # Nobody => t.cr3 = t.current) /\ t \in Kernel
  BY <1>1 DEF SleepOK, Tasks, OwnAffair
<1>3. Quiet(s, t)
  BY <1>1 DEF Quiet, Waits, OwnAffair
<1>4. KInv(t)
  BY <1>1, <1>2, <1>3, QuietKeepsInvariant
<1> QED BY <1>1, <1>4 DEF Running, OwnAffair

(* A step that lets the running task go on.                                *)
LEMMA GoesRuns ==
    ASSUME NEW s, Running(s), NEW t, KInv(t), Goes(s, t)
    PROVE  Running(t) /\ t.current = s.current
BY DEF Running, Goes

(* Keys may arrive once nobody sleeps for one.                             *)
LEMMA KeysRun ==
    ASSUME NEW s, Running(s), \A p \in Pid : ~Waits(s, p, "KBD"), NEW n \in 0..MaxKeys,
           NEW t, t = [s EXCEPT !.keys = n]
    PROVE  Running(t) /\ t.current = s.current
<1>1. s \in Kernel
  BY DEF Running, KInv, KInvBut
<1>2. /\ t \in Kernel /\ t.parked = s.parked /\ t.parent = s.parent /\ t.settled = s.settled
      /\ t.current = s.current /\ t.cr3 = s.cr3 /\ t.frame = s.frame
      /\ t.interrupted = s.interrupted /\ t.state = s.state /\ t.wait = s.wait
  BY <1>1 DEF Kernel
<1>3. TableOK(t, {})
  <2>1. TableOK(s, {})
    BY DEF Running, KInv, KInvBut
  <2>2. Tasks(t) = Tasks(s)
    BY <1>2 DEF Tasks
  <2>3. \A p : Waits(t, p, "PID") <=> Waits(s, p, "PID")
    BY <1>2 DEF Waits
  <2> QED BY <1>2, <2>1, <2>2, <2>3 DEF TableOK
<1>4. SleepOK(t)
  BY <1>2 DEF Running, KInv, KInvBut, SleepOK, Tasks
<1>5. \A p \in Pid : ~Waits(t, p, "KBD")
  BY <1>2 DEF Waits
<1>6. KInv(t)
  BY <1>2, <1>3, <1>4, <1>5 DEF Running, KInv, KInvBut
<1> QED BY <1>2, <1>6 DEF Running

(* sys_wait() as a whole.                                                  *)
LEMMA SysWaitRuns ==
    ASSUME NEW s, Running(s), NEW self, self = s.current, self # Idle,
           NEW nohang \in BOOLEAN, NEW untraced \in BOOLEAN,
           NEW t \in SysWait(s, self, nohang, untraced)
    PROVE  Running(t)
<1>1. CASE NewsFor(s, self, FALSE) # {}
  <2>1. t = TakeOldest(s, self, FALSE)
    BY <1>1 DEF SysWait
  <2> QED BY <1>1, <2>1, TakeOldestRuns
<1>2. CASE NewsFor(s, self, FALSE) = {} /\ untraced /\ NewsFor(s, self, TRUE) # {}
  <2>1. t = TakeOldest(s, self, TRUE)
    BY <1>2 DEF SysWait
  <2> QED BY <1>2, <2>1, TakeOldestRuns
<1>3. CASE t \in Done(s, self)
  <2>1. t = [s EXCEPT !.frame[self] = "user"] /\ "user" \in Call
    BY <1>3 DEF Done, Call
  <2> QED BY <2>1, DoneRuns
<1>4. CASE /\ NewsFor(s, self, FALSE) = {} /\ ~(untraced /\ NewsFor(s, self, TRUE) # {})
           /\ t \in SleepCurrentTask(s, self, "PID", WaitCall(untraced))
  <2> DEFINE resume == WaitCall(untraced)
  <2>1. "PID" \in WaitReason \ {"NONE"} /\ resume \in Call /\ "PID" # "KBD"
    BY DEF WaitReason, WaitCall, Call
  <2>2. resume = "wait(WUNTRACED)" => untraced
    BY DEF WaitCall
  <2>3. s.parked \in Seq(News)
    BY DEF Running, KInv, KInvBut, Kernel
  <2>4. ASSUME NEW n \in Range(s.parked), n.parent = self
        PROVE  n.stopped /\ resume # "wait(WUNTRACED)"
    <3>1. PICK i \in DOMAIN s.parked : n = s.parked[i]
      BY DEF Range
    <3>2. n \in News
      BY <2>3, <3>1
    <3>3. n.stopped # FALSE
      BY <1>4, <2>4, <3>1 DEF NewsFor
    <3>4. n.stopped = TRUE
      BY <3>2, <3>3 DEF News
    <3>5. NewsFor(s, self, TRUE) # {}
      BY <2>4, <3>1, <3>4 DEF NewsFor
    <3> QED BY <1>4, <2>2, <3>4, <3>5
  <2>5. t \in SleepCurrentTask(s, self, "PID", resume)
    BY <1>4
  <2> HIDE DEF resume
  <2> QED BY <2>1, <2>4, <2>5, SleepCurrentTaskRuns
<1> QED BY <1>1, <1>2, <1>3, <1>4 DEF SysWait

(* sys_read() of the terminal as a whole.                                  *)
LEMMA SysReadRuns ==
    ASSUME NEW s, Running(s), NEW self, self = s.current, self # Idle, NEW t \in SysRead(s, self)
    PROVE  Running(t)
<1>1. s \in Kernel /\ self \in Pid /\ s.state[self] = "RUNNING"
  BY DEF Running, KInv, KInvBut
<1>2. {"read", "user"} \subseteq Call
  BY DEF Call
<1>3. CASE t = SendSignalToGroup([s EXCEPT !.frame[self] = "read"], s.pgid[self], SIG_TTIN)
  <2> DEFINE u == [s EXCEPT !.frame[self] = "read"]
             g == s.pgid[self]
  <2>1. Running(u)
    BY <1>2, DoneRuns
  <2>2. t = SendSignalToGroup(u, g, SIG_TTIN) /\ SIG_TTIN \in Signal
    BY <1>3 DEF Signal
  <2> HIDE DEF u, g
  <2>3. KInv(t) /\ Goes(u, t)
    BY <2>1, <2>2, SendSignalToGroupKeeps DEF Running
  <2> QED BY <2>1, <2>3, GoesRuns
<1>4. CASE t \in Done([s EXCEPT !.interrupted[self] = FALSE], self)
  <2> DEFINE b == FALSE
             u == [s EXCEPT !.interrupted[self] = b]
  <2>1. t = [u EXCEPT !.frame[self] = "user"] /\ b \in BOOLEAN
    BY <1>4 DEF Done
  <2>2. s.state[self] # "WAITING" /\ KInv(s)
    BY <1>1 DEF Running
  <2> HIDE DEF b
  <2>3. KInv(u) /\ Goes(s, u)
    BY <1>1, <2>1, <2>2, InterruptedKeeps
  <2>4. Running(u) /\ u.current = s.current
    BY <2>3, GoesRuns
  <2> HIDE DEF u
  <2> QED BY <1>2, <2>1, <2>4, DoneRuns
<1>5. CASE s.keys > 0 /\ t \in Done([s EXCEPT !.keys = @ - 1], self)
  <2> DEFINE n == s.keys - 1
             u == [s EXCEPT !.keys = n]
  <2>1. t = [u EXCEPT !.frame[self] = "user"]
    BY <1>5 DEF Done
  <2>2. s.keys \in 0..MaxKeys
    BY <1>1 DEF Kernel
  <2>3. n \in 0..MaxKeys /\ s.keys # 0
    BY <1>5, <2>2, BoundsAssumption
  <2>4. \A p \in Pid : ~Waits(s, p, "KBD")
    BY <2>3 DEF Running, KInv, KInvBut
  <2> HIDE DEF n
  <2>5. Running(u) /\ u.current = s.current
    BY <2>3, <2>4, KeysRun
  <2> HIDE DEF u
  <2> QED BY <1>2, <2>1, <2>5, DoneRuns
<1>6. CASE ~s.interrupted[self] /\ ~(s.keys > 0) /\ t \in SleepCurrentTask(s, self, "KBD", "read")
  <2>1. s.keys = 0
    <3>1. s.keys \in 0..MaxKeys
      BY <1>1 DEF Kernel
    <3> QED BY <1>6, <3>1, BoundsAssumption
  <2>2. "KBD" \in WaitReason \ {"NONE"} /\ "KBD" # "PID"
    BY DEF WaitReason
  <2> QED BY <1>2, <1>6, <2>1, <2>2, SleepCurrentTaskRuns
<1> QED BY <1>3, <1>4, <1>5, <1>6 DEF SysRead

---------------------------------------------------------------------------
(* The steps of the machine.                                               *)

LEMMA CallEnds ==
    ASSUME NEW s, Running(s), NEW self, NEW t \in SyscallEnd({s}, self)
    PROVE  Running(t)
<1>1. \A r \in {s} : Running(r)
  OBVIOUS
<1> DEFINE S == {s}
<1> HIDE DEF S
<1>2. t \in SyscallEnd(S, self) /\ \A r \in S : Running(r)
  BY <1>1 DEF S
<1> QED BY <1>2, SyscallEndRuns

(* fork(), and exec() that does not wait.                                  *)
LEMMA ForkRuns ==
    ASSUME Running(k), Fork \/ ExecNoWait
    PROVE  Running(k')
<1> DEFINE own == k.handler[Self]
<1>1. Self = k.current /\ CheckFreeTaskSlot(k)
  BY DEF Self, Fork, ExecNoWait
<1>2. own \in [Signal -> {"DFL", "IGN", "HANDLER"}] /\ Defaults \in [Signal -> {"DFL", "IGN", "HANDLER"}]
  BY DEF Running, KInv, KInvBut, Kernel, Defaults, Self
<1>3. PICK h \in {own, Defaults} : k' \in SyscallEnd({CreateProcess(k, Self, h)}, Self)
  BY DEF Fork, ExecNoWait
<1> HIDE DEF own
<1> DEFINE s == CreateProcess(k, Self, h)
<1>4. h \in [Signal -> {"DFL", "IGN", "HANDLER"}]
  BY <1>2
<1>5. Running(s)
  BY <1>1, <1>4, CreateProcessRuns DEF CheckFreeTaskSlot
<1> HIDE DEF s
<1>6. k' \in SyscallEnd({s}, Self)
  BY <1>3 DEF s
<1> QED BY <1>5, <1>6, CallEnds

(* exec() that waits for its child.                                        *)
LEMMA ExecWaitRuns ==
    ASSUME Running(k), ExecWait
    PROVE  Running(k')
<1> DEFINE s == CreateProcess(k, Self, Defaults)
           p == NextPid(k)
           u == [s EXCEPT !.execChild[Self] = p]
           S == SleepCurrentTask(u, Self, "CHILD", "user")
<1>1. Self = k.current /\ CheckFreeTaskSlot(k) /\ Self # Idle
  BY DEF Self, ExecWait, Free
<1>2. Defaults \in [Signal -> {"DFL", "IGN", "HANDLER"}]
  BY DEF Defaults
<1>3. Running(s) /\ s.current = k.current /\ p \in Pid
  BY <1>1, <1>2, CreateProcessRuns DEF CheckFreeTaskSlot
<1>4. k' \in SyscallEnd(S, Self)
  BY DEF ExecWait
<1> HIDE DEF s, p
<1>5. OwnAffair(s, u)
  <2>1. s \in Kernel /\ Self \in Pid
    BY <1>1, <1>3 DEF Running, KInv, KInvBut
  <2> QED BY <1>3, <2>1 DEF OwnAffair, Kernel
<1>6. Running(u) /\ u.current = Self
  BY <1>1, <1>3, <1>5, OwnAffairRuns
<1> HIDE DEF u
<1>7. \A t \in S : Running(t)
  <2>1. /\ "CHILD" \in WaitReason \ {"NONE"} /\ "user" \in Call
        /\ "CHILD" # "PID" /\ "CHILD" # "KBD"
    BY DEF WaitReason, Call
  <2> QED BY <1>1, <1>6, <2>1, SleepCurrentTaskRuns
<1> HIDE DEF S
<1> QED BY <1>4, <1>7, SyscallEndRuns

(* exit() and the fault that ends a task.                                  *)
LEMMA ExitRuns ==
    ASSUME Running(k), Exit \/ Segfault
    PROVE  Running(k')
<1> DEFINE S == ExitCurrentProcess(k, Self)
<1>1. \A t \in S : Running(t)
  BY ExitCurrentProcessRuns
<1>2. k' \in SyscallEnd(S, Self) \/ \E s \in S : k' \in Schedule(s, Self)
  BY DEF Exit, Segfault
<1> HIDE DEF S
<1>3. CASE k' \in SyscallEnd(S, Self)
  BY <1>1, <1>3, SyscallEndRuns
<1>4. CASE \E s \in S : k' \in Schedule(s, Self)
  BY <1>1, <1>4, ScheduleRuns DEF Running
<1> QED BY <1>2, <1>3, <1>4

(* wait() in each of its forms.                                            *)
LEMMA WaitRuns ==
    ASSUME Running(k), NEW nohang \in BOOLEAN, NEW untraced \in BOOLEAN, Wait(nohang, untraced)
    PROVE  Running(k')
<1> DEFINE S == SysWait(k, Self, nohang, untraced)
<1>1. Self = k.current /\ Self # Idle
  BY DEF Self, Wait, Free, Again
<1>2. \A t \in S : Running(t)
  BY <1>1, SysWaitRuns
<1>3. k' \in SyscallEnd(S, Self)
  BY DEF Wait
<1> HIDE DEF S
<1> QED BY <1>2, <1>3, SyscallEndRuns

(* read() of the terminal.                                                 *)
LEMMA ReadRuns ==
    ASSUME Running(k), Read
    PROVE  Running(k')
<1> DEFINE S == SysRead(k, Self)
<1>1. Self = k.current /\ Self # Idle
  BY DEF Self, Read, Free, Again
<1>2. \A t \in S : Running(t)
  BY <1>1, SysReadRuns
<1>3. k' \in SyscallEnd(S, Self)
  BY DEF Read
<1> HIDE DEF S
<1> QED BY <1>2, <1>3, SyscallEndRuns

(* Calls that sleep on a pipe or a message, and those that do not.         *)
LEMMA IpcRuns ==
    ASSUME Running(k), IpcBlocks \/ IpcProceeds
    PROVE  Running(k')
<1>1. Self = k.current /\ Self # Idle
  BY DEF Self, IpcBlocks, IpcProceeds, Free, Again
<1>2. CASE IpcBlocks
  <2> DEFINE S == SleepCurrentTask(k, Self, "IPC", "ipc")
  <2>1. "IPC" \in WaitReason \ {"NONE"} /\ "ipc" \in Call /\ "IPC" # "PID" /\ "IPC" # "KBD"
    BY DEF WaitReason, Call
  <2>2. \A t \in S : Running(t)
    BY <1>1, <2>1, SleepCurrentTaskRuns
  <2>3. k' \in SyscallEnd(S, Self)
    BY <1>2 DEF IpcBlocks
  <2> HIDE DEF S
  <2> QED BY <2>2, <2>3, SyscallEndRuns
<1>3. CASE IpcProceeds
  <2> DEFINE w == WakeUpTasks(k, "IPC")
             u == [w EXCEPT !.frame[Self] = "user"]
  <2>1. KInv(w) /\ Stays(k, w)
    BY WakeUpTasksKeeps DEF Running
  <2>2. Running(w) /\ w.current = Self
    BY <1>1, <2>1 DEF Stays, Running
  <2>3. k' \in SyscallEnd({u}, Self)
    BY <1>3 DEF IpcProceeds, Done
  <2>4. "user" \in Call
    BY DEF Call
  <2> HIDE DEF w
  <2>5. Running(u)
    BY <2>2, <2>4, DoneRuns
  <2> HIDE DEF u
  <2> QED BY <2>3, <2>5, CallEnds
<1> QED BY <1>2, <1>3

(* kill() of a task and of a group.                                        *)
LEMMA KillRuns ==
    ASSUME Running(k), NEW p \in Pid, NEW sig \in Signals, Kill(p, sig) \/ KillGroup(p, sig)
    PROVE  Running(k')
<1>1. sig \in Signal
  BY SignalsAssumption
<1>2. PICK s \in {SendUserSignal(k, p, sig), SendSignalToGroup(k, p, sig)} : k' \in SyscallEnd({s}, Self)
  BY DEF Kill, KillGroup
<1>3. KInv(s) /\ Goes(k, s)
  BY <1>1, <1>2, SendUserSignalKeeps, SendSignalToGroupKeeps DEF Running
<1>4. Running(s)
  BY <1>3, GoesRuns
<1> QED BY <1>2, <1>4, CallEnds

(* setpgid(), tcsetpgrp(), signal(), sigreturn() and alarm().              *)
LEMMA OwnCallRuns ==
    ASSUME Running(k),
           \/ \E p \in Pid, g \in Groups : Setpgid(p, g)
           \/ \E g \in Pid : Tcsetpgrp(g)
           \/ \E sig \in Signals, d \in Dispositions : SignalReg(sig, d)
           \/ Sigreturn \/ Alarm
    PROVE  Running(k')
<1>1. k \in Kernel /\ Self = k.current /\ Self \in Pid
  BY DEF Running, KInv, KInvBut, Self
<1>2. ASSUME NEW s, OwnAffair(k, s), k' \in SyscallEnd({s}, Self)
      PROVE  Running(k')
  <2>1. Running(s)
    BY <1>2, OwnAffairRuns
  <2> QED BY <1>2, <2>1, CallEnds
<1>3. CASE \E p \in Pid, g \in Groups : Setpgid(p, g)
  <2>1. PICK p \in Pid, g \in Groups : Setpgid(p, g)
    BY <1>3
  <2> DEFINE s == [k EXCEPT !.pgid[p] = g]
  <2>2. g \in Pid
    BY <1>1, <2>1 DEF Setpgid, Tasks, Kernel
  <2>3. OwnAffair(k, s)
    BY <1>1, <2>2 DEF OwnAffair, Kernel
  <2> QED BY <1>2, <2>1, <2>3 DEF Setpgid
<1>4. CASE \E g \in Pid : Tcsetpgrp(g)
  <2>1. PICK g \in Pid : Tcsetpgrp(g)
    BY <1>4
  <2> DEFINE s == [k EXCEPT !.fg = g]
  <2>2. OwnAffair(k, s)
    BY <1>1 DEF OwnAffair, Kernel
  <2> QED BY <1>2, <2>1, <2>2 DEF Tcsetpgrp
<1>5. CASE \E sig \in Signals, d \in Dispositions : SignalReg(sig, d)
  <2>1. PICK sig \in Signals, d \in Dispositions : SignalReg(sig, d)
    BY <1>5
  <2> DEFINE h == [k.handler[Self] EXCEPT ![sig] = d]
             ha == [k.handler EXCEPT ![Self] = h]
             s == [k EXCEPT !.handler = ha]
  <2>2. sig \in Signal /\ d \in {"DFL", "IGN", "HANDLER"}
    BY SignalsAssumption
  <2>3. h \in [Signal -> {"DFL", "IGN", "HANDLER"}]
    BY <1>1, <2>2 DEF Kernel
  <2>4. s = [k EXCEPT !.handler[Self][sig] = d]
    OBVIOUS
  <2>5. k' \in SyscallEnd({s}, Self)
    BY <2>1, <2>4 DEF SignalReg
  <2> HIDE DEF h
  <2>6. ha \in [Pid -> [Signal -> {"DFL", "IGN", "HANDLER"}]]
    BY <1>1, <2>3 DEF Kernel
  <2> HIDE DEF ha
  <2>7. OwnAffair(k, s)
    BY <1>1, <2>6 DEF OwnAffair, Kernel
  <2> HIDE DEF s
  <2> QED BY <1>2, <2>5, <2>7
<1>6. CASE Sigreturn
  <2> DEFINE b == FALSE
             ih == [k.inHandler EXCEPT ![Self] = b]
             e == k.saved[Self]
             fr == [k.frame EXCEPT ![Self] = e]
             s == [k EXCEPT !.inHandler = ih, !.frame = fr]
  <2>1. k' \in SyscallEnd({s}, Self)
    BY <1>6 DEF Sigreturn
  <2>2. b \in BOOLEAN /\ e \in Call
    BY <1>1 DEF Kernel
  <2> HIDE DEF b, e
  <2>3. ih \in [Pid -> BOOLEAN]
    BY <1>1, <2>2 DEF Kernel
  <2>4. fr \in [Pid -> Call] /\ \A p \in Pid \ {Self} : fr[p] = k.frame[p]
    BY <1>1, <2>2 DEF Kernel
  <2> HIDE DEF ih, fr
  <2>5. OwnAffair(k, s)
    BY <1>1, <2>3, <2>4 DEF OwnAffair, Kernel
  <2> HIDE DEF s
  <2> QED BY <1>2, <2>1, <2>5
<1>7. CASE Alarm
  <2>1. PICK alarm \in {k.alarm \cup {Self}, k.alarm \ {Self}} :
          k' \in SyscallEnd({[k EXCEPT !.alarm = alarm]}, Self)
    BY <1>7 DEF Alarm
  <2> DEFINE s == [k EXCEPT !.alarm = alarm]
  <2>2. alarm \subseteq Pid
    BY <1>1 DEF Kernel
  <2>3. OwnAffair(k, s)
    BY <1>1, <2>2 DEF OwnAffair, Kernel
  <2> QED BY <1>2, <2>1, <2>3
<1> QED BY <1>3, <1>4, <1>5, <1>6, <1>7

(* The timer, the keyboard and yield().                                    *)
LEMMA InterruptRuns ==
    ASSUME Running(k), Yield \/ Timer \/ CtrlC \/ CtrlZ \/ Key
    PROVE  Running(k')
<1>1. KInv(k) /\ k \in Kernel
  BY DEF Running, KInv, KInvBut
<1>2. CASE Yield
  <2> DEFINE S == Schedule(k, Self)
  <2>1. \A t \in S : Running(t)
    BY <1>1, ScheduleRuns
  <2>2. k' \in SyscallEnd(S, Self)
    BY <1>2 DEF Yield
  <2> HIDE DEF S
  <2> QED BY <2>1, <2>2, SyscallEndRuns
<1>3. CASE Timer
  BY <1>1, <1>3, ScheduleRuns DEF Timer
<1>4. CASE CtrlC \/ CtrlZ
  <2>1. SIG_INT \in Signal /\ SIG_TSTP \in Signal
    BY DEF Signal
  <2>2. PICK sig \in Signal : k' = SendSignalToGroup(k, k.fg, sig)
    BY <1>4, <2>1 DEF CtrlC, CtrlZ
  <2>3. KInv(k') /\ Goes(k, k')
    BY <1>1, <2>2, SendSignalToGroupKeeps
  <2> QED BY <2>3, GoesRuns
<1>5. CASE Key
  <2> DEFINE w == WakeUpTasks(k, "KBD")
             n == w.keys + 1
  <2>1. KInv(w) /\ Stays(k, w) /\ \A p \in Pid : ~Waits(w, p, "KBD")
    BY <1>1, WakeUpTasksKeeps
  <2>2. Running(w)
    BY <2>1 DEF Stays, Running
  <2>3. k' = [w EXCEPT !.keys = n] /\ k.keys < MaxKeys
    BY <1>5 DEF Key
  <2>4. n \in 0..MaxKeys
    <3>1. k.keys \in 0..MaxKeys /\ w.keys = k.keys
      BY <1>1, <2>1 DEF Kernel, Stays
    <3> QED BY <2>3, <3>1, BoundsAssumption
  <2> HIDE DEF w, n
  <2> QED BY <2>1, <2>2, <2>3, <2>4, KeysRun
<1> QED BY <1>2, <1>3, <1>4, <1>5

(* Every step keeps the kernel running and settled.                        *)
LEMMA StepRuns ==
    ASSUME Running(k), [Next]_k
    PROVE  Running(k')
<1>1. CASE UNCHANGED k
  BY <1>1
<1>2. CASE Fork \/ ExecNoWait
  BY <1>2, ForkRuns
<1>3. CASE ExecWait
  BY <1>3, ExecWaitRuns
<1>4. CASE Exit \/ Segfault
  BY <1>4, ExitRuns
<1>5. CASE \E nohang, untraced \in BOOLEAN : Wait(nohang, untraced)
  BY <1>5, WaitRuns
<1>6. CASE Read
  BY <1>6, ReadRuns
<1>7. CASE IpcBlocks \/ IpcProceeds
  BY <1>7, IpcRuns
<1>8. CASE \/ \E p \in Pid \ {Idle}, sig \in Signals : Kill(p, sig)
           \/ \E g \in Pid, sig \in Signals : KillGroup(g, sig)
  BY <1>8, KillRuns
<1>9. CASE \/ \E p \in Pid, g \in Groups : Setpgid(p, g)
           \/ \E g \in Pid : Tcsetpgrp(g)
           \/ \E sig \in Signals, d \in Dispositions : SignalReg(sig, d)
           \/ Sigreturn \/ Alarm
  BY <1>9, OwnCallRuns
<1>10. CASE Yield \/ Timer \/ CtrlC \/ CtrlZ \/ Key
  BY <1>10, InterruptRuns
<1> QED BY <1>1, <1>2, <1>3, <1>4, <1>5, <1>6, <1>7, <1>8, <1>9, <1>10 DEF Next

(* The kernel runs and is settled after boot.                              *)
LEMMA BootRuns ==
    ASSUME Init
    PROVE  Running(k)
<1> DEFINE s == CreateProcess(Boot, Idle, Defaults)
<1>1. /\ Idle \in Pid /\ 1 \in Pid /\ 1 # Idle
      /\ Defaults \in [Signal -> {"DFL", "IGN", "HANDLER"}]
  BY BoundsAssumption DEF Idle, Pid, Defaults
<1>2. Boot \in Kernel
  <2>1. /\ {"RUNNING", "EMPTY"} \subseteq State /\ "NONE" \in WaitReason /\ "user" \in Call
        /\ 0 \in 0..MaxKeys /\ 0 \in Pid /\ <<>> \in Seq(News)
    BY <1>1, BoundsAssumption DEF State, WaitReason, Call, Idle
  <2> QED BY <1>1, <2>1 DEF Boot, Kernel
<1>3. /\ Boot.state = [p \in Pid |-> IF p = Idle THEN "RUNNING" ELSE "EMPTY"]
      /\ Boot.wait = [p \in Pid |-> "NONE"] /\ Boot.parent = [p \in Pid |-> Nobody]
      /\ Boot.current = Idle /\ Boot.cr3 = Idle /\ Boot.parked = <<>> /\ Boot.settled = {}
      /\ Boot.keys = 0
  BY DEF Boot
<1>4. Running(Boot)
  <2>1. Range(Boot.parked) = {} /\ Distinct(Boot.parked) /\ Len(Boot.parked) <= MaxSlots
    BY <1>3, BoundsAssumption DEF Range, Distinct
  <2>2. \A p \in Pid : Boot.state[p] \notin Gone
    BY <1>3 DEF Gone
  <2>3. TableOK(Boot, {})
    BY <1>3, <2>1, <2>2 DEF TableOK
  <2>4. \A p \in Pid : \A r : ~Waits(Boot, p, r)
    BY <1>3 DEF Waits
  <2>5. Nobody \notin Pid
    BY BoundsAssumption DEF Nobody, Pid
  <2>6. SleepOK(Boot)
    BY <1>3 DEF SleepOK, Tasks
  <2> QED BY <1>1, <1>2, <1>3, <2>1, <2>3, <2>4, <2>5, <2>6 DEF Running, KInv, KInvBut
<1>5. NextPid(Boot) = 1
  <2> DEFINE free == {p \in Pid : Boot.state[p] = "EMPTY"}
             m == NextPid(Boot)
  <2>1. free \subseteq Nat /\ 1 \in free /\ free \subseteq Pid \ {Idle}
    BY <1>1, <1>3, BoundsAssumption DEF Pid
  <2>2. m = CHOOSE x \in free : \A y \in free : x <= y
    BY DEF NextPid, Min
  <2> HIDE DEF free, m
  <2>3. m \in free /\ \A y \in free : m <= y
    BY <2>1, <2>2, LeastIsChosen
  <2>4. m \in Nat /\ m # 0 /\ m <= 1
    BY <2>1, <2>3 DEF Idle
  <2>5. m = 1
    BY <2>4
  <2> QED BY <2>5 DEF m
<1>6. Running(s) /\ s.current = Idle
  <2>1. Boot.state[1] = "EMPTY"
    BY <1>1, <1>3
  <2> QED BY <1>1, <1>3, <1>4, <2>1, CreateProcessRuns
<1>7. s.state[1] = "RUNNING"
  <2>1. s.state = [Boot.state EXCEPT ![1] = "RUNNING"]
    BY <1>2, <1>5 DEF CreateProcess, Kernel
  <2> QED BY <1>1, <1>3, <2>1
<1>8. k = [s EXCEPT !.fg = 1, !.current = 1, !.cr3 = 1]
  BY DEF Init
<1> HIDE DEF s
<1>9. KInv(s) /\ s \in Kernel /\ SleepOK(s)
  BY <1>6 DEF Running, KInv, KInvBut
<1>10. /\ k \in Kernel /\ k.parked = s.parked /\ k.parent = s.parent /\ k.settled = s.settled
       /\ k.keys = s.keys /\ k.current = 1 /\ k.cr3 = 1 /\ k.frame = s.frame
       /\ k.interrupted = s.interrupted /\ k.state = s.state /\ k.wait = s.wait
  BY <1>1, <1>8, <1>9 DEF Kernel
<1>11. SleepOK(k) /\ Quiet(s, k)
  BY <1>9, <1>10 DEF SleepOK, Tasks, Quiet, Waits
<1>12. KInv(k)
  BY <1>9, <1>10, <1>11, QuietKeepsInvariant
<1> QED BY <1>1, <1>7, <1>10, <1>12 DEF Running

(* What the invariant is worth: the properties of module Proc.             *)

LEMMA SettledTasks ==
    ASSUME Settled(k)
    PROVE  TasksAreSound
<1>1. k \in Kernel /\ Len(k.parked) <= MaxSlots /\ SleepOK(k)
  BY DEF Settled, KInv, KInvBut
<1>2. TypeOK
  BY <1>1 DEF TypeOK, Kernel, State, SleepOK, Settled
<1> QED BY <1>2 DEF TasksAreSound, ResumesARunnableTask, Settled

(* In a settled kernel wait() sleeps only where it may.                    *)
LEMMA SettledWaits ==
    ASSUME Settled(k)
    PROVE  WaitIsSound
<1>1. k.parked \in Seq(News) /\ TableOK(k, {})
  BY DEF Settled, KInv, KInvBut, Kernel
<1>2. \A i \in DOMAIN k.parked : k.parked[i] \in News /\ k.parked[i] \in Range(k.parked)
  BY <1>1 DEF Range
<1>3. ASSUME NEW p \in Pid, Waits(k, p, "PID")
      PROVE  /\ NewsFor(k, p, FALSE) = {}
             /\ k.frame[p] = "wait(WUNTRACED)" => NewsFor(k, p, TRUE) = {}
  <2>1. \A i \in DOMAIN k.parked : k.parked[i].parent = p =>
          k.parked[i].stopped /\ k.frame[p] # "wait(WUNTRACED)"
    BY <1>1, <1>2, <1>3 DEF TableOK
  <2>2. \A i \in DOMAIN k.parked : k.parked[i].stopped = FALSE => ~k.parked[i].stopped
    OBVIOUS
  <2>3. NewsFor(k, p, FALSE) = {}
    BY <2>1, <2>2 DEF NewsFor
  <2>4. k.frame[p] = "wait(WUNTRACED)" => NewsFor(k, p, TRUE) = {}
    BY <2>1 DEF NewsFor
  <2> QED BY <2>3, <2>4
<1>4. ASSUME NEW i \in DOMAIN k.parked, k.parked[i].stopped
      PROVE  /\ k.parked[i].child \notin Awake(k)
             /\ k.parked[i].parent = k.parent[k.parked[i].child]
  BY <1>1, <1>2, <1>4 DEF TableOK, Awake, Gone
<1>5. ASSUME NEW i \in DOMAIN k.parked, NEW j \in DOMAIN k.parked,
             k.parked[i].stopped, k.parked[j].stopped, k.parked[i].child = k.parked[j].child
      PROVE  j = i
  <2>1. k.parked[i].parent = k.parked[j].parent
    BY <1>4, <1>5
  <2>2. k.parked[i] = k.parked[j]
    BY <1>2, <1>5, <2>1 DEF News
  <2> QED BY <1>1, <2>2 DEF TableOK, Distinct
<1> QED BY <1>3, <1>4, <1>5 DEF WaitIsSound, BlockedParentHasNoNews, StopNoticesAreCurrent

(* In a settled kernel an exit is reported once.                           *)
LEMMA SettledExits ==
    ASSUME Settled(k)
    PROVE  ExitReportedOnce
<1>1. k.parked \in Seq(News) /\ TableOK(k, {})
  BY DEF Settled, KInv, KInvBut, Kernel
<1>2. \A i \in DOMAIN k.parked : k.parked[i] \in News /\ k.parked[i] \in Range(k.parked)
  BY <1>1 DEF Range
<1> SUFFICES ASSUME NEW c \in Pid, k.state[c] \in {"DEAD", "FREED"}, k.parent[c] \in Tasks(k) \ {Idle}
             PROVE  Cardinality({i \in DOMAIN k.parked : k.parked[i].child = c /\ ~k.parked[i].stopped})
                      = IF c \in k.settled THEN 0 ELSE 1
  BY DEF ExitReportedOnce
<1> DEFINE I == {i \in DOMAIN k.parked : k.parked[i].child = c /\ ~k.parked[i].stopped}
<1>3. CASE c \in k.settled
  <2>1. I = {}
    BY <1>1, <1>2, <1>3 DEF TableOK
  <2> QED BY <1>3, <2>1, FS_EmptySet
<1>4. CASE c \notin k.settled
  <2> DEFINE e == [parent |-> k.parent[c], child |-> c, stopped |-> FALSE]
  <2>1. e \in Range(k.parked)
    BY <1>1, <1>4 DEF TableOK, Gone
  <2>2. PICK i \in DOMAIN k.parked : k.parked[i] = e
    BY <2>1 DEF Range
  <2>3. i \in I
    BY <2>2
  <2>4. ASSUME NEW j \in I
        PROVE  j = i
    <3>1. j \in DOMAIN k.parked /\ k.parked[j].child = c /\ ~k.parked[j].stopped
      OBVIOUS
    <3>2. k.parked[j].parent = k.parent[c]
      BY <1>1, <1>2, <3>1 DEF TableOK
    <3>3. k.parked[j] = e
      BY <1>2, <3>1, <3>2 DEF News
    <3> QED BY <1>1, <2>2, <3>1, <3>3 DEF TableOK, Distinct
  <2>5. I = {i}
    BY <2>3, <2>4
  <2>6. Cardinality({i}) = 1
    BY FS_Singleton
  <2> QED BY <1>4, <2>5, <2>6
<1> QED BY <1>3, <1>4

(* In a settled kernel a reader sleeps only while there is nothing to      *)
(* read.                                                                   *)
LEMMA SettledReaders ==
    ASSUME Settled(k)
    PROVE  BlockedReaderHasNoInput
BY DEF Settled, KInv, KInvBut, BlockedReaderHasNoInput

---------------------------------------------------------------------------
(* Whatever programs do, in whatever order, the kernel returns to user     *)
(* code with its records sound.                                            *)
THEOREM KernelStaysSettled == Spec => []Settled(k)
<1>1. Init => Running(k)
  BY BootRuns
<1>2. Running(k) /\ [Next]_k => Running(k)'
  BY StepRuns
<1>3. Running(k) => Settled(k)
  BY RunningIsSettled
<1> QED BY <1>1, <1>2, <1>3, PTL DEF Spec

(* The fields of the task table keep their types, a task is blocked        *)
(* exactly when it has a reason, and schedule() leaves the processor on a  *)
(* runnable task in that task's own address space, for any number of tasks *)
(* and whichever of them call, stop or kill each other.                    *)
THEOREM SchedulerResumesRunnableTasks == Spec => []TasksAreSound
<1>1. Settled(k) => TasksAreSound
  BY SettledTasks
<1> QED BY <1>1, KernelStaysSettled, PTL

(* exit_slots[] keeps wait() honest: reap_task() and stop_task() never     *)
(* file news without waking a parent that waits for it, and a stop notice  *)
(* never outlives the stop, for a table of any size.                       *)
THEOREM WaitNeverSleepsThroughNews == Spec => []WaitIsSound
<1>1. Settled(k) => WaitIsSound
  BY SettledWaits
<1> QED BY <1>1, KernelStaysSettled, PTL

(* park_exit_status(), take_parked_status() and the handover to a parent   *)
(* inside exec() report every exit to a living parent exactly once.        *)
THEOREM ExitsAreReportedOnce == Spec => []ExitReportedOnce
<1>1. Settled(k) => ExitReportedOnce
  BY SettledExits
<1> QED BY <1>1, KernelStaysSettled, PTL

(* The keyboard interrupt and send_user_signal() wake every reader they    *)
(* have something for, and sys_read() never blocks past either.            *)
THEOREM ReadersNeverSleepThroughInput == Spec => []BlockedReaderHasNoInput
<1>1. Settled(k) => BlockedReaderHasNoInput
  BY SettledReaders
<1> QED BY <1>1, KernelStaysSettled, PTL

============================================================================
