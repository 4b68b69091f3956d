------------------------------ MODULE MCKernel ------------------------------
(***************************************************************************)
(* The services of the kernel, each checked on its own: "part" picks the   *)
(* one a behaviour runs and the others stay at an initial state.           *)
(***************************************************************************)
EXTENDS Sched, Sleep, KHeap, UMalloc, KLog, Entropy, Calendar, Access, TLC

VARIABLE part

\* What a source of entropy is credited with at most, and in all.
MCCap == [kbd |-> 2, ata |-> 1, timer |-> 0]
MCBudget == [kbd |-> 3, ata |-> 1, timer |-> 0]

MCFirstDate == [year |-> 1970, month |-> 1, day |-> 1]
MCOffsets == {-12, -1, 3, 14}

\* The users, a directory like /tmp, and the paths they use.
MCUid == [root |-> 0, u |-> 1, v |-> 2]
MCGid == [root |-> 0, u |-> 1, v |-> 1]
RWX == {"r", "w", "x"}
MCModes == {Mode(RWX, {}, {}, FALSE), Mode(RWX, RWX, RWX, TRUE)}
MCFirstTable ==
    1 :> [used |-> TRUE, dir |-> TRUE, name |-> "t", parent |-> 0, uid |-> 0, gid |-> 0,
          mode |-> Mode(RWX, RWX, RWX, TRUE)]
    @@ 2 :> Unused
Path(absolute, dirs, base) == [absolute |-> absolute, dirs |-> dirs, base |-> base]
MCPathNames ==
    {Path(FALSE, << >>, base) : base \in {"t", "a", "..", ""}} \cup
    {Path(TRUE, << >>, "t"), Path(TRUE, << >>, ""), Path(FALSE, <<"..">>, "a"),
     Path(TRUE, <<"t">>, "a")}

(* A part that is not picked stays at one of its initial states. *)
Init ==
    /\ part \in {"sched", "sleep", "kheap", "uheap", "klog", "entropy", "calendar",
                "access"}
    /\ SchedInit /\ KHeapInit /\ UHeapInit /\ KLogInit /\ CalInit /\ AccessInit
    /\ SleepInit /\ (part # "sleep" => sleepCurrent = CHOOSE t \in Sleepers : TRUE)
    /\ EntropyInit /\ (part # "entropy" => pool = EmptyPool(FALSE))

Step(p, Action, vars) == IF part = p THEN Action ELSE UNCHANGED vars

Next ==
    /\ UNCHANGED part
    /\ Step("sched", SchedNext, schedVars)
    /\ Step("sleep", SleepNext, sleepVars)
    /\ Step("kheap", KHeapNext, kheapVars)
    /\ Step("uheap", UHeapNext, uheap)
    /\ Step("klog", KLogStep, klogVars)
    /\ Step("entropy", EntropyNext, entropyVars)
    /\ Step("calendar", CalNext, calVars)
    /\ Step("access", AccessNext, accessVars)

Spec == Init /\ [][Next]_<<part, schedVars, sleepVars, kheapVars, uheap, klogVars,
                         entropyVars, calVars, accessVars>>
=============================================================================
