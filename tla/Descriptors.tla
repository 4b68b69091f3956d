---------------------------- MODULE Descriptors ----------------------------
(***************************************************************************)
(* Descriptor tables, pipes and open files: the descriptor calls of        *)
(* kernel/syscall/sys_fs.c, kernel/proc/pipe.c, and the copying and        *)
(* dropping of whole tables when a task is created or reaped               *)
(* (kernel/proc/process.c).                                                *)
(*                                                                         *)
(* A pipe is a slot of a fixed pool with one reference count per           *)
(* direction, an open file a heap object with one count.  The counts are   *)
(* changed by hand in five places (pipe, fork, dup2, close, reap) and      *)
(* decide when an object is freed, when a reader sees the end of file and  *)
(* when a writer is refused, so one slip shows up far away, in a peer that *)
(* blocks for good or in a slot shared by strangers.                       *)
(*                                                                         *)
(* A task that blocked makes the same call again when it is woken.  Each   *)
(* call is one step: the kernel is not preemptible.  Any runnable task may *)
(* be the next to make one.  The position counters of a pipe are unsigned  *)
(* and wrap; the n-th byte written to a pipe carries the number n, modulo  *)
(* the wrap, so that a byte lost, doubled or reordered can be told.        *)
(***************************************************************************)
EXTENDS Integers, FiniteSets, FiniteSetsExt

CONSTANTS Task,         \* process slots
          FdTableSize,  \* MAX_FD_PER_TASK
          FirstFd,      \* 3: the descriptors below are the standard ones
          PoolSize,     \* MAX_SYSTEM_PIPES
          PipeSize,     \* PIPE_SIZE
          Wrap,         \* 2^32, where head and tail wrap
          ReadSizes,    \* bound: the byte counts reads ask for
          WriteSizes,   \* bound: the byte counts writes ask for
          File,         \* open files (vfs_file_t objects) the heap has room for
          OpenModes,    \* bound: the modes files are opened in
          RefLimit      \* 1000: the file reference count inherit_fd_table() trusts

ASSUME SizesAssumption == /\ IsFiniteSet(Task) /\ FdTableSize \in Nat \ {0} /\ FirstFd \in 0..FdTableSize
                          /\ PoolSize \in Nat \ {0} /\ ReadSizes \cup WriteSizes \subseteq Nat \ {0}
                          /\ RefLimit \in Nat \ {0} /\ OpenModes \subseteq {0, 1}
                          /\ PipeSize \in Nat \ {0} /\ Wrap \in Nat
                          /\ Wrap > PipeSize /\ Wrap % PipeSize = 0

Fd == 0..FdTableSize - 1
Pipe == 1..PoolSize
READ == 0
WRITE == 1

VARIABLES state,  \* "EMPTY", "RUNNING" or "WAITING" (for WAIT_IPC)
          call,   \* the blocked call a task will make again, or NoCall
          fds,    \* fd_table of every task
          pipes,  \* pipe_pool[] and pipe_active[]
          files   \* reference count and dirty flag of every vfs_file_t

vars == <<state, call, fds, pipes, files>>

NoCall == [op |-> "none", fd |-> 0, n |-> 0]
None == [type |-> "NONE", ptr |-> 0, mode |-> READ]
Console == [type |-> "CONSOLE", ptr |-> 0, mode |-> READ]
PipeEnd(p, mode) == [type |-> "PIPE", ptr |-> p, mode |-> mode]
OpenFile(f, mode) == [type |-> "FILE", ptr |-> f, mode |-> mode]

FreeFile == [refs |-> 0, dirty |-> FALSE]

Init ==
    /\ \E first \in Task :
         /\ state = [t \in Task |-> IF t = first THEN "RUNNING" ELSE "EMPTY"]
         /\ fds = [t \in Task |-> [i \in Fd |->
                      IF t = first /\ i < FirstFd THEN Console ELSE None]]
    /\ call = [t \in Task |-> NoCall]
    /\ pipes = [p \in Pipe |-> [active |-> FALSE, head |-> 0, tail |-> 0,
                                buffer |-> [i \in 0..PipeSize - 1 |-> 0],
                                refs |-> <<0, 0>>]]
    /\ files = [f \in File |-> FreeFile]

---------------------------------------------------------------------------
(* The ring buffer of a pipe.  Differences of the counters are unsigned.   *)

Bytes(p) == (p.tail - p.head) % Wrap
Index(n) == n % PipeSize
Label(n) == n % Wrap

(* The copying loops of pipe_read() and pipe_write(). *)
PipeRead(p, size) == [p EXCEPT !.head = Label(@ + Min({size, Bytes(p)}))]

(* Mutant: every write starts at the beginning of the buffer. *)
MutantWriteFromStart(p, size) ==
    LET count == Min({size, PipeSize - Bytes(p)})
    IN [p EXCEPT !.tail = Label(@ + count),
                 !.buffer = [i \in 0..PipeSize - 1 |->
                     IF i < count THEN Label(p.tail + i) ELSE p.buffer[i]]]

PipeWrite(p, size) ==
    LET count == Min({size, PipeSize - Bytes(p)})
        written == {Label(p.tail + i) : i \in 0..count - 1}
    IN [p EXCEPT !.tail = Label(@ + count),
                 !.buffer = [i \in 0..PipeSize - 1 |->
                     IF \E n \in written : Index(n) = i
                     THEN CHOOSE n \in written : Index(n) = i
                     ELSE p.buffer[i]]]

---------------------------------------------------------------------------
(* References.  refs[1] counts read ends, refs[2] write ends.              *)

Refs(p, mode) == p.refs[mode + 1]

FileEnds(f) == {OpenFile(f, READ), OpenFile(f, WRITE)}

(* The entries I of table T that are one of the descriptors D. *)
Count(T, I, D) == Cardinality({i \in I : T[i] \in D})

(* destroy_pipe() *)
DestroyPipe(p) == [p EXCEPT !.active = FALSE, !.refs = <<0, 0>>]

(* Mutant: one reference for each object, however many entries share it. *)
MutantAcquireOnce(P, T, I) ==
    [p \in Pipe |-> [P[p] EXCEPT
        !.refs = <<Refs(P[p], READ) + Min({1, Count(T, I, {PipeEnd(p, READ)})}),
                   Refs(P[p], WRITE) + Min({1, Count(T, I, {PipeEnd(p, WRITE)})})>>]]

(* The loops over a table, and the calls on one entry: a count goes up or  *)
(* down by one for every entry of I, and whatever is left without          *)
(* references is freed.                                                    *)
AcquirePipes(P, T, I) ==
    [p \in Pipe |-> [P[p] EXCEPT
        !.refs = <<Refs(P[p], READ) + Count(T, I, {PipeEnd(p, READ)}),
                   Refs(P[p], WRITE) + Count(T, I, {PipeEnd(p, WRITE)})>>]]

ReleasePipes(P, T, I) ==
    [p \in Pipe |->
        LET readers == Refs(P[p], READ) - Count(T, I, {PipeEnd(p, READ)})
            writers == Refs(P[p], WRITE) - Count(T, I, {PipeEnd(p, WRITE)})
            dropped == \E i \in I : T[i] \in {PipeEnd(p, READ), PipeEnd(p, WRITE)}
        IN IF dropped /\ readers <= 0 /\ writers <= 0 THEN DestroyPipe(P[p])
           ELSE [P[p] EXCEPT !.refs = <<readers, writers>>]]

AcquireFiles(F, T, I) ==
    [f \in File |-> [F[f] EXCEPT !.refs = @ + Count(T, I, FileEnds(f))]]

ReleaseFiles(F, T, I) ==
    [f \in File |->
        LET n == Count(T, I, FileEnds(f))
        IN IF n > 0 /\ F[f].refs <= n THEN FreeFile ELSE [F[f] EXCEPT !.refs = @ - n]]

(* wakeup_tasks(WAIT_IPC), called when bytes moved or an end went away. *)
WakeUpTasks(S) == [t \in Task |-> IF S[t] = "WAITING" THEN "RUNNING" ELSE S[t]]

(* Mutant: only moving bytes wakes anyone. *)
MutantCloseWakesNobody(S, d) == S

WakeUpPeers(S, d) == IF d.type = "PIPE" THEN WakeUpTasks(S) ELSE S

---------------------------------------------------------------------------
(* Calls.  A runnable task makes the call it was blocked in, or any other  *)
(* if it was blocked in none.                                              *)

Free(t) == state[t] = "RUNNING" /\ call[t] = NoCall
Makes(t, c) == state[t] = "RUNNING" /\ call[t] \in {NoCall, c}
PipeOf(t, fd) == pipes[fds[t][fd].ptr]
IsPipe(t, fd) == fds[t][fd].type = "PIPE"

Blocks(t, c) ==
    /\ state' = [state EXCEPT ![t] = "WAITING"]
    /\ call' = [call EXCEPT ![t] = c]
    /\ UNCHANGED <<fds, pipes, files>>

Returns(t) == call' = [call EXCEPT ![t] = NoCall]

ReadCall(fd, n) == [op |-> "read", fd |-> fd, n |-> n]
WriteCall(fd, n) == [op |-> "write", fd |-> fd, n |-> n]

(* sys_read() and sys_write() do not look at which end they were given. *)
Read(t, fd, n) ==
    /\ Makes(t, ReadCall(fd, n)) /\ IsPipe(t, fd) /\ Bytes(PipeOf(t, fd)) > 0
    /\ pipes' = [pipes EXCEPT ![fds[t][fd].ptr] = PipeRead(@, n)]
    /\ state' = WakeUpTasks(state)
    /\ Returns(t) /\ UNCHANGED <<fds, files>>

ReadAtEnd(t, fd, n) ==
    /\ Makes(t, ReadCall(fd, n)) /\ IsPipe(t, fd) /\ Bytes(PipeOf(t, fd)) = 0
    /\ Refs(PipeOf(t, fd), WRITE) <= 0
    /\ Returns(t) /\ UNCHANGED <<state, fds, pipes, files>>

ReadBlocks(t, fd, n) ==
    /\ Makes(t, ReadCall(fd, n)) /\ IsPipe(t, fd) /\ Bytes(PipeOf(t, fd)) = 0
    /\ Refs(PipeOf(t, fd), WRITE) > 0
    /\ Blocks(t, ReadCall(fd, n))

Write(t, fd, n) ==
    /\ Makes(t, WriteCall(fd, n)) /\ IsPipe(t, fd)
    /\ Refs(PipeOf(t, fd), READ) > 0 /\ Bytes(PipeOf(t, fd)) < PipeSize
    /\ pipes' = [pipes EXCEPT ![fds[t][fd].ptr] = PipeWrite(@, n)]
    /\ state' = WakeUpTasks(state)
    /\ Returns(t) /\ UNCHANGED <<fds, files>>

WriteBlocks(t, fd, n) ==
    /\ Makes(t, WriteCall(fd, n)) /\ IsPipe(t, fd)
    /\ Refs(PipeOf(t, fd), READ) > 0 /\ Bytes(PipeOf(t, fd)) >= PipeSize
    /\ Blocks(t, WriteCall(fd, n))

(* reap_task(): every descriptor is dropped; a last reference to a file    *)
(* commits it.                                                             *)
ReapTask(t) ==
    LET closedPipe == \E i \in Fd : IsPipe(t, i)
        others == IF closedPipe THEN WakeUpTasks(state) ELSE state
    IN /\ pipes' = ReleasePipes(pipes, fds[t], Fd)
       /\ files' = ReleaseFiles(files, fds[t], Fd)
       /\ state' = [u \in Task |-> IF u = t THEN "EMPTY" ELSE others[u]]
       /\ fds' = [fds EXCEPT ![t] = [i \in Fd |-> None]]
       /\ Returns(t)

(* A write without readers raises SIG_PIPE, which ends the writer on the   *)
(* way out of the call unless it is caught or ignored.                     *)
WriteBroken(t, fd, n) ==
    /\ Makes(t, WriteCall(fd, n)) /\ IsPipe(t, fd) /\ Refs(PipeOf(t, fd), READ) <= 0
    /\ \/ ReapTask(t)
       \/ Returns(t) /\ UNCHANGED <<state, fds, pipes, files>>

FreeFds(t) == {i \in Fd : i >= FirstFd /\ fds[t][i] = None}

(* create_pipe(): one reference for each end. *)
CreatePipe(p) == [p EXCEPT !.active = TRUE, !.head = 0, !.tail = 0, !.refs = <<1, 1>>]

PipeCall(t) ==
    LET idle == {p \in Pipe : ~pipes[p].active}
        p == Min(idle)
        fd1 == Min(FreeFds(t))
        fd2 == Min(FreeFds(t) \ {fd1})
    IN /\ Free(t) /\ idle # {}
       /\ IF Cardinality(FreeFds(t)) >= 2
          THEN /\ pipes' = [pipes EXCEPT ![p] = CreatePipe(@)]
               /\ fds' = [fds EXCEPT ![t][fd1] = PipeEnd(p, READ), ![t][fd2] = PipeEnd(p, WRITE)]
          ELSE /\ pipes' = [pipes EXCEPT ![p] = DestroyPipe(CreatePipe(@))]
               /\ UNCHANGED fds
       /\ UNCHANGED <<state, call, files>>

(* Opening for writing makes the file dirty at once: an open and a close   *)
(* commit zero bytes.                                                      *)
Open(t, f, mode) ==
    /\ Free(t) /\ FreeFds(t) # {} /\ files[f].refs = 0
    /\ files' = [files EXCEPT ![f] = [refs |-> 1, dirty |-> mode = WRITE]]
    /\ fds' = [fds EXCEPT ![t][Min(FreeFds(t))] = OpenFile(f, mode)]
    /\ UNCHANGED <<state, call, pipes>>

(* dup2() frees a file it drops the last reference of, and does not commit *)
(* it.                                                                     *)
Dup2(t, oldfd, newfd) ==
    /\ Free(t) /\ fds[t][oldfd] # None /\ oldfd # newfd
    /\ fds' = [fds EXCEPT ![t][newfd] = fds[t][oldfd]]
    /\ pipes' = AcquirePipes(ReleasePipes(pipes, fds[t], {newfd}), fds[t], {oldfd})
    /\ files' = AcquireFiles(ReleaseFiles(files, fds[t], {newfd}), fds[t], {oldfd})
    /\ state' = WakeUpPeers(state, fds[t][newfd])
    /\ UNCHANGED call

Close(t, fd) ==
    /\ Free(t)
    /\ pipes' = ReleasePipes(pipes, fds[t], {fd})
    /\ files' = ReleaseFiles(files, fds[t], {fd})
    /\ state' = WakeUpPeers(state, fds[t][fd])
    /\ fds' = [fds EXCEPT ![t][fd] = None]
    /\ UNCHANGED call

(* inherit_fd_table(): the child shares every object, but not a file whose *)
(* count is out of range by the time its entry is reached.                 *)
Inherited(T) ==
    {i \in Fd : \A f \in File : T[i] \in FileEnds(f) =>
        files[f].refs + Count(T, 0..i - 1, FileEnds(f)) < RefLimit}

(* fork() and exec() *)
Spawn(t, child) ==
    LET I == Inherited(fds[t])
    IN /\ Free(t) /\ state[child] = "EMPTY"
       /\ state' = [state EXCEPT ![child] = "RUNNING"]
       /\ fds' = [fds EXCEPT ![child] = [i \in Fd |-> IF i \in I THEN fds[t][i] ELSE None]]
       /\ pipes' = AcquirePipes(pipes, fds[t], I)
       /\ files' = AcquireFiles(files, fds[t], I)
       /\ UNCHANGED call

(* exit() by a task, or a fatal signal from elsewhere, which may find it   *)
(* blocked.                                                                *)
Die(t) == state[t] # "EMPTY" /\ ReapTask(t)

(* stop_task() and continue_task().  A blocked task that was stopped is    *)
(* runnable again when it is continued, woken or not, and makes its call   *)
(* again.  While stopped it is like a runnable task that is not picked, so *)
(* the two are one step.                                                   *)
StopAndContinue(t) ==
    /\ state[t] = "WAITING"
    /\ state' = [state EXCEPT ![t] = "RUNNING"]
    /\ UNCHANGED <<call, fds, pipes, files>>

Next ==
    \E t \in Task :
        \/ \E fd \in Fd, n \in ReadSizes :
              Read(t, fd, n) \/ ReadAtEnd(t, fd, n) \/ ReadBlocks(t, fd, n)
        \/ \E fd \in Fd, n \in WriteSizes :
              Write(t, fd, n) \/ WriteBroken(t, fd, n) \/ WriteBlocks(t, fd, n)
        \/ PipeCall(t)
        \/ \E f \in File, mode \in OpenModes : Open(t, f, mode)
        \/ \E oldfd, newfd \in Fd : Dup2(t, oldfd, newfd)
        \/ \E fd \in Fd : Close(t, fd)
        \/ \E child \in Task : Spawn(t, child)
        \/ Die(t) \/ StopAndContinue(t)

Spec == Init /\ [][Next]_vars

---------------------------------------------------------------------------
(* Properties *)

Holders(d) == {h \in Task \X Fd : fds[h[1]][h[2]] = d}
FileHolders(f) == Holders(OpenFile(f, READ)) \cup Holders(OpenFile(f, WRITE))

Descriptor ==
    {None, Console} \cup {PipeEnd(p, m) : p \in Pipe, m \in {READ, WRITE}}
                    \cup {OpenFile(f, m) : f \in File, m \in {READ, WRITE}}
PipeRecord ==
    [active : BOOLEAN, head : 0..Wrap - 1, tail : 0..Wrap - 1,
     buffer : [0..PipeSize - 1 -> 0..Wrap - 1], refs : Nat \X Nat]

(* Every variable keeps its type; the counters of a pipe stay below the    *)
(* wrap and never lie further apart than its buffer is long; and a task    *)
(* that is not there holds nothing.                                        *)
TypeOK ==
    /\ state \in [Task -> {"EMPTY", "RUNNING", "WAITING"}]
    /\ call \in [Task -> [op : {"none", "read", "write"}, fd : Fd,
                           n : {0} \cup ReadSizes \cup WriteSizes]]
    /\ fds \in [Task -> [Fd -> Descriptor]]
    /\ pipes \in [Pipe -> PipeRecord]
    /\ files \in [File -> [refs : Nat, dirty : BOOLEAN]]
    /\ \A p \in Pipe : Bytes(pipes[p]) <= PipeSize
    /\ \A t \in Task : state[t] = "EMPTY" => fds[t] = [i \in Fd |-> None]

(* Whatever the order of pipe(), fork(), dup2(), close(), exit and kill,   *)
(* every count is exactly the number of descriptors that refer to the      *)
(* object, in each direction: nothing is freed while it is in use, no pool *)
(* slot is orphaned, and end of file and broken pipe are seen when and     *)
(* only when the last other end is gone.                                   *)
RefsAreExact ==
    /\ \A p \in Pipe : /\ \A mode \in {READ, WRITE} :
                             Refs(pipes[p], mode) = Cardinality(Holders(PipeEnd(p, mode)))
                       /\ pipes[p].active <=> pipes[p].refs # <<0, 0>>
    /\ \A f \in File : files[f].refs = Cardinality(FileHolders(f))

(* Counts are exact and no pipe is overfilled, whatever was forked, closed *)
(* or killed in between.                                                   *)
DescriptorsAreSound == TypeOK /\ RefsAreExact

(* No wakeup is lost: a task stays blocked on a pipe only while its call   *)
(* could not proceed, that is, reading from an empty pipe that has a       *)
(* writer, or writing to a full one that has a reader.                     *)
NoLostWakeup ==
    \A t \in Task : state[t] = "WAITING" =>
        LET p == PipeOf(t, call[t].fd)
        IN /\ IsPipe(t, call[t].fd) /\ p.active
           /\ IF call[t].op = "read" THEN Bytes(p) = 0 /\ Refs(p, WRITE) > 0
                                     ELSE Bytes(p) = PipeSize /\ Refs(p, READ) > 0

(* A pipe delivers the bytes written to it, each once and in order, also   *)
(* across the wrap of the counters and the reuse of its pool slot: what    *)
(* lies between head and tail are the bytes with those numbers.            *)
BytesInOrder ==
    \A p \in Pipe : LET q == pipes[p]
                    IN q.active => \A i \in 0..Bytes(q) - 1 :
                          q.buffer[Index(Label(q.head + i))] = Label(q.head + i)

============================================================================
