--------------------------- MODULE ProcTableProofs ---------------------------
(***************************************************************************)
(* Proofs about processes, signals and job control, for any number of      *)
(* tasks, slots, keys and signals: the inductive invariant, and what the   *)
(* functions of process.c and signal.c that act on OTHER tasks leave of it.*)
(* ProcProofs goes on to the tasks that run and to the theorems.           *)
(*                                                                         *)
(* One step of Proc composes many of those functions, so the invariant     *)
(* KInv is a predicate on kernel records, and the proof has one lemma per  *)
(* function: called on a record that satisfies it, the function returns    *)
(* one that does.  In the middle of reap_task() the exit of the victim is  *)
(* not on record yet; KInvBut(s, X) is the invariant with that allowed for *)
(* the tasks in X.                                                         *)
(***************************************************************************)
EXTENDS Proc, Facts

State == {"EMPTY", "RUNNING", "WAITING", "STOPPED", "DEAD", "FREED"}
Gone == {"DEAD", "FREED"}

Kernel ==
    [state : [Pid -> State], wait : [Pid -> WaitReason], stopWait : [Pid -> WaitReason],
     parent : [Pid -> Pid \cup {Nobody}], pgid : [Pid -> Pid], execChild : [Pid -> Pid],
     pending : [Pid -> SUBSET Signal],
     handler : [Pid -> [Signal -> {"DFL", "IGN", "HANDLER"}]],
     inHandler : [Pid -> BOOLEAN], interrupted : [Pid -> BOOLEAN], alarm : SUBSET Pid,
     frame : [Pid -> Call], saved : [Pid -> Call], current : Pid \cup {Nobody},
     cr3 : Pid, fg : Pid, parked : Seq(News), keys : 0..MaxKeys, settled : SUBSET Pid,
     leak : BOOLEAN]

Distinct(q) == \A i, j \in DOMAIN q : q[i] = q[j] => i = j

(* What the table of exit statuses and stop notices is worth.              *)
TableOK(s, X) ==
    /\ Distinct(s.parked)
    /\ \A n \in Range(s.parked) :
         /\ n.parent = s.parent[n.child]
         /\ s.state[n.child] \in Gone \/ (n.stopped /\ s.state[n.child] = "STOPPED")
         /\ ~n.stopped => n.child \notin s.settled \cup X
         /\ Waits(s, n.parent, "PID") => n.stopped /\ s.frame[n.parent] # "wait(WUNTRACED)"
    /\ \A c \in s.settled : s.state[c] \in Gone /\ c \notin X
    /\ \A c \in Pid \ X : s.state[c] \in Gone /\ s.parent[c] \in Tasks(s) \ {Idle} =>
         c \in s.settled \/ [parent |-> s.parent[c], child |-> c, stopped |-> FALSE] \in Range(s.parked)

SleepOK(s) == \A p \in Tasks(s) : s.state[p] = "WAITING" <=> s.wait[p] # "NONE"

KInvBut(s, X) ==
    /\ s \in Kernel /\ Len(s.parked) <= MaxSlots
    /\ SleepOK(s)
    /\ \A p \in Pid : Waits(s, p, "KBD") => s.keys = 0 /\ ~s.interrupted[p]
    /\ s.state[Idle] = "RUNNING"
    /\ s.current # Nobody => s.cr3 = s.current
    /\ \A c \in Pid : s.parent[c] \in Pid => s.state[s.parent[c]] # "EMPTY"
    /\ TableOK(s, X)

KInv(s) == KInvBut(s, {})
KDying(s, victim) == KInvBut(s, {victim})

(* A record at which user code may be resumed.                             *)
Settled(s) == /\ KInv(s) /\ s.current \in Pid
              /\ s.state[s.current] = "RUNNING" /\ s.cr3 = s.current

---------------------------------------------------------------------------
(* Steps that concern no sleeper.                                          *)

(* t differs from s in nothing that the table or a sleeping task relies on.*)
Quiet(s, t) ==
    /\ t.parked = s.parked /\ t.parent = s.parent
    /\ t.settled = s.settled /\ t.keys = s.keys /\ t.state[Idle] = s.state[Idle]
    /\ \A p \in Pid : /\ t.state[p] \in Gone <=> s.state[p] \in Gone
                      /\ t.state[p] = "EMPTY" <=> s.state[p] = "EMPTY"
                      /\ s.state[p] = "STOPPED" => t.state[p] = "STOPPED"
    /\ \A p \in Pid : Waits(t, p, "PID") => Waits(s, p, "PID") /\ t.frame[p] = s.frame[p]
    /\ \A p \in Pid : Waits(t, p, "KBD") =>
                       Waits(s, p, "KBD") /\ t.interrupted[p] = s.interrupted[p]

(* A step that touches neither the family of tasks nor their sleep keeps   *)
(* the invariant.                                                          *)
LEMMA QuietKeeps ==
    ASSUME NEW X, NEW s, NEW t, KInvBut(s, X), t \in Kernel, SleepOK(t),
           t.current # Nobody => t.cr3 = t.current, Quiet(s, t)
    PROVE  KInvBut(t, X)
<1>1. s \in Kernel
  BY DEF KInvBut
<1>2. \A n \in Range(s.parked) : n \in News
  BY <1>1 DEF Kernel, Range
<1>3. \A p \in Pid : p \in Tasks(t) => p \in Tasks(s)
  <2>1. SUFFICES ASSUME NEW p \in Pid, p \in Tasks(t)
                 PROVE  p \in Tasks(s)
    OBVIOUS
  <2>2. t.state[p] \notin Gone /\ t.state[p] # "EMPTY"
    BY <2>1 DEF Tasks, Gone
  <2>3. s.state[p] \notin Gone /\ s.state[p] # "EMPTY"
    BY <2>2 DEF Quiet
  <2>4. s.state[p] \in State
    BY <1>1 DEF Kernel
  <2> QED BY <2>3, <2>4 DEF Tasks, Gone, State
<1>4. TableOK(t, X)
  <2>1. \A n \in Range(t.parked) : n.child \in Pid /\ n.parent \in Pid
    BY <1>2 DEF News, Quiet
  <2>2. \A n \in Range(t.parked) :
         /\ n.parent = t.parent[n.child]
         /\ t.state[n.child] \in Gone \/ (n.stopped /\ t.state[n.child] = "STOPPED")
         /\ ~n.stopped => n.child \notin t.settled \cup X
    BY <2>1 DEF KInvBut, TableOK, Quiet
  <2>3. \A n \in Range(t.parked) :
         Waits(t, n.parent, "PID") => n.stopped /\ t.frame[n.parent] # "wait(WUNTRACED)"
    BY <2>1 DEF KInvBut, TableOK, Quiet
  <2>4. \A c \in t.settled : t.state[c] \in Gone /\ c \notin X
    BY <1>1 DEF KInvBut, TableOK, Quiet, Kernel
  <2>5. \A c \in Pid \ X : t.state[c] \in Gone /\ t.parent[c] \in Tasks(t) \ {Idle} =>
         c \in t.settled \/ [parent |-> t.parent[c], child |-> c, stopped |-> FALSE] \in Range(t.parked)
    BY <1>3 DEF KInvBut, TableOK, Quiet, Tasks
  <2>6. Distinct(t.parked)
    BY DEF KInvBut, TableOK, Quiet
  <2> QED BY <2>2, <2>3, <2>4, <2>5, <2>6 DEF TableOK
<1>5. \A p \in Pid : Waits(t, p, "KBD") => t.keys = 0 /\ ~t.interrupted[p]
  BY DEF KInvBut, Quiet
<1>6. \A c \in Pid : t.parent[c] \in Pid => t.state[t.parent[c]] # "EMPTY"
  BY DEF KInvBut, Quiet
<1>7. Len(t.parked) <= MaxSlots
  BY DEF KInvBut, Quiet
<1>8. t.state[Idle] = "RUNNING"
  BY DEF KInvBut, Quiet
<1> QED BY <1>4, <1>5, <1>6, <1>7, <1>8 DEF KInvBut

(* The same with nobody dying.                                             *)
LEMMA QuietKeepsInvariant ==
    ASSUME NEW s, NEW t, KInv(s), t \in Kernel, SleepOK(t),
           t.current # Nobody => t.cr3 = t.current, Quiet(s, t)
    PROVE  KInv(t)
BY QuietKeeps DEF KInv

(* Tasks that are waiting may be woken at any time.                        *)
LEMMA WakeUpKeeps ==
    ASSUME NEW X, NEW s, KInvBut(s, X), NEW S, S \subseteq {p \in Pid : s.state[p] = "WAITING"}
    PROVE  /\ KInvBut(WakeUp(s, S), X)
           /\ WakeUp(s, S).current = s.current /\ WakeUp(s, S).cr3 = s.cr3
           /\ \A p \in Pid : s.state[p] # "WAITING" => WakeUp(s, S).state[p] = s.state[p]
<1> DEFINE t == WakeUp(s, S)
<1>1. s \in Kernel /\ SleepOK(s) /\ s.state[Idle] = "RUNNING" /\ Idle \in Pid
  BY BoundsAssumption DEF KInvBut, Idle, Pid
<1>2. /\ t \in Kernel /\ t.parked = s.parked /\ t.parent = s.parent /\ t.settled = s.settled
      /\ t.keys = s.keys /\ t.current = s.current /\ t.cr3 = s.cr3 /\ t.frame = s.frame
      /\ t.interrupted = s.interrupted
      /\ t.state = [p \in Pid |-> IF p \in S THEN "RUNNING" ELSE s.state[p]]
      /\ t.wait = [p \in Pid |-> IF p \in S THEN "NONE" ELSE s.wait[p]]
  BY <1>1 DEF WakeUp, Assign, Kernel, State, WaitReason
<1> HIDE DEF t
<1>3. SleepOK(t)
  BY <1>1, <1>2 DEF SleepOK, Tasks
<1>4. Quiet(s, t)
  BY <1>1, <1>2 DEF Quiet, Waits, Gone
<1>5. KInvBut(t, X)
  BY <1>2, <1>3, <1>4, QuietKeeps DEF KInvBut
<1>6. \A p \in Pid : s.state[p] # "WAITING" => t.state[p] = s.state[p]
  BY <1>2
<1> QED BY <1>2, <1>5, <1>6 DEF t

---------------------------------------------------------------------------
(* Sequences without repetition, and what the table operations do to them. *)

LEMMA AppendEntries ==
    ASSUME NEW T, NEW q \in Seq(T), NEW e \in T, Distinct(q), e \notin Range(q)
    PROVE  /\ Append(q, e) \in Seq(T) /\ Distinct(Append(q, e))
           /\ Range(Append(q, e)) = Range(q) \cup {e} /\ Len(Append(q, e)) = Len(q) + 1
<1> DEFINE r == Append(q, e)
           n == Len(q)
<1>1. n \in Nat /\ DOMAIN q = 1..n
  OBVIOUS
<1>2. r \in Seq(T) /\ Len(r) = n + 1
  OBVIOUS
<1>3. r[n + 1] = e /\ \A i \in 1..n : r[i] = q[i]
  OBVIOUS
<1>4. DOMAIN r = 1..n + 1
  BY <1>2
<1> HIDE DEF r, n
<1>5. ASSUME NEW i \in 1..n + 1
      PROVE  (i = n + 1 /\ r[i] = e) \/ (i \in 1..n /\ r[i] = q[i] /\ q[i] \in Range(q))
  BY <1>1, <1>3 DEF Range
<1>6. Distinct(r)
  BY <1>1, <1>4, <1>5 DEF Distinct
<1>7. Range(r) \subseteq Range(q) \cup {e}
  BY <1>4, <1>5 DEF Range
<1>8. e \in Range(r)
  BY <1>1, <1>3, <1>4 DEF Range
<1>9. Range(q) \subseteq Range(r)
  BY <1>1, <1>3, <1>4 DEF Range
<1> QED BY <1>2, <1>6, <1>7, <1>8, <1>9 DEF r, n

(* What is left of a list without repetition when its first entry goes.    *)
LEMMA TailEntries ==
    ASSUME NEW T, NEW q \in Seq(T), q # <<>>, Distinct(q)
    PROVE  /\ Tail(q) \in Seq(T) /\ Distinct(Tail(q)) /\ Len(Tail(q)) = Len(q) - 1
           /\ q[1] \in Range(q) /\ Range(Tail(q)) = Range(q) \ {q[1]}
<1>1. Len(q) \in Nat /\ Len(q) # 0 /\ DOMAIN q = 1..Len(q)
  OBVIOUS
<1>2. Tail(q) \in Seq(T) /\ Len(Tail(q)) = Len(q) - 1
  OBVIOUS
<1>3. \A i \in 1..Len(q) - 1 : Tail(q)[i] = q[i + 1]
  OBVIOUS
<1>4. DOMAIN Tail(q) = 1..Len(q) - 1
  BY <1>2
<1>5. Distinct(Tail(q))
  BY <1>1, <1>3, <1>4 DEF Distinct
<1>6. ASSUME NEW e \in Range(Tail(q))
      PROVE  e \in Range(q) \ {q[1]}
  BY <1>1, <1>3, <1>4 DEF Distinct, Range
<1>7. ASSUME NEW e \in Range(q), e # q[1]
      PROVE  e \in Range(Tail(q))
  <2>1. PICK i \in 1..Len(q) : q[i] = e
    BY <1>1 DEF Range
  <2>2. i - 1 \in 1..Len(q) - 1 /\ Tail(q)[i - 1] = q[i]
    BY <1>1, <1>3, <1>7, <2>1
  <2> QED BY <1>4, <2>1, <2>2 DEF Range
<1>8. q[1] \in Range(q)
  BY <1>1 DEF Range
<1>9. Range(Tail(q)) = Range(q) \ {q[1]}
  BY <1>6, <1>7
<1> QED BY <1>2, <1>5, <1>8, <1>9

(* What is left of a list without repetition when one entry goes.          *)
LEMMA RemoveEntry ==
    ASSUME NEW T, NEW q \in Seq(T), Distinct(q), NEW i \in DOMAIN q
    PROVE  /\ RemoveAt(q, i) \in Seq(T) /\ Distinct(RemoveAt(q, i))
           /\ Len(RemoveAt(q, i)) = Len(q) - 1
           /\ Range(RemoveAt(q, i)) = Range(q) \ {q[i]}
<1> DEFINE r == RemoveAt(q, i)
           n == Len(q)
<1>1. n \in Nat /\ DOMAIN q = 1..n /\ i \in 1..n
  OBVIOUS
<1>2. r \in Seq(T) /\ Len(r) = n - 1
  BY <1>1 DEF RemoveAt
<1>3. \A j \in 1..n - 1 : r[j] = IF j < i THEN q[j] ELSE q[j + 1]
  <2> DEFINE a == SubSeq(q, 1, i - 1)
             b == SubSeq(q, i + 1, n)
  <2>1. a \in Seq(T) /\ Len(a) = i - 1 /\ \A j \in 1..i - 1 : a[j] = q[j]
    BY <1>1
  <2>2. b \in Seq(T) /\ Len(b) = n - i /\ \A j \in 1..n - i : b[j] = q[i + j]
    BY <1>1
  <2>3. r = a \o b
    BY DEF RemoveAt
  <2> HIDE DEF a, b, r, n
  <2>4. ASSUME NEW j \in 1..n - 1, j < i
        PROVE  r[j] = q[j]
    BY <1>1, <2>1, <2>2, <2>3, <2>4
  <2>5. ASSUME NEW j \in 1..n - 1, ~(j < i)
        PROVE  r[j] = q[j + 1]
    <3>1. r[j] = b[j - (i - 1)]
      BY <1>1, <2>1, <2>2, <2>3, <2>5
    <3>2. j - (i - 1) \in 1..n - i /\ i + (j - (i - 1)) = j + 1
      BY <1>1, <2>5
    <3> QED BY <2>2, <3>1, <3>2
  <2> QED BY <2>4, <2>5
<1>4. DOMAIN r = 1..n - 1
  BY <1>2
<1> HIDE DEF r, n
<1>5. Distinct(r)
  <2>1. SUFFICES ASSUME NEW j \in 1..n - 1, NEW l \in 1..n - 1, r[j] = r[l]
                 PROVE  j = l
    BY <1>4 DEF Distinct
  <2>2. \A x, y \in 1..n : q[x] = q[y] => x = y
    BY <1>1 DEF Distinct
  <2>3. r[j] = (IF j < i THEN q[j] ELSE q[j + 1]) /\ r[l] = IF l < i THEN q[l] ELSE q[l + 1]
    BY <1>3
  <2>4. j \in 1..n /\ j + 1 \in 1..n /\ l \in 1..n /\ l + 1 \in 1..n
    BY <1>1
  <2>5. CASE j < i /\ l < i
    BY <2>1, <2>2, <2>3, <2>4, <2>5
  <2>6. CASE j < i /\ ~(l < i)
    <3>1. j = l + 1
      BY <2>1, <2>2, <2>3, <2>4, <2>6
    <3> QED BY <1>1, <2>6, <3>1
  <2>7. CASE ~(j < i) /\ l < i
    <3>1. j + 1 = l
      BY <2>1, <2>2, <2>3, <2>4, <2>7
    <3> QED BY <1>1, <2>7, <3>1
  <2>8. CASE ~(j < i) /\ ~(l < i)
    <3>1. j + 1 = l + 1
      BY <2>1, <2>2, <2>3, <2>4, <2>8
    <3> QED BY <1>1, <3>1
  <2> QED BY <2>5, <2>6, <2>7, <2>8
<1>6. ASSUME NEW e \in Range(r)
      PROVE  e \in Range(q) \ {q[i]}
  <2>1. PICK j \in 1..n - 1 : r[j] = e
    BY <1>4 DEF Range
  <2>2. r[j] = IF j < i THEN q[j] ELSE q[j + 1]
    BY <1>3
  <2>3. CASE j < i
    BY <1>1, <2>1, <2>2, <2>3 DEF Distinct, Range
  <2>4. CASE ~(j < i)
    BY <1>1, <2>1, <2>2, <2>4 DEF Distinct, Range
  <2> QED BY <2>3, <2>4
<1>7. ASSUME NEW e \in Range(q), e # q[i]
      PROVE  e \in Range(r)
  <2>1. PICK j \in 1..n : q[j] = e
    BY <1>1 DEF Range
  <2>2. CASE j < i
    BY <1>1, <1>3, <1>4, <2>1, <2>2 DEF Range
  <2>3. CASE ~(j < i)
    <3>1. j - 1 \in 1..n - 1 /\ r[j - 1] = q[j]
      BY <1>1, <1>3, <1>7, <2>1, <2>3
    <3> QED BY <1>4, <2>1, <3>1 DEF Range
  <2> QED BY <2>2, <2>3
<1>8. Range(r) = Range(q) \ {q[i]}
  BY <1>6, <1>7 DEF Range
<1> QED BY <1>2, <1>5, <1>8 DEF r, n

(* Keeping() is defined by recursion: its recursion has a solution.        *)
LEMMA KeepingRecursion ==
    ASSUME NEW T, NEW q \in Seq(T), NEW K
    PROVE  \E f : f = [i \in 0..Len(q) |->
                       IF i = 0 THEN <<>>
                       ELSE IF q[i] \in K THEN Append(f[i-1], q[i]) ELSE f[i-1]]
<1> DEFINE D == 0..Len(q)
           Step(f, i) == IF i = 0 THEN <<>>
                         ELSE IF q[i] \in K THEN Append(f[i-1], q[i]) ELSE f[i-1]
           Solves(f, n) == f = [i \in D |-> f[i]] /\ \A i \in D : i <= n => f[i] = Step(f, i)
           S == {n \in Nat : \E f : Solves(f, n)}
<1>1. Len(q) \in Nat
  OBVIOUS
<1>2. 0 \in S
  <2>1. Solves([i \in D |-> <<>>], 0)
    BY <1>1
  <2> QED BY <2>1
<1>3. ASSUME NEW n \in Nat, n \in S
      PROVE  n + 1 \in S
  <2>1. PICK f : Solves(f, n)
    BY <1>3
  <2> DEFINE v == Step(f, n + 1)
             g == [i \in D |-> IF i = n + 1 THEN v ELSE f[i]]
  <2> HIDE DEF v
  <2>2. \A i \in D : i <= n => g[i] = Step(g, i)
    BY <1>1, <2>1
  <2>3. n + 1 \in D => g[n + 1] = Step(g, n + 1)
    BY <1>1, <2>1 DEF v
  <2>4. Solves(g, n + 1)
    BY <1>1, <2>2, <2>3
  <2> HIDE DEF Solves, g
  <2> QED BY <2>4
<1>4. Len(q) \in S
  <2> HIDE DEF S
  <2> QED BY <1>1, <1>2, <1>3, NatSetInduction
<1>5. PICK f : Solves(f, Len(q))
  BY <1>4
<1>6. f = [i \in D |-> Step(f, i)]
  BY <1>1, <1>5
<1> QED BY <1>6

(* The entries Keeping() returns are those kept; none is doubled.          *)
LEMMA KeepingEntries ==
    ASSUME NEW T, NEW q \in Seq(T), Distinct(q), NEW K
    PROVE  /\ Keeping(q, K) \in Seq(T) /\ Distinct(Keeping(q, K))
           /\ Len(Keeping(q, K)) <= Len(q)
           /\ Range(Keeping(q, K)) = Range(q) \cap K
<1> DEFINE f == CHOOSE f : f = [i \in 0..Len(q) |->
                       IF i = 0 THEN <<>>
                       ELSE IF q[i] \in K THEN Append(f[i-1], q[i]) ELSE f[i-1]]
           First(i) == {q[j] : j \in 1..i}
           Right(i) == /\ f[i] \in Seq(T) /\ Distinct(f[i]) /\ Len(f[i]) <= i
                       /\ Range(f[i]) = First(i) \cap K
           S == {n \in Nat : n <= Len(q) => Right(n)}
<1>1. Len(q) \in Nat /\ DOMAIN q = 1..Len(q)
  OBVIOUS
<1>2. f = [i \in 0..Len(q) |->
             IF i = 0 THEN <<>> ELSE IF q[i] \in K THEN Append(f[i-1], q[i]) ELSE f[i-1]]
  <2> DEFINE P(g) == g = [i \in 0..Len(q) |->
                        IF i = 0 THEN <<>>
                        ELSE IF q[i] \in K THEN Append(g[i-1], q[i]) ELSE g[i-1]]
  <2>1. \E g : P(g)
    BY KeepingRecursion
  <2>2. f = CHOOSE g : P(g)
    OBVIOUS
  <2> HIDE DEF P, f
  <2>3. P(f)
    BY <2>1, <2>2, Zenon
  <2> QED BY <2>3 DEF P
<1>3. Keeping(q, K) = f[Len(q)]
  BY DEF Keeping
<1> HIDE DEF f
<1>4. 0 \in S
  <2>1. f[0] = <<>>
    BY <1>1, <1>2
  <2>2. First(0) = {}
    OBVIOUS
  <2>3. Right(0)
    BY <2>1, <2>2 DEF Distinct, Range
  <2> QED BY <2>3
<1>5. ASSUME NEW n \in Nat, n \in S
      PROVE  n + 1 \in S
  <2>1. SUFFICES ASSUME n + 1 <= Len(q)
                 PROVE  Right(n + 1)
    OBVIOUS
  <2>2. Right(n) /\ n \in 0..Len(q) /\ n + 1 \in 1..Len(q) /\ q[n + 1] \in T
    BY <1>1, <1>5, <2>1
  <2>3. f[n + 1] = IF q[n + 1] \in K THEN Append(f[n], q[n + 1]) ELSE f[n]
    <3> DEFINE m == n + 1
    <3>1. m \in 0..Len(q) /\ m # 0 /\ m - 1 = n
      BY <1>1, <2>2
    <3> HIDE DEF m
    <3>2. f[m] = IF q[m] \in K THEN Append(f[m - 1], q[m]) ELSE f[m - 1]
      BY <1>2, <3>1
    <3> QED BY <3>1, <3>2 DEF m
  <2>4. First(n + 1) = First(n) \cup {q[n + 1]}
    OBVIOUS
  <2>5. q[n + 1] \notin First(n)
    BY <1>1, <2>2 DEF Distinct
  <2> HIDE DEF First
  <2>6. CASE q[n + 1] \in K
    <3>1. q[n + 1] \notin Range(f[n])
      BY <2>2, <2>5
    <3>2. /\ f[n + 1] \in Seq(T) /\ Distinct(f[n + 1]) /\ Len(f[n + 1]) = Len(f[n]) + 1
          /\ Range(f[n + 1]) = Range(f[n]) \cup {q[n + 1]}
      BY <2>2, <2>3, <2>6, <3>1, AppendEntries
    <3> QED BY <2>2, <2>4, <2>6, <3>2
  <2>7. CASE q[n + 1] \notin K
    BY <2>2, <2>3, <2>4, <2>7
  <2> QED BY <2>6, <2>7
<1>6. Len(q) \in S
  <2> HIDE DEF S
  <2> QED BY <1>1, <1>4, <1>5, NatSetInduction
<1>7. First(Len(q)) = Range(q)
  BY <1>1 DEF Range
<1> QED BY <1>1, <1>3, <1>6, <1>7

---------------------------------------------------------------------------
(* The table of exit statuses and stop notices.                            *)

(* The table, once its child's stop notice is dropped.                     *)
Kept(s, child) == {n \in Range(s.parked) : ~(n.stopped /\ n.child = child)}

OnlyTable(s, t) == t = [s EXCEPT !.parked = t.parked, !.settled = t.settled]

(* What the invariant says of the parked statuses, unfolded for the        *)
(* provers.                                                                *)
LEMMA TableTyped ==
    ASSUME NEW X, NEW s, KInvBut(s, X)
    PROVE  /\ s \in Kernel /\ s.parked \in Seq(News) /\ Distinct(s.parked)
           /\ Len(s.parked) \in Nat /\ Len(s.parked) <= MaxSlots
           /\ \A n \in Range(s.parked) : n \in News /\ n.child \in Pid /\ n.parent \in Pid
           /\ \A i \in DOMAIN s.parked : s.parked[i] \in Range(s.parked)
           /\ \A n, m \in Range(s.parked) :
                n.child = m.child /\ n.stopped = m.stopped => n = m
<1>1. /\ s \in Kernel /\ Len(s.parked) <= MaxSlots /\ Distinct(s.parked)
      /\ \A n \in Range(s.parked) : n.parent = s.parent[n.child]
  BY DEF KInvBut, TableOK
<1>2. s.parked \in Seq(News)
  BY <1>1 DEF Kernel
<1>3. \A n \in Range(s.parked) : n \in News
  BY <1>2 DEF Range
<1>4. \A n, m \in News : n.parent = m.parent /\ n.child = m.child /\ n.stopped = m.stopped => n = m
  BY DEF News
<1>5. \A n \in News : n.child \in Pid /\ n.parent \in Pid
  BY DEF News
<1>6. \A i \in DOMAIN s.parked : s.parked[i] \in Range(s.parked)
  BY DEF Range
<1>7. \A n, m \in Range(s.parked) : n.child = m.child /\ n.stopped = m.stopped => n = m
  BY <1>1, <1>3, <1>4
<1> QED BY <1>1, <1>2, <1>3, <1>5, <1>6, <1>7

(* park_exit_status() and park_stop_notice() enter one notice, drop the    *)
(* stop notice it supersedes, and evict at most the oldest of the rest.    *)
LEMMA ParkedEntries ==
    ASSUME NEW s \in Kernel, Distinct(s.parked), Len(s.parked) <= MaxSlots,
           NEW news \in News, news \notin Kept(s, news.child),
           NEW t, t = ParkChildNews(s, news)
    PROVE  /\ OnlyTable(s, t)
           /\ t.parked \in Seq(News) /\ Distinct(t.parked) /\ Len(t.parked) <= MaxSlots
           /\ \E old \in SUBSET Kept(s, news.child) :
                /\ Range(t.parked) = (Kept(s, news.child) \ old) \cup {news}
                /\ t.settled = s.settled \cup {n.child : n \in {m \in old : ~m.stopped}}
<1> DEFINE q == DropParkedStop(s.parked, news.child)
           full == Len(q) = MaxSlots
           e == IF full THEN Tail(q) ELSE q
           a == Append(e, news)
           d == IF full /\ ~q[1].stopped THEN s.settled \cup {q[1].child} ELSE s.settled
<1>1. s.parked \in Seq(News) /\ Len(s.parked) \in Nat /\ s.settled \subseteq Pid
  BY DEF Kernel
<1>2. news \in News
  OBVIOUS
<1>3. /\ q \in Seq(News) /\ Distinct(q) /\ Len(q) <= Len(s.parked) /\ Len(q) \in Nat
      /\ Range(q) = Kept(s, news.child)
  <2> DEFINE keep == {n \in Range(s.parked) : ~(n.stopped /\ n.child = news.child)}
  <2>1. q = Keeping(s.parked, keep) /\ Range(s.parked) \cap keep = Kept(s, news.child)
    BY DEF DropParkedStop, Kept
  <2> HIDE DEF keep, q
  <2>2. /\ q \in Seq(News) /\ Distinct(q) /\ Len(q) <= Len(s.parked)
        /\ Range(q) = Range(s.parked) \cap keep
    BY <1>1, <2>1, KeepingEntries
  <2>3. Len(q) \in Nat
    BY <2>2
  <2> QED BY <2>1, <2>2, <2>3
<1>4. t = [s EXCEPT !.parked = a, !.settled = d]
  BY DEF ParkChildNews
<1>5. t.parked = a /\ t.settled = d
  BY <1>4 DEF Kernel
<1>0. OnlyTable(s, t)
  BY <1>4, <1>5 DEF OnlyTable
<1> HIDE DEF q
<1>6. CASE full
  <2>1. q # <<>>
    BY <1>3, <1>6, BoundsAssumption
  <2>2. /\ e \in Seq(News) /\ Distinct(e) /\ Len(e) = MaxSlots - 1 /\ q[1] \in Range(q)
        /\ Range(e) = Range(q) \ {q[1]}
    BY <1>3, <1>6, <2>1, TailEntries
  <2> HIDE DEF e
  <2>3. news \notin Range(e)
    BY <1>3, <2>2
  <2>4. /\ a \in Seq(News) /\ Distinct(a) /\ Len(a) = Len(e) + 1
        /\ Range(a) = Range(e) \cup {news}
    BY <1>2, <2>2, <2>3, AppendEntries
  <2>5. Len(a) <= MaxSlots
    BY <2>2, <2>4, BoundsAssumption
  <2>6. d = s.settled \cup {n.child : n \in {m \in {q[1]} : ~m.stopped}}
    <3>1. CASE q[1].stopped
      BY <3>1
    <3>2. CASE ~q[1].stopped
      BY <1>6, <3>2
    <3> QED BY <3>1, <3>2
  <2>7. Range(a) = (Kept(s, news.child) \ {q[1]}) \cup {news} /\ {q[1]} \in SUBSET Kept(s, news.child)
    BY <1>3, <2>2, <2>4
  <2> HIDE DEF a, d
  <2> QED BY <1>0, <1>5, <2>4, <2>5, <2>6, <2>7
<1>7. CASE ~full
  <2>1. e = q /\ d = s.settled /\ a = Append(q, news)
    BY <1>7
  <2> HIDE DEF a, d
  <2>2. news \notin Range(q)
    BY <1>3
  <2>3. /\ a \in Seq(News) /\ Distinct(a) /\ Len(a) = Len(q) + 1
        /\ Range(a) = Range(q) \cup {news}
    BY <1>2, <1>3, <2>1, <2>2, AppendEntries
  <2>4. Len(a) <= MaxSlots
    BY <1>1, <1>3, <1>7, <2>3, BoundsAssumption
  <2>5. Range(a) = (Kept(s, news.child) \ {}) \cup {news} /\ {} \in SUBSET Kept(s, news.child)
    BY <1>3, <2>3
  <2>6. d = s.settled \cup {n.child : n \in {m \in {} : ~m.stopped}}
    BY <2>1
  <2> QED BY <1>0, <1>5, <2>3, <2>4, <2>5, <2>6
<1> QED BY <1>6, <1>7

(* Entering the news of a child whose parent is not asleep in wait().      *)
LEMMA ParkKeeps ==
    ASSUME NEW X, NEW s, KInvBut(s, X), NEW news \in News,
           news.stopped => X = {}, ~news.stopped => X = {news.child},
           s.state[news.child] \in Gone \/ (news.stopped /\ s.state[news.child] = "STOPPED"),
           news.parent = s.parent[news.child], ~Waits(s, news.parent, "PID"),
           NEW t, t = ParkChildNews(s, news)
    PROVE  KInv(t) /\ OnlyTable(s, t)
<1>1. /\ s \in Kernel /\ s.parked \in Seq(News) /\ Distinct(s.parked)
      /\ Len(s.parked) <= MaxSlots
      /\ \A n \in Range(s.parked) : n \in News /\ n.child \in Pid /\ n.parent \in Pid
      /\ \A n, m \in Range(s.parked) : n.child = m.child /\ n.stopped = m.stopped => n = m
  BY TableTyped
<1>2. /\ \A n \in Range(s.parked) :
           /\ n.parent = s.parent[n.child]
           /\ s.state[n.child] \in Gone \/ (n.stopped /\ s.state[n.child] = "STOPPED")
           /\ ~n.stopped => n.child \notin s.settled \cup X
           /\ Waits(s, n.parent, "PID") => n.stopped /\ s.frame[n.parent] # "wait(WUNTRACED)"
      /\ \A c \in s.settled : s.state[c] \in Gone /\ c \notin X
      /\ \A c \in Pid \ X : s.state[c] \in Gone /\ s.parent[c] \in Tasks(s) \ {Idle} =>
           c \in s.settled \/ [parent |-> s.parent[c], child |-> c, stopped |-> FALSE] \in Range(s.parked)
  BY DEF KInvBut, TableOK
<1>3. news \notin Kept(s, news.child)
  <2>1. CASE news.stopped
    BY <2>1 DEF Kept
  <2>2. CASE ~news.stopped
    BY <1>2, <2>2 DEF Kept
  <2> QED BY <2>1, <2>2
<1>4. /\ OnlyTable(s, t)
      /\ t.parked \in Seq(News) /\ Distinct(t.parked) /\ Len(t.parked) <= MaxSlots
      /\ \E old \in SUBSET Kept(s, news.child) :
           /\ Range(t.parked) = (Kept(s, news.child) \ old) \cup {news}
           /\ t.settled = s.settled \cup {n.child : n \in {m \in old : ~m.stopped}}
  BY <1>1, <1>3, ParkedEntries, ZenonT(40)
<1>5. PICK old \in SUBSET Kept(s, news.child) :
           /\ Range(t.parked) = (Kept(s, news.child) \ old) \cup {news}
           /\ t.settled = s.settled \cup {n.child : n \in {m \in old : ~m.stopped}}
  BY <1>4
<1>6. old \subseteq Range(s.parked) /\ Kept(s, news.child) \subseteq Range(s.parked)
  BY DEF Kept
<1>7. t.settled \subseteq Pid
  BY <1>1, <1>5, <1>6 DEF Kernel
<1>8. /\ t \in Kernel /\ t.state = s.state /\ t.wait = s.wait /\ t.parent = s.parent
      /\ t.frame = s.frame /\ t.keys = s.keys /\ t.interrupted = s.interrupted
      /\ t.current = s.current /\ t.cr3 = s.cr3
  BY <1>1, <1>4, <1>7, ZenonT(40) DEF Kernel, OnlyTable
<1>9. ASSUME NEW n \in Range(t.parked)
      PROVE  /\ n.parent = t.parent[n.child]
             /\ t.state[n.child] \in Gone \/ (n.stopped /\ t.state[n.child] = "STOPPED")
             /\ ~n.stopped => n.child \notin t.settled
             /\ Waits(t, n.parent, "PID") => n.stopped /\ t.frame[n.parent] # "wait(WUNTRACED)"
  <2>1. CASE n = news
    <3>1. ~news.stopped => news.child \notin t.settled
      <4>1. SUFFICES ASSUME ~news.stopped, news.child \in t.settled
                     PROVE  FALSE
        OBVIOUS
      <4>2. news.child \notin s.settled
        BY <1>2, <4>1
      <4>3. PICK m \in old : ~m.stopped /\ m.child = news.child
        BY <1>5, <4>1, <4>2
      <4> QED BY <1>2, <1>6, <4>1, <4>3
    <3> QED BY <1>8, <2>1, <3>1 DEF Waits
  <2>2. CASE n # news
    <3>1. n \in Kept(s, news.child) /\ n \notin old /\ n \in Range(s.parked)
      BY <1>5, <1>6, <2>2
    <3>2. ~n.stopped => n.child \notin t.settled
      <4>1. SUFFICES ASSUME ~n.stopped, n.child \in t.settled
                     PROVE  FALSE
        OBVIOUS
      <4>2. n.child \notin s.settled
        BY <1>2, <3>1, <4>1
      <4>3. PICK m \in old : ~m.stopped /\ m.child = n.child
        BY <1>5, <4>1, <4>2
      <4>4. m \in News /\ n \in News /\ m \in Range(s.parked)
        BY <1>1, <1>6, <3>1
      <4>5. m.stopped = n.stopped
        BY <4>1, <4>3, <4>4 DEF News
      <4> QED BY <1>1, <3>1, <4>3, <4>4, <4>5
    <3> QED BY <1>2, <1>8, <3>1, <3>2, SMTT(20) DEF Waits
  <2> QED BY <2>1, <2>2
<1>10. \A c \in t.settled : t.state[c] \in Gone
  <2>1. SUFFICES ASSUME NEW c \in t.settled
                 PROVE  s.state[c] \in Gone
    BY <1>8
  <2>2. CASE c \in s.settled
    BY <1>2, <2>2
  <2>3. CASE c \notin s.settled
    <3>1. PICK m \in old : ~m.stopped /\ m.child = c
      BY <1>5, <2>3
    <3> QED BY <1>2, <1>6, <3>1
  <2> QED BY <2>2, <2>3
<1>11. ASSUME NEW c \in Pid, t.state[c] \in Gone, t.parent[c] \in Tasks(t) \ {Idle}
       PROVE  c \in t.settled
                \/ [parent |-> t.parent[c], child |-> c, stopped |-> FALSE] \in Range(t.parked)
  <2> DEFINE n == [parent |-> s.parent[c], child |-> c, stopped |-> FALSE]
  <2>1. CASE c \in X
    <3>1. c = news.child /\ ~news.stopped
      BY <2>1
    <3>2. n = news
      BY <3>1 DEF News
    <3> QED BY <1>5, <1>8, <3>2
  <2>2. CASE c \notin X
    <3>1. c \in s.settled \/ n \in Range(s.parked)
      BY <1>2, <1>8, <1>11, <2>2 DEF Tasks
    <3>2. CASE n \in Range(s.parked) /\ n \in old
      BY <1>5, <3>2
    <3>3. CASE n \in Range(s.parked) /\ n \notin old
      BY <1>5, <1>8, <3>3 DEF Kept
    <3> QED BY <1>5, <3>1, <3>2, <3>3
  <2> QED BY <2>1, <2>2
<1>12. TableOK(t, {})
  BY <1>4, <1>9, <1>10, <1>11 DEF TableOK
<1>13. SleepOK(t)
  BY <1>8 DEF KInvBut, SleepOK, Tasks
<1>14. KInv(t)
  BY <1>4, <1>8, <1>12, <1>13 DEF KInv, KInvBut, Waits
<1> QED BY <1>4, <1>14

(* park_child_news() of a stop, in a table that may be full.               *)
LEMMA ParkStopKeeps ==
    ASSUME NEW s, NEW child \in Pid \ {Idle}, KInv(s), s.state[child] = "STOPPED",
           s.parent[child] \in Pid \ {Idle}, ~Waits(s, s.parent[child], "PID"),
           NEW t, t = ParkChildNews(s, StopNotice(s, child))
    PROVE  KInv(t) /\ OnlyTable(s, t)
<1> DEFINE news == StopNotice(s, child)
<1>1. /\ news \in News /\ news.stopped /\ news.parent = s.parent[child] /\ news.child = child
      /\ KInvBut(s, {})
  BY DEF News, StopNotice, KInv
<1> HIDE DEF news
<1>2. t = ParkChildNews(s, news)
  BY DEF news
<1>3. /\ news.stopped => {} = {}
      /\ ~news.stopped => {} = {news.child}
      /\ s.state[news.child] \in Gone \/ (news.stopped /\ s.state[news.child] = "STOPPED")
      /\ news.parent = s.parent[news.child] /\ ~Waits(s, news.parent, "PID")
  BY <1>1
<1> QED BY <1>1, <1>2, <1>3, ParkKeeps

(* park_child_news() of an exit, in a table that may be full.              *)
LEMMA ParkExitKeeps ==
    ASSUME NEW s, NEW child \in Pid \ {Idle}, KDying(s, child), s.state[child] = "DEAD",
           s.parent[child] \in Pid \ {Idle}, ~Waits(s, s.parent[child], "PID"),
           NEW t, t = ParkChildNews(s, ExitStatus(s, child))
    PROVE  KInv(t) /\ OnlyTable(s, t)
<1> DEFINE news == ExitStatus(s, child)
           X == {child}
<1>1. /\ news \in News /\ ~news.stopped /\ news.parent = s.parent[child] /\ news.child = child
      /\ s.state[news.child] \in Gone
  BY DEF News, ExitStatus, Gone
<1>0. KInvBut(s, X)
  BY DEF KDying
<1> HIDE DEF news
<1>2. t = ParkChildNews(s, news)
  BY DEF news
<1>3. /\ news.stopped => X = {}
      /\ ~news.stopped => X = {news.child}
      /\ s.state[news.child] \in Gone \/ (news.stopped /\ s.state[news.child] = "STOPPED")
      /\ news.parent = s.parent[news.child] /\ ~Waits(s, news.parent, "PID")
  BY <1>1
<1> HIDE DEF X
<1> QED BY <1>0, <1>1, <1>2, <1>3, ParkKeeps

---------------------------------------------------------------------------
(* Telling the parent.                                                     *)

(* The parent reap_task() and stop_task() wake is asleep.                  *)
LEMMA WokenParentSleeps ==
    ASSUME NEW X, NEW s, KInvBut(s, X), NEW victim \in Pid, NEW q, q = WokenParent(s, victim)
    PROVE  \/ /\ q = Nobody
              /\ s.parent[victim] \in Pid => ~Waits(s, s.parent[victim], "PID")
           \/ /\ q \in Pid /\ q = s.parent[victim] /\ s.state[q] = "WAITING"
              /\ s.wait[q] = "PID" \/ s.wait[q] = "CHILD"
BY DEF WokenParent, Waits

(* The order of waking the parent and parking the news is immaterial.      *)
LEMMA WakeThenPark ==
    ASSUME NEW s \in Kernel, NEW S, NEW news
    PROVE  WakeUp(ParkChildNews(s, news), S)
             = ParkChildNews(WakeUp(s, S), news)
<1> DEFINE w == WakeUp(s, S)
<1>1. /\ w.parked = s.parked /\ w.settled = s.settled
      /\ w = [s EXCEPT !.state = Assign(s.state, S, "RUNNING"), !.wait = Assign(s.wait, S, "NONE")]
  BY DEF WakeUp, Kernel
<1> HIDE DEF w
<1> DEFINE q == DropParkedStop(s.parked, news.child)
           a == Append(IF Len(q) = MaxSlots THEN Tail(q) ELSE q, news)
           d == IF Len(q) = MaxSlots /\ ~q[1].stopped THEN s.settled \cup {q[1].child} ELSE s.settled
<1>2. ParkChildNews(s, news) = [s EXCEPT !.parked = a, !.settled = d]
  BY DEF ParkChildNews
<1>3. ParkChildNews(w, news) = [w EXCEPT !.parked = a, !.settled = d]
  BY <1>1 DEF ParkChildNews
<1> HIDE DEF a, d
<1>4. [s EXCEPT !.parked = a, !.settled = d].state = s.state
      /\ [s EXCEPT !.parked = a, !.settled = d].wait = s.wait
  BY DEF Kernel
<1>5. WakeUp([s EXCEPT !.parked = a, !.settled = d], S)
        = [[s EXCEPT !.parked = a, !.settled = d] EXCEPT
             !.state = Assign(s.state, S, "RUNNING"), !.wait = Assign(s.wait, S, "NONE")]
  BY <1>4 DEF WakeUp
<1> QED BY <1>1, <1>2, <1>3, <1>5, ZenonT(40) DEF w, Kernel

(* What stays as it was while a task is reaped, stopped or woken.          *)
Stays(s, t) ==
    /\ t.parent = s.parent /\ t.current = s.current /\ t.cr3 = s.cr3 /\ t.keys = s.keys
    /\ t.handler = s.handler
    /\ \A p \in Pid : s.state[p] # "WAITING" => t.state[p] = s.state[p]

(* Which child an exec() waits for matters to nobody else.                 *)
LEMMA ExecChildKeeps ==
    ASSUME NEW X, NEW s, KInvBut(s, X), NEW q \in Pid, NEW e \in Pid,
           NEW t, t = [s EXCEPT !.execChild[q] = e]
    PROVE  KInvBut(t, X) /\ Stays(s, t)
<1>1. s \in Kernel /\ SleepOK(s) /\ (s.current # Nobody => s.cr3 = s.current)
  BY DEF KInvBut
<1>2. /\ t \in Kernel /\ t.parked = s.parked /\ t.parent = s.parent /\ t.settled = s.settled
      /\ t.keys = s.keys /\ t.current = s.current /\ t.cr3 = s.cr3 /\ t.frame = s.frame
      /\ t.interrupted = s.interrupted /\ t.state = s.state /\ t.wait = s.wait
      /\ t.handler = s.handler
  BY <1>1 DEF Kernel
<1>3. SleepOK(t) /\ Quiet(s, t) /\ Stays(s, t)
  BY <1>1, <1>2 DEF SleepOK, Tasks, Quiet, Stays, Waits
<1> QED BY <1>1, <1>2, <1>3, QuietKeeps

(* Telling the parent of a stop: it is woken, or the notice is parked.     *)
LEMMA TellOfStopKeeps ==
    ASSUME NEW s, NEW victim \in Pid \ {Idle}, KInv(s), s.state[victim] = "STOPPED",
           NEW t, t = TellOfStop(s, victim)
    PROVE  KInv(t) /\ Stays(s, t)
<1> DEFINE parent == s.parent[victim]
           q == WokenParent(s, victim)
           parked == ParkChildNews(s, StopNotice(s, victim))
<1>1. s \in Kernel /\ parent \in Pid \cup {Nobody}
  BY DEF KInv, KInvBut, Kernel
<1>2. \/ q = Nobody /\ (parent \in Pid => ~Waits(s, parent, "PID"))
      \/ q \in Pid /\ q = parent /\ s.state[q] = "WAITING"
  BY WokenParentSleeps DEF KInv
<1>3. CASE q = Nobody /\ ~(parent > 0)
  BY <1>3 DEF TellOfStop, Stays
<1> HIDE DEF q
<1>4. CASE q = Nobody /\ parent > 0
  <2>1. t = parked
    BY <1>4 DEF TellOfStop, q
  <2>2. parent \in Pid \ {Idle} /\ ~Waits(s, parent, "PID")
    BY <1>1, <1>2, <1>4, BoundsAssumption DEF Idle, Nobody, Pid
  <2>3. KInv(t) /\ OnlyTable(s, t)
    BY <2>1, <2>2, ParkStopKeeps
  <2> QED BY <1>1, <2>3 DEF Stays, Kernel, OnlyTable
<1>5. CASE q \in Pid /\ q = parent /\ s.state[q] = "WAITING"
  <2> DEFINE w == WakeUp(s, {q})
             u == ParkChildNews(w, StopNotice(s, victim))
             e == IF s.wait[q] = "CHILD" THEN 0 ELSE u.execChild[q]
  <2>1. /\ KInvBut(w, {}) /\ w.current = s.current /\ w.cr3 = s.cr3
        /\ \A p \in Pid : s.state[p] # "WAITING" => w.state[p] = s.state[p]
    BY <1>5, WakeUpKeeps DEF KInv
  <2>2. /\ w.parent = s.parent /\ w.keys = s.keys /\ w.handler = s.handler /\ w.state[q] = "RUNNING"
        /\ w.execChild = s.execChild
    BY <1>1, <1>5 DEF WakeUp, Assign, Kernel
  <2>3. WakeUp(parked, {q}) = u
    BY <1>1, WakeThenPark
  <2> HIDE DEF w
  <2>4. q # Idle
    BY <1>5 DEF KInv, KInvBut
  <2>5. KInv(u) /\ OnlyTable(w, u)
    <3>1. /\ KInv(w) /\ w.state[victim] = "STOPPED" /\ w.parent[victim] \in Pid \ {Idle}
          /\ ~Waits(w, w.parent[victim], "PID") /\ u = ParkChildNews(w, StopNotice(w, victim))
      BY <1>5, <2>1, <2>2, <2>4 DEF KInv, Waits, StopNotice
    <3> HIDE DEF u
    <3> QED BY <3>1, ParkStopKeeps
  <2>6. t = [u EXCEPT !.execChild[q] = e]
    <3>1. q # Nobody
      BY <1>5, BoundsAssumption DEF Nobody, Pid
    <3>2. t = [WakeUp(parked, {q}) EXCEPT !.execChild[q] = IF s.wait[q] = "CHILD" THEN 0 ELSE @]
      BY <3>1 DEF TellOfStop, q
    <3> HIDE DEF u, parked
    <3> QED BY <2>3, <3>2
  <2> HIDE DEF u
  <2>7. u \in Kernel /\ w \in Kernel
    BY <2>1, <2>5 DEF KInv, KInvBut
  <2>8. /\ u.parent = w.parent /\ u.keys = w.keys /\ u.handler = w.handler
        /\ u.state = w.state /\ u.current = w.current /\ u.cr3 = w.cr3
    BY <2>5, <2>7 DEF Kernel, OnlyTable
  <2>9. e \in Pid
    <3>1. u.execChild[q] \in Pid
      BY <1>5, <2>7 DEF Kernel
    <3>2. 0 \in Pid
      BY BoundsAssumption DEF Pid
    <3> HIDE DEF q
    <3> QED BY <3>1, <3>2 DEF e
  <2> HIDE DEF e
  <2>10. KInv(t) /\ Stays(u, t)
    BY <1>5, <2>5, <2>6, <2>9, ExecChildKeeps DEF KInv
  <2> QED BY <2>1, <2>2, <2>8, <2>10 DEF Stays
<1> QED BY <1>1, <1>2, <1>3, <1>4, <1>5

(* The exit of v is on record when v is settled, or nobody is to hear of it. *)
LEMMA ExitOnRecord ==
    ASSUME NEW s, NEW v \in Pid, KDying(s, v), s.state[v] \in Gone,
           NEW D, D = s.settled \/ D = s.settled \cup {v},
           v \in D \/ s.parent[v] \notin Tasks(s) \ {Idle},
           NEW t, t = [s EXCEPT !.settled = D]
    PROVE  KInv(t) /\ Stays(s, t)
<1>1. s \in Kernel /\ s.settled \subseteq Pid
  BY DEF KDying, KInvBut, Kernel
<1>2. D \subseteq Pid /\ s.settled \subseteq D /\ D \subseteq s.settled \cup {v}
  BY <1>1
<1>3. /\ t \in Kernel /\ t.parked = s.parked /\ t.parent = s.parent /\ t.settled = D
      /\ t.keys = s.keys /\ t.current = s.current /\ t.cr3 = s.cr3 /\ t.frame = s.frame
      /\ t.interrupted = s.interrupted /\ t.state = s.state /\ t.wait = s.wait
      /\ t.handler = s.handler
  BY <1>1, <1>2 DEF Kernel
<1>4. SleepOK(t) /\ Stays(s, t)
  BY <1>3 DEF KDying, KInvBut, SleepOK, Tasks, Stays
<1>5. \A n \in Range(t.parked) :
        /\ n.parent = t.parent[n.child]
        /\ t.state[n.child] \in Gone \/ (n.stopped /\ t.state[n.child] = "STOPPED")
        /\ ~n.stopped => n.child \notin t.settled
        /\ Waits(t, n.parent, "PID") => n.stopped /\ t.frame[n.parent] # "wait(WUNTRACED)"
  BY <1>2, <1>3 DEF KDying, KInvBut, TableOK, Waits
<1>6. \A c \in t.settled : t.state[c] \in Gone
  BY <1>2, <1>3 DEF KDying, KInvBut, TableOK
<1>7. \A c \in Pid : t.state[c] \in Gone /\ t.parent[c] \in Tasks(t) \ {Idle} =>
        c \in t.settled \/ [parent |-> t.parent[c], child |-> c, stopped |-> FALSE] \in Range(t.parked)
  BY <1>2, <1>3 DEF KDying, KInvBut, TableOK, Tasks
<1>8. TableOK(t, {})
  BY <1>3, <1>5, <1>6, <1>7 DEF KDying, KInvBut, TableOK
<1>9. KInv(t)
  <2>1. /\ Len(s.parked) <= MaxSlots /\ s.state[Idle] = "RUNNING"
        /\ \A p \in Pid : Waits(s, p, "KBD") => s.keys = 0 /\ ~s.interrupted[p]
        /\ s.current # Nobody => s.cr3 = s.current
        /\ \A c \in Pid : s.parent[c] \in Pid => s.state[s.parent[c]] # "EMPTY"
    BY DEF KDying, KInvBut
  <2>2. \A p \in Pid : Waits(t, p, "KBD") => t.keys = 0 /\ ~t.interrupted[p]
    BY <1>3, <2>1 DEF Waits
  <2> QED BY <1>3, <1>4, <1>8, <2>1, <2>2 DEF KInv, KInvBut
<1> QED BY <1>4, <1>9

(* Two steps that keep everyone's state are one.                           *)
LEMMA StaysTwice ==
    ASSUME NEW s, NEW t, NEW u, Stays(s, t), Stays(t, u)
    PROVE  Stays(s, u)
BY DEF Stays

(* Telling the parent of an exit: it is woken, or the status is parked.    *)
LEMMA TellOfExitKeeps ==
    ASSUME NEW s, NEW victim \in Pid \ {Idle}, KDying(s, victim), s.state[victim] = "DEAD",
           NEW t, t = TellOfExit(s, victim)
    PROVE  KInv(t) /\ Stays(s, t)
<1> DEFINE parent == s.parent[victim]
           q == WokenParent(s, victim)
           parked == ParkChildNews(s, ExitStatus(s, victim))
<1>1. s \in Kernel /\ parent \in Pid \cup {Nobody}
  BY DEF KDying, KInvBut, Kernel
<1>2. \/ q = Nobody /\ (parent \in Pid => ~Waits(s, parent, "PID"))
      \/ /\ q \in Pid /\ q = parent /\ s.state[q] = "WAITING"
         /\ s.wait[q] = "PID" \/ s.wait[q] = "CHILD"
  BY WokenParentSleeps DEF KDying
<1>3. CASE q = Nobody /\ ~(parent > 0)
  <2>1. t = s
    BY <1>3 DEF TellOfExit
  <2>2. t = [s EXCEPT !.settled = s.settled]
    BY <1>1, <2>1 DEF Kernel
  <2>3. parent \notin Tasks(s) \ {Idle}
    BY <1>1, <1>3, BoundsAssumption DEF Tasks, Idle, Pid, Nobody
  <2>4. s.state[victim] \in Gone
    BY DEF Gone
  <2> QED BY <2>2, <2>3, <2>4, ExitOnRecord
<1> HIDE DEF q
<1>4. CASE q = Nobody /\ parent > 0
  <2>1. t = parked
    BY <1>4 DEF TellOfExit, q
  <2>2. parent \in Pid \ {Idle} /\ ~Waits(s, parent, "PID")
    BY <1>1, <1>2, <1>4, BoundsAssumption DEF Idle, Nobody, Pid
  <2>3. KInv(t) /\ OnlyTable(s, t)
    BY <2>1, <2>2, ParkExitKeeps
  <2> QED BY <1>1, <2>3 DEF Stays, Kernel, OnlyTable
<1>5. CASE /\ q \in Pid /\ q = parent /\ s.state[q] = "WAITING"
           /\ s.wait[q] = "PID" \/ s.wait[q] = "CHILD"
  <2> DEFINE w == WakeUp(s, {q})
             u == ParkChildNews(w, ExitStatus(s, victim))
             v == [w EXCEPT !.execChild[q] = 0]
  <2>1. KDying(w, victim) /\ Stays(s, w) /\ w \in Kernel /\ w.state[q] = "RUNNING"
    <3>1. /\ KDying(w, victim) /\ w.current = s.current /\ w.cr3 = s.cr3
          /\ \A p \in Pid : s.state[p] # "WAITING" => w.state[p] = s.state[p]
      BY <1>5, WakeUpKeeps DEF KDying
    <3>2. w.parent = s.parent /\ w.keys = s.keys /\ w.handler = s.handler /\ w.state[q] = "RUNNING"
      BY <1>1, <1>5 DEF WakeUp, Assign, Kernel
    <3> QED BY <3>1, <3>2 DEF Stays, KDying, KInvBut
  <2>2. WakeUp(parked, {q}) = u
    BY <1>1, WakeThenPark
  <2>3. q # Idle /\ q # Nobody
    BY <1>5, BoundsAssumption DEF KDying, KInvBut, Nobody, Pid
  <2>4. t = IF s.wait[q] = "PID" THEN u
            ELSE [w EXCEPT !.execChild[q] = 0, !.settled = w.settled \cup {victim}]
    <3>1. t = IF s.wait[q] = "PID" THEN WakeUp(parked, {q})
              ELSE [WakeUp(s, {q}) EXCEPT !.execChild[q] = 0, !.settled = @ \cup {victim}]
      BY <2>3 DEF TellOfExit, q
    <3> HIDE DEF u, parked
    <3> QED BY <2>2, <3>1
  <2> HIDE DEF w
  <2>5. w.parent = s.parent /\ w.state[victim] = "DEAD"
    BY <2>1 DEF Stays
  <2>6. CASE s.wait[q] = "PID"
    <3>1. /\ w.state[victim] = "DEAD" /\ w.parent[victim] \in Pid \ {Idle}
          /\ ~Waits(w, w.parent[victim], "PID") /\ t = ParkChildNews(w, ExitStatus(w, victim))
      BY <1>5, <2>1, <2>3, <2>4, <2>5, <2>6 DEF ExitStatus, Waits
    <3> HIDE DEF u, v, parked
    <3>2. KInv(t) /\ OnlyTable(w, t)
      BY <2>1, <3>1, ParkExitKeeps
    <3>3. Stays(w, t)
      BY <2>1, <3>2 DEF Stays, Kernel, OnlyTable
    <3> QED BY <2>1, <3>2, <3>3, StaysTwice
  <2>7. CASE s.wait[q] # "PID"
    <3>1. KDying(v, victim) /\ Stays(w, v)
      <4>1. 0 \in Pid
        BY BoundsAssumption DEF Pid
      <4> HIDE DEF v
      <4> QED BY <1>5, <2>1, <4>1, ExecChildKeeps DEF v, KDying
    <3>2. v.state = w.state /\ v.settled = w.settled /\ w.settled \subseteq Pid
      BY <2>1 DEF Kernel
    <3>3. t = [v EXCEPT !.settled = v.settled \cup {victim}]
      BY <2>1, <2>4, <2>7, <3>2 DEF Kernel
    <3> HIDE DEF v
    <3>4. v.state[victim] \in Gone
      BY <2>5, <3>2 DEF Gone
    <3>5. KInv(t) /\ Stays(v, t)
      BY <3>1, <3>3, <3>4, ExitOnRecord
    <3> QED BY <2>1, <3>1, <3>5, StaysTwice
  <2> QED BY <2>6, <2>7
<1> QED BY <1>1, <1>2, <1>3, <1>4, <1>5

(* A dead parent's parked statuses are dropped.                            *)
LEMMA DropParkedStatusesKeeps ==
    ASSUME NEW s, KInv(s), NEW p \in Pid, s.state[p] = "DEAD",
           NEW t, t = DropParkedStatuses(s, p)
    PROVE  KInv(t) /\ Stays(s, t)
<1> DEFINE keep == {n \in Range(s.parked) : n.parent # p}
           a == Keeping(s.parked, keep)
           d == {c \in s.settled : s.parent[c] # p}
<1>1. /\ s \in Kernel /\ s.parked \in Seq(News) /\ Distinct(s.parked)
      /\ Len(s.parked) \in Nat /\ Len(s.parked) <= MaxSlots
  BY TableTyped DEF KInv
<1>2. a \in Seq(News) /\ Distinct(a) /\ Len(a) <= Len(s.parked) /\ Range(a) = keep
  <2>1. Range(s.parked) \cap keep = keep
    OBVIOUS
  <2> HIDE DEF keep
  <2> QED BY <1>1, <2>1, KeepingEntries
<1>3. Len(a) <= MaxSlots
  BY <1>1, <1>2, BoundsAssumption
<1>4. t = [s EXCEPT !.parked = a, !.settled = d]
  BY DEF DropParkedStatuses
<1> HIDE DEF a
<1>5. /\ t \in Kernel /\ t.parked = a /\ t.parent = s.parent /\ t.settled = d
      /\ t.keys = s.keys /\ t.current = s.current /\ t.cr3 = s.cr3 /\ t.frame = s.frame
      /\ t.interrupted = s.interrupted /\ t.state = s.state /\ t.wait = s.wait
      /\ t.handler = s.handler
  <2>1. d \subseteq Pid
    BY <1>1 DEF Kernel
  <2> HIDE DEF d
  <2> QED BY <1>1, <1>2, <1>4, <2>1 DEF Kernel
<1>6. SleepOK(t) /\ Stays(s, t)
  BY <1>5 DEF KInv, KInvBut, SleepOK, Tasks, Stays
<1>7. TableOK(s, {})
  BY DEF KInv, KInvBut
<1>8. \A n \in Range(t.parked) :
        /\ n.parent = t.parent[n.child]
        /\ t.state[n.child] \in Gone \/ (n.stopped /\ t.state[n.child] = "STOPPED")
        /\ ~n.stopped => n.child \notin t.settled
        /\ Waits(t, n.parent, "PID") => n.stopped /\ t.frame[n.parent] # "wait(WUNTRACED)"
  BY <1>2, <1>5, <1>7 DEF TableOK, Waits
<1>9. \A c \in t.settled : t.state[c] \in Gone
  BY <1>5, <1>7 DEF TableOK
<1>10. ASSUME NEW c \in Pid, t.state[c] \in Gone, t.parent[c] \in Tasks(t) \ {Idle}
       PROVE  c \in t.settled
                \/ [parent |-> t.parent[c], child |-> c, stopped |-> FALSE] \in Range(t.parked)
  <2> DEFINE n == [parent |-> s.parent[c], child |-> c, stopped |-> FALSE]
  <2>1. s.parent[c] # p
    BY <1>5, <1>10 DEF Tasks
  <2>2. c \in s.settled \/ n \in Range(s.parked)
    BY <1>5, <1>7, <1>10 DEF TableOK, Tasks
  <2>3. n.parent # p
    BY <2>1
  <2>4. c \in d \/ n \in keep
    BY <2>1, <2>2, <2>3
  <2> QED BY <1>2, <1>5, <2>4
<1>11. TableOK(t, {})
  BY <1>2, <1>5, <1>8, <1>9, <1>10 DEF TableOK
<1>12. KInv(t)
  <2>1. /\ s.state[Idle] = "RUNNING"
        /\ \A q \in Pid : Waits(s, q, "KBD") => s.keys = 0 /\ ~s.interrupted[q]
        /\ s.current # Nobody => s.cr3 = s.current
        /\ \A c \in Pid : s.parent[c] \in Pid => s.state[s.parent[c]] # "EMPTY"
    BY DEF KInv, KInvBut
  <2>2. \A q \in Pid : Waits(t, q, "KBD") => t.keys = 0 /\ ~t.interrupted[q]
    BY <1>5, <2>1 DEF Waits
  <2> QED BY <1>3, <1>5, <1>6, <1>11, <2>1, <2>2 DEF KInv, KInvBut
<1> QED BY <1>6, <1>12

(* The terminal goes back to the parent's group.                           *)
LEMMA SettleTerminalKeeps ==
    ASSUME NEW s, KInv(s), NEW victim \in Pid, NEW woken \in Pid \cup {Nobody},
           NEW t, t = SettleTerminal(s, victim, woken)
    PROVE  KInv(t) /\ Stays(s, t)
<1>1. s \in Kernel /\ SleepOK(s) /\ (s.current # Nobody => s.cr3 = s.current)
  BY DEF KInv, KInvBut
<1>2. \E g \in Pid : t = [s EXCEPT !.fg = g]
  <2>1. CASE t = s
    <3>1. s.fg \in Pid /\ s = [s EXCEPT !.fg = s.fg]
      BY <1>1 DEF Kernel
    <3> QED BY <2>1, <3>1
  <2>2. CASE t = [s EXCEPT !.fg = s.pgid[woken]] /\ woken # Nobody
    <3>1. s.pgid[woken] \in Pid
      BY <1>1, <2>2 DEF Kernel
    <3> QED BY <2>2, <3>1
  <2>3. CASE t = HandTerminalToAnyLiveTask(s, victim)
    <3> DEFINE able == {p \in Awake(s) \ {victim, Idle} : s.pgid[p] # 0}
               g == IF able = {} THEN 0 ELSE s.pgid[Min(able)]
    <3>1. able \subseteq Nat /\ able \subseteq Pid /\ 0 \in Pid
      BY BoundsAssumption DEF Awake, Pid
    <3>2. t = [s EXCEPT !.fg = g]
      BY <2>3 DEF HandTerminalToAnyLiveTask
    <3> HIDE DEF able
    <3>3. able # {} => Min(able) \in able
      BY <3>1, LeastIsChosen DEF Min
    <3>4. g \in Pid
      BY <1>1, <3>1, <3>3 DEF Kernel
    <3> QED BY <3>2, <3>4
  <2> QED BY <2>1, <2>2, <2>3 DEF SettleTerminal
<1>3. PICK g \in Pid : t = [s EXCEPT !.fg = g]
  BY <1>2
<1>4. /\ t \in Kernel /\ t.parked = s.parked /\ t.parent = s.parent /\ t.settled = s.settled
      /\ t.keys = s.keys /\ t.current = s.current /\ t.cr3 = s.cr3 /\ t.frame = s.frame
      /\ t.interrupted = s.interrupted /\ t.state = s.state /\ t.wait = s.wait
      /\ t.handler = s.handler
  BY <1>1, <1>3 DEF Kernel
<1>5. SleepOK(t) /\ Quiet(s, t) /\ Stays(s, t)
  BY <1>1, <1>4 DEF SleepOK, Tasks, Quiet, Stays, Waits
<1> QED BY <1>1, <1>4, <1>5, QuietKeeps DEF KInv

---------------------------------------------------------------------------
(* Death, stopping and continuing.                                         *)

(* As Stays, but for task v itself.                                        *)
Spares(s, t, v) ==
    /\ t.parent = s.parent /\ t.current = s.current /\ t.cr3 = s.cr3 /\ t.keys = s.keys
    /\ t.handler = s.handler
    /\ \A p \in Pid \ {v} : s.state[p] # "WAITING" => t.state[p] = s.state[p]

(* A step that spares all but one and one that keeps everyone's state are  *)
(* one.                                                                    *)
LEMMA SparesThenStays ==
    ASSUME NEW s, NEW t, NEW u, NEW v, Spares(s, t, v), Stays(t, u)
    PROVE  Spares(s, u, v)
BY DEF Spares, Stays

(* The task is dead and its exit not yet told.                             *)
LEMMA TaskDies ==
    ASSUME NEW s, KInv(s), NEW victim \in Pid \ {Idle}, victim \in Tasks(s),
           NEW t, t = [s EXCEPT !.state[victim] = "DEAD", !.pending[victim] = {}]
    PROVE  KDying(t, victim) /\ Spares(s, t, victim) /\ t.state[victim] = "DEAD"
<1>1. s \in Kernel /\ SleepOK(s) /\ s.state[victim] \in {"RUNNING", "WAITING", "STOPPED"}
  BY DEF KInv, KInvBut, Tasks
<1>2. /\ t \in Kernel /\ t.parked = s.parked /\ t.parent = s.parent /\ t.settled = s.settled
      /\ t.keys = s.keys /\ t.current = s.current /\ t.cr3 = s.cr3 /\ t.frame = s.frame
      /\ t.interrupted = s.interrupted /\ t.wait = s.wait /\ t.handler = s.handler
      /\ t.state = [s.state EXCEPT ![victim] = "DEAD"]
  BY <1>1 DEF Kernel, State
<1>3. /\ t.state[victim] = "DEAD"
      /\ \A p \in Pid \ {victim} : t.state[p] = s.state[p]
      /\ s.settled \subseteq Pid /\ \A p \in Pid : s.parent[p] \in Pid \cup {Nobody}
  BY <1>1, <1>2 DEF Kernel
<1>4. /\ Len(s.parked) <= MaxSlots /\ s.state[Idle] = "RUNNING" /\ TableOK(s, {})
      /\ \A p \in Pid : Waits(s, p, "KBD") => s.keys = 0 /\ ~s.interrupted[p]
      /\ s.current # Nobody => s.cr3 = s.current
      /\ \A c \in Pid : s.parent[c] \in Pid => s.state[s.parent[c]] # "EMPTY"
  BY DEF KInv, KInvBut
<1>5. \A n \in Range(s.parked) : n.child \in Pid /\ n.parent \in Pid
  BY TableTyped DEF KInv
<1>6. SleepOK(t)
  BY <1>1, <1>2, <1>3 DEF SleepOK, Tasks
<1>7. ASSUME NEW n \in Range(t.parked)
      PROVE  /\ n.parent = t.parent[n.child]
             /\ t.state[n.child] \in Gone \/ (n.stopped /\ t.state[n.child] = "STOPPED")
             /\ ~n.stopped => n.child \notin t.settled \cup {victim}
             /\ Waits(t, n.parent, "PID") => n.stopped /\ t.frame[n.parent] # "wait(WUNTRACED)"
  <2>1. n \in Range(s.parked) /\ n.child \in Pid /\ n.parent \in Pid
    BY <1>2, <1>5
  <2>2. /\ n.parent = s.parent[n.child]
        /\ s.state[n.child] \in Gone \/ (n.stopped /\ s.state[n.child] = "STOPPED")
        /\ ~n.stopped => n.child \notin s.settled
        /\ Waits(s, n.parent, "PID") => n.stopped /\ s.frame[n.parent] # "wait(WUNTRACED)"
    BY <1>4, <2>1 DEF TableOK
  <2>3. Waits(t, n.parent, "PID") => Waits(s, n.parent, "PID")
    BY <1>2, <1>3, <2>1 DEF Waits
  <2>4. t.state[n.child] \in Gone \/ t.state[n.child] = s.state[n.child]
    BY <1>3, <2>1 DEF Gone
  <2>5. ~n.stopped => n.child # victim
    BY <1>1, <2>2 DEF Gone
  <2> QED BY <1>2, <2>2, <2>3, <2>4, <2>5
<1>8. \A c \in t.settled : t.state[c] \in Gone /\ c \notin {victim}
  BY <1>1, <1>2, <1>3, <1>4 DEF TableOK, Gone
<1>9. ASSUME NEW c \in Pid \ {victim}, t.state[c] \in Gone, t.parent[c] \in Tasks(t) \ {Idle}
      PROVE  c \in t.settled
               \/ [parent |-> t.parent[c], child |-> c, stopped |-> FALSE] \in Range(t.parked)
  <2>1. s.parent[c] \in Tasks(s) \ {Idle}
    BY <1>2, <1>3, <1>9 DEF Tasks
  <2> QED BY <1>2, <1>3, <1>4, <1>9, <2>1 DEF TableOK
<1>10. TableOK(t, {victim})
  BY <1>2, <1>4, <1>7, <1>8, <1>9 DEF TableOK
<1>11. /\ \A p \in Pid : Waits(t, p, "KBD") => t.keys = 0 /\ ~t.interrupted[p]
       /\ \A c \in Pid : t.parent[c] \in Pid => t.state[t.parent[c]] # "EMPTY"
       /\ t.state[Idle] = "RUNNING"
  <2>1. \A p \in Pid : Waits(t, p, "KBD") => Waits(s, p, "KBD")
    BY <1>2, <1>3 DEF Waits
  <2>2. Idle \in Pid
    BY BoundsAssumption DEF Idle, Pid
  <2> QED BY <1>2, <1>3, <1>4, <2>1, <2>2
<1>12. KDying(t, victim)
  BY <1>2, <1>4, <1>6, <1>10, <1>11 DEF KDying, KInvBut
<1> QED BY <1>2, <1>3, <1>12 DEF Spares

(* wake_up_tasks() leaves nobody asleep for its reason.                    *)
LEMMA WakeUpTasksKeeps ==
    ASSUME NEW s, KInv(s), NEW reason, NEW t, t = WakeUpTasks(s, reason)
    PROVE  /\ KInv(t) /\ Stays(s, t) /\ Tasks(t) = Tasks(s)
           /\ \A p \in Pid : ~Waits(t, p, reason)
<1> DEFINE S == {p \in Pid : Waits(s, p, reason)}
<1>1. s \in Kernel /\ S \subseteq {p \in Pid : s.state[p] = "WAITING"} /\ t = WakeUp(s, S)
  BY DEF KInv, KInvBut, Waits, WakeUpTasks
<1>2. \A p \in Pid : p \in S <=> Waits(s, p, reason)
  OBVIOUS
<1> HIDE DEF S
<1>3. /\ KInvBut(t, {}) /\ t.current = s.current /\ t.cr3 = s.cr3
      /\ \A p \in Pid : s.state[p] # "WAITING" => t.state[p] = s.state[p]
  BY <1>1, WakeUpKeeps DEF KInv
<1>4. /\ t.parent = s.parent /\ t.keys = s.keys /\ t.handler = s.handler
      /\ \A p \in Pid : t.state[p] = IF p \in S THEN "RUNNING" ELSE s.state[p]
      /\ \A p \in Pid : t.wait[p] = IF p \in S THEN "NONE" ELSE s.wait[p]
  BY <1>1 DEF WakeUp, Assign, Kernel
<1>5. Tasks(t) = Tasks(s)
  BY <1>1, <1>4 DEF Tasks
<1>6. \A p \in Pid : ~Waits(t, p, reason)
  BY <1>2, <1>4 DEF Waits
<1> QED BY <1>3, <1>4, <1>5, <1>6 DEF KInv, Stays

(* reap_task() as a whole.                                                 *)
LEMMA ReapTaskKeeps ==
    ASSUME NEW s, KInv(s), NEW victim \in Tasks(s), NEW t, t = ReapTask(s, victim)
    PROVE  KInv(t) /\ Spares(s, t, victim)
<1>1. CASE victim = Idle
  BY <1>1 DEF ReapTask, Spares
<1>2. CASE victim # Idle
  <2> DEFINE w == WakeUpTasks(s, "IPC")
             s1 == [w EXCEPT !.state[victim] = "DEAD", !.pending[victim] = {}]
             s2 == TellOfExit(s1, victim)
             s3 == DropParkedStatuses(s2, victim)
             q == WokenParent(s1, victim)
  <2>1. victim \in Pid \ {Idle} /\ s.state[victim] # "DEAD"
    BY <1>2 DEF Tasks
  <2>2. t = SettleTerminal(s3, victim, q)
    BY <2>1 DEF ReapTask
  <2>3. KInv(w) /\ Stays(s, w) /\ victim \in Tasks(w)
    BY WakeUpTasksKeeps
  <2> HIDE DEF w
  <2>4. KDying(s1, victim) /\ Spares(w, s1, victim) /\ s1.state[victim] = "DEAD"
    BY <2>1, <2>3, TaskDies
  <2> HIDE DEF s1
  <2>5. KInv(s2) /\ Stays(s1, s2) /\ s2.state[victim] = "DEAD"
    <3>1. KInv(s2) /\ Stays(s1, s2)
      BY <2>1, <2>4, TellOfExitKeeps
    <3> QED BY <2>1, <2>4, <3>1 DEF Stays
  <2> HIDE DEF s2
  <2>6. KInv(s3) /\ Stays(s2, s3)
    BY <2>1, <2>5, DropParkedStatusesKeeps
  <2>7. q \in Pid \cup {Nobody}
    BY <2>1, <2>4, WokenParentSleeps DEF KDying
  <2> HIDE DEF s3, q
  <2>8. KInv(t) /\ Stays(s3, t)
    BY <2>1, <2>2, <2>6, <2>7, SettleTerminalKeeps
  <2>9. Stays(s1, t)
    BY <2>5, <2>6, <2>8, StaysTwice
  <2>10. Spares(w, t, victim)
    BY <2>4, <2>9, SparesThenStays
  <2> QED BY <2>3, <2>8, <2>10 DEF Stays, Spares
<1> QED BY <1>1, <1>2

(* stop_task() as a whole.                                                 *)
LEMMA StopTaskKeeps ==
    ASSUME NEW s, KInv(s), NEW victim \in Pid, NEW sig, NEW t, t = StopTask(s, victim, sig)
    PROVE  KInv(t) /\ Spares(s, t, victim)
<1>1. CASE victim = Idle \/ victim \notin Awake(s)
  BY <1>1 DEF StopTask, Spares
<1>2. CASE victim # Idle /\ victim \in Awake(s)
  <2> DEFINE s1 == [s EXCEPT !.stopWait[victim] = s.wait[victim],
                             !.state[victim] = "STOPPED",
                             !.wait[victim] = "NONE",
                             !.pending[victim] = @ \ {sig}]
             s2 == TellOfStop(s1, victim)
             q == WokenParent(s1, victim)
  <2>1. t = SettleTerminal(s2, victim, q)
    BY <1>2 DEF StopTask
  <2>2. /\ s \in Kernel /\ SleepOK(s) /\ (s.current # Nobody => s.cr3 = s.current)
        /\ s.state[victim] \in {"RUNNING", "WAITING"}
    BY <1>2 DEF KInv, KInvBut, Awake
  <2>3. /\ s1 \in Kernel /\ s1.parked = s.parked /\ s1.parent = s.parent
        /\ s1.settled = s.settled /\ s1.keys = s.keys /\ s1.current = s.current
        /\ s1.cr3 = s.cr3 /\ s1.frame = s.frame /\ s1.interrupted = s.interrupted
        /\ s1.handler = s.handler /\ s1.wait = [s.wait EXCEPT ![victim] = "NONE"]
        /\ s1.state = [s.state EXCEPT ![victim] = "STOPPED"]
    <3> DEFINE P == s.pending[victim] \ {sig}
    <3>1. P \in SUBSET Signal
      BY <2>2 DEF Kernel
    <3> HIDE DEF P
    <3>2. s1 = [s EXCEPT !.stopWait[victim] = s.wait[victim], !.state[victim] = "STOPPED",
                         !.wait[victim] = "NONE", !.pending[victim] = P]
      BY DEF P
    <3> HIDE DEF s1
    <3> QED BY <2>2, <3>1, <3>2 DEF Kernel, State, WaitReason
  <2> HIDE DEF s1
  <2>4. /\ s1.state[victim] = "STOPPED" /\ s1.wait[victim] = "NONE"
        /\ \A p \in Pid \ {victim} : s1.state[p] = s.state[p] /\ s1.wait[p] = s.wait[p]
    BY <2>2, <2>3 DEF Kernel
  <2>5. SleepOK(s1)
    BY <2>2, <2>4 DEF SleepOK, Tasks
  <2>6. Quiet(s, s1)
    <3>1. Idle \in Pid
      BY BoundsAssumption DEF Idle, Pid
    <3> QED BY <1>2, <2>2, <2>3, <2>4, <3>1 DEF Quiet, Waits, Gone
  <2>7. KInv(s1)
    BY <2>2, <2>3, <2>5, <2>6, QuietKeeps DEF KInv
  <2>8. Spares(s, s1, victim)
    BY <2>3, <2>4 DEF Spares
  <2>9. KInv(s2) /\ Stays(s1, s2)
    BY <1>2, <2>4, <2>7, TellOfStopKeeps
  <2>10. q \in Pid \cup {Nobody}
    BY <2>7, WokenParentSleeps DEF KInv
  <2> HIDE DEF s2, q
  <2>11. KInv(t) /\ Stays(s2, t)
    BY <2>1, <2>9, <2>10, SettleTerminalKeeps
  <2>12. Stays(s1, t)
    BY <2>9, <2>11, StaysTwice
  <2> QED BY <2>8, <2>11, <2>12, SparesThenStays
<1> QED BY <1>1, <1>2

(* continue_task() as a whole.                                             *)
LEMMA ContinueTaskKeeps ==
    ASSUME NEW s, KInv(s), NEW p \in Pid, NEW t, t = ContinueTask(s, p)
    PROVE  KInv(t) /\ Spares(s, t, p)
<1>1. CASE s.state[p] # "STOPPED"
  BY <1>1 DEF ContinueTask, Spares
<1>2. CASE s.state[p] = "STOPPED"
  <2> DEFINE inExec == s.stopWait[p] = "CHILD"
             P == {sig \in Signal :
                     IF sig = SIG_CONT THEN sig \in s.pending[p] \/ s.handler[p][sig] = "HANDLER"
                                       ELSE sig \in s.pending[p] /\ ~StopsByDefault(sig)}
             a == DropParkedStop(s.parked, p)
             st == IF inExec THEN "WAITING" ELSE "RUNNING"
             wt == IF inExec THEN "CHILD" ELSE "NONE"
  <2>1. t = [s EXCEPT !.pending[p] = P, !.parked = a, !.state[p] = st, !.wait[p] = wt,
                      !.stopWait[p] = "NONE"]
    BY <1>2 DEF ContinueTask
  <2>2. P \in SUBSET Signal
    OBVIOUS
  <2>3. \/ st = "WAITING" /\ wt = "CHILD"
        \/ st = "RUNNING" /\ wt = "NONE"
    OBVIOUS
  <2>4. /\ s \in Kernel /\ s.parked \in Seq(News) /\ Distinct(s.parked)
        /\ Len(s.parked) \in Nat /\ Len(s.parked) <= MaxSlots
        /\ \A n \in Range(s.parked) : n.child \in Pid /\ n.parent \in Pid
    BY TableTyped DEF KInv
  <2>5. a \in Seq(News) /\ Distinct(a) /\ Len(a) <= Len(s.parked) /\ Range(a) = Kept(s, p)
    <3> DEFINE keep == {n \in Range(s.parked) : ~(n.stopped /\ n.child = p)}
    <3>1. a = Keeping(s.parked, keep) /\ Range(s.parked) \cap keep = Kept(s, p)
      BY DEF DropParkedStop, Kept
    <3> HIDE DEF keep, a
    <3> QED BY <2>4, <3>1, KeepingEntries
  <2> HIDE DEF a, P, st, wt
  <2>6. Len(a) <= MaxSlots
    BY <2>4, <2>5, BoundsAssumption
  <2>7. /\ t \in Kernel /\ t.parked = a /\ t.parent = s.parent /\ t.settled = s.settled
        /\ t.keys = s.keys /\ t.current = s.current /\ t.cr3 = s.cr3 /\ t.frame = s.frame
        /\ t.interrupted = s.interrupted /\ t.handler = s.handler
        /\ t.state = [s.state EXCEPT ![p] = st] /\ t.wait = [s.wait EXCEPT ![p] = wt]
    <3>1. st \in State /\ wt \in WaitReason /\ "NONE" \in WaitReason
      BY <2>3 DEF State, WaitReason
    <3> DEFINE np == [s.pending EXCEPT ![p] = P]
               ns == [s.state EXCEPT ![p] = st]
               nw == [s.wait EXCEPT ![p] = wt]
               nz == [s.stopWait EXCEPT ![p] = "NONE"]
    <3>2. np \in [Pid -> SUBSET Signal]
      BY <2>2, <2>4 DEF Kernel
    <3>3. ns \in [Pid -> State] /\ nw \in [Pid -> WaitReason] /\ nz \in [Pid -> WaitReason]
      BY <2>4, <3>1 DEF Kernel
    <3>4. t = [s EXCEPT !.pending = np, !.parked = a, !.state = ns, !.wait = nw, !.stopWait = nz]
      BY <2>1
    <3> HIDE DEF np, ns, nw, nz
    <3>5. /\ t \in Kernel /\ t.parked = a /\ t.parent = s.parent /\ t.settled = s.settled
          /\ t.keys = s.keys /\ t.current = s.current /\ t.cr3 = s.cr3 /\ t.frame = s.frame
          /\ t.interrupted = s.interrupted /\ t.handler = s.handler
          /\ t.state = ns /\ t.wait = nw
      BY <2>4, <2>5, <3>2, <3>3, <3>4, ZenonT(40) DEF Kernel
    <3> QED BY <3>5 DEF ns, nw
  <2>8. /\ t.state[p] = st /\ t.wait[p] = wt
        /\ \A q \in Pid \ {p} : t.state[q] = s.state[q] /\ t.wait[q] = s.wait[q]
    BY <2>4, <2>7, SMTT(20) DEF Kernel
  <2>9. /\ s.state[Idle] = "RUNNING" /\ TableOK(s, {}) /\ SleepOK(s)
        /\ \A q \in Pid : Waits(s, q, "KBD") => s.keys = 0 /\ ~s.interrupted[q]
        /\ s.current # Nobody => s.cr3 = s.current
        /\ \A c \in Pid : s.parent[c] \in Pid => s.state[s.parent[c]] # "EMPTY"
    BY DEF KInv, KInvBut
  <2>10. SleepOK(t) /\ Tasks(t) = Tasks(s)
    BY <1>2, <2>3, <2>8, <2>9 DEF SleepOK, Tasks
  <2>11. ASSUME NEW n \in Range(t.parked)
         PROVE  /\ n.parent = t.parent[n.child]
                /\ t.state[n.child] \in Gone \/ (n.stopped /\ t.state[n.child] = "STOPPED")
                /\ ~n.stopped => n.child \notin t.settled
                /\ Waits(t, n.parent, "PID") => n.stopped /\ t.frame[n.parent] # "wait(WUNTRACED)"
    <3>1. n \in Range(s.parked) /\ n.child \in Pid /\ n.parent \in Pid /\ ~(n.stopped /\ n.child = p)
      BY <2>4, <2>5, <2>7 DEF Kept
    <3>2. /\ n.parent = s.parent[n.child]
          /\ s.state[n.child] \in Gone \/ (n.stopped /\ s.state[n.child] = "STOPPED")
          /\ ~n.stopped => n.child \notin s.settled
          /\ Waits(s, n.parent, "PID") => n.stopped /\ s.frame[n.parent] # "wait(WUNTRACED)"
      BY <2>9, <3>1 DEF TableOK
    <3>3. n.child # p
      BY <1>2, <3>1, <3>2 DEF Gone
    <3>4. Waits(t, n.parent, "PID") => Waits(s, n.parent, "PID")
      BY <2>3, <2>8, <3>1 DEF Waits
    <3> QED BY <2>7, <2>8, <3>1, <3>2, <3>3, <3>4
  <2>12. \A c \in t.settled : t.state[c] \in Gone
    <3>1. s.settled \subseteq Pid
      BY <2>4 DEF Kernel
    <3> QED BY <1>2, <2>7, <2>8, <2>9, <3>1 DEF TableOK, Gone
  <2>13. ASSUME NEW c \in Pid, t.state[c] \in Gone, t.parent[c] \in Tasks(t) \ {Idle}
         PROVE  c \in t.settled
                  \/ [parent |-> t.parent[c], child |-> c, stopped |-> FALSE] \in Range(t.parked)
    <3> DEFINE n == [parent |-> s.parent[c], child |-> c, stopped |-> FALSE]
    <3>1. c # p
      BY <2>3, <2>8, <2>13 DEF Gone
    <3>2. c \in s.settled \/ n \in Range(s.parked)
      BY <2>7, <2>8, <2>9, <2>10, <2>13, <3>1 DEF TableOK
    <3> QED BY <2>5, <2>7, <3>2 DEF Kept
  <2>14. TableOK(t, {})
    BY <2>5, <2>7, <2>11, <2>12, <2>13 DEF TableOK
  <2>15. /\ \A q \in Pid : Waits(t, q, "KBD") => t.keys = 0 /\ ~t.interrupted[q]
         /\ \A c \in Pid : t.parent[c] \in Pid => t.state[t.parent[c]] # "EMPTY"
         /\ t.state[Idle] = "RUNNING"
    <3>1. \A q \in Pid : Waits(t, q, "KBD") => Waits(s, q, "KBD")
      BY <2>3, <2>8 DEF Waits
    <3>2. Idle \in Pid
      BY BoundsAssumption DEF Idle, Pid
    <3>3. \A q \in Pid : Waits(t, q, "KBD") => t.keys = 0 /\ ~t.interrupted[q]
      BY <1>2, <2>3, <2>7, <2>8, <2>9, <3>1, SMTT(20)
    <3>4. \A c \in Pid : t.parent[c] \in Pid => t.state[t.parent[c]] # "EMPTY"
      BY <1>2, <2>3, <2>7, <2>8, <2>9, SMTT(20)
    <3>5. t.state[Idle] = "RUNNING"
      BY <1>2, <2>3, <2>7, <2>8, <2>9, <3>2, SMTT(20)
    <3> QED BY <3>3, <3>4, <3>5
  <2>16. KInv(t)
    BY <2>6, <2>7, <2>9, <2>10, <2>14, <2>15 DEF KInv, KInvBut
  <2> QED BY <2>7, <2>8, <2>16 DEF Spares
<1> QED BY <1>1, <1>2

---------------------------------------------------------------------------
(* Signals.                                                                *)

(* The processor is where it was, and a task it runs goes on running.      *)
Goes(s, t) ==
    /\ t.current = s.current /\ t.cr3 = s.cr3 /\ t.parent = s.parent /\ t.keys = s.keys
    /\ s.current \in Pid /\ s.state[s.current] = "RUNNING" => t.state[s.current] = "RUNNING"

(* Marking signals pending.                                                *)
LEMMA MarkKeeps ==
    ASSUME NEW s, KInv(s), NEW p \in Pid, NEW P \in SUBSET Signal,
           NEW t, t = [s EXCEPT !.pending[p] = P]
    PROVE  KInv(t) /\ Goes(s, t) /\ t.state = s.state /\ t.wait = s.wait /\ t.handler = s.handler
<1>1. s \in Kernel /\ SleepOK(s) /\ (s.current # Nobody => s.cr3 = s.current)
  BY DEF KInv, KInvBut
<1>2. /\ t \in Kernel /\ t.parked = s.parked /\ t.parent = s.parent /\ t.settled = s.settled
      /\ t.keys = s.keys /\ t.current = s.current /\ t.cr3 = s.cr3 /\ t.frame = s.frame
      /\ t.interrupted = s.interrupted /\ t.state = s.state /\ t.wait = s.wait
      /\ t.handler = s.handler
  BY <1>1 DEF Kernel
<1>3. SleepOK(t) /\ Quiet(s, t) /\ Goes(s, t)
  BY <1>1, <1>2 DEF SleepOK, Tasks, Quiet, Goes, Waits
<1> QED BY <1>1, <1>2, <1>3, QuietKeeps DEF KInv

(* Marking the call of a task that is awake as interrupted.                *)
LEMMA InterruptedKeeps ==
    ASSUME NEW s, KInv(s), NEW p \in Pid, s.state[p] # "WAITING", NEW b \in BOOLEAN,
           NEW t, t = [s EXCEPT !.interrupted[p] = b]
    PROVE  KInv(t) /\ Goes(s, t) /\ t.state = s.state
<1>1. s \in Kernel /\ SleepOK(s) /\ (s.current # Nobody => s.cr3 = s.current)
  BY DEF KInv, KInvBut
<1>2. /\ t \in Kernel /\ t.parked = s.parked /\ t.parent = s.parent /\ t.settled = s.settled
      /\ t.keys = s.keys /\ t.current = s.current /\ t.cr3 = s.cr3 /\ t.frame = s.frame
      /\ \A q \in Pid \ {p} : t.interrupted[q] = s.interrupted[q]
      /\ t.state = s.state /\ t.wait = s.wait
  BY <1>1 DEF Kernel
<1>3. SleepOK(t) /\ Quiet(s, t) /\ Goes(s, t)
  BY <1>1, <1>2 DEF SleepOK, Tasks, Quiet, Goes, Waits
<1>4. t.current # Nobody => t.cr3 = t.current
  BY <1>1, <1>2
<1>5. KInv(t)
  BY <1>2, <1>3, <1>4, QuietKeepsInvariant, ZenonT(40)
<1> QED BY <1>2, <1>3, <1>5

(* A step that spares all but p lets a running task that is not p go on.   *)
LEMMA SparesGoes ==
    ASSUME NEW s, NEW t, NEW p, Spares(s, t, p), s.current # p
    PROVE  Goes(s, t)
BY DEF Spares, Goes

(* Two steps that let the running task go on are one.                      *)
LEMMA GoesTwice ==
    ASSUME NEW s, NEW t, NEW u, Goes(s, t), Goes(t, u)
    PROVE  Goes(s, u)
BY DEF Goes

(* send_user_signal() as a whole.                                          *)
LEMMA SendUserSignalKeeps ==
    ASSUME NEW s, KInv(s), NEW p \in Pid, NEW sig \in Signal, NEW t, t = SendUserSignal(s, p, sig)
    PROVE  KInv(t) /\ Goes(s, t)
<1> DEFINE P == s.pending[p] \cup {sig}
           marked == [s EXCEPT !.pending[p] = P]
           byDefault == s.handler[p][sig] = "DFL" /\ p # Idle /\ p # s.current
<1>1. P \in SUBSET Signal
  BY DEF KInv, KInvBut, Kernel
<1> HIDE DEF P
<1>2. /\ KInv(marked) /\ Goes(s, marked) /\ marked.state = s.state /\ marked.wait = s.wait
      /\ marked.current = s.current
  BY <1>1, MarkKeeps DEF Goes
<1>3. marked = [s EXCEPT !.pending[p] = @ \cup {sig}]
  BY DEF P
<1>4. \/ t = s
      \/ p \in Tasks(s) /\ t = ContinueTask(s, p)
      \/ p \in Tasks(s) /\ byDefault /\ t = StopTask(marked, p, sig)
      \/ p \in Tasks(s) /\ byDefault /\ t = ReapTask(marked, p)
      \/ Waits(s, p, "KBD") /\ t = [WakeUp(marked, {p}) EXCEPT !.interrupted[p] = TRUE]
      \/ t = marked
  <2> HIDE DEF marked
  <2> QED BY <1>3 DEF SendUserSignal
<1> HIDE DEF marked
<1>5. CASE t = s
  BY <1>5 DEF Goes
<1>6. CASE p \in Tasks(s) /\ t = ContinueTask(s, p)
  <2>1. KInv(t) /\ Spares(s, t, p)
    BY <1>6, ContinueTaskKeeps
  <2>2. CASE s.current # p
    BY <2>1, <2>2, SparesGoes
  <2>3. CASE s.current = p /\ s.state[p] = "RUNNING"
    <3>1. t = s
      BY <1>6, <2>3 DEF ContinueTask
    <3> QED BY <2>1, <3>1 DEF Goes
  <2>4. CASE s.current = p /\ s.state[p] # "RUNNING"
    BY <2>1, <2>4 DEF Goes, Spares
  <2> QED BY <2>2, <2>3, <2>4
<1>7. CASE p \in Tasks(s) /\ byDefault /\ t = StopTask(marked, p, sig)
  <2>1. KInv(t) /\ Spares(marked, t, p)
    BY <1>2, <1>7, StopTaskKeeps
  <2>2. Goes(marked, t)
    BY <1>2, <1>7, <2>1, SparesGoes
  <2> QED BY <1>2, <2>1, <2>2, GoesTwice
<1>8. CASE p \in Tasks(s) /\ byDefault /\ t = ReapTask(marked, p)
  <2>1. p \in Tasks(marked)
    BY <1>2, <1>8 DEF Tasks
  <2>2. KInv(t) /\ Spares(marked, t, p)
    BY <1>2, <1>8, <2>1, ReapTaskKeeps
  <2>3. Goes(marked, t)
    BY <1>2, <1>8, <2>2, SparesGoes
  <2> QED BY <1>2, <2>2, <2>3, GoesTwice
<1>9. CASE Waits(s, p, "KBD") /\ t = [WakeUp(marked, {p}) EXCEPT !.interrupted[p] = TRUE]
  <2> DEFINE w == WakeUp(marked, {p})
  <2>1. {p} \subseteq {q \in Pid : marked.state[q] = "WAITING"} /\ marked \in Kernel
    BY <1>2, <1>9 DEF Waits, KInv, KInvBut
  <2>2. /\ KInv(w) /\ w.current = marked.current /\ w.cr3 = marked.cr3
        /\ \A q \in Pid : marked.state[q] # "WAITING" => w.state[q] = marked.state[q]
    <3> DEFINE S == {p}
    <3>1. S \subseteq {q \in Pid : marked.state[q] = "WAITING"}
      BY <2>1
    <3> HIDE DEF S
    <3>2. /\ KInvBut(WakeUp(marked, S), {}) /\ WakeUp(marked, S).current = marked.current
          /\ WakeUp(marked, S).cr3 = marked.cr3
          /\ \A q \in Pid : marked.state[q] # "WAITING" => WakeUp(marked, S).state[q] = marked.state[q]
      BY <1>2, <3>1, WakeUpKeeps DEF KInv
    <3> QED BY <3>2 DEF S, KInv
  <2>3. w.parent = marked.parent /\ w.keys = marked.keys /\ w.state[p] = "RUNNING"
    BY <2>1 DEF WakeUp, Assign, Kernel
  <2> HIDE DEF w
  <2>4. Goes(marked, w)
    BY <2>2, <2>3 DEF Goes
  <2>5. KInv(t) /\ Goes(w, t)
    <3>1. t = [w EXCEPT !.interrupted[p] = TRUE] /\ w.state[p] # "WAITING" /\ TRUE \in BOOLEAN
      BY <1>9, <2>3 DEF w
    <3> QED BY <2>2, <3>1, InterruptedKeeps
  <2> QED BY <1>2, <2>4, <2>5, GoesTwice
<1>10. CASE t = marked
  BY <1>2, <1>10
<1> QED BY <1>4, <1>5, <1>6, <1>7, <1>8, <1>9, <1>10

(* The recursion of SendToAll() has a solution.                            *)
Sending(f, s, S, sig) ==
    [p \in Pid |-> IF p = Idle THEN s
                   ELSE IF p \in S THEN SendUserSignal(f[p-1], p, sig)
                   ELSE f[p-1]]

(* The function that SendToAll applies exists.                             *)
LEMMA SendToAllRecursion ==
    ASSUME NEW s, NEW S, NEW sig
    PROVE  \E f : f = Sending(f, s, S, sig)
<1> DEFINE Step(f, p) == IF p = Idle THEN s
                         ELSE IF p \in S THEN SendUserSignal(f[p-1], p, sig) ELSE f[p-1]
           Solves(f, n) == f = [p \in Pid |-> f[p]] /\ \A p \in Pid : p <= n => f[p] = Step(f, p)
           T == {n \in Nat : \E f : Solves(f, n)}
<1>1. MaxPid \in Nat /\ Pid = 0..MaxPid /\ Idle = 0
  BY BoundsAssumption DEF Pid, Idle
<1>2. 0 \in T
  <2>1. Solves([p \in Pid |-> s], 0)
    BY <1>1
  <2> QED BY <2>1
<1>3. ASSUME NEW n \in Nat, n \in T
      PROVE  n + 1 \in T
  <2>1. PICK f : Solves(f, n)
    BY <1>3
  <2> DEFINE v == Step(f, n + 1)
             g == [p \in Pid |-> IF p = n + 1 THEN v ELSE f[p]]
  <2> HIDE DEF v
  <2>2. \A p \in Pid : p <= n => g[p] = Step(g, p)
    <3>1. SUFFICES ASSUME NEW p \in Pid, p <= n
                   PROVE  g[p] = Step(g, p)
      OBVIOUS
    <3>0. p # n + 1
      BY <1>1, <3>1
    <3>1a. f[p] = Step(f, p)
      BY <2>1, <3>1
    <3>2. g[p] = f[p] /\ f[p] = Step(f, p)
      BY <3>0, <3>1a
    <3>3. p # Idle => p - 1 \in Pid /\ p - 1 # n + 1
      BY <1>1, <3>1
    <3>4. p # Idle => g[p - 1] = f[p - 1]
      BY <3>3
    <3> HIDE DEF g
    <3> QED BY <3>2, <3>4
  <2>3. n + 1 \in Pid => g[n + 1] = Step(g, n + 1)
    BY <1>1, <2>1 DEF v
  <2>4. Solves(g, n + 1)
    BY <1>1, <2>2, <2>3
  <2> HIDE DEF Solves, g
  <2> QED BY <2>4
<1>4. MaxPid \in T
  <2> HIDE DEF T
  <2> QED BY <1>1, <1>2, <1>3, NatSetInduction
<1>5. PICK f : Solves(f, MaxPid)
  BY <1>4
<1>6. f = [p \in Pid |-> Step(f, p)]
  BY <1>1, <1>5
<1> QED BY <1>6 DEF Sending

(* A signal sent to each task of a set, one after the other.               *)
LEMMA SendToAllKeeps ==
    ASSUME NEW s, KInv(s), NEW S, NEW sig \in Signal, NEW t, t = SendToAll(s, S, sig)
    PROVE  KInv(t) /\ Goes(s, t)
<1> DEFINE P(g) == g = Sending(g, s, S, sig)
           f == CHOOSE g : P(g)
           T == {n \in Nat : n <= MaxPid => KInv(f[n]) /\ Goes(s, f[n])}
<1>1. MaxPid \in Nat /\ Pid = 0..MaxPid /\ Idle = 0
  BY BoundsAssumption DEF Pid, Idle
<1>2. P(f)
  <2>1. \E g : P(g)
    BY SendToAllRecursion
  <2> HIDE DEF P
  <2> QED BY <2>1, Zenon
<1>3. t = f[MaxPid]
  BY DEF SendToAll, Sending
<1> HIDE DEF f
<1>4. 0 \in T
  <2>1. f[0] = s
    BY <1>1, <1>2 DEF Sending
  <2> QED BY <2>1 DEF Goes
<1>5. ASSUME NEW n \in Nat, n \in T
      PROVE  n + 1 \in T
  <2> DEFINE m == n + 1
  <2>1. SUFFICES ASSUME m <= MaxPid
                 PROVE  KInv(f[m]) /\ Goes(s, f[m])
    OBVIOUS
  <2>2. m \in Pid /\ m # Idle /\ m - 1 = n
    BY <1>1, <2>1
  <2>3. KInv(f[n]) /\ Goes(s, f[n])
    BY <1>1, <1>5, <2>1
  <2> HIDE DEF m
  <2>4. f[m] = IF m \in S THEN SendUserSignal(f[n], m, sig) ELSE f[n]
    BY <1>2, <2>2 DEF Sending
  <2>5. CASE m \in S
    <3>1. KInv(f[m]) /\ Goes(f[n], f[m])
      BY <2>2, <2>3, <2>4, <2>5, SendUserSignalKeeps
    <3> QED BY <2>3, <3>1, GoesTwice
  <2>6. CASE m \notin S
    BY <2>3, <2>4, <2>6
  <2> QED BY <2>5, <2>6
<1>6. MaxPid \in T
  <2> HIDE DEF T
  <2> QED BY <1>1, <1>4, <1>5, NatSetInduction
<1> QED BY <1>1, <1>3, <1>6

(* send_signal_to_group() as a whole.                                      *)
LEMMA SendSignalToGroupKeeps ==
    ASSUME NEW s, KInv(s), NEW g, NEW sig \in Signal, NEW t, t = SendSignalToGroup(s, g, sig)
    PROVE  KInv(t) /\ Goes(s, t)
<1>1. CASE g = 0
  BY <1>1 DEF SendSignalToGroup, Goes
<1>2. CASE g # 0
  BY <1>2, SendToAllKeeps DEF SendSignalToGroup
<1> QED BY <1>1, <1>2

============================================================================
