------------------------- MODULE DescriptorsProofs -------------------------
(***************************************************************************)
(* Proofs about module Descriptors, for every number of tasks, size of the *)
(* descriptor tables, of the pool and of the buffers, and every wrap of    *)
(* the position counters that the buffer size divides.                     *)
(***************************************************************************)
EXTENDS Descriptors, Facts

(* Who holds one of the descriptors D when the tables are F.               *)
Held(F, D) == {h \in Task \X Fd : F[h[1]][h[2]] \in D}

Tables == [Task -> [Fd -> Descriptor]]

(* The descriptors of a table and the tasks are finitely many.             *)
LEMMA FdIsFinite == IsFiniteSet(Fd) /\ IsFiniteSet(Task)
BY SizesAssumption, FS_Interval DEF Fd

---------------------------------------------------------------------------
(* Counting entries.                                                       *)

LEMMA CountType ==
    ASSUME NEW T, NEW I \in SUBSET Fd, NEW D
    PROVE  /\ IsFiniteSet({i \in I : T[i] \in D})
           /\ Count(T, I, D) \in Nat
           /\ Count(T, I, D) = 0 <=> \A i \in I : T[i] \notin D
<1>1. IsFiniteSet({i \in I : T[i] \in D}) BY FdIsFinite, FS_Subset
<1> QED BY <1>1, FS_CardinalityType, FS_EmptySet DEF Count

(* One descriptor counts for 1 or for nothing.                             *)
LEMMA CountOne ==
    ASSUME NEW T, NEW i, NEW D
    PROVE  Count(T, {i}, D) = IF T[i] \in D THEN 1 ELSE 0
<1>1. CASE T[i] \in D
  <2>1. {j \in {i} : T[j] \in D} = {i} BY <1>1
  <2> QED BY <1>1, <2>1, FS_Singleton DEF Count
<1>2. CASE T[i] \notin D
  <2>1. {j \in {i} : T[j] \in D} = {} BY <1>2
  <2> QED BY <1>2, <2>1, FS_EmptySet DEF Count
<1> QED BY <1>1, <1>2

(* Fewer descriptors count for no more.                                    *)
LEMMA CountSubset ==
    ASSUME NEW T, NEW I \in SUBSET Fd, NEW J \in SUBSET I, NEW D
    PROVE  Count(T, J, D) <= Count(T, I, D)
<1>1. {i \in J : T[i] \in D} \in SUBSET {i \in I : T[i] \in D} OBVIOUS
<1> QED BY <1>1, CountType, FS_Subset DEF Count

(* Two descriptors count for no more than the whole table.                 *)
LEMMA CountTwo ==
    ASSUME NEW T, NEW i \in Fd, NEW j \in Fd, i # j, NEW D
    PROVE  Count(T, {i}, D) + Count(T, {j}, D) <= Count(T, Fd, D)
<1> DEFINE A == {k \in {i} : T[k] \in D}
           B == {k \in {j} : T[k] \in D}
           C == {k \in Fd : T[k] \in D}
<1>1. IsFiniteSet(A) /\ IsFiniteSet(B) /\ IsFiniteSet(C)
  <2>1. {i} \in SUBSET Fd /\ {j} \in SUBSET Fd /\ Fd \in SUBSET Fd OBVIOUS
  <2> QED BY <2>1, CountType
<1>2. A \cap B = {} /\ A \cup B \in SUBSET C OBVIOUS
<1>3. Cardinality(A \cup B) = Cardinality(A) + Cardinality(B) - 0
  BY <1>1, <1>2, FS_Union, FS_EmptySet
<1>4. Cardinality(A \cup B) <= Cardinality(C) BY <1>1, <1>2, FS_Subset
<1>5. Cardinality(A) \in Nat /\ Cardinality(B) \in Nat BY <1>1, FS_CardinalityType
<1> QED BY <1>3, <1>4, <1>5 DEF Count

(* Replacing one entry.                                                    *)
LEMMA CountUpdate ==
    ASSUME NEW T \in [Fd -> Descriptor], NEW i \in Fd, NEW x, NEW D
    PROVE  Count([T EXCEPT ![i] = x], Fd, D)
             = Count(T, Fd, D) - Count(T, {i}, D) + (IF x \in D THEN 1 ELSE 0)
<1> DEFINE C == {k \in Fd : T[k] \in D}
           N == {k \in Fd : [T EXCEPT ![i] = x][k] \in D}
<1>1. IsFiniteSet(C) BY CountType
<1>2. N = IF x \in D THEN (C \ {i}) \cup {i} ELSE C \ {i} OBVIOUS
<1> HIDE DEF N
<1>3. /\ IsFiniteSet(C \ {i})
      /\ Cardinality(C \ {i}) = IF i \in C THEN Cardinality(C) - 1 ELSE Cardinality(C)
  BY <1>1, FS_RemoveElement
<1>4. Cardinality((C \ {i}) \cup {i}) = Cardinality(C \ {i}) + 1
  BY <1>3, FS_AddElement
<1>5. i \in C <=> T[i] \in D OBVIOUS
<1>6. Cardinality(C) \in Nat BY <1>1, FS_CardinalityType
<1>7. Count(T, {i}, D) = IF T[i] \in D THEN 1 ELSE 0 BY CountOne
<1>8. Cardinality(N) = Cardinality(C) - Count(T, {i}, D) + (IF x \in D THEN 1 ELSE 0)
  BY <1>2, <1>3, <1>4, <1>5, <1>6, <1>7
<1> QED BY <1>8 DEF Count, N

(* Replacing the table of one task.                                        *)
LEMMA HeldChange ==
    ASSUME NEW F \in Tables, NEW t \in Task, NEW T \in [Fd -> Descriptor], NEW D
    PROVE  /\ Cardinality(Held(F, D)) \in Nat
           /\ Count(F[t], Fd, D) <= Cardinality(Held(F, D))
           /\ Cardinality(Held([F EXCEPT ![t] = T], D))
                = Cardinality(Held(F, D)) - Count(F[t], Fd, D) + Count(T, Fd, D)
<1> DEFINE Others == {h \in Task \X Fd : h[1] # t /\ F[h[1]][h[2]] \in D}
           Row(R) == {i \in Fd : R[i] \in D}
           G == [F EXCEPT ![t] = T]
<1>1. IsFiniteSet(Task \X Fd) BY FdIsFinite, FS_Product
<1>2. IsFiniteSet(Others) /\ Cardinality(Others) \in Nat
  BY <1>1, FS_Subset, FS_CardinalityType
<1>3. ASSUME NEW R
      PROVE  /\ IsFiniteSet({t} \X Row(R))
             /\ Cardinality({t} \X Row(R)) = Count(R, Fd, D)
             /\ Count(R, Fd, D) \in Nat
             /\ Cardinality(Others \cup ({t} \X Row(R))) = Cardinality(Others) + Count(R, Fd, D)
  <2>1. IsFiniteSet(Row(R)) /\ Count(R, Fd, D) \in Nat BY CountType
  <2>2. IsFiniteSet({t}) /\ Cardinality({t}) = 1 BY FS_Singleton
  <2>3. IsFiniteSet({t} \X Row(R)) /\ Cardinality({t} \X Row(R)) = 1 * Cardinality(Row(R))
    BY <2>1, <2>2, FS_Product
  <2>4. Cardinality({t} \X Row(R)) = Count(R, Fd, D) BY <2>1, <2>3 DEF Count
  <2>5. Others \cap ({t} \X Row(R)) = {} OBVIOUS
  <2>6. Cardinality(Others \cup ({t} \X Row(R)))
          = Cardinality(Others) + Cardinality({t} \X Row(R)) - 0
    BY <1>2, <2>3, <2>5, FS_Union, FS_EmptySet
  <2> QED BY <1>2, <2>1, <2>3, <2>4, <2>6
<1>4. Held(F, D) = Others \cup ({t} \X Row(F[t])) BY DEF Held
<1>5. Held(G, D) = Others \cup ({t} \X Row(T)) BY DEF Held, Tables
<1>6. Cardinality(Held(F, D)) = Cardinality(Others) + Count(F[t], Fd, D) BY <1>3, <1>4
<1>7. Cardinality(Held(G, D)) = Cardinality(Others) + Count(T, Fd, D) BY <1>3, <1>5
<1>8. Count(F[t], Fd, D) \in Nat /\ Count(T, Fd, D) \in Nat BY CountType
<1> QED BY <1>2, <1>6, <1>7, <1>8

---------------------------------------------------------------------------
(* Reference counts.                                                       *)

Pipes == [Pipe -> PipeRecord]
Files == [File -> [refs : Nat, dirty : BOOLEAN]]
Reading(p) == {PipeEnd(p, READ)}
Writing(p) == {PipeEnd(p, WRITE)}

InUse(p) == p.active <=> (p.refs[1] # 0 \/ p.refs[2] # 0)

Exact(F, P, Fi) ==
    /\ \A p \in Pipe : /\ P[p].refs[1] = Cardinality(Held(F, Reading(p)))
                       /\ P[p].refs[2] = Cardinality(Held(F, Writing(p)))
                       /\ InUse(P[p])
    /\ \A f \in File : Fi[f].refs = Cardinality(Held(F, FileEnds(f)))

(* The counts of the invariant are the ones that RefsAreExact speaks of.   *)
LEMMA ExactIsRefsAreExact ==
    ASSUME TypeOK
    PROVE  RefsAreExact <=> Exact(fds, pipes, files)
<1>1. ASSUME NEW p \in Pipe
      PROVE  /\ Holders(PipeEnd(p, READ)) = Held(fds, Reading(p))
             /\ Holders(PipeEnd(p, WRITE)) = Held(fds, Writing(p))
             /\ Refs(pipes[p], READ) = pipes[p].refs[1]
             /\ Refs(pipes[p], WRITE) = pipes[p].refs[2]
             /\ (pipes[p].active <=> pipes[p].refs # <<0, 0>>) <=> InUse(pipes[p])
  <2>1. pipes[p].refs \in Nat \X Nat BY DEF TypeOK, PipeRecord
  <2>2. pipes[p].refs # <<0, 0>> <=> (pipes[p].refs[1] # 0 \/ pipes[p].refs[2] # 0) BY <2>1
  <2>3. Refs(pipes[p], READ) = pipes[p].refs[1] /\ Refs(pipes[p], WRITE) = pipes[p].refs[2]
    BY DEF Refs, READ, WRITE
  <2> QED BY <2>2, <2>3 DEF Holders, Held, Reading, Writing, InUse
<1>2. \A f : FileHolders(f) = Held(fds, FileEnds(f))
  BY DEF FileHolders, Holders, Held, FileEnds
<1>3. READ = 0 /\ WRITE = 1 BY DEF READ, WRITE
<1>4. ASSUME NEW p \in Pipe
      PROVE  (/\ \A mode \in {READ, WRITE} :
                    Refs(pipes[p], mode) = Cardinality(Holders(PipeEnd(p, mode)))
              /\ pipes[p].active <=> pipes[p].refs # <<0, 0>>)
             <=> (/\ pipes[p].refs[1] = Cardinality(Held(fds, Reading(p)))
                  /\ pipes[p].refs[2] = Cardinality(Held(fds, Writing(p)))
                  /\ InUse(pipes[p]))
  BY <1>1
<1> QED BY <1>2, <1>4 DEF RefsAreExact, Exact

(* A table is replaced and the counts are changed by the difference.       *)
LEMMA RowChange ==
    ASSUME NEW F \in Tables, NEW P, NEW Fi, Exact(F, P, Fi),
           NEW t \in Task, NEW T \in [Fd -> Descriptor], NEW P2, NEW Fi2,
           \A p \in Pipe :
             /\ P2[p].refs[1] = P[p].refs[1] - Count(F[t], Fd, Reading(p)) + Count(T, Fd, Reading(p))
             /\ P2[p].refs[2] = P[p].refs[2] - Count(F[t], Fd, Writing(p)) + Count(T, Fd, Writing(p))
             /\ InUse(P2[p]),
           \A f \in File :
             Fi2[f].refs = Fi[f].refs - Count(F[t], Fd, FileEnds(f)) + Count(T, Fd, FileEnds(f))
    PROVE  Exact([F EXCEPT ![t] = T], P2, Fi2)
<1> DEFINE G == [F EXCEPT ![t] = T]
<1>1. ASSUME NEW p \in Pipe
      PROVE  /\ P2[p].refs[1] = Cardinality(Held(G, Reading(p)))
             /\ P2[p].refs[2] = Cardinality(Held(G, Writing(p)))
             /\ InUse(P2[p])
  <2>1. P[p].refs[1] = Cardinality(Held(F, Reading(p))) BY DEF Exact
  <2>2. P[p].refs[2] = Cardinality(Held(F, Writing(p))) BY DEF Exact
  <2>3. Cardinality(Held(G, Reading(p)))
          = Cardinality(Held(F, Reading(p))) - Count(F[t], Fd, Reading(p)) + Count(T, Fd, Reading(p))
    BY HeldChange
  <2>4. Cardinality(Held(G, Writing(p)))
          = Cardinality(Held(F, Writing(p))) - Count(F[t], Fd, Writing(p)) + Count(T, Fd, Writing(p))
    BY HeldChange
  <2> QED BY <2>1, <2>2, <2>3, <2>4
<1>2. ASSUME NEW f \in File PROVE Fi2[f].refs = Cardinality(Held(G, FileEnds(f)))
  <2>1. Fi[f].refs = Cardinality(Held(F, FileEnds(f))) BY DEF Exact
  <2>2. Cardinality(Held(G, FileEnds(f)))
          = Cardinality(Held(F, FileEnds(f))) - Count(F[t], Fd, FileEnds(f)) + Count(T, Fd, FileEnds(f))
    BY HeldChange
  <2> QED BY <2>1, <2>2
<1> QED BY <1>1, <1>2 DEF Exact

(* How many of a task's entries a count covers.                            *)
LEMMA CountsCover ==
    ASSUME NEW F \in Tables, NEW P, NEW Fi, Exact(F, P, Fi), NEW t \in Task
    PROVE  /\ \A p \in Pipe : /\ Count(F[t], Fd, Reading(p)) <= P[p].refs[1]
                              /\ Count(F[t], Fd, Writing(p)) <= P[p].refs[2]
           /\ \A f \in File : Count(F[t], Fd, FileEnds(f)) <= Fi[f].refs
<1>1. F[t] \in [Fd -> Descriptor] BY DEF Tables
<1>2. \A D : Count(F[t], Fd, D) <= Cardinality(Held(F, D)) BY <1>1, HeldChange
<1> QED BY <1>2 DEF Exact

(* What releasing m read and n write ends makes of the pipe r, and what    *)
(* acquiring them does.                                                    *)
SameBytes(q, r) == q.head = r.head /\ q.tail = r.tail /\ q.buffer = r.buffer

Released(q, r, m, n) ==
    /\ q \in PipeRecord /\ InUse(q) /\ SameBytes(q, r)
    /\ q.refs[1] = r.refs[1] - m /\ q.refs[2] = r.refs[2] - n
    /\ m = 0 /\ n = 0 => q = r

Acquired(q, r, m, n) ==
    /\ q \in PipeRecord /\ InUse(q) /\ SameBytes(q, r) /\ q.active = r.active
    /\ q.refs[1] = r.refs[1] + m /\ q.refs[2] = r.refs[2] + n

(* The parts of a pipe's record, and what changing its counts leaves       *)
(* alone.                                                                  *)
LEMMA PipeParts ==
    ASSUME NEW r \in PipeRecord
    PROVE  /\ r.refs \in Nat \X Nat /\ r.refs = <<r.refs[1], r.refs[2]>>
           /\ r.refs[1] \in Nat /\ r.refs[2] \in Nat /\ r.active \in BOOLEAN
           /\ \A a, b \in Nat : LET q == [r EXCEPT !.refs = <<a, b>>]
                                IN /\ q \in PipeRecord /\ SameBytes(q, r) /\ q.active = r.active
                                   /\ q.refs[1] = a /\ q.refs[2] = b
           /\ [r EXCEPT !.refs = r.refs] = r
<1>1. r.refs \in Nat \X Nat BY DEF PipeRecord
<1>2. r.refs = <<r.refs[1], r.refs[2]>> /\ r.refs[1] \in Nat /\ r.refs[2] \in Nat BY <1>1
<1>3. ASSUME NEW a \in Nat, NEW b \in Nat
      PROVE  LET q == [r EXCEPT !.refs = <<a, b>>]
             IN /\ q \in PipeRecord /\ SameBytes(q, r) /\ q.active = r.active
                /\ q.refs[1] = a /\ q.refs[2] = b
  BY DEF PipeRecord, SameBytes
<1> QED BY <1>1, <1>2, <1>3 DEF PipeRecord

(* sys_close(), sys_dup2() and the end of a task take each end's count     *)
(* down by what the descriptors held.                                      *)
LEMMA ReleasePipesEffect ==
    ASSUME NEW P \in Pipes, NEW T, NEW I \in SUBSET Fd, NEW p \in Pipe, InUse(P[p]),
           Count(T, I, Reading(p)) <= P[p].refs[1], Count(T, I, Writing(p)) <= P[p].refs[2]
    PROVE  Released(ReleasePipes(P, T, I)[p], P[p], Count(T, I, Reading(p)), Count(T, I, Writing(p)))
<1> DEFINE q == ReleasePipes(P, T, I)[p]
           r == P[p]
           m == Count(T, I, Reading(p))
           n == Count(T, I, Writing(p))
           dropped == \E i \in I : T[i] \in {PipeEnd(p, READ), PipeEnd(p, WRITE)}
<1>1. r \in PipeRecord BY DEF Pipes
<1>2. m \in Nat /\ n \in Nat BY CountType
<1>3. ~dropped <=> (m = 0 /\ n = 0)
  <2>1. m = 0 <=> \A i \in I : T[i] \notin Reading(p) BY CountType
  <2>2. n = 0 <=> \A i \in I : T[i] \notin Writing(p) BY CountType
  <2> QED BY <2>1, <2>2 DEF Reading, Writing
<1>4. q = IF dropped /\ r.refs[1] - m <= 0 /\ r.refs[2] - n <= 0 THEN DestroyPipe(r)
          ELSE [r EXCEPT !.refs = <<r.refs[1] - m, r.refs[2] - n>>]
  BY DEF ReleasePipes, Refs, READ, WRITE, Reading, Writing
<1>5. m <= r.refs[1] /\ n <= r.refs[2] /\ InUse(r) OBVIOUS
<1> HIDE DEF q, r, m, n, dropped
<1>6. r.refs[1] \in Nat /\ r.refs[2] \in Nat /\ r.active \in BOOLEAN
      /\ r.refs = <<r.refs[1], r.refs[2]>>
  BY <1>1, PipeParts
<1>7. r.refs[1] - m \in Nat /\ r.refs[2] - n \in Nat BY <1>2, <1>5, <1>6
<1>8. CASE dropped /\ r.refs[1] - m <= 0 /\ r.refs[2] - n <= 0
  <2>1. q = DestroyPipe(r) /\ r.refs[1] - m = 0 /\ r.refs[2] - n = 0 BY <1>4, <1>7, <1>8
  <2>2. q \in PipeRecord /\ SameBytes(q, r) /\ q.refs = <<0, 0>> /\ q.active = FALSE
    BY <1>1, <2>1 DEF DestroyPipe, PipeRecord, SameBytes
  <2>3. InUse(q) /\ q.refs[1] = 0 /\ q.refs[2] = 0 BY <2>2 DEF InUse
  <2> QED BY <1>3, <1>8, <2>1, <2>2, <2>3 DEF Released, q, r, m, n
<1>9. CASE ~(dropped /\ r.refs[1] - m <= 0 /\ r.refs[2] - n <= 0)
  <2>1. q = [r EXCEPT !.refs = <<r.refs[1] - m, r.refs[2] - n>>] BY <1>4, <1>9
  <2>2. /\ q \in PipeRecord /\ SameBytes(q, r) /\ q.active = r.active
        /\ q.refs[1] = r.refs[1] - m /\ q.refs[2] = r.refs[2] - n
    BY <1>1, <1>7, <2>1, PipeParts
  <2>3. ASSUME m = 0, n = 0 PROVE q = r
    <3>1. <<r.refs[1] - m, r.refs[2] - n>> = r.refs BY <1>6, <2>3
    <3>2. q = [r EXCEPT !.refs = r.refs] BY <2>1, <3>1
    <3> QED BY <1>1, <3>2, PipeParts
  <2>4. InUse(q)
    <3>1. CASE m = 0 /\ n = 0 BY <1>5, <2>3, <3>1
    <3>2. CASE ~(m = 0 /\ n = 0)
      <4>1. r.active BY <1>2, <1>5, <1>6, <3>2 DEF InUse
      <4>2. q.refs[1] # 0 \/ q.refs[2] # 0 BY <1>3, <1>9, <2>2, <3>2
      <4> QED BY <2>2, <4>1, <4>2 DEF InUse
    <3> QED BY <3>1, <3>2
  <2> QED BY <2>2, <2>3, <2>4 DEF Released, q, r, m, n
<1> QED BY <1>8, <1>9

(* A new task and sys_dup2() take each end's count up by what the          *)
(* descriptors hold.                                                       *)
LEMMA AcquirePipesEffect ==
    ASSUME NEW P \in Pipes, NEW T, NEW I \in SUBSET Fd, NEW p \in Pipe, InUse(P[p]),
           Count(T, I, Reading(p)) > 0 \/ Count(T, I, Writing(p)) > 0 => P[p].active
    PROVE  Acquired(AcquirePipes(P, T, I)[p], P[p], Count(T, I, Reading(p)), Count(T, I, Writing(p)))
<1> DEFINE q == AcquirePipes(P, T, I)[p]
           r == P[p]
           m == Count(T, I, Reading(p))
           n == Count(T, I, Writing(p))
<1>1. r \in PipeRecord /\ InUse(r) /\ (m > 0 \/ n > 0 => r.active) BY DEF Pipes
<1>2. m \in Nat /\ n \in Nat BY CountType
<1>3. q = [r EXCEPT !.refs = <<r.refs[1] + m, r.refs[2] + n>>]
  BY DEF AcquirePipes, Refs, READ, WRITE, Reading, Writing
<1> HIDE DEF q, r, m, n
<1>4. r.refs[1] \in Nat /\ r.refs[2] \in Nat /\ r.active \in BOOLEAN BY <1>1, PipeParts
<1>5. r.refs[1] + m \in Nat /\ r.refs[2] + n \in Nat BY <1>2, <1>4
<1>6. /\ q \in PipeRecord /\ SameBytes(q, r) /\ q.active = r.active
      /\ q.refs[1] = r.refs[1] + m /\ q.refs[2] = r.refs[2] + n
  BY <1>1, <1>3, <1>5, PipeParts
<1>7. InUse(q) BY <1>1, <1>2, <1>4, <1>6 DEF InUse
<1> QED BY <1>6, <1>7 DEF Acquired, q, r, m, n

(* The same for the files.                                                 *)
LEMMA ReleaseFilesEffect ==
    ASSUME NEW F \in Files, NEW T, NEW I \in SUBSET Fd, NEW f \in File,
           Count(T, I, FileEnds(f)) <= F[f].refs
    PROVE  /\ ReleaseFiles(F, T, I)[f] \in [refs : Nat, dirty : BOOLEAN]
           /\ ReleaseFiles(F, T, I)[f].refs = F[f].refs - Count(T, I, FileEnds(f))
<1> DEFINE n == Count(T, I, FileEnds(f))
<1>1. n \in Nat /\ n <= F[f].refs BY CountType
<1>2. F[f] \in [refs : Nat, dirty : BOOLEAN] BY DEF Files
<1>3. ReleaseFiles(F, T, I)[f] = IF n > 0 /\ F[f].refs <= n THEN FreeFile
                                 ELSE [F[f] EXCEPT !.refs = @ - n]
  BY DEF ReleaseFiles
<1> HIDE DEF n
<1>4. ReleaseFiles(F, T, I)[f] \in [refs : Nat, dirty : BOOLEAN]
      /\ ReleaseFiles(F, T, I)[f].refs = F[f].refs - n
  BY <1>1, <1>2, <1>3 DEF FreeFile
<1> QED BY <1>4 DEF n

(* They take a file's count up by the descriptors that hold it.            *)
LEMMA AcquireFilesEffect ==
    ASSUME NEW F \in Files, NEW T, NEW I \in SUBSET Fd, NEW f \in File
    PROVE  /\ AcquireFiles(F, T, I)[f] \in [refs : Nat, dirty : BOOLEAN]
           /\ AcquireFiles(F, T, I)[f].refs = F[f].refs + Count(T, I, FileEnds(f))
<1>1. Count(T, I, FileEnds(f)) \in Nat BY CountType
<1>2. F[f] \in [refs : Nat, dirty : BOOLEAN] BY DEF Files
<1> QED BY <1>1, <1>2 DEF AcquireFiles

(* A descriptor is of one kind only.                                       *)
LEMMA Kinds ==
    /\ \A p \in Pipe : None \notin Reading(p) /\ None \notin Writing(p)
    /\ \A f \in File : None \notin FileEnds(f)
    /\ \A p, q \in Pipe : /\ PipeEnd(p, READ) \notin Writing(q) /\ PipeEnd(p, WRITE) \notin Reading(q)
                          /\ PipeEnd(p, READ) \in Reading(q) <=> p = q
                          /\ PipeEnd(p, WRITE) \in Writing(q) <=> p = q
    /\ \A p \in Pipe, f \in File, m \in {READ, WRITE} :
         /\ PipeEnd(p, m) \notin FileEnds(f)
         /\ OpenFile(f, m) \notin Reading(p) /\ OpenFile(f, m) \notin Writing(p)
    /\ \A f, g \in File, m \in {READ, WRITE} : OpenFile(f, m) \in FileEnds(g) <=> f = g
BY DEF None, Reading, Writing, FileEnds, PipeEnd, OpenFile, READ, WRITE

(* The least element of a set of numbers is one of them.                   *)
LEMMA MinOf ==
    ASSUME NEW S, S \subseteq Nat, S # {}
    PROVE  Min(S) \in S /\ \A y \in S : Min(S) <= y
BY LeastIsChosen DEF Min

---------------------------------------------------------------------------
(* The tables, pipes and files are of their types and the counts exact.    *)

Bounded(P) == \A p \in Pipe : Bytes(P[p]) <= PipeSize

Objects(F, P, Fi) ==
    F \in Tables /\ P \in Pipes /\ Fi \in Files /\ Bounded(P) /\ Exact(F, P, Fi)

(* A pipe that keeps its bytes keeps within its size.                      *)
LEMMA SameBytesBounded ==
    ASSUME NEW P, NEW Q, Bounded(P), \A p \in Pipe : SameBytes(Q[p], P[p])
    PROVE  Bounded(Q)
BY DEF Bounded, Bytes, SameBytes

NoneTable == [i \in Fd |-> None]

(* A table without descriptors counts for nothing.                         *)
LEMMA NoneCounts ==
    /\ NoneTable \in [Fd -> Descriptor]
    /\ \A p \in Pipe : Count(NoneTable, Fd, Reading(p)) = 0 /\ Count(NoneTable, Fd, Writing(p)) = 0
    /\ \A f \in File : Count(NoneTable, Fd, FileEnds(f)) = 0
<1>1. ASSUME NEW D, None \notin D PROVE Count(NoneTable, Fd, D) = 0
  <2>1. \A i \in Fd : NoneTable[i] \notin D BY <1>1 DEF NoneTable
  <2> QED BY <2>1, CountType
<1>2. NoneTable \in [Fd -> Descriptor] BY DEF NoneTable, Descriptor
<1> QED BY <1>1, <1>2, Kinds

(* One table becomes T, and the counts follow.                             *)
LEMMA TableChange ==
    ASSUME Objects(fds, pipes, files), NEW t \in Task, NEW T \in [Fd -> Descriptor],
           NEW Q, Q = [p \in Pipe |-> Q[p]], NEW G, G = [f \in File |-> G[f]], Bounded(Q),
           \A p \in Pipe :
             /\ Q[p] \in PipeRecord /\ InUse(Q[p])
             /\ Q[p].refs[1] = pipes[p].refs[1] - Count(fds[t], Fd, Reading(p)) + Count(T, Fd, Reading(p))
             /\ Q[p].refs[2] = pipes[p].refs[2] - Count(fds[t], Fd, Writing(p)) + Count(T, Fd, Writing(p)),
           \A f \in File :
             /\ G[f] \in [refs : Nat, dirty : BOOLEAN]
             /\ G[f].refs = files[f].refs - Count(fds[t], Fd, FileEnds(f)) + Count(T, Fd, FileEnds(f))
    PROVE  Objects([fds EXCEPT ![t] = T], Q, G)
<1>1. Q \in Pipes BY DEF Pipes
<1>2. G \in Files BY DEF Files
<1>3. fds \in Tables /\ Exact(fds, pipes, files) BY DEF Objects
<1>4. [fds EXCEPT ![t] = T] \in Tables BY <1>3 DEF Tables
<1>5. Exact([fds EXCEPT ![t] = T], Q, G) BY <1>3, RowChange
<1> QED BY <1>1, <1>2, <1>4, <1>5 DEF Objects

(* Counts are numbers.                                                     *)
LEMMA CountNumbers ==
    ASSUME NEW T, NEW I \in SUBSET Fd
    PROVE  /\ \A p \in Pipe : Count(T, I, Reading(p)) \in Nat /\ Count(T, I, Writing(p)) \in Nat
           /\ \A f \in File : Count(T, I, FileEnds(f)) \in Nat
BY CountType

(* What the invariant says of the objects, unfolded for the provers.       *)
LEMMA RefNumbers ==
    ASSUME Objects(fds, pipes, files)
    PROVE  /\ \A p \in Pipe : /\ pipes[p] \in PipeRecord /\ InUse(pipes[p])
                              /\ pipes[p].refs[1] \in Nat /\ pipes[p].refs[2] \in Nat
           /\ \A f \in File : /\ files[f] \in [refs : Nat, dirty : BOOLEAN]
                              /\ files[f].refs \in Nat
           /\ fds \in Tables /\ pipes \in Pipes /\ files \in Files
           /\ Exact(fds, pipes, files) /\ Bounded(pipes)
<1>1. fds \in Tables /\ pipes \in Pipes /\ files \in Files /\ Exact(fds, pipes, files)
      /\ Bounded(pipes)
  BY DEF Objects
<1>2. \A p \in Pipe : pipes[p] \in PipeRecord /\ InUse(pipes[p]) BY <1>1 DEF Pipes, Exact
<1>3. \A f \in File : files[f] \in [refs : Nat, dirty : BOOLEAN] BY <1>1 DEF Files
<1> QED BY <1>1, <1>2, <1>3, PipeParts

(* What dropping the entries I of a task's table does.                     *)
LEMMA ReleaseAll ==
    ASSUME Objects(fds, pipes, files), NEW t \in Task, NEW I \in SUBSET Fd
    PROVE  /\ \A p \in Pipe : Released(ReleasePipes(pipes, fds[t], I)[p], pipes[p],
                                Count(fds[t], I, Reading(p)), Count(fds[t], I, Writing(p)))
           /\ \A f \in File :
                /\ ReleaseFiles(files, fds[t], I)[f] \in [refs : Nat, dirty : BOOLEAN]
                /\ ReleaseFiles(files, fds[t], I)[f].refs = files[f].refs - Count(fds[t], I, FileEnds(f))
           /\ ReleasePipes(pipes, fds[t], I) \in Pipes /\ ReleaseFiles(files, fds[t], I) \in Files
           /\ Bounded(ReleasePipes(pipes, fds[t], I))
<1> DEFINE Q == ReleasePipes(pipes, fds[t], I)
           G == ReleaseFiles(files, fds[t], I)
<1>1. ASSUME NEW D PROVE Count(fds[t], I, D) <= Count(fds[t], Fd, D)
                         /\ Count(fds[t], I, D) \in Nat /\ Count(fds[t], Fd, D) \in Nat
  BY CountSubset, CountType
<1>2. ASSUME NEW p \in Pipe
      PROVE  Released(Q[p], pipes[p], Count(fds[t], I, Reading(p)), Count(fds[t], I, Writing(p)))
  <2>1. InUse(pipes[p]) /\ pipes[p].refs[1] \in Nat /\ pipes[p].refs[2] \in Nat /\ pipes \in Pipes
    BY RefNumbers
  <2>2. Count(fds[t], Fd, Reading(p)) <= pipes[p].refs[1] /\ Count(fds[t], Fd, Writing(p)) <= pipes[p].refs[2]
    BY RefNumbers, CountsCover
  <2>3. Count(fds[t], I, Reading(p)) <= pipes[p].refs[1] BY <1>1, <2>1, <2>2
  <2>4. Count(fds[t], I, Writing(p)) <= pipes[p].refs[2] BY <1>1, <2>1, <2>2
  <2> QED BY <2>1, <2>3, <2>4, ReleasePipesEffect
<1>3. ASSUME NEW f \in File
      PROVE  /\ G[f] \in [refs : Nat, dirty : BOOLEAN]
             /\ G[f].refs = files[f].refs - Count(fds[t], I, FileEnds(f))
  <2>1. Count(fds[t], Fd, FileEnds(f)) <= files[f].refs /\ files[f].refs \in Nat /\ files \in Files
    BY RefNumbers, CountsCover
  <2>2. Count(fds[t], I, FileEnds(f)) <= files[f].refs BY <1>1, <2>1
  <2> QED BY <2>1, <2>2, ReleaseFilesEffect
<1>4. Q = [p \in Pipe |-> Q[p]] /\ G = [f \in File |-> G[f]] BY DEF ReleasePipes, ReleaseFiles
<1>5. Q \in Pipes BY <1>2, <1>4 DEF Pipes, Released
<1>6. G \in Files BY <1>3, <1>4 DEF Files
<1>7. Bounded(Q) BY <1>2, SameBytesBounded, RefNumbers DEF Released
<1> QED BY <1>2, <1>3, <1>5, <1>6, <1>7

(* reap_task() drops a whole table.                                        *)
LEMMA ReapKeepsObjects ==
    ASSUME Objects(fds, pipes, files), NEW t \in Task
    PROVE  Objects([fds EXCEPT ![t] = NoneTable],
                   ReleasePipes(pipes, fds[t], Fd), ReleaseFiles(files, fds[t], Fd))
<1> DEFINE Q == ReleasePipes(pipes, fds[t], Fd)
           G == ReleaseFiles(files, fds[t], Fd)
<1>1. Q = [p \in Pipe |-> Q[p]] /\ G = [f \in File |-> G[f]] BY DEF ReleasePipes, ReleaseFiles
<1>2. /\ \A p \in Pipe : Released(Q[p], pipes[p], Count(fds[t], Fd, Reading(p)), Count(fds[t], Fd, Writing(p)))
      /\ \A f \in File : /\ G[f] \in [refs : Nat, dirty : BOOLEAN]
                         /\ G[f].refs = files[f].refs - Count(fds[t], Fd, FileEnds(f))
      /\ Bounded(Q)
  BY ReleaseAll
<1> HIDE DEF Q, G
<1>3. ASSUME NEW p \in Pipe
      PROVE  /\ Q[p] \in PipeRecord /\ InUse(Q[p])
             /\ Q[p].refs[1] = pipes[p].refs[1] - Count(fds[t], Fd, Reading(p)) + Count(NoneTable, Fd, Reading(p))
             /\ Q[p].refs[2] = pipes[p].refs[2] - Count(fds[t], Fd, Writing(p)) + Count(NoneTable, Fd, Writing(p))
  <2>1. Q[p].refs[1] \in Nat /\ Q[p].refs[2] \in Nat BY <1>2, PipeParts DEF Released
  <2> QED BY <1>2, <2>1, NoneCounts DEF Released
<1>4. ASSUME NEW f \in File
      PROVE  G[f].refs = files[f].refs - Count(fds[t], Fd, FileEnds(f)) + Count(NoneTable, Fd, FileEnds(f))
  BY <1>2, NoneCounts
<1>5. Objects([fds EXCEPT ![t] = NoneTable], Q, G)
  BY <1>1, <1>2, <1>3, <1>4, NoneCounts, TableChange
<1> QED BY <1>5 DEF Q, G

(* sys_close() drops one entry.                                            *)
LEMMA CloseKeepsObjects ==
    ASSUME Objects(fds, pipes, files), NEW t \in Task, NEW fd \in Fd
    PROVE  Objects([fds EXCEPT ![t] = [fds[t] EXCEPT ![fd] = None]],
                   ReleasePipes(pipes, fds[t], {fd}), ReleaseFiles(files, fds[t], {fd}))
<1> DEFINE Q == ReleasePipes(pipes, fds[t], {fd})
           G == ReleaseFiles(files, fds[t], {fd})
           T == [fds[t] EXCEPT ![fd] = None]
<1>1. Q = [p \in Pipe |-> Q[p]] /\ G = [f \in File |-> G[f]] BY DEF ReleasePipes, ReleaseFiles
<1>2. /\ \A p \in Pipe : Released(Q[p], pipes[p], Count(fds[t], {fd}, Reading(p)), Count(fds[t], {fd}, Writing(p)))
      /\ \A f \in File : /\ G[f] \in [refs : Nat, dirty : BOOLEAN]
                         /\ G[f].refs = files[f].refs - Count(fds[t], {fd}, FileEnds(f))
      /\ Bounded(Q)
  <2>1. {fd} \in SUBSET Fd OBVIOUS
  <2> QED BY <2>1, ReleaseAll
<1>3. fds[t] \in [Fd -> Descriptor] BY RefNumbers DEF Tables
<1>4. T \in [Fd -> Descriptor] BY <1>3 DEF Descriptor
<1>5. ASSUME NEW D, None \notin D
      PROVE  /\ Count(T, Fd, D) = Count(fds[t], Fd, D) - Count(fds[t], {fd}, D)
             /\ Count(fds[t], Fd, D) \in Nat /\ Count(fds[t], {fd}, D) \in Nat
  <2>1. Count(T, Fd, D) = Count(fds[t], Fd, D) - Count(fds[t], {fd}, D) + (IF None \in D THEN 1 ELSE 0)
    BY <1>3, CountUpdate
  <2>2. Count(fds[t], Fd, D) \in Nat /\ Count(fds[t], {fd}, D) \in Nat
    <3>1. {fd} \in SUBSET Fd OBVIOUS
    <3> QED BY <3>1, CountType
  <2> QED BY <1>5, <2>1, <2>2
<1> HIDE DEF Q, G, T
<1>6. ASSUME NEW p \in Pipe
      PROVE  /\ Q[p] \in PipeRecord /\ InUse(Q[p])
             /\ Q[p].refs[1] = pipes[p].refs[1] - Count(fds[t], Fd, Reading(p)) + Count(T, Fd, Reading(p))
             /\ Q[p].refs[2] = pipes[p].refs[2] - Count(fds[t], Fd, Writing(p)) + Count(T, Fd, Writing(p))
  <2>1. Released(Q[p], pipes[p], Count(fds[t], {fd}, Reading(p)), Count(fds[t], {fd}, Writing(p)))
    BY <1>2
  <2>2. None \notin Reading(p) /\ None \notin Writing(p) BY Kinds
  <2>3. pipes[p].refs[1] \in Nat /\ pipes[p].refs[2] \in Nat BY RefNumbers
  <2>4. /\ Count(T, Fd, Reading(p)) = Count(fds[t], Fd, Reading(p)) - Count(fds[t], {fd}, Reading(p))
        /\ Count(fds[t], Fd, Reading(p)) \in Nat /\ Count(fds[t], {fd}, Reading(p)) \in Nat
    BY <1>5, <2>2
  <2>5. /\ Count(T, Fd, Writing(p)) = Count(fds[t], Fd, Writing(p)) - Count(fds[t], {fd}, Writing(p))
        /\ Count(fds[t], Fd, Writing(p)) \in Nat /\ Count(fds[t], {fd}, Writing(p)) \in Nat
    BY <1>5, <2>2
  <2> QED BY <2>1, <2>3, <2>4, <2>5 DEF Released
<1>7. ASSUME NEW f \in File
      PROVE  G[f].refs = files[f].refs - Count(fds[t], Fd, FileEnds(f)) + Count(T, Fd, FileEnds(f))
  <2>1. None \notin FileEnds(f) BY Kinds
  <2>2. /\ Count(T, Fd, FileEnds(f)) = Count(fds[t], Fd, FileEnds(f)) - Count(fds[t], {fd}, FileEnds(f))
        /\ Count(fds[t], Fd, FileEnds(f)) \in Nat /\ Count(fds[t], {fd}, FileEnds(f)) \in Nat
    BY <1>5, <2>1
  <2>3. files[f].refs \in Nat BY RefNumbers
  <2>4. G[f].refs = files[f].refs - Count(fds[t], {fd}, FileEnds(f)) BY <1>2
  <2> QED BY <2>2, <2>3, <2>4
<1>8. Objects([fds EXCEPT ![t] = T], Q, G)
  BY <1>1, <1>2, <1>4, <1>6, <1>7, TableChange
<1> QED BY <1>8 DEF Q, G, T

(* sys_dup2() drops the entry newfd and shares what oldfd refers to.       *)
LEMMA Dup2KeepsObjects ==
    ASSUME Objects(fds, pipes, files), NEW t \in Task, NEW oldfd \in Fd, NEW newfd \in Fd,
           oldfd # newfd
    PROVE  Objects([fds EXCEPT ![t] = [fds[t] EXCEPT ![newfd] = fds[t][oldfd]]],
                   AcquirePipes(ReleasePipes(pipes, fds[t], {newfd}), fds[t], {oldfd}),
                   AcquireFiles(ReleaseFiles(files, fds[t], {newfd}), fds[t], {oldfd}))
<1> DEFINE R == ReleasePipes(pipes, fds[t], {newfd})
           H == ReleaseFiles(files, fds[t], {newfd})
           Q == AcquirePipes(R, fds[t], {oldfd})
           G == AcquireFiles(H, fds[t], {oldfd})
           T == [fds[t] EXCEPT ![newfd] = fds[t][oldfd]]
           old(D) == Count(fds[t], {oldfd}, D)
           new(D) == Count(fds[t], {newfd}, D)
           all(D) == Count(fds[t], Fd, D)
<1>1. Q = [p \in Pipe |-> Q[p]] /\ G = [f \in File |-> G[f]] BY DEF AcquirePipes, AcquireFiles
<1>2. {oldfd} \in SUBSET Fd /\ {newfd} \in SUBSET Fd OBVIOUS
<1>3. /\ \A p \in Pipe : Released(R[p], pipes[p], new(Reading(p)), new(Writing(p)))
      /\ \A f \in File : H[f].refs = files[f].refs - new(FileEnds(f))
      /\ R \in Pipes /\ H \in Files /\ Bounded(R)
  BY <1>2, ReleaseAll
<1>4. fds[t] \in [Fd -> Descriptor] BY RefNumbers DEF Tables
<1>5. T \in [Fd -> Descriptor] BY <1>4
<1>6. ASSUME NEW D
      PROVE  /\ Count(T, Fd, D) = all(D) - new(D) + old(D)
             /\ all(D) \in Nat /\ new(D) \in Nat /\ old(D) \in Nat
             /\ old(D) + new(D) <= all(D)
  <2>1. Count(T, Fd, D) = all(D) - new(D) + (IF fds[t][oldfd] \in D THEN 1 ELSE 0)
    BY <1>4, CountUpdate
  <2>2. old(D) = IF fds[t][oldfd] \in D THEN 1 ELSE 0 BY CountOne
  <2>3. all(D) \in Nat /\ new(D) \in Nat /\ old(D) \in Nat BY <1>2, CountType
  <2>4. old(D) + new(D) <= all(D) BY CountTwo
  <2> QED BY <2>1, <2>2, <2>3, <2>4
<1> HIDE DEF R, H, T, old, new, all
<1>7. ASSUME NEW p \in Pipe
      PROVE  Acquired(Q[p], R[p], old(Reading(p)), old(Writing(p)))
  <2>1. Released(R[p], pipes[p], new(Reading(p)), new(Writing(p))) BY <1>3
  <2>2. all(Reading(p)) <= pipes[p].refs[1] /\ all(Writing(p)) <= pipes[p].refs[2]
    BY RefNumbers, CountsCover DEF all
  <2>3. pipes[p].refs[1] \in Nat /\ pipes[p].refs[2] \in Nat BY RefNumbers
  <2>4. old(Reading(p)) + new(Reading(p)) <= all(Reading(p))
        /\ old(Reading(p)) \in Nat /\ new(Reading(p)) \in Nat /\ all(Reading(p)) \in Nat
    BY <1>6
  <2>5. old(Writing(p)) + new(Writing(p)) <= all(Writing(p))
        /\ old(Writing(p)) \in Nat /\ new(Writing(p)) \in Nat /\ all(Writing(p)) \in Nat
    BY <1>6
  <2>6. old(Reading(p)) > 0 \/ old(Writing(p)) > 0 => R[p].refs[1] # 0 \/ R[p].refs[2] # 0
    BY <2>1, <2>2, <2>3, <2>4, <2>5 DEF Released
  <2>7. InUse(R[p]) /\ (old(Reading(p)) > 0 \/ old(Writing(p)) > 0 => R[p].active)
    BY <2>1, <2>6 DEF Released, InUse
  <2> QED BY <1>2, <1>3, <2>7, AcquirePipesEffect DEF old
<1>8. ASSUME NEW f \in File
      PROVE  /\ G[f] \in [refs : Nat, dirty : BOOLEAN]
             /\ G[f].refs = H[f].refs + old(FileEnds(f))
  BY <1>2, <1>3, AcquireFilesEffect DEF old
<1> HIDE DEF Q, G
<1>9. Bounded(Q) BY <1>3, <1>7, SameBytesBounded DEF Acquired
<1>10. ASSUME NEW p \in Pipe
       PROVE  /\ Q[p] \in PipeRecord /\ InUse(Q[p])
              /\ Q[p].refs[1] = pipes[p].refs[1] - all(Reading(p)) + Count(T, Fd, Reading(p))
              /\ Q[p].refs[2] = pipes[p].refs[2] - all(Writing(p)) + Count(T, Fd, Writing(p))
  <2>1. Released(R[p], pipes[p], new(Reading(p)), new(Writing(p))) BY <1>3
  <2>2. Acquired(Q[p], R[p], old(Reading(p)), old(Writing(p))) BY <1>7
  <2>3. pipes[p].refs[1] \in Nat /\ pipes[p].refs[2] \in Nat BY RefNumbers
  <2>4. Count(T, Fd, Reading(p)) = all(Reading(p)) - new(Reading(p)) + old(Reading(p))
        /\ old(Reading(p)) \in Nat /\ new(Reading(p)) \in Nat /\ all(Reading(p)) \in Nat
    BY <1>6
  <2>5. Count(T, Fd, Writing(p)) = all(Writing(p)) - new(Writing(p)) + old(Writing(p))
        /\ old(Writing(p)) \in Nat /\ new(Writing(p)) \in Nat /\ all(Writing(p)) \in Nat
    BY <1>6
  <2> QED BY <2>1, <2>2, <2>3, <2>4, <2>5 DEF Released, Acquired
<1>11. ASSUME NEW f \in File
       PROVE  G[f].refs = files[f].refs - all(FileEnds(f)) + Count(T, Fd, FileEnds(f))
  <2>1. G[f].refs = H[f].refs + old(FileEnds(f)) /\ H[f].refs = files[f].refs - new(FileEnds(f))
    BY <1>3, <1>8
  <2>2. files[f].refs \in Nat BY RefNumbers
  <2>3. Count(T, Fd, FileEnds(f)) = all(FileEnds(f)) - new(FileEnds(f)) + old(FileEnds(f))
        /\ old(FileEnds(f)) \in Nat /\ new(FileEnds(f)) \in Nat /\ all(FileEnds(f)) \in Nat
    BY <1>6
  <2> QED BY <2>1, <2>2, <2>3
<1>12. Objects([fds EXCEPT ![t] = T], Q, G)
  BY <1>1, <1>5, <1>8, <1>9, <1>10, <1>11, TableChange DEF all
<1> QED BY <1>12 DEF Q, G, T, R, H

(* inherit_fd_table() fills the table of a task that held nothing.         *)
LEMMA SpawnKeepsObjects ==
    ASSUME Objects(fds, pipes, files), NEW t \in Task, NEW child \in Task,
           fds[child] = NoneTable, NEW I \in SUBSET Fd
    PROVE  Objects([fds EXCEPT ![child] = [i \in Fd |-> IF i \in I THEN fds[t][i] ELSE None]],
                   AcquirePipes(pipes, fds[t], I), AcquireFiles(files, fds[t], I))
<1> DEFINE Q == AcquirePipes(pipes, fds[t], I)
           G == AcquireFiles(files, fds[t], I)
           T == [i \in Fd |-> IF i \in I THEN fds[t][i] ELSE None]
           some(D) == Count(fds[t], I, D)
<1>1. Q = [p \in Pipe |-> Q[p]] /\ G = [f \in File |-> G[f]] BY DEF AcquirePipes, AcquireFiles
<1>2. fds[t] \in [Fd -> Descriptor] BY RefNumbers DEF Tables
<1>3. T \in [Fd -> Descriptor] BY <1>2 DEF Descriptor
<1>4. ASSUME NEW D, None \notin D
      PROVE  Count(T, Fd, D) = some(D) /\ some(D) \in Nat
             /\ some(D) <= Count(fds[t], Fd, D) /\ Count(fds[t], Fd, D) \in Nat
  <2>1. {i \in Fd : T[i] \in D} = {i \in I : fds[t][i] \in D} BY <1>4
  <2>2. Count(T, Fd, D) = some(D) BY <2>1 DEF Count
  <2> QED BY <2>2, CountType, CountSubset
<1> HIDE DEF T, some
<1>5. ASSUME NEW p \in Pipe
      PROVE  Acquired(Q[p], pipes[p], some(Reading(p)), some(Writing(p)))
  <2>1. Count(fds[t], Fd, Reading(p)) <= pipes[p].refs[1] /\ Count(fds[t], Fd, Writing(p)) <= pipes[p].refs[2]
    BY RefNumbers, CountsCover
  <2>2. /\ pipes[p].refs[1] \in Nat /\ pipes[p].refs[2] \in Nat /\ InUse(pipes[p])
        /\ pipes \in Pipes
    BY RefNumbers
  <2>3. /\ some(Reading(p)) \in Nat /\ some(Reading(p)) <= Count(fds[t], Fd, Reading(p))
        /\ Count(fds[t], Fd, Reading(p)) \in Nat
    BY <1>4, Kinds
  <2>4. /\ some(Writing(p)) \in Nat /\ some(Writing(p)) <= Count(fds[t], Fd, Writing(p))
        /\ Count(fds[t], Fd, Writing(p)) \in Nat
    BY <1>4, Kinds
  <2>5. some(Reading(p)) > 0 \/ some(Writing(p)) > 0 => pipes[p].refs[1] # 0 \/ pipes[p].refs[2] # 0
    BY <2>1, <2>2, <2>3, <2>4
  <2>6. some(Reading(p)) > 0 \/ some(Writing(p)) > 0 => pipes[p].active
    BY <2>2, <2>5 DEF InUse
  <2> QED BY <2>2, <2>6, AcquirePipesEffect DEF some
<1>6. ASSUME NEW f \in File
      PROVE  /\ G[f] \in [refs : Nat, dirty : BOOLEAN]
             /\ G[f].refs = files[f].refs + some(FileEnds(f))
  BY RefNumbers, AcquireFilesEffect DEF some
<1> HIDE DEF Q, G
<1>7. Bounded(Q) BY <1>5, SameBytesBounded, RefNumbers DEF Acquired
<1>8. ASSUME NEW p \in Pipe
      PROVE  /\ Q[p] \in PipeRecord /\ InUse(Q[p])
             /\ Q[p].refs[1] = pipes[p].refs[1] - Count(fds[child], Fd, Reading(p)) + Count(T, Fd, Reading(p))
             /\ Q[p].refs[2] = pipes[p].refs[2] - Count(fds[child], Fd, Writing(p)) + Count(T, Fd, Writing(p))
  <2>1. Acquired(Q[p], pipes[p], some(Reading(p)), some(Writing(p))) BY <1>5
  <2>2. Count(fds[child], Fd, Reading(p)) = 0 /\ Count(fds[child], Fd, Writing(p)) = 0 BY NoneCounts
  <2>3. Count(T, Fd, Reading(p)) = some(Reading(p)) /\ some(Reading(p)) \in Nat BY <1>4, Kinds
  <2>4. Count(T, Fd, Writing(p)) = some(Writing(p)) /\ some(Writing(p)) \in Nat BY <1>4, Kinds
  <2>5. pipes[p].refs[1] \in Nat /\ pipes[p].refs[2] \in Nat BY RefNumbers
  <2> QED BY <2>1, <2>2, <2>3, <2>4, <2>5 DEF Acquired
<1>9. ASSUME NEW f \in File
      PROVE  G[f].refs = files[f].refs - Count(fds[child], Fd, FileEnds(f)) + Count(T, Fd, FileEnds(f))
  <2>1. Count(T, Fd, FileEnds(f)) = some(FileEnds(f)) /\ some(FileEnds(f)) \in Nat BY <1>4, Kinds
  <2>2. Count(fds[child], Fd, FileEnds(f)) = 0 BY NoneCounts
  <2>3. files[f].refs \in Nat BY RefNumbers
  <2>4. G[f].refs = files[f].refs + some(FileEnds(f)) BY <1>6
  <2> QED BY <2>1, <2>2, <2>3, <2>4
<1>10. Objects([fds EXCEPT ![child] = T], Q, G)
  BY <1>1, <1>3, <1>6, <1>7, <1>8, <1>9, TableChange
<1> QED BY <1>10 DEF Q, G, T

(* sys_open() makes a file with one descriptor.                            *)
LEMMA OpenKeepsObjects ==
    ASSUME Objects(fds, pipes, files), NEW t \in Task, NEW fd \in Fd, fds[t][fd] = None,
           NEW f \in File, NEW mode \in {READ, WRITE}, files[f].refs = 0, NEW dirty \in BOOLEAN
    PROVE  Objects([fds EXCEPT ![t] = [fds[t] EXCEPT ![fd] = OpenFile(f, mode)]],
                   pipes, [files EXCEPT ![f] = [refs |-> 1, dirty |-> dirty]])
<1> DEFINE G == [files EXCEPT ![f] = [refs |-> 1, dirty |-> dirty]]
           T == [fds[t] EXCEPT ![fd] = OpenFile(f, mode)]
<1>1. pipes = [p \in Pipe |-> pipes[p]] /\ G = [g \in File |-> G[g]]
  BY RefNumbers DEF Pipes, Files
<1>2. fds[t] \in [Fd -> Descriptor] BY RefNumbers DEF Tables
<1>3. T \in [Fd -> Descriptor] BY <1>2 DEF Descriptor
<1>4. ASSUME NEW D, None \notin D
      PROVE  /\ Count(T, Fd, D) = Count(fds[t], Fd, D) + (IF OpenFile(f, mode) \in D THEN 1 ELSE 0)
             /\ Count(fds[t], Fd, D) \in Nat
  <2>1. Count(T, Fd, D) = Count(fds[t], Fd, D) - Count(fds[t], {fd}, D)
                            + (IF OpenFile(f, mode) \in D THEN 1 ELSE 0)
    BY <1>2, CountUpdate
  <2>2. Count(fds[t], {fd}, D) = 0 BY <1>4, CountOne
  <2>3. Count(fds[t], Fd, D) \in Nat BY CountType
  <2> QED BY <2>1, <2>2, <2>3
<1> HIDE DEF T
<1>5. ASSUME NEW p \in Pipe
      PROVE  /\ pipes[p] \in PipeRecord /\ InUse(pipes[p])
             /\ pipes[p].refs[1] = pipes[p].refs[1] - Count(fds[t], Fd, Reading(p)) + Count(T, Fd, Reading(p))
             /\ pipes[p].refs[2] = pipes[p].refs[2] - Count(fds[t], Fd, Writing(p)) + Count(T, Fd, Writing(p))
  <2>1. OpenFile(f, mode) \notin Reading(p) /\ OpenFile(f, mode) \notin Writing(p) BY Kinds
  <2>2. Count(T, Fd, Reading(p)) = Count(fds[t], Fd, Reading(p)) + 0 /\ Count(fds[t], Fd, Reading(p)) \in Nat
    BY <1>4, <2>1, Kinds
  <2>3. Count(T, Fd, Writing(p)) = Count(fds[t], Fd, Writing(p)) + 0 /\ Count(fds[t], Fd, Writing(p)) \in Nat
    BY <1>4, <2>1, Kinds
  <2>4. /\ pipes[p] \in PipeRecord /\ InUse(pipes[p])
        /\ pipes[p].refs[1] \in Nat /\ pipes[p].refs[2] \in Nat
    BY RefNumbers
  <2> QED BY <2>2, <2>3, <2>4
<1>6. ASSUME NEW g \in File
      PROVE  /\ G[g] \in [refs : Nat, dirty : BOOLEAN]
             /\ G[g].refs = files[g].refs - Count(fds[t], Fd, FileEnds(g)) + Count(T, Fd, FileEnds(g))
  <2>1. /\ Count(T, Fd, FileEnds(g)) = Count(fds[t], Fd, FileEnds(g))
                                         + (IF OpenFile(f, mode) \in FileEnds(g) THEN 1 ELSE 0)
        /\ Count(fds[t], Fd, FileEnds(g)) \in Nat
    BY <1>4, Kinds
  <2>2. OpenFile(f, mode) \in FileEnds(g) <=> f = g BY Kinds
  <2>3. files[g] \in [refs : Nat, dirty : BOOLEAN] /\ files[g].refs \in Nat /\ files \in Files
    BY RefNumbers
  <2>4. G[g] = IF g = f THEN [refs |-> 1, dirty |-> dirty] ELSE files[g] BY <2>3 DEF Files
  <2>5. G[g] \in [refs : Nat, dirty : BOOLEAN] /\ G[g].refs = IF g = f THEN 1 ELSE files[g].refs
    BY <2>3, <2>4
  <2> HIDE DEF G
  <2> QED BY <2>1, <2>2, <2>3, <2>5
<1> HIDE DEF G
<1>7. Objects([fds EXCEPT ![t] = T], pipes, G)
  BY <1>1, <1>3, <1>5, <1>6, RefNumbers, TableChange
<1> QED BY <1>7 DEF G, T

(* pipe_read() and pipe_write() leave the counts alone.                    *)
LEMMA IoKeepsObjects ==
    ASSUME Objects(fds, pipes, files), NEW p \in Pipe, NEW q \in PipeRecord,
           q.refs = pipes[p].refs, q.active = pipes[p].active, Bytes(q) <= PipeSize
    PROVE  Objects(fds, [pipes EXCEPT ![p] = q], files)
<1> DEFINE Q == [pipes EXCEPT ![p] = q]
<1>1. fds \in Tables /\ pipes \in Pipes /\ files \in Files /\ Bounded(pipes)
      /\ Exact(fds, pipes, files)
  BY DEF Objects
<1>2. Q \in Pipes /\ \A r \in Pipe : Q[r] = IF r = p THEN q ELSE pipes[r] BY <1>1 DEF Pipes
<1> HIDE DEF Q
<1>3. Bounded(Q) BY <1>1, <1>2 DEF Bounded
<1>4. \A r \in Pipe : Q[r].refs = pipes[r].refs /\ Q[r].active = pipes[r].active BY <1>2
<1>5. Exact(fds, Q, files) BY <1>1, <1>4 DEF Exact, InUse
<1> QED BY <1>1, <1>2, <1>3, <1>5 DEF Objects, Q

(* A pipe as pipe() makes it, and as it is undone when the second          *)
(* descriptor is missing.                                                  *)
LEMMA NewPipe ==
    ASSUME NEW r \in PipeRecord
    PROVE  /\ CreatePipe(r) \in PipeRecord /\ DestroyPipe(CreatePipe(r)) \in PipeRecord
           /\ Bytes(CreatePipe(r)) = 0 /\ Bytes(DestroyPipe(CreatePipe(r))) = 0
           /\ CreatePipe(r).refs[1] = 1 /\ CreatePipe(r).refs[2] = 1 /\ CreatePipe(r).active = TRUE
           /\ DestroyPipe(CreatePipe(r)).refs[1] = 0 /\ DestroyPipe(CreatePipe(r)).refs[2] = 0
           /\ DestroyPipe(CreatePipe(r)).active = FALSE
<1>1. Wrap \in Nat \ {0} /\ 0 \in 0..Wrap - 1 BY SizesAssumption
<1>2. /\ CreatePipe(r) \in PipeRecord /\ CreatePipe(r).head = 0 /\ CreatePipe(r).tail = 0
      /\ CreatePipe(r).refs = <<1, 1>> /\ CreatePipe(r).active = TRUE
  BY <1>1 DEF CreatePipe, PipeRecord
<1>3. /\ DestroyPipe(CreatePipe(r)) \in PipeRecord
      /\ DestroyPipe(CreatePipe(r)).head = 0 /\ DestroyPipe(CreatePipe(r)).tail = 0
      /\ DestroyPipe(CreatePipe(r)).refs = <<0, 0>> /\ DestroyPipe(CreatePipe(r)).active = FALSE
  BY <1>2 DEF DestroyPipe, PipeRecord
<1>4. (0 - 0) % Wrap = 0 BY <1>1, ModDifference
<1> QED BY <1>2, <1>3, <1>4 DEF Bytes

(* sys_pipe() puts the two ends of an idle pipe into two free entries...   *)
LEMMA PipeKeepsObjects ==
    ASSUME Objects(fds, pipes, files), NEW t \in Task, NEW p \in Pipe, ~pipes[p].active,
           NEW fd1 \in Fd, NEW fd2 \in Fd, fd1 # fd2, fds[t][fd1] = None, fds[t][fd2] = None
    PROVE  Objects([fds EXCEPT ![t] = [fds[t] EXCEPT ![fd1] = PipeEnd(p, READ),
                                                     ![fd2] = PipeEnd(p, WRITE)]],
                   [pipes EXCEPT ![p] = CreatePipe(pipes[p])], files)
<1> DEFINE Q == [pipes EXCEPT ![p] = CreatePipe(pipes[p])]
           S == [fds[t] EXCEPT ![fd1] = PipeEnd(p, READ)]
           T == [S EXCEPT ![fd2] = PipeEnd(p, WRITE)]
           one(D) == IF PipeEnd(p, READ) \in D THEN 1 ELSE 0
           two(D) == IF PipeEnd(p, WRITE) \in D THEN 1 ELSE 0
<1>1. pipes \in Pipes /\ files = [f \in File |-> files[f]] /\ fds[t] \in [Fd -> Descriptor]
  BY RefNumbers DEF Files, Tables
<1>2. Q = [r \in Pipe |-> Q[r]] /\ \A r \in Pipe : Q[r] = IF r = p THEN CreatePipe(pipes[p]) ELSE pipes[r]
  BY <1>1 DEF Pipes
<1>3. S \in [Fd -> Descriptor] /\ T \in [Fd -> Descriptor] /\ S[fd2] = None
  BY <1>1 DEF Descriptor
<1>4. ASSUME NEW D, None \notin D
      PROVE  /\ Count(T, Fd, D) = Count(fds[t], Fd, D) + one(D) + two(D)
             /\ Count(fds[t], Fd, D) \in Nat
  <2>1. Count(S, Fd, D) = Count(fds[t], Fd, D) - Count(fds[t], {fd1}, D) + one(D)
    BY <1>1, CountUpdate
  <2>2. Count(T, Fd, D) = Count(S, Fd, D) - Count(S, {fd2}, D) + two(D) BY <1>3, CountUpdate
  <2>3. Count(fds[t], {fd1}, D) = 0 /\ Count(S, {fd2}, D) = 0 BY <1>3, <1>4, CountOne
  <2>4. Count(fds[t], Fd, D) \in Nat /\ Count(S, Fd, D) \in Nat BY CountType
  <2> QED BY <2>1, <2>2, <2>3, <2>4
<1>5. /\ CreatePipe(pipes[p]) \in PipeRecord /\ CreatePipe(pipes[p]).active = TRUE
      /\ CreatePipe(pipes[p]).refs[1] = 1 /\ CreatePipe(pipes[p]).refs[2] = 1
      /\ Bytes(CreatePipe(pipes[p])) = 0
  BY NewPipe, RefNumbers
<1>6. pipes[p].refs[1] = 0 /\ pipes[p].refs[2] = 0 BY RefNumbers DEF InUse
<1>7. Bounded(Q)
  <2>1. Bounded(pipes) /\ 0 <= PipeSize BY RefNumbers, SizesAssumption
  <2> QED BY <1>2, <1>5, <2>1 DEF Bounded
<1> HIDE DEF T, Q
<1>8. ASSUME NEW r \in Pipe
      PROVE  /\ Q[r] \in PipeRecord /\ InUse(Q[r])
             /\ Q[r].refs[1] = pipes[r].refs[1] - Count(fds[t], Fd, Reading(r)) + Count(T, Fd, Reading(r))
             /\ Q[r].refs[2] = pipes[r].refs[2] - Count(fds[t], Fd, Writing(r)) + Count(T, Fd, Writing(r))
  <2>1. None \notin Reading(r) /\ None \notin Writing(r) BY Kinds
  <2>2. /\ Count(T, Fd, Reading(r)) = Count(fds[t], Fd, Reading(r)) + (IF r = p THEN 1 ELSE 0) + 0
        /\ Count(fds[t], Fd, Reading(r)) \in Nat
    <3>1. one(Reading(r)) = (IF r = p THEN 1 ELSE 0) /\ two(Reading(r)) = 0 BY Kinds
    <3> QED BY <1>4, <2>1, <3>1
  <2>3. /\ Count(T, Fd, Writing(r)) = Count(fds[t], Fd, Writing(r)) + 0 + (IF r = p THEN 1 ELSE 0)
        /\ Count(fds[t], Fd, Writing(r)) \in Nat
    <3>1. one(Writing(r)) = 0 /\ two(Writing(r)) = (IF r = p THEN 1 ELSE 0) BY Kinds
    <3> QED BY <1>4, <2>1, <3>1
  <2>4. /\ pipes[r] \in PipeRecord /\ InUse(pipes[r])
        /\ pipes[r].refs[1] \in Nat /\ pipes[r].refs[2] \in Nat
    BY RefNumbers
  <2>5. CASE r = p
    <3>1. Q[r] = CreatePipe(pipes[p]) BY <1>2, <2>5
    <3>2. Q[r] \in PipeRecord /\ Q[r].active = TRUE /\ Q[r].refs[1] = 1 /\ Q[r].refs[2] = 1
      BY <1>5, <3>1
    <3>3. InUse(Q[r]) BY <3>2 DEF InUse
    <3> QED BY <1>6, <2>2, <2>3, <2>5, <3>2, <3>3
  <2>6. CASE r # p
    <3>1. Q[r] = pipes[r] BY <1>2, <2>6
    <3> QED BY <2>2, <2>3, <2>4, <2>6, <3>1
  <2> QED BY <2>5, <2>6
<1>9. ASSUME NEW f \in File
      PROVE  /\ files[f] \in [refs : Nat, dirty : BOOLEAN]
             /\ files[f].refs = files[f].refs - Count(fds[t], Fd, FileEnds(f)) + Count(T, Fd, FileEnds(f))
  <2>1. PipeEnd(p, READ) \notin FileEnds(f) /\ PipeEnd(p, WRITE) \notin FileEnds(f) BY Kinds
  <2>2. Count(T, Fd, FileEnds(f)) = Count(fds[t], Fd, FileEnds(f)) + 0 + 0
        /\ Count(fds[t], Fd, FileEnds(f)) \in Nat
    BY <1>4, <2>1, Kinds
  <2>3. files[f] \in [refs : Nat, dirty : BOOLEAN] /\ files[f].refs \in Nat BY RefNumbers
  <2> QED BY <2>2, <2>3
<1>10. T \in [Fd -> Descriptor] BY <1>3 DEF T
<1>11. Objects([fds EXCEPT ![t] = T], Q, files)
  BY <1>1, <1>2, <1>7, <1>8, <1>9, <1>10, TableChange
<1> QED BY <1>11 DEF Q, T

(* ...and gives the pipe back when there are no two.                       *)
LEMMA PipeFailsKeepsObjects ==
    ASSUME Objects(fds, pipes, files), NEW p \in Pipe, ~pipes[p].active
    PROVE  Objects(fds, [pipes EXCEPT ![p] = DestroyPipe(CreatePipe(pipes[p]))], files)
<1> DEFINE q == DestroyPipe(CreatePipe(pipes[p]))
<1>1. /\ q \in PipeRecord /\ q.active = FALSE /\ q.refs[1] = 0 /\ q.refs[2] = 0
      /\ Bytes(q) <= PipeSize
  <2>1. pipes[p] \in PipeRecord BY RefNumbers
  <2>2. /\ q \in PipeRecord /\ q.active = FALSE /\ q.refs[1] = 0 /\ q.refs[2] = 0
        /\ Bytes(q) = 0
    BY <2>1, NewPipe
  <2>3. 0 <= PipeSize BY SizesAssumption
  <2> HIDE DEF q
  <2> QED BY <2>2, <2>3
<1> HIDE DEF q
<1>2. /\ pipes[p].refs[1] = 0 /\ pipes[p].refs[2] = 0 /\ pipes[p].active = FALSE
      /\ pipes[p] \in PipeRecord
  <2>1. pipes[p] \in PipeRecord /\ InUse(pipes[p]) BY RefNumbers
  <2>2. pipes[p].active \in BOOLEAN BY <2>1 DEF PipeRecord
  <2> QED BY <2>1, <2>2 DEF InUse
<1>3. q.refs = pipes[p].refs
  <2>1. q.refs \in Nat \X Nat /\ pipes[p].refs \in Nat \X Nat BY <1>1, <1>2 DEF PipeRecord
  <2> QED BY <1>1, <1>2, <2>1
<1> QED BY <1>1, <1>2, <1>3, IoKeepsObjects DEF q

---------------------------------------------------------------------------
(* The bytes in a pipe.                                                    *)

InOrder(q) ==
    \A i \in 0..Bytes(q) - 1 : q.buffer[Index(Label(q.head + i))] = Label(q.head + i)

(* The tail is the head plus the number of bytes between them, and that    *)
(* number is recovered whatever wrapped.                                   *)
LEMMA BytesBetween ==
    ASSUME NEW h \in 0..Wrap - 1
    PROVE  /\ \A b \in 0..Wrap - 1 : /\ Label(h + b) \in 0..Wrap - 1
                                     /\ (Label(h + b) - h) % Wrap = b
           /\ \A e \in 0..Wrap - 1 : /\ (e - h) % Wrap \in 0..Wrap - 1
                                     /\ e = Label(h + ((e - h) % Wrap))
<1>1. Wrap \in Nat \ {0} BY SizesAssumption
<1>2. ASSUME NEW n \in 0..2 * Wrap - 1 PROVE Label(n) = IF n < Wrap THEN n ELSE n - Wrap
  BY <1>1, ModOnce DEF Label
<1>3. ASSUME NEW b \in 0..Wrap - 1
      PROVE  Label(h + b) \in 0..Wrap - 1 /\ (Label(h + b) - h) % Wrap = b
  <2> DEFINE n == h + b
             l == Label(n)
  <2>1. n \in 0..2 * Wrap - 1 /\ n = h + b BY <1>1
  <2> HIDE DEF n
  <2>2. l = IF n < Wrap THEN n ELSE n - Wrap BY <1>2, <2>1
  <2> HIDE DEF l
  <2>3. l \in 0..Wrap - 1 BY <1>1, <2>1, <2>2
  <2>4. (l - h) % Wrap = IF h <= l THEN l - h ELSE l - h + Wrap BY <1>1, <2>3, ModDifference
  <2>5. (l - h) % Wrap = b BY <1>1, <2>1, <2>2, <2>3, <2>4
  <2> QED BY <2>3, <2>5 DEF l, n
<1>4. ASSUME NEW e \in 0..Wrap - 1
      PROVE  (e - h) % Wrap \in 0..Wrap - 1 /\ e = Label(h + ((e - h) % Wrap))
  <2> DEFINE d == (e - h) % Wrap
             n == h + d
  <2>1. d = IF h <= e THEN e - h ELSE e - h + Wrap BY <1>1, ModDifference
  <2> HIDE DEF d
  <2>2. d \in 0..Wrap - 1 BY <1>1, <2>1
  <2>3. n = IF h <= e THEN e ELSE e + Wrap BY <1>1, <2>1
  <2> HIDE DEF n
  <2>4. n \in 0..2 * Wrap - 1 BY <1>1, <2>3
  <2>5. Label(n) = IF n < Wrap THEN n ELSE n - Wrap BY <1>2, <2>4
  <2>6. e = Label(n) BY <1>1, <2>3, <2>5
  <2> QED BY <2>2, <2>6 DEF d, n
<1> QED BY <1>3, <1>4

(* The positions of a pipe's ring and the bytes between them.              *)
LEMMA PipePositions ==
    ASSUME NEW r \in PipeRecord
    PROVE  /\ r.head \in 0..Wrap - 1 /\ r.tail \in 0..Wrap - 1
           /\ r.buffer \in [0..PipeSize - 1 -> 0..Wrap - 1]
           /\ Bytes(r) \in 0..Wrap - 1 /\ r.tail = Label(r.head + Bytes(r))
<1>1. r.head \in 0..Wrap - 1 /\ r.tail \in 0..Wrap - 1
      /\ r.buffer \in [0..PipeSize - 1 -> 0..Wrap - 1]
  BY DEF PipeRecord
<1> QED BY <1>1, BytesBetween DEF Bytes

(* Numbers of bytes and the places they go to.                             *)
LEMMA LabelFacts ==
    ASSUME NEW x \in Int
    PROVE  /\ Label(x) \in 0..Wrap - 1 /\ Index(Label(x)) \in 0..PipeSize - 1
           /\ \A y \in Int : Label(Label(x) + y) = Label(x + y)
           /\ \A y \in Int : /\ Index(Label(x)) = Index(Label(y))
                             /\ x - y < PipeSize /\ y - x < PipeSize
                             => x = y
<1>1. Wrap \in Nat \ {0} /\ PipeSize \in Nat \ {0} /\ Wrap % PipeSize = 0 BY SizesAssumption
<1>2. Label(x) \in 0..Wrap - 1 BY <1>1, DivMod DEF Label
<1>3. \A y \in Int : Index(Label(y)) = y % PipeSize BY <1>1, ModOfMod DEF Index, Label
<1>4. Index(Label(x)) \in 0..PipeSize - 1 BY <1>1, <1>3, DivMod
<1>5. \A y \in Int : Label(Label(x) + y) = Label(x + y) BY <1>1, ModShift DEF Label
<1>6. ASSUME NEW y \in Int, Index(Label(x)) = Index(Label(y)),
             x - y < PipeSize, y - x < PipeSize
      PROVE  x = y
  <2>1. x % PipeSize = y % PipeSize BY <1>3, <1>6
  <2> QED BY <1>1, <1>6, <2>1, ModInjective
<1> QED BY <1>2, <1>4, <1>5, <1>6

(* A transfer is no longer than what was asked for and what there is.      *)
LEMMA MinOfTwo ==
    ASSUME NEW a \in Nat, NEW b \in Nat
    PROVE  Min({a, b}) \in Nat /\ Min({a, b}) <= a /\ Min({a, b}) <= b
BY MinOf

(* pipe_read() takes bytes from the front.                                 *)
LEMMA ReadKeepsOrder ==
    ASSUME NEW r \in PipeRecord, Bytes(r) <= PipeSize, InOrder(r), NEW n \in Nat
    PROVE  LET q == PipeRead(r, n)
           IN /\ q \in PipeRecord /\ q.refs = r.refs /\ q.active = r.active
              /\ Bytes(q) <= PipeSize /\ InOrder(q)
<1> DEFINE b == Bytes(r)
           h == r.head
           k == Min({n, b})
           q == PipeRead(r, n)
<1>1. /\ h \in 0..Wrap - 1 /\ b \in 0..Wrap - 1 /\ r.tail = Label(h + b) /\ b <= PipeSize
      /\ Wrap \in Nat /\ PipeSize \in Nat
  BY PipePositions, SizesAssumption
<1>2. k \in 0..b
  <2>1. b \in Nat BY <1>1
  <2> QED BY <2>1, MinOfTwo
<1>3. q = [r EXCEPT !.head = Label(h + k)] BY DEF PipeRead
<1>4. /\ h + k \in Int /\ h + b \in Int /\ b - k \in 0..Wrap - 1 /\ b - k <= PipeSize
      /\ (h + k) + (b - k) = h + b
  BY <1>1, <1>2
<1>5. /\ Label(h + k) \in 0..Wrap - 1
      /\ \A y \in Int : Label(Label(h + k) + y) = Label(h + k + y)
  BY <1>4, LabelFacts
<1>6. /\ q \in PipeRecord /\ q.refs = r.refs /\ q.active = r.active
      /\ q.head = Label(h + k) /\ q.tail = r.tail /\ q.buffer = r.buffer
  BY <1>3, <1>5 DEF PipeRecord
<1>7. \A i \in 0..b - 1 : r.buffer[Index(Label(h + i))] = Label(h + i) BY DEF InOrder
<1> HIDE DEF b, h, k, q
<1>8. Bytes(q) = b - k
  <2>1. q.tail = Label(Label(h + k) + (b - k)) BY <1>1, <1>4, <1>5, <1>6
  <2>2. (Label(Label(h + k) + (b - k)) - Label(h + k)) % Wrap = b - k
    BY <1>4, <1>5, BytesBetween
  <2> QED BY <1>6, <2>1, <2>2 DEF Bytes
<1>9. ASSUME NEW i \in 0..Bytes(q) - 1
      PROVE  q.buffer[Index(Label(q.head + i))] = Label(q.head + i)
  <2>1. k + i \in 0..b - 1 /\ i \in Int /\ h + (k + i) = h + k + i BY <1>1, <1>2, <1>8
  <2>2. Label(q.head + i) = Label(h + (k + i)) BY <1>5, <1>6, <2>1
  <2> QED BY <1>6, <1>7, <2>1, <2>2
<1>10. InOrder(q) BY <1>9 DEF InOrder
<1> QED BY <1>4, <1>6, <1>8, <1>10 DEF q

(* pipe_write() adds bytes behind the last one and overwrites none that    *)
(* is still to be read.                                                    *)
LEMMA WriteKeepsOrder ==
    ASSUME NEW r \in PipeRecord, Bytes(r) <= PipeSize, InOrder(r), NEW n \in Nat
    PROVE  LET q == PipeWrite(r, n)
           IN /\ q \in PipeRecord /\ q.refs = r.refs /\ q.active = r.active
              /\ Bytes(q) <= PipeSize /\ InOrder(q)
<1> DEFINE b == Bytes(r)
           h == r.head
           c == Min({n, PipeSize - b})
           W == {Label(r.tail + i) : i \in 0..c - 1}
           B == [i \in 0..PipeSize - 1 |-> IF \E x \in W : Index(x) = i
                                           THEN CHOOSE x \in W : Index(x) = i
                                           ELSE r.buffer[i]]
           q == PipeWrite(r, n)
<1>1. /\ h \in 0..Wrap - 1 /\ b \in 0..Wrap - 1 /\ r.tail = Label(h + b) /\ b <= PipeSize
      /\ r.buffer \in [0..PipeSize - 1 -> 0..Wrap - 1] /\ r.tail \in 0..Wrap - 1
      /\ Wrap \in Nat /\ PipeSize \in Nat /\ Wrap > PipeSize
  BY PipePositions, SizesAssumption
<1>2. c \in Nat /\ b + c <= PipeSize
  <2>1. PipeSize - b \in Nat BY <1>1
  <2> HIDE DEF b
  <2>2. c \in Nat /\ c <= PipeSize - b BY <2>1, MinOfTwo
  <2> HIDE DEF c
  <2> QED BY <1>1, <2>2
<1>3. q = [r EXCEPT !.tail = Label(r.tail + c), !.buffer = B] BY DEF PipeWrite
<1>4. \A i \in 0..b - 1 : r.buffer[Index(Label(h + i))] = Label(h + i) BY DEF InOrder
<1> HIDE DEF b, h, c, q
<1>5. \A j \in Int : Label(r.tail + j) = Label(h + b + j)
  <2>1. h + b \in Int BY <1>1
  <2> QED BY <1>1, <2>1, LabelFacts
<1>6. ASSUME NEW x \in W PROVE \E j \in 0..c - 1 : x = Label(h + b + j) /\ h + b + j \in Int
  <2>1. PICK j \in 0..c - 1 : x = Label(r.tail + j) OBVIOUS
  <2>2. j \in Int /\ h + b + j \in Int BY <1>1, <1>2
  <2>3. x = Label(h + b + j) BY <1>5, <2>1, <2>2
  <2> QED BY <2>2, <2>3
<1>7. ASSUME NEW x \in W PROVE x \in 0..Wrap - 1 BY <1>6, LabelFacts
<1>8. B \in [0..PipeSize - 1 -> 0..Wrap - 1]
  <2> SUFFICES ASSUME NEW i \in 0..PipeSize - 1 PROVE B[i] \in 0..Wrap - 1 OBVIOUS
  <2> HIDE DEF W
  <2> QED BY <1>1, <1>7
<1>9. Label(r.tail + c) = Label(h + (b + c)) /\ b + c \in 0..Wrap - 1
  <2>1. h + b + c = h + (b + c) /\ c \in Int BY <1>1, <1>2
  <2>2. Label(r.tail + c) = Label(h + b + c) BY <1>5, <2>1
  <2>3. b + c \in 0..Wrap - 1 BY <1>1, <1>2
  <2> QED BY <2>1, <2>2, <2>3
<1>10. Label(h + (b + c)) \in 0..Wrap - 1 /\ (Label(h + (b + c)) - h) % Wrap = b + c
  BY <1>1, <1>9, BytesBetween
<1> HIDE DEF B
<1>11. /\ q \in PipeRecord /\ q.refs = r.refs /\ q.active = r.active
       /\ q.head = h /\ q.tail = Label(h + (b + c)) /\ q.buffer = B
  BY <1>3, <1>8, <1>9, <1>10 DEF PipeRecord, h
<1>12. Bytes(q) = b + c BY <1>10, <1>11 DEF Bytes
<1>13. ASSUME NEW i \in 0..b + c - 1
       PROVE  B[Index(Label(h + i))] = Label(h + i)
  <2> DEFINE at == Index(Label(h + i))
  <2>1. h + i \in Int /\ at \in 0..PipeSize - 1
    <3>1. h + i \in Int BY <1>1, <1>2
    <3> QED BY <3>1, LabelFacts
  <2>2. ASSUME NEW x \in W, Index(x) = at PROVE i >= b /\ x = Label(h + i)
    <3>1. PICK j \in 0..c - 1 : x = Label(h + b + j) /\ h + b + j \in Int BY <1>6
    <3>2. (h + i) - (h + b + j) < PipeSize /\ (h + b + j) - (h + i) < PipeSize
      BY <1>1, <1>2
    <3>3. h + i = h + b + j BY <2>1, <2>2, <3>1, <3>2, LabelFacts
    <3> QED BY <1>1, <1>2, <3>1, <3>3
  <2>3. i >= b => Label(h + i) \in W
    <3>1. HAVE i >= b
    <3>2. i - b \in 0..c - 1 /\ h + b + (i - b) = h + i BY <1>1, <1>2, <3>1
    <3>3. Label(r.tail + (i - b)) = Label(h + i) BY <1>5, <3>2
    <3> QED BY <3>2, <3>3
  <2>4. B[at] = IF \E x \in W : Index(x) = at THEN CHOOSE x \in W : Index(x) = at
                ELSE r.buffer[at]
    BY <2>1 DEF B
  <2> HIDE DEF at, W
  <2>5. CASE i >= b
    <3>1. Label(h + i) \in W /\ Index(Label(h + i)) = at BY <2>3, <2>5 DEF at
    <3>2. (CHOOSE x \in W : Index(x) = at) = Label(h + i) BY <2>2, <3>1
    <3> QED BY <2>4, <3>1, <3>2 DEF at
  <2>6. CASE ~(i >= b)
    <3>1. ~\E x \in W : Index(x) = at BY <2>2, <2>6
    <3>2. i \in 0..b - 1 BY <1>1, <2>6
    <3> QED BY <1>4, <2>4, <3>1, <3>2 DEF at
  <2> QED BY <2>5, <2>6
<1>14. InOrder(q)
  <2> SUFFICES ASSUME NEW i \in 0..Bytes(q) - 1
               PROVE  q.buffer[Index(Label(q.head + i))] = Label(q.head + i)
    BY DEF InOrder
  <2>1. i \in 0..b + c - 1 BY <1>1, <1>2, <1>12
  <2>2. B[Index(Label(h + i))] = Label(h + i) BY <1>13, <2>1
  <2> QED BY <1>11, <2>2
<1> QED BY <1>2, <1>11, <1>12, <1>14 DEF q

---------------------------------------------------------------------------
(* The tasks that are blocked.                                             *)

(* A call c on the table T has to wait.                                    *)
MustWait(T, P, c) ==
    LET p == P[T[c.fd].ptr]
    IN /\ T[c.fd].type = "PIPE" /\ p.active
       /\ IF c.op = "read" THEN Bytes(p) = 0 /\ p.refs[2] > 0
                           ELSE Bytes(p) = PipeSize /\ p.refs[1] > 0

Calls == [op : {"none", "read", "write"}, fd : Fd, n : {0} \cup ReadSizes \cup WriteSizes]

(* The inductive invariant.  To the properties themselves it adds that the *)
(* bytes of a pipe are in order also while it is idle, and that the counts *)
(* are those of the objects in use.                                        *)
DInv ==
    /\ state \in [Task -> {"EMPTY", "RUNNING", "WAITING"}]
    /\ call \in [Task -> Calls]
    /\ Objects(fds, pipes, files)
    /\ \A t \in Task : state[t] = "EMPTY" => fds[t] = NoneTable
    /\ \A p \in Pipe : InOrder(pipes[p])
    /\ \A t \in Task : state[t] = "WAITING" => MustWait(fds[t], pipes, call[t])

(* The invariant says what the runs check.                                 *)
LEMMA InvariantMeans ==
    DInv => DescriptorsAreSound /\ NoLostWakeup /\ BytesInOrder
<1> SUFFICES ASSUME DInv PROVE DescriptorsAreSound /\ NoLostWakeup /\ BytesInOrder OBVIOUS
<1>1. fds \in Tables /\ pipes \in Pipes /\ files \in Files /\ Bounded(pipes)
      /\ Exact(fds, pipes, files)
  BY RefNumbers DEF DInv
<1>2. TypeOK BY <1>1 DEF DInv, TypeOK, Tables, Pipes, Files, Bounded, Calls, NoneTable
<1>3. RefsAreExact BY <1>1, <1>2, ExactIsRefsAreExact
<1>4. NoLostWakeup
  <2>1. \A p : Refs(p, WRITE) = p.refs[2] /\ Refs(p, READ) = p.refs[1] BY DEF Refs, READ, WRITE
  <2> QED BY <2>1 DEF DInv, MustWait, NoLostWakeup, IsPipe, PipeOf
<1>5. BytesInOrder BY DEF DInv, InOrder, BytesInOrder
<1> QED BY <1>2, <1>3, <1>4, <1>5 DEF DescriptorsAreSound

(* A pipe with which whoever waited still has to wait.                     *)
Roomier(q, r) ==
    /\ SameBytes(q, r) /\ q.active = r.active
    /\ q.refs[1] >= r.refs[1] /\ q.refs[2] >= r.refs[2]

(* A pipe descriptor is one of the two ends of its pipe.                   *)
LEMMA DescriptorIsPipe ==
    ASSUME NEW d \in Descriptor, d.type = "PIPE"
    PROVE  d.ptr \in Pipe /\ \E m \in {READ, WRITE} : d = PipeEnd(d.ptr, m)
BY DEF Descriptor, PipeEnd, OpenFile, None, Console

(* A call that must wait still must after a change that makes its pipe no  *)
(* more able to serve it.                                                  *)
LEMMA StillMustWait ==
    ASSUME NEW T \in [Fd -> Descriptor], NEW c \in Calls, NEW P \in Pipes, NEW Q \in Pipes,
           MustWait(T, P, c), \A p \in Pipe : P[p].active => Roomier(Q[p], P[p])
    PROVE  MustWait(T, Q, c)
<1>1. c.fd \in Fd BY DEF Calls
<1>2. T[c.fd] \in Descriptor /\ T[c.fd].type = "PIPE" BY <1>1 DEF MustWait
<1> DEFINE p == T[c.fd].ptr
<1>3. p \in Pipe BY <1>2, DescriptorIsPipe
<1>4. /\ P[p].active
      /\ IF c.op = "read" THEN Bytes(P[p]) = 0 /\ P[p].refs[2] > 0
                          ELSE Bytes(P[p]) = PipeSize /\ P[p].refs[1] > 0
  BY DEF MustWait
<1> HIDE DEF p
<1>5. Roomier(Q[p], P[p]) BY <1>3, <1>4
<1>6. Bytes(Q[p]) = Bytes(P[p]) /\ Q[p].active BY <1>4, <1>5 DEF Roomier, SameBytes, Bytes
<1>7. P[p].refs[1] \in Nat /\ P[p].refs[2] \in Nat /\ Q[p].refs[1] \in Nat /\ Q[p].refs[2] \in Nat
  BY <1>3, PipeParts DEF Pipes
<1>8. IF c.op = "read" THEN Bytes(Q[p]) = 0 /\ Q[p].refs[2] > 0
                       ELSE Bytes(Q[p]) = PipeSize /\ Q[p].refs[1] > 0
  <2>1. /\ P[p].refs[1] > 0 => Q[p].refs[1] > 0
        /\ P[p].refs[2] > 0 => Q[p].refs[2] > 0
    BY <1>5, <1>7 DEF Roomier
  <2> QED BY <1>4, <1>6, <2>1
<1> QED BY <1>2, <1>6, <1>8 DEF MustWait, p

(* Acquiring ends makes no pipe more able to serve a blocked call.         *)
LEMMA AcquireIsRoomier ==
    ASSUME NEW P \in Pipes, NEW T, NEW I \in SUBSET Fd, NEW p \in Pipe
    PROVE  Roomier(AcquirePipes(P, T, I)[p], P[p])
<1> DEFINE m == Count(T, I, Reading(p))
           n == Count(T, I, Writing(p))
           r == P[p]
           q == AcquirePipes(P, T, I)[p]
<1>1. q = [r EXCEPT !.refs = <<r.refs[1] + m, r.refs[2] + n>>]
  BY DEF AcquirePipes, Refs, READ, WRITE, Reading, Writing
<1>2. m \in Nat /\ n \in Nat BY CountType
<1>3. r \in PipeRecord BY DEF Pipes
<1> HIDE DEF m, n, q, r
<1>4. r.refs[1] \in Nat /\ r.refs[2] \in Nat BY <1>3, PipeParts
<1>5. SameBytes(q, r) /\ q.active = r.active /\ q.refs = <<r.refs[1] + m, r.refs[2] + n>>
  BY <1>1, <1>3 DEF PipeRecord, SameBytes
<1>6. Roomier(q, r) BY <1>2, <1>4, <1>5 DEF Roomier
<1> QED BY <1>6 DEF q, r

(* A pipe that keeps its bytes keeps their order.                          *)
LEMMA SameBytesInOrder ==
    ASSUME NEW q, NEW r, SameBytes(q, r), InOrder(r) PROVE InOrder(q)
BY DEF SameBytes, InOrder, Bytes

(* Dropping entries that are no pipe ends changes no pipe.                 *)
LEMMA ReleaseNothing ==
    ASSUME Objects(fds, pipes, files), NEW t \in Task, NEW I \in SUBSET Fd,
           \A i \in I : fds[t][i].type # "PIPE"
    PROVE  \A p \in Pipe : ReleasePipes(pipes, fds[t], I)[p] = pipes[p]
<1> TAKE p \in Pipe
<1>1. \A i \in I : fds[t][i] \notin Reading(p) /\ fds[t][i] \notin Writing(p)
  BY DEF Reading, Writing, PipeEnd
<1>2. Count(fds[t], I, Reading(p)) = 0 /\ Count(fds[t], I, Writing(p)) = 0 BY <1>1, CountType
<1>3. Released(ReleasePipes(pipes, fds[t], I)[p], pipes[p],
               Count(fds[t], I, Reading(p)), Count(fds[t], I, Writing(p)))
  BY ReleaseAll
<1> QED BY <1>2, <1>3 DEF Released

(* A pipe that did not change is no more able to serve a blocked call.     *)
LEMMA SameIsRoomier ==
    ASSUME NEW P \in Pipes, NEW p \in Pipe PROVE Roomier(P[p], P[p])
<1>1. P[p].refs[1] \in Nat /\ P[p].refs[2] \in Nat BY PipeParts DEF Pipes
<1> QED BY <1>1 DEF Roomier, SameBytes

---------------------------------------------------------------------------
(* Every step keeps the invariant.                                         *)

(* A step that leaves every task blocked before it as it was, and its pipe *)
(* no more able to serve it.                                               *)
LEMMA WaitersStay ==
    ASSUME DInv, Objects(fds', pipes', files'),
           \A u \in Task : state'[u] = "WAITING" =>
               state[u] = "WAITING" /\ fds'[u] = fds[u] /\ call'[u] = call[u],
           \A p \in Pipe : pipes[p].active => Roomier(pipes'[p], pipes[p])
    PROVE  \A u \in Task : state'[u] = "WAITING" => MustWait(fds'[u], pipes', call'[u])
<1> SUFFICES ASSUME NEW u \in Task, state'[u] = "WAITING"
             PROVE  MustWait(fds'[u], pipes', call'[u])
  OBVIOUS
<1>1. state[u] = "WAITING" /\ fds'[u] = fds[u] /\ call'[u] = call[u] OBVIOUS
<1>2. MustWait(fds[u], pipes, call[u]) BY <1>1 DEF DInv
<1>3. fds[u] \in [Fd -> Descriptor] /\ call[u] \in Calls /\ pipes \in Pipes
  BY RefNumbers DEF DInv, Tables
<1>4. pipes' \in Pipes BY DEF Objects
<1>5. MustWait(fds[u], pipes', call[u]) BY <1>2, <1>3, <1>4, StillMustWait
<1> QED BY <1>1, <1>5

(* What DInv' asks for.                                                    *)
LEMMA InvariantAgain ==
    ASSUME state' \in [Task -> {"EMPTY", "RUNNING", "WAITING"}], call' \in [Task -> Calls],
           Objects(fds', pipes', files'),
           \A t \in Task : state'[t] = "EMPTY" => fds'[t] = NoneTable,
           \A p \in Pipe : InOrder(pipes'[p]),
           \A t \in Task : state'[t] = "WAITING" => MustWait(fds'[t], pipes', call'[t])
    PROVE  DInv'
<1>1. /\ Objects(fds, pipes, files)' <=> Objects(fds', pipes', files')
      /\ \A p \in Pipe : InOrder(pipes[p])' <=> InOrder(pipes'[p])
      /\ \A t \in Task : MustWait(fds[t], pipes, call[t])' <=> MustWait(fds'[t], pipes', call'[t])
  BY DEF Objects, InOrder, MustWait, Bytes, Exact, Held, Bounded
<1> QED BY <1>1 DEF DInv

(* A task outside a call is typed.                                         *)
LEMMA NoCallIsCall == NoCall \in Calls
<1>1. 0 \in Fd BY SizesAssumption DEF Fd
<1> QED BY <1>1 DEF NoCall, Calls

(* Steps that move bytes wake everyone.                                    *)
LEMMA IoKeepsInvariant ==
    ASSUME DInv, NEW t \in Task, NEW fd \in Fd, IsPipe(t, fd), NEW q \in PipeRecord,
           q.refs = PipeOf(t, fd).refs, q.active = PipeOf(t, fd).active,
           Bytes(q) <= PipeSize, InOrder(q),
           pipes' = [pipes EXCEPT ![fds[t][fd].ptr] = q], state' = WakeUpTasks(state),
           Returns(t), UNCHANGED <<fds, files>>
    PROVE  DInv'
<1> DEFINE p == fds[t][fd].ptr
<1>1. Objects(fds, pipes, files) BY DEF DInv
<1>2. fds[t][fd] \in Descriptor BY <1>1, RefNumbers DEF Tables
<1>3. p \in Pipe BY <1>2, DescriptorIsPipe DEF IsPipe
<1>4. pipes' = [pipes EXCEPT ![p] = q] /\ q.refs = pipes[p].refs /\ q.active = pipes[p].active
  BY DEF PipeOf
<1> HIDE DEF p
<1>5. Objects(fds', pipes', files') BY <1>1, <1>3, <1>4, IoKeepsObjects
<1>6. /\ state \in [Task -> {"EMPTY", "RUNNING", "WAITING"}] /\ call \in [Task -> Calls]
      /\ pipes \in Pipes
  BY <1>1, RefNumbers DEF DInv
<1>7. /\ state' \in [Task -> {"EMPTY", "RUNNING", "WAITING"}]
      /\ \A u \in Task : state'[u] # "WAITING" /\ (state'[u] = "EMPTY" => state[u] = "EMPTY")
  BY <1>6 DEF WakeUpTasks
<1>8. call' \in [Task -> Calls] BY <1>6, NoCallIsCall DEF Returns
<1>9. \A r \in Pipe : InOrder(pipes'[r])
  <2>1. \A r \in Pipe : pipes'[r] = IF r = p THEN q ELSE pipes[r] BY <1>4, <1>6 DEF Pipes
  <2> QED BY <2>1 DEF DInv
<1>10. \A u \in Task : state'[u] = "EMPTY" => fds'[u] = NoneTable BY <1>7 DEF DInv
<1> QED BY <1>5, <1>7, <1>8, <1>9, <1>10, InvariantAgain

(* sys_read() of a pipe, when it returns.                                  *)
LEMMA ReadKeepsInvariant ==
    ASSUME DInv, NEW t \in Task, NEW fd \in Fd, NEW n \in Nat, Read(t, fd, n) PROVE DInv'
<1> DEFINE r == PipeOf(t, fd)
           q == PipeRead(r, n)
<1>1. Objects(fds, pipes, files) BY DEF DInv
<1>2. fds[t][fd] \in Descriptor BY <1>1, RefNumbers DEF Tables
<1>3. fds[t][fd].ptr \in Pipe BY <1>2, DescriptorIsPipe DEF IsPipe, Read
<1>4. r \in PipeRecord /\ Bytes(r) <= PipeSize /\ InOrder(r)
  BY <1>1, <1>3, RefNumbers DEF PipeOf, DInv, Bounded
<1> HIDE DEF r
<1>5. /\ q \in PipeRecord /\ q.refs = r.refs /\ q.active = r.active
      /\ Bytes(q) <= PipeSize /\ InOrder(q)
  BY <1>4, ReadKeepsOrder
<1>6. /\ IsPipe(t, fd) /\ state' = WakeUpTasks(state) /\ Returns(t) /\ UNCHANGED <<fds, files>>
      /\ pipes' = [pipes EXCEPT ![fds[t][fd].ptr] = q]
  BY DEF Read, PipeOf, r
<1> HIDE DEF q
<1> QED BY <1>5, <1>6, IoKeepsInvariant DEF r

(* sys_write() to a pipe, when it returns.                                 *)
LEMMA WriteKeepsInvariant ==
    ASSUME DInv, NEW t \in Task, NEW fd \in Fd, NEW n \in Nat, Write(t, fd, n) PROVE DInv'
<1> DEFINE r == PipeOf(t, fd)
           q == PipeWrite(r, n)
<1>1. Objects(fds, pipes, files) BY DEF DInv
<1>2. fds[t][fd] \in Descriptor BY <1>1, RefNumbers DEF Tables
<1>3. fds[t][fd].ptr \in Pipe BY <1>2, DescriptorIsPipe DEF IsPipe, Write
<1>4. r \in PipeRecord /\ Bytes(r) <= PipeSize /\ InOrder(r)
  BY <1>1, <1>3, RefNumbers DEF PipeOf, DInv, Bounded
<1> HIDE DEF r
<1>5. /\ q \in PipeRecord /\ q.refs = r.refs /\ q.active = r.active
      /\ Bytes(q) <= PipeSize /\ InOrder(q)
  BY <1>4, WriteKeepsOrder
<1>6. /\ IsPipe(t, fd) /\ state' = WakeUpTasks(state) /\ Returns(t) /\ UNCHANGED <<fds, files>>
      /\ pipes' = [pipes EXCEPT ![fds[t][fd].ptr] = q]
  BY DEF Write, PipeOf, r
<1> HIDE DEF q
<1> QED BY <1>5, <1>6, IoKeepsInvariant DEF r

(* A call that has to wait does so until its pipe changes.                 *)
LEMMA BlockingKeepsInvariant ==
    ASSUME DInv, NEW t \in Task, NEW c \in Calls, Blocks(t, c), MustWait(fds[t], pipes, c)
    PROVE  DInv'
<1>1. /\ state' = [state EXCEPT ![t] = "WAITING"] /\ call' = [call EXCEPT ![t] = c]
      /\ fds' = fds /\ pipes' = pipes /\ files' = files
  BY DEF Blocks
<1>2. /\ state \in [Task -> {"EMPTY", "RUNNING", "WAITING"}] /\ call \in [Task -> Calls]
      /\ Objects(fds', pipes', files')
  BY <1>1 DEF DInv
<1>3. state' \in [Task -> {"EMPTY", "RUNNING", "WAITING"}] /\ call' \in [Task -> Calls]
  BY <1>1, <1>2
<1>4. ASSUME NEW u \in Task, state'[u] = "WAITING" PROVE MustWait(fds'[u], pipes', call'[u])
  <2>1. CASE u = t
    <3>1. call'[u] = c /\ fds'[u] = fds[t] BY <1>1, <1>2, <2>1
    <3> QED BY <1>1, <3>1
  <2>2. CASE u # t
    <3>1. call'[u] = call[u] /\ state[u] = "WAITING" BY <1>1, <1>2, <1>4, <2>2
    <3> QED BY <1>1, <3>1 DEF DInv
  <2> QED BY <2>1, <2>2
<1>5. \A u \in Task : state'[u] = "EMPTY" => fds'[u] = NoneTable BY <1>1, <1>2 DEF DInv
<1>6. \A p \in Pipe : InOrder(pipes'[p]) BY <1>1 DEF DInv
<1> QED BY <1>2, <1>3, <1>4, <1>5, <1>6, InvariantAgain

(* The two counts of a pipe by the mode of the end.                        *)
LEMMA RefsByMode == \A p : Refs(p, READ) = p.refs[1] /\ Refs(p, WRITE) = p.refs[2]
BY DEF Refs, READ, WRITE

(* sys_read() of an empty pipe that still has writers: the reader sleeps.  *)
LEMMA ReadBlocksKeepsInvariant ==
    ASSUME DInv, NEW t \in Task, NEW fd \in Fd, NEW n \in ReadSizes, ReadBlocks(t, fd, n)
    PROVE  DInv'
<1> DEFINE p == fds[t][fd].ptr
           c == ReadCall(fd, n)
<1>1. c \in Calls /\ c.fd = fd /\ c.op = "read" BY DEF ReadCall, Calls
<1>2. fds[t][fd] \in Descriptor /\ fds[t][fd].type = "PIPE"
  BY RefNumbers DEF DInv, Tables, ReadBlocks, IsPipe
<1>3. p \in Pipe BY <1>2, DescriptorIsPipe
<1>4. Bytes(pipes[p]) = 0 /\ pipes[p].refs[2] > 0 BY RefsByMode DEF ReadBlocks, PipeOf
<1>5. pipes[p].active
  <2>1. InUse(pipes[p]) /\ pipes[p].refs[2] \in Nat BY <1>3, RefNumbers DEF DInv
  <2> QED BY <1>4, <2>1 DEF InUse
<1>6. MustWait(fds[t], pipes, c) BY <1>1, <1>2, <1>4, <1>5 DEF MustWait
<1> QED BY <1>1, <1>6, BlockingKeepsInvariant DEF ReadBlocks

(* sys_write() of a full pipe that still has readers: the writer sleeps.   *)
LEMMA WriteBlocksKeepsInvariant ==
    ASSUME DInv, NEW t \in Task, NEW fd \in Fd, NEW n \in WriteSizes, WriteBlocks(t, fd, n)
    PROVE  DInv'
<1> DEFINE p == fds[t][fd].ptr
           c == WriteCall(fd, n)
<1>1. c \in Calls /\ c.fd = fd /\ c.op = "write" BY DEF WriteCall, Calls
<1>2. fds[t][fd] \in Descriptor /\ fds[t][fd].type = "PIPE"
  BY RefNumbers DEF DInv, Tables, WriteBlocks, IsPipe
<1>3. p \in Pipe BY <1>2, DescriptorIsPipe
<1>4. Bytes(pipes[p]) >= PipeSize /\ pipes[p].refs[1] > 0 BY RefsByMode DEF WriteBlocks, PipeOf
<1>5. pipes[p] \in PipeRecord /\ InUse(pipes[p]) /\ Bytes(pipes[p]) <= PipeSize
  BY <1>3, RefNumbers DEF DInv, Bounded
<1>6. pipes[p].active BY <1>4, <1>5 DEF InUse
<1>7. Bytes(pipes[p]) = PipeSize
  <2>1. Bytes(pipes[p]) \in Int BY <1>5, PipePositions, SizesAssumption
  <2>2. PipeSize \in Int BY SizesAssumption
  <2> QED BY <1>4, <1>5, <2>1, <2>2
<1>8. MustWait(fds[t], pipes, c) BY <1>1, <1>2, <1>4, <1>6, <1>7 DEF MustWait
<1> QED BY <1>1, <1>8, BlockingKeepsInvariant DEF WriteBlocks

(* A call that returns with nothing done, or a blocked task made runnable. *)
LEMMA ReturnKeepsInvariant ==
    ASSUME DInv, NEW t \in Task, call' = call \/ (state[t] = "RUNNING" /\ Returns(t)),
           state' = state \/ (state' = [state EXCEPT ![t] = "RUNNING"] /\ state[t] = "WAITING"),
           UNCHANGED <<fds, pipes, files>>
    PROVE  DInv'
<1>1. /\ state \in [Task -> {"EMPTY", "RUNNING", "WAITING"}] /\ call \in [Task -> Calls]
      /\ Objects(fds', pipes', files') /\ pipes \in Pipes
  BY RefNumbers DEF DInv
<1>2. state' \in [Task -> {"EMPTY", "RUNNING", "WAITING"}] BY <1>1
<1>3. call' \in [Task -> Calls] BY <1>1, NoCallIsCall DEF Returns
<1>4. \A u \in Task : /\ state'[u] = "WAITING" =>
                           state[u] = "WAITING" /\ fds'[u] = fds[u] /\ call'[u] = call[u]
                      /\ state'[u] = "EMPTY" => state[u] = "EMPTY"
  BY <1>1 DEF Returns
<1>5. \A p \in Pipe : Roomier(pipes'[p], pipes[p]) BY <1>1, SameIsRoomier
<1>6. \A u \in Task : state'[u] = "WAITING" => MustWait(fds'[u], pipes', call'[u])
  BY <1>1, <1>4, <1>5, WaitersStay
<1>7. \A u \in Task : state'[u] = "EMPTY" => fds'[u] = NoneTable BY <1>4 DEF DInv
<1>8. \A p \in Pipe : InOrder(pipes'[p]) BY DEF DInv
<1> QED BY <1>1, <1>2, <1>3, <1>6, <1>7, <1>8, InvariantAgain

(* Dropping entries wakes whoever may have waited for them.                *)
LEMMA ReapKeepsInvariant ==
    ASSUME DInv, NEW t \in Task, ReapTask(t) PROVE DInv'
<1> DEFINE closedPipe == \E i \in Fd : IsPipe(t, i)
           others == IF closedPipe THEN WakeUpTasks(state) ELSE state
<1>1. /\ pipes' = ReleasePipes(pipes, fds[t], Fd) /\ files' = ReleaseFiles(files, fds[t], Fd)
      /\ state' = [u \in Task |-> IF u = t THEN "EMPTY" ELSE others[u]]
      /\ fds' = [fds EXCEPT ![t] = NoneTable] /\ call' = [call EXCEPT ![t] = NoCall]
  BY DEF ReapTask, NoneTable, Returns
<1>2. /\ state \in [Task -> {"EMPTY", "RUNNING", "WAITING"}] /\ call \in [Task -> Calls]
      /\ Objects(fds, pipes, files) /\ pipes \in Pipes /\ fds \in Tables
      /\ \A p \in Pipe : InOrder(pipes[p])
  BY RefNumbers DEF DInv
<1>3. Objects(fds', pipes', files') BY <1>1, <1>2, ReapKeepsObjects
<1>4. call' \in [Task -> Calls] BY <1>1, <1>2, NoCallIsCall
<1>5. /\ state' \in [Task -> {"EMPTY", "RUNNING", "WAITING"}]
      /\ \A u \in Task : /\ state'[u] = "WAITING" => ~closedPipe /\ u # t /\ state[u] = "WAITING"
                         /\ state'[u] = "EMPTY" => u = t \/ state[u] = "EMPTY"
  <2> HIDE DEF closedPipe
  <2> QED BY <1>1, <1>2 DEF WakeUpTasks
<1>6. \A u \in Task : u # t => fds'[u] = fds[u] /\ call'[u] = call[u] BY <1>1, <1>2 DEF Tables
<1>7. fds'[t] = NoneTable BY <1>1, <1>2 DEF Tables
<1>8. \A u \in Task : state'[u] = "EMPTY" => fds'[u] = NoneTable BY <1>5, <1>6, <1>7 DEF DInv
<1>9. \A p \in Pipe : InOrder(pipes'[p])
  <2>1. \A p \in Pipe : SameBytes(pipes'[p], pipes[p])
    BY <1>1, <1>2, ReleaseAll DEF Released
  <2> QED BY <1>2, <2>1, SameBytesInOrder
<1>10. \A u \in Task : state'[u] = "WAITING" => MustWait(fds'[u], pipes', call'[u])
  <2>1. CASE closedPipe BY <1>5, <2>1
  <2>2. CASE ~closedPipe
    <3>1. \A i \in Fd : fds[t][i].type # "PIPE" BY <2>2 DEF IsPipe
    <3>2. \A p \in Pipe : pipes'[p] = pipes[p] BY <1>1, <1>2, <3>1, ReleaseNothing
    <3>3. \A p \in Pipe : Roomier(pipes'[p], pipes[p]) BY <1>2, <3>2, SameIsRoomier
    <3> QED BY <1>3, <1>5, <1>6, <3>3, WaitersStay
  <2> QED BY <2>1, <2>2
<1> QED BY <1>3, <1>4, <1>5, <1>8, <1>9, <1>10, InvariantAgain

(* Closing an end of a pipe wakes everyone who waits on pipes.             *)
LEMMA PeersWake ==
    ASSUME NEW S \in [Task -> {"EMPTY", "RUNNING", "WAITING"}], NEW d
    PROVE  /\ WakeUpPeers(S, d) \in [Task -> {"EMPTY", "RUNNING", "WAITING"}]
           /\ \A u \in Task :
                /\ WakeUpPeers(S, d)[u] = "WAITING" => d.type # "PIPE" /\ S[u] = "WAITING"
                /\ WakeUpPeers(S, d)[u] = "EMPTY" => S[u] = "EMPTY"
BY DEF WakeUpPeers, WakeUpTasks

(* sys_close().                                                            *)
LEMMA CloseKeepsInvariant ==
    ASSUME DInv, NEW t \in Task, NEW fd \in Fd, Close(t, fd) PROVE DInv'
<1>1. /\ pipes' = ReleasePipes(pipes, fds[t], {fd}) /\ files' = ReleaseFiles(files, fds[t], {fd})
      /\ state' = WakeUpPeers(state, fds[t][fd]) /\ state[t] = "RUNNING" /\ call' = call
  BY DEF Close, Free
<1>2. /\ state \in [Task -> {"EMPTY", "RUNNING", "WAITING"}] /\ call \in [Task -> Calls]
      /\ Objects(fds, pipes, files) /\ pipes \in Pipes /\ fds \in Tables
      /\ \A p \in Pipe : InOrder(pipes[p])
  BY RefNumbers DEF DInv
<1>3. fds' = [fds EXCEPT ![t] = [fds[t] EXCEPT ![fd] = None]] BY <1>2 DEF Close, Tables
<1>4. Objects(fds', pipes', files') BY <1>1, <1>2, <1>3, CloseKeepsObjects
<1>5. /\ state' \in [Task -> {"EMPTY", "RUNNING", "WAITING"}]
      /\ \A u \in Task :
           /\ state'[u] = "WAITING" => fds[t][fd].type # "PIPE" /\ state[u] = "WAITING"
           /\ state'[u] = "EMPTY" => state[u] = "EMPTY"
  BY <1>1, <1>2, PeersWake
<1>6. \A u \in Task : u # t => fds'[u] = fds[u] BY <1>2, <1>3 DEF Tables
<1>7. \A u \in Task : state[u] \in {"EMPTY", "WAITING"} => u # t BY <1>1
<1>8. \A u \in Task : state'[u] = "EMPTY" => fds'[u] = NoneTable BY <1>5, <1>6, <1>7 DEF DInv
<1>9. {fd} \in SUBSET Fd OBVIOUS
<1>10. \A p \in Pipe : InOrder(pipes'[p])
  <2>1. \A p \in Pipe : SameBytes(pipes'[p], pipes[p])
    BY <1>1, <1>2, <1>9, ReleaseAll DEF Released
  <2> QED BY <1>2, <2>1, SameBytesInOrder
<1>11. \A u \in Task : state'[u] = "WAITING" => MustWait(fds'[u], pipes', call'[u])
  <2>1. CASE fds[t][fd].type = "PIPE" BY <1>5, <2>1
  <2>2. CASE fds[t][fd].type # "PIPE"
    <3>1. \A p \in Pipe : pipes'[p] = pipes[p] BY <1>1, <1>2, <1>9, <2>2, ReleaseNothing
    <3>2. \A p \in Pipe : Roomier(pipes'[p], pipes[p]) BY <1>2, <3>1, SameIsRoomier
    <3> QED BY <1>1, <1>4, <1>5, <1>6, <1>7, <3>2, WaitersStay
  <2> QED BY <2>1, <2>2
<1>12. call' \in [Task -> Calls] BY <1>1, <1>2
<1> QED BY <1>4, <1>5, <1>8, <1>10, <1>11, <1>12, InvariantAgain

(* sys_dup2(), which closes what the new descriptor was.                   *)
LEMMA Dup2KeepsInvariant ==
    ASSUME DInv, NEW t \in Task, NEW oldfd \in Fd, NEW newfd \in Fd, Dup2(t, oldfd, newfd)
    PROVE  DInv'
<1> DEFINE R == ReleasePipes(pipes, fds[t], {newfd})
<1>1. /\ pipes' = AcquirePipes(R, fds[t], {oldfd}) /\ oldfd # newfd
      /\ files' = AcquireFiles(ReleaseFiles(files, fds[t], {newfd}), fds[t], {oldfd})
      /\ state' = WakeUpPeers(state, fds[t][newfd]) /\ state[t] = "RUNNING" /\ call' = call
  BY DEF Dup2, Free
<1>2. /\ state \in [Task -> {"EMPTY", "RUNNING", "WAITING"}] /\ call \in [Task -> Calls]
      /\ Objects(fds, pipes, files) /\ pipes \in Pipes /\ fds \in Tables
      /\ \A p \in Pipe : InOrder(pipes[p])
  BY RefNumbers DEF DInv
<1>3. fds' = [fds EXCEPT ![t] = [fds[t] EXCEPT ![newfd] = fds[t][oldfd]]]
  BY <1>2 DEF Dup2, Tables
<1>4. Objects(fds', pipes', files') BY <1>1, <1>2, <1>3, Dup2KeepsObjects
<1>5. /\ state' \in [Task -> {"EMPTY", "RUNNING", "WAITING"}]
      /\ \A u \in Task :
           /\ state'[u] = "WAITING" => fds[t][newfd].type # "PIPE" /\ state[u] = "WAITING"
           /\ state'[u] = "EMPTY" => state[u] = "EMPTY"
  BY <1>1, <1>2, PeersWake
<1>6. \A u \in Task : u # t => fds'[u] = fds[u] BY <1>2, <1>3 DEF Tables
<1>7. \A u \in Task : state[u] \in {"EMPTY", "WAITING"} => u # t BY <1>1
<1>8. \A u \in Task : state'[u] = "EMPTY" => fds'[u] = NoneTable BY <1>5, <1>6, <1>7 DEF DInv
<1>9. {newfd} \in SUBSET Fd /\ {oldfd} \in SUBSET Fd OBVIOUS
<1>10. R \in Pipes /\ \A p \in Pipe : SameBytes(R[p], pipes[p])
  BY <1>2, <1>9, ReleaseAll DEF Released
<1> HIDE DEF R
<1>11. \A p \in Pipe : Roomier(pipes'[p], R[p]) BY <1>1, <1>9, <1>10, AcquireIsRoomier
<1>12. \A p \in Pipe : InOrder(pipes'[p])
  <2>1. \A p \in Pipe : InOrder(R[p]) BY <1>2, <1>10, SameBytesInOrder
  <2> QED BY <1>11, <2>1, SameBytesInOrder DEF Roomier
<1>13. \A u \in Task : state'[u] = "WAITING" => MustWait(fds'[u], pipes', call'[u])
  <2>1. CASE fds[t][newfd].type = "PIPE" BY <1>5, <2>1
  <2>2. CASE fds[t][newfd].type # "PIPE"
    <3>1. \A p \in Pipe : R[p] = pipes[p] BY <1>2, <1>9, <2>2, ReleaseNothing DEF R
    <3>2. \A p \in Pipe : Roomier(pipes'[p], pipes[p]) BY <1>11, <3>1
    <3> QED BY <1>1, <1>4, <1>5, <1>6, <1>7, <3>2, WaitersStay
  <2> QED BY <2>1, <2>2
<1>14. call' \in [Task -> Calls] BY <1>1, <1>2
<1> QED BY <1>4, <1>5, <1>8, <1>12, <1>13, <1>14, InvariantAgain

(* A new task shares what its creator holds; nothing gets less.            *)
LEMMA SpawnKeepsInvariant ==
    ASSUME DInv, NEW t \in Task, NEW child \in Task, Spawn(t, child) PROVE DInv'
<1> DEFINE I == Inherited(fds[t])
<1>1. /\ state[child] = "EMPTY" /\ state' = [state EXCEPT ![child] = "RUNNING"]
      /\ fds' = [fds EXCEPT ![child] = [i \in Fd |-> IF i \in I THEN fds[t][i] ELSE None]]
      /\ pipes' = AcquirePipes(pipes, fds[t], I) /\ files' = AcquireFiles(files, fds[t], I)
      /\ call' = call
  BY DEF Spawn
<1>2. /\ state \in [Task -> {"EMPTY", "RUNNING", "WAITING"}] /\ call \in [Task -> Calls]
      /\ Objects(fds, pipes, files) /\ pipes \in Pipes /\ fds \in Tables
      /\ \A p \in Pipe : InOrder(pipes[p])
  BY RefNumbers DEF DInv
<1>3. I \in SUBSET Fd BY DEF Inherited
<1> HIDE DEF I
<1>4. fds[child] = NoneTable BY <1>1 DEF DInv
<1>5. Objects(fds', pipes', files') BY <1>1, <1>2, <1>3, <1>4, SpawnKeepsObjects
<1>6. /\ state' \in [Task -> {"EMPTY", "RUNNING", "WAITING"}]
      /\ \A u \in Task : /\ state'[u] = "WAITING" => state[u] = "WAITING"
                         /\ state'[u] = "EMPTY" => state[u] = "EMPTY" /\ u # child
  BY <1>1, <1>2
<1>7. \A u \in Task : u # child => fds'[u] = fds[u] BY <1>1, <1>2 DEF Tables
<1>8. \A u \in Task : state'[u] = "EMPTY" => fds'[u] = NoneTable BY <1>6, <1>7 DEF DInv
<1>9. \A p \in Pipe : Roomier(pipes'[p], pipes[p]) BY <1>1, <1>2, <1>3, AcquireIsRoomier
<1>10. \A p \in Pipe : InOrder(pipes'[p]) BY <1>2, <1>9, SameBytesInOrder DEF Roomier
<1>11. \A u \in Task : state[u] = "WAITING" => u # child BY <1>1
<1>12. \A u \in Task : state'[u] = "WAITING" => MustWait(fds'[u], pipes', call'[u])
  BY <1>1, <1>5, <1>6, <1>7, <1>9, <1>11, WaitersStay
<1>13. call' \in [Task -> Calls] BY <1>1, <1>2
<1> QED BY <1>5, <1>6, <1>8, <1>10, <1>12, <1>13, InvariantAgain

(* A running task gets descriptors of new objects.                         *)
LEMMA NewObjectKeepsInvariant ==
    ASSUME DInv, NEW t \in Task, state[t] = "RUNNING", Objects(fds', pipes', files'),
           \A u \in Task : u # t => fds'[u] = fds[u],
           \A p \in Pipe : pipes'[p] = pipes[p] \/ (~pipes[p].active /\ Bytes(pipes'[p]) = 0),
           UNCHANGED <<state, call>>
    PROVE  DInv'
<1>1. pipes \in Pipes /\ \A p \in Pipe : InOrder(pipes[p]) BY RefNumbers DEF DInv
<1>2. \A p \in Pipe : pipes[p].active => Roomier(pipes'[p], pipes[p]) BY <1>1, SameIsRoomier
<1>3. \A u \in Task : state'[u] \in {"EMPTY", "WAITING"} =>
          state[u] = state'[u] /\ fds'[u] = fds[u] /\ call'[u] = call[u]
  OBVIOUS
<1>4. \A u \in Task : state'[u] = "WAITING" => MustWait(fds'[u], pipes', call'[u])
  BY <1>2, <1>3, WaitersStay
<1>5. \A u \in Task : state'[u] = "EMPTY" => fds'[u] = NoneTable BY <1>3 DEF DInv
<1>6. ASSUME NEW p \in Pipe PROVE InOrder(pipes'[p])
  <2>1. CASE pipes'[p] = pipes[p] BY <1>1, <2>1
  <2>2. CASE Bytes(pipes'[p]) = 0 BY <2>2 DEF InOrder
  <2> QED BY <2>1, <2>2
<1>7. state' \in [Task -> {"EMPTY", "RUNNING", "WAITING"}] /\ call' \in [Task -> Calls] BY DEF DInv
<1> QED BY <1>4, <1>5, <1>6, <1>7, InvariantAgain

(* The lowest free descriptor is free.                                     *)
LEMMA FreeFdsAreFree ==
    ASSUME NEW t \in Task, NEW S \in SUBSET FreeFds(t), S # {}
    PROVE  Min(S) \in S /\ Min(S) \in Fd /\ fds[t][Min(S)] = None
<1>1. S \subseteq Nat /\ \A i \in S : i \in Fd /\ fds[t][i] = None BY DEF FreeFds, Fd
<1>2. Min(S) \in S BY <1>1, MinOf
<1> QED BY <1>1, <1>2

(* sys_open().                                                             *)
LEMMA OpenKeepsInvariant ==
    ASSUME DInv, NEW t \in Task, NEW f \in File, NEW mode \in OpenModes, Open(t, f, mode)
    PROVE  DInv'
<1> DEFINE fd == Min(FreeFds(t))
           dirty == mode = WRITE
<1>1. /\ state[t] = "RUNNING" /\ FreeFds(t) # {} /\ files[f].refs = 0
      /\ files' = [files EXCEPT ![f] = [refs |-> 1, dirty |-> dirty]]
      /\ fds' = [fds EXCEPT ![t][fd] = OpenFile(f, mode)]
      /\ pipes' = pipes /\ UNCHANGED <<state, call>>
  BY DEF Open, Free
<1>2. fd \in Fd /\ fds[t][fd] = None BY <1>1, FreeFdsAreFree
<1>3. dirty \in BOOLEAN OBVIOUS
<1> HIDE DEF fd, dirty
<1>4. Objects(fds, pipes, files) /\ fds \in Tables BY RefNumbers DEF DInv
<1>5. fds' = [fds EXCEPT ![t] = [fds[t] EXCEPT ![fd] = OpenFile(f, mode)]]
  BY <1>1, <1>2, <1>4 DEF Tables
<1>6. mode \in {READ, WRITE} BY SizesAssumption DEF READ, WRITE
<1>7. Objects(fds', pipes', files')
  <2>1. files[f].refs = 0 BY <1>1
  <2>2. Objects([fds EXCEPT ![t] = [fds[t] EXCEPT ![fd] = OpenFile(f, mode)]],
                pipes, [files EXCEPT ![f] = [refs |-> 1, dirty |-> dirty]])
    BY <1>2, <1>3, <1>4, <1>6, <2>1, OpenKeepsObjects
  <2> QED BY <1>1, <1>5, <2>2
<1>8. \A u \in Task : u # t => fds'[u] = fds[u] BY <1>4, <1>5 DEF Tables
<1> QED BY <1>1, <1>7, <1>8, NewObjectKeepsInvariant

(* sys_pipe(), with and without room for both descriptors.                 *)
LEMMA PipeCallKeepsInvariant ==
    ASSUME DInv, NEW t \in Task, PipeCall(t) PROVE DInv'
<1> DEFINE idle == {p \in Pipe : ~pipes[p].active}
           p == Min(idle)
           fd1 == Min(FreeFds(t))
           fd2 == Min(FreeFds(t) \ {fd1})
           two == Cardinality(FreeFds(t)) >= 2
<1>1. /\ state[t] = "RUNNING" /\ idle # {} /\ files' = files /\ UNCHANGED <<state, call>>
      /\ two => /\ pipes' = [pipes EXCEPT ![p] = CreatePipe(pipes[p])]
                /\ fds' = [fds EXCEPT ![t][fd1] = PipeEnd(p, READ), ![t][fd2] = PipeEnd(p, WRITE)]
      /\ ~two => pipes' = [pipes EXCEPT ![p] = DestroyPipe(CreatePipe(pipes[p]))] /\ fds' = fds
  BY DEF PipeCall, Free
<1>2. p \in Pipe /\ ~pipes[p].active
  <2>1. idle \subseteq Nat BY DEF Pipe
  <2>2. p \in idle BY <1>1, <2>1, MinOf
  <2> QED BY <2>2
<1>3. /\ Objects(fds, pipes, files) /\ fds \in Tables /\ pipes \in Pipes
      /\ pipes[p] \in PipeRecord
  BY <1>2, RefNumbers DEF DInv
<1> HIDE DEF p, idle
<1>4. CASE two
  <2>1. FreeFds(t) # {} /\ FreeFds(t) \ {fd1} # {}
    <3>1. IsFiniteSet(FreeFds(t)) BY FdIsFinite, FS_Subset DEF FreeFds
    <3>2. ASSUME NEW x, FreeFds(t) \in SUBSET {x} PROVE Cardinality(FreeFds(t)) <= 1
      <4>1. IsFiniteSet({x}) /\ Cardinality({x}) = 1 BY FS_Singleton
      <4>2. Cardinality(FreeFds(t)) <= Cardinality({x}) BY <3>2, <4>1, FS_Subset
      <4> QED BY <4>1, <4>2
    <3>3. Cardinality(FreeFds(t)) \in Nat BY <3>1, FS_CardinalityType
    <3>4. \A x : ~(FreeFds(t) \subseteq {x}) BY <1>4, <3>2, <3>3
    <3> QED BY <3>4
  <2>2. fd1 \in Fd /\ fds[t][fd1] = None BY <2>1, FreeFdsAreFree
  <2>3. FreeFds(t) \ {fd1} \in SUBSET FreeFds(t) OBVIOUS
  <2>4. fd2 \in FreeFds(t) \ {fd1} /\ fd2 \in Fd /\ fds[t][fd2] = None
    BY <2>1, <2>3, FreeFdsAreFree
  <2>5. fd1 # fd2 BY <2>4
  <2> HIDE DEF fd1, fd2, two
  <2>6. fds' = [fds EXCEPT ![t] = [fds[t] EXCEPT ![fd1] = PipeEnd(p, READ),
                                                 ![fd2] = PipeEnd(p, WRITE)]]
    BY <1>1, <1>3, <1>4, <2>2, <2>4, <2>5 DEF Tables
  <2>7. pipes' = [pipes EXCEPT ![p] = CreatePipe(pipes[p])] BY <1>1, <1>4
  <2>8. Objects(fds', pipes', files')
    BY <1>1, <1>2, <1>3, <2>2, <2>4, <2>5, <2>6, <2>7, PipeKeepsObjects
  <2>9. \A u \in Task : u # t => fds'[u] = fds[u] BY <1>3, <2>6 DEF Tables
  <2>10. \A q \in Pipe : pipes'[q] = IF q = p THEN CreatePipe(pipes[p]) ELSE pipes[q]
    BY <1>3, <2>7 DEF Pipes
  <2>11. \A q \in Pipe : pipes'[q] = pipes[q] \/ (~pipes[q].active /\ Bytes(pipes'[q]) = 0)
    BY <1>2, <1>3, <2>10, NewPipe
  <2> QED BY <1>1, <2>8, <2>9, <2>11, NewObjectKeepsInvariant
<1>5. CASE ~two
  <2> HIDE DEF two
  <2>1. pipes' = [pipes EXCEPT ![p] = DestroyPipe(CreatePipe(pipes[p]))] /\ fds' = fds
    BY <1>1, <1>5
  <2>2. Objects(fds', pipes', files') BY <1>1, <1>2, <1>3, <2>1, PipeFailsKeepsObjects
  <2>3. \A q \in Pipe : pipes'[q] = IF q = p THEN DestroyPipe(CreatePipe(pipes[p])) ELSE pipes[q]
    BY <1>3, <2>1 DEF Pipes
  <2>4. \A q \in Pipe : pipes'[q] = pipes[q] \/ (~pipes[q].active /\ Bytes(pipes'[q]) = 0)
    BY <1>2, <1>3, <2>3, NewPipe
  <2> QED BY <1>1, <2>1, <2>2, <2>4, NewObjectKeepsInvariant
<1> QED BY <1>4, <1>5

---------------------------------------------------------------------------
(* The invariant holds when the first task runs.                           *)
LEMMA InitialInvariant == Init => DInv
<1> SUFFICES ASSUME Init PROVE DInv OBVIOUS
<1>1. PICK first \in Task :
        /\ state = [t \in Task |-> IF t = first THEN "RUNNING" ELSE "EMPTY"]
        /\ fds = [t \in Task |-> [i \in Fd |->
                     IF t = first /\ i < FirstFd THEN Console ELSE None]]
  BY DEF Init
<1>2. /\ Wrap \in Nat \ {0} /\ 0 \in 0..Wrap - 1 /\ PipeSize \in Nat
      /\ (0 - 0) % Wrap = 0
  BY SizesAssumption, ModDifference
<1>3. ASSUME NEW p \in Pipe
      PROVE  /\ pipes[p] \in PipeRecord /\ Bytes(pipes[p]) = 0 /\ InUse(pipes[p])
             /\ pipes[p].refs[1] = 0 /\ pipes[p].refs[2] = 0
  <2>1. pipes[p] = [active |-> FALSE, head |-> 0, tail |-> 0,
                    buffer |-> [i \in 0..PipeSize - 1 |-> 0], refs |-> <<0, 0>>]
    BY DEF Init
  <2>2. pipes[p] \in PipeRecord BY <1>2, <2>1 DEF PipeRecord
  <2>3. Bytes(pipes[p]) = 0 BY <1>2, <2>1 DEF Bytes
  <2> QED BY <2>1, <2>2, <2>3 DEF InUse
<1>4. fds \in Tables BY <1>1 DEF Tables, Descriptor
<1>5. pipes \in Pipes
  <2>1. pipes = [p \in Pipe |-> pipes[p]] BY DEF Init
  <2> QED BY <1>3, <2>1 DEF Pipes
<1>6. files \in Files /\ \A f \in File : files[f].refs = 0 BY DEF Init, Files, FreeFile
<1>7. ASSUME NEW D, None \notin D, Console \notin D PROVE Cardinality(Held(fds, D)) = 0
  <2>1. Held(fds, D) = {} BY <1>1, <1>7 DEF Held
  <2> QED BY <2>1, FS_EmptySet
<1>8. /\ \A p \in Pipe : /\ None \notin Reading(p) /\ Console \notin Reading(p)
                         /\ None \notin Writing(p) /\ Console \notin Writing(p)
      /\ \A f \in File : None \notin FileEnds(f) /\ Console \notin FileEnds(f)
  BY DEF None, Console, Reading, Writing, FileEnds, PipeEnd, OpenFile
<1>9. Exact(fds, pipes, files) BY <1>3, <1>6, <1>7, <1>8 DEF Exact
<1>10. Bounded(pipes) BY <1>2, <1>3 DEF Bounded
<1>11. Objects(fds, pipes, files) BY <1>4, <1>5, <1>6, <1>9, <1>10 DEF Objects
<1>12. \A p \in Pipe : InOrder(pipes[p]) BY <1>3 DEF InOrder
<1>13. state \in [Task -> {"EMPTY", "RUNNING", "WAITING"}] /\ \A t \in Task : state[t] # "WAITING"
  BY <1>1
<1>14. \A t \in Task : state[t] = "EMPTY" => fds[t] = NoneTable BY <1>1 DEF NoneTable
<1>15. call \in [Task -> Calls] BY NoCallIsCall DEF Init
<1> QED BY <1>11, <1>12, <1>13, <1>14, <1>15 DEF DInv

(* Every call keeps the invariant.                                         *)
LEMMA StepKeepsInvariant == DInv /\ [Next]_vars => DInv'
<1> SUFFICES ASSUME DInv, [Next]_vars PROVE DInv' OBVIOUS
<1>1. CASE UNCHANGED vars
  <2>1. state' = state /\ call' = call /\ fds' = fds /\ pipes' = pipes /\ files' = files
    BY <1>1 DEF vars
  <2> QED BY <2>1, InvariantAgain DEF DInv
<1>2. ASSUME NEW t \in Task, NEW fd \in Fd, NEW n \in ReadSizes,
             Read(t, fd, n) \/ ReadAtEnd(t, fd, n) \/ ReadBlocks(t, fd, n)
      PROVE  DInv'
  <2>1. n \in Nat BY SizesAssumption
  <2>2. CASE Read(t, fd, n) BY <2>1, <2>2, ReadKeepsInvariant
  <2>3. CASE ReadAtEnd(t, fd, n) BY <2>3, ReturnKeepsInvariant DEF ReadAtEnd, Makes
  <2>4. CASE ReadBlocks(t, fd, n) BY <2>4, ReadBlocksKeepsInvariant
  <2> QED BY <1>2, <2>2, <2>3, <2>4
<1>3. ASSUME NEW t \in Task, NEW fd \in Fd, NEW n \in WriteSizes,
             Write(t, fd, n) \/ WriteBroken(t, fd, n) \/ WriteBlocks(t, fd, n)
      PROVE  DInv'
  <2>1. n \in Nat BY SizesAssumption
  <2>2. CASE Write(t, fd, n) BY <2>1, <2>2, WriteKeepsInvariant
  <2>3. CASE WriteBroken(t, fd, n)
    BY <2>3, ReapKeepsInvariant, ReturnKeepsInvariant DEF WriteBroken, Makes
  <2>4. CASE WriteBlocks(t, fd, n) BY <2>4, WriteBlocksKeepsInvariant
  <2> QED BY <1>3, <2>2, <2>3, <2>4
<1>4. ASSUME NEW t \in Task, StopAndContinue(t) PROVE DInv'
  BY <1>4, ReturnKeepsInvariant DEF StopAndContinue
<1>5. ASSUME NEW t \in Task, Die(t) PROVE DInv' BY <1>5, ReapKeepsInvariant DEF Die
<1> QED
  BY <1>1, <1>2, <1>3, <1>4, <1>5, PipeCallKeepsInvariant, OpenKeepsInvariant,
     Dup2KeepsInvariant, CloseKeepsInvariant, SpawnKeepsInvariant DEF Next

(* In every reachable state of the descriptor tables, pipes and open files *)
(* every reference count is the number of entries that refer to the        *)
(* object, no pipe holds more than its buffer, and a task that is gone     *)
(* holds nothing: pipe(), open(), dup2(), close(), fork(), exit and kill   *)
(* keep their hand-written counts right in any order.                      *)
THEOREM CountsStayExact == Spec => []DescriptorsAreSound
<1>1. Spec => []DInv BY InitialInvariant, StepKeepsInvariant, PTL DEF Spec
<1> QED BY <1>1, InvariantMeans, PTL

(* No task stays blocked in a pipe read or write that could proceed: every *)
(* step that moves bytes or drops an end of a pipe wakes whoever waits,    *)
(* and no other step makes a blocked call possible.                        *)
THEOREM WakeupsAreNotLost == Spec => []NoLostWakeup
<1>1. Spec => []DInv BY InitialInvariant, StepKeepsInvariant, PTL DEF Spec
<1> QED BY <1>1, InvariantMeans, PTL

(* A pipe delivers what was written, each byte once and in order, for      *)
(* every buffer size that divides the wrap of its position counters.       *)
THEOREM PipesAreQueues == Spec => []BytesInOrder
<1>1. Spec => []DInv BY InitialInvariant, StepKeepsInvariant, PTL DEF Spec
<1> QED BY <1>1, InvariantMeans, PTL
============================================================================
