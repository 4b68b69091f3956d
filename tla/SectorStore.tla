---------------------------- MODULE SectorStore ----------------------------
(***************************************************************************)
(* What the block cache of fs/bcache.c promises to the file system above   *)
(* it, with the cache left out.  Every sector has one current value, the   *)
(* last write that was accepted, and one durable value, what the device    *)
(* holds.  The durable value only ever moves by catching up with the       *)
(* current one, and an E_OK from a flush means it has caught up            *)
(* everywhere.  A power loss leaves the durable values, after the flush    *)
(* that may have been under way has caught up on some of the sectors.      *)
(***************************************************************************)
EXTENDS Naturals

CONSTANTS Key, Data

VARIABLES current,   \* what a read returns
          durable,   \* what is on the device
          reply      \* what the last call promised its caller

vars == <<current, durable, reply>>

None == [op |-> "none"]

(* Some sectors, not said which, are written through; the others stay. *)
CatchUp(target) == /\ durable' \in [Key -> Data]
                   /\ \A k \in Key : durable'[k] \in {durable[k], target[k]}

Init == /\ durable \in [Key -> Data]
        /\ current = durable
        /\ reply = None

Read(k) == /\ current' = current
           /\ CatchUp(current)
           /\ reply' = [op |-> "read", key |-> k, data |-> current[k]]

Write(k, v) == /\ current' = [current EXCEPT ![k] = v]
               /\ CatchUp(current')
               /\ reply' = [op |-> "write"]

Sync == /\ current' = current
        /\ durable' = current
        /\ reply' = [op |-> "sync"]

(* A call that failed, or housekeeping nobody asked for. *)
Other == /\ current' = current
         /\ CatchUp(current)
         /\ reply' = None

PowerLoss == /\ CatchUp(current)
             /\ current' = durable'
             /\ reply' = None

(* The power goes while the write-behind of an accepted write is running. *)
PowerLossInWrite(k, v) == /\ CatchUp([current EXCEPT ![k] = v])
                          /\ current' = durable'
                          /\ reply' = None

Next == \/ \E k \in Key : Read(k)
        \/ \E k \in Key, v \in Data : Write(k, v) \/ PowerLossInWrite(k, v)
        \/ Sync
        \/ Other
        \/ PowerLoss

Spec == Init /\ [][Next]_vars
=============================================================================
