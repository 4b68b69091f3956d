------------------------------- MODULE MCVfs --------------------------------
EXTENDS Vfs

\* t has 59 characters, u is t and ".tmp": the temporary name of t is u, and the
\* temporary name of u, cut to 59 characters first, is u itself.
MCNames == {"t", "u"}
MCTmpName == [t |-> "u", u |-> "u"]

\* Where power is not lost nothing depends on what free clusters hold, nor on the
\* parent a free slot remembers unless a handle stands on it.
View ==
    <<IF risk THEN fs
      ELSE <<[i \in Slots |->
                IF fs.dir[i].used \/ \E h \in Handles : handle[h].idx = i
                THEN fs.dir[i] ELSE 0],
             fs.fat,
             [c \in Clusters |-> IF fs.fat[c] # FAT_FREE THEN fs.data[c] ELSE 0]>>,
      tree,
      handle, level, up, risk, pending, calls, safe>>
=============================================================================
