------------------------------ MODULE FileTree ------------------------------
(***************************************************************************)
(* What the file system promises its callers: a tree of named nodes, calls *)
(* that act on it in one step, and durability.  A node that was left alone *)
(* since the last sync is there again, unchanged, after a power loss from  *)
(* which the disk still mounts.  Nothing is promised for the others, and   *)
(* nothing of what may be done with a disk that lost power.                *)
(*                                                                         *)
(* A key is a pair of a directory id and a name; id 0 is the root.         *)
(***************************************************************************)
CONSTANTS Names,     \* the names an entry may have
          Contents,  \* the contents a file may have
          Scratch    \* Scratch[n]: the name an update of n works under

VARIABLES tree,      \* key -> [id, dir, content]; content is {} where there is none to read
          safe,      \* the keys left alone since the last sync
          up         \* FALSE once power was lost

vars == <<tree, safe, up>>

Ids == {0} \cup {tree[k].id : k \in DOMAIN tree}

IsDir(d) == d = 0 \/ \E k \in DOMAIN tree : tree[k].id = d /\ tree[k].dir

\* The tree without the keys of K, and with the node x at key k.
Without(K) == [k \in DOMAIN tree \ K |-> tree[k]]
With(k, x) == [j \in DOMAIN tree \cup {k} |-> IF j = k THEN x ELSE tree[j]]

Empty(k) == \A j \in DOMAIN tree : j[1] # tree[k].id

Init == tree = << >> /\ safe = {} /\ up = TRUE

\* A file or a directory appears under a name that was free, with an id that was.
Make(k) ==
    /\ k \notin DOMAIN tree /\ IsDir(k[1])
    /\ k \in DOMAIN tree'
    /\ tree'[k].id \notin Ids
    /\ tree' = With(k, tree'[k])
    /\ safe' = safe \ {k}

\* A file goes, or a directory nothing is left in.
Remove(k) ==
    /\ k \in DOMAIN tree /\ Empty(k)
    /\ tree' = Without({k})
    /\ safe' = safe \ {k}

\* A node gets another name in the same directory, where that name was free.
Rename(k, n) ==
    /\ k \in DOMAIN tree /\ <<k[1], n>> \notin DOMAIN tree
    /\ tree' = [j \in (DOMAIN tree \ {k}) \cup {<<k[1], n>>} |->
                    IF j = <<k[1], n>> THEN tree[k] ELSE tree[j]]
    /\ safe' = safe \ {k}

\* The whole contents of a node are replaced; what stood under the scratch name
\* of the node is used up, and so is the node itself if that is its own name.
Update(k, c) ==
    LET t == <<k[1], Scratch[k[2]]>> IN
    /\ k \in DOMAIN tree
    /\ t \in DOMAIN tree => Empty(t)
    /\ tree' = [j \in DOMAIN tree \ {t} |->
                    IF j = k THEN [tree[k] EXCEPT !.content = {c}] ELSE tree[j]]
    /\ safe' = safe \ {k, t}

Sync == tree' = tree /\ safe' = DOMAIN tree

\* The machine comes up again with at least what was safe, or the disk is refused
\* and stays as it is.
PowerLoss ==
    /\ up' = FALSE
    /\ safe' = safe
    /\ \/ tree' = tree
       \/ \A k \in safe : k \in DOMAIN tree' /\ tree'[k] = tree[k]

Next ==
    /\ up = TRUE
    /\ \/ /\ up' = up
          /\ \/ Sync
             \/ \E k \in DOMAIN tree' : Make(k)
             \/ \E k \in DOMAIN tree :
                    \/ Remove(k)
                    \/ \E n \in Names : Rename(k, n)
                    \/ \E c \in Contents : Update(k, c)
       \/ PowerLoss

Spec == Init /\ [][Next]_vars
=============================================================================
