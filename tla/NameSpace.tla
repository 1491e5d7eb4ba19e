------------------------------ MODULE NameSpace ------------------------------
(***************************************************************************)
(* What a file system promises its callers: a tree of names with the sizes *)
(* of its files, changed by each create, unlink or write at one instant    *)
(* between its call and its return.  Nothing else changes the tree: there  *)
(* are no caches, blocks, inode numbers or records in it.                  *)
(***************************************************************************)
EXTENDS Naturals

CONSTANTS Procs, Paths, Root, Welcome, Parent, Kind, FileSizes

VARIABLES tree,     \* the names that exist
          size,     \* size[p]: the size of the file p
          pending   \* pending[i]: i's call, and whether it has had its effect

nsvars == <<tree, size, pending>>

None(code) == [op |-> "none", path |-> Root, done |-> FALSE, ret |-> code]

NInit == /\ tree = {Root, Welcome}
         /\ size = [p \in Paths |-> IF p = Welcome THEN 1 ELSE 0]
         /\ pending = [i \in Procs |-> None("none")]

Call(i, op, p) ==
  /\ pending[i].op = "none"
  /\ op = "create" => p \notin tree
  /\ op # "create" => p \in tree /\ Kind[p] = "file"
  /\ pending' = [pending EXCEPT ![i] =
                  [op |-> op, path |-> p, done |-> FALSE, ret |-> "none"]]
  /\ UNCHANGED <<tree, size>>

\* A name appears, in a directory that is there, as an empty file.
Appear(i) ==
  LET p == pending[i].path IN
  /\ pending[i].op = "create" /\ ~pending[i].done
  /\ p \notin tree /\ Parent[p] \in tree
  /\ tree' = tree \cup {p}
  /\ pending' = [pending EXCEPT ![i].done = TRUE]
  /\ UNCHANGED size

\* unlink takes effect as it returns.
Vanish(i) ==
  LET p == pending[i].path IN
  /\ pending[i].op = "unlink" /\ p \in tree
  /\ tree' = tree \ {p}
  /\ size' = [size EXCEPT ![p] = 0]
  /\ pending' = [pending EXCEPT ![i] = None("ok")]

SetSize(i) ==
  /\ pending[i].op = "write" /\ ~pending[i].done
  /\ \E n \in FileSizes : size' = [size EXCEPT ![pending[i].path] = n]
  /\ pending' = [pending EXCEPT ![i].done = TRUE]
  /\ UNCHANGED tree

\* Success after the effect; a create without room fails without any.
Answer(i) ==
  /\ \/ /\ pending[i].op \in {"create", "write"} /\ pending[i].done
        /\ pending' = [pending EXCEPT ![i] = None("ok")]
     \/ /\ pending[i].op = "create" /\ ~pending[i].done
        /\ pending' = [pending EXCEPT ![i] = None("ENOSPC")]
  /\ UNCHANGED <<tree, size>>

NNext == \E i \in Procs :
           \/ \E op \in {"create", "unlink", "write"}, p \in Paths : Call(i, op, p)
           \/ Appear(i) \/ Vanish(i) \/ SetSize(i) \/ Answer(i)

NSpec == NInit /\ [][NNext]_nsvars
=============================================================================
