----------------------------- MODULE MCSimpleFs -----------------------------
(* Small instances of simplefs for TLC.                                    *)
EXTENDS SimpleFsProps, TLC

CONSTANTS p1, p2, nRoot, nWelcome, nFile, nDir, nInner

\* A file and a directory beside the file of mkfs, and a file in the directory.
TreeParent == (nWelcome :> nRoot) @@ (nFile :> nRoot) @@ (nDir :> nRoot) @@ (nInner :> nDir)
TreeKind   == (nRoot :> "dir") @@ (nWelcome :> "file") @@ (nFile :> "file") @@
              (nDir :> "dir") @@ (nInner :> "file")
SmallParent == (nWelcome :> nRoot) @@ (nDir :> nRoot) @@ (nInner :> nDir)
SmallKind   == (nRoot :> "dir") @@ (nWelcome :> "file") @@ (nDir :> "dir") @@
               (nInner :> "file")
\* One process changes the tree, the other writes to its files.
OwnerMay  == (p1 :> {"create", "unlink"}) @@ (p2 :> {"write"})
\* Both create and write.
GrowMay   == (p1 :> {"create", "write"}) @@ (p2 :> {"create", "write"})
\* Where both may do the same and get signals, they may be exchanged.
AlikeProcs == Permutations(Procs)
=============================================================================
