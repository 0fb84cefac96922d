----------------------------- MODULE MCPidFile -----------------------------
(* PidFile with three processes and four inodes; both sets are symmetric.    *)
EXTENDS PidFile, TLC

Symmetry == Permutations(Proc) \cup Permutations(Inode)
=============================================================================
