----------------------------- MODULE MCTreeWalk -----------------------------
(* The disks of MCBTree under a walk.                                      *)
EXTENDS TreeWalk, MCBTree
=============================================================================
