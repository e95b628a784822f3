--------------------------- MODULE MCFixWorkspace ---------------------------
(* Bounded instances of FixWorkspace: two files, two texts, one command.   *)
(* The texts are interchangeable and so are the files.                     *)
EXTENDS FixWorkspace, TLC

Symmetric == Permutations(File) \cup Permutations(Content)
=============================================================================
