---------------------------- MODULE MCSkillSync ----------------------------
(* Values of SkillSync's constants for TLC.  A revision is its package.     *)
EXTENDS SkillSync, TLC

CONSTANTS a, b, old, new  \* two paths and two published contents

Tree(x, y) == [n \in Paths \union TempNames |->
                 IF n = a THEN x ELSE IF n = b THEN y ELSE Absent]

MCRevisions == [Paths \union TempNames -> Published \union Drafts \union {BindingBytes, Absent}]
MCFiles == [r \in MCRevisions |-> r]
MCFirst == Tree(old, old)
Interchangeable == Permutations(Procs)
MCPublishable == {Tree(new, Absent)}
==============================================================================
