---------------------------- MODULE MCResources -----------------------------
(* Instances of Resources for TLC. *)
EXTENDS Resources

Small == <<[vaddr |-> 0, filesz |-> 1, memsz |-> 1]>>
Large == <<[vaddr |-> 0, filesz |-> 2, memsz |-> 2], [vaddr |-> 2, filesz |-> 1, memsz |-> 3]>>
MCBrks == {3, -3, -7}
\* A first segment in order, then one with less memory than file.
Broken == <<[vaddr |-> 0, filesz |-> 1, memsz |-> 1], [vaddr |-> 2, filesz |-> 2, memsz |-> 1]>>
MCPrograms == {Small, Large, Broken}
MCFailSets == {{}} \cup {{n} : n \in 1 .. 5}
=============================================================================
