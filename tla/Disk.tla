------------------------------- MODULE Disk -------------------------------
(***************************************************************************)
(* Files the way the downloads of models use them, with POSIX semantics: a *)
(* name refers to a file, a file that is renamed or loses its name goes on *)
(* existing for those who have it open, and a rename replaces.             *)
(*                                                                         *)
(* The contents of a file are a sequence of blocks.  A model is Blocks     *)
(* blocks of one source, and only its first block tells whether it is GGUF.*)
(***************************************************************************)
EXTENDS Integers, Sequences

CONSTANTS Sources,  \* what the URL of a pull may lead to
          Gguf,     \* those that begin with the GGUF magic
          Blocks,   \* length of a model
          Hole,     \* a block never written, before one that was
          None      \* no file

ASSUME DiskAssumption == /\ Gguf \subseteq Sources
                         /\ Blocks \in Nat \ {0}
                         /\ Hole \notin [src : Sources, n : 1..Blocks]

Block == [src : Sources, n : 1..Blocks] \union {Hole}

Model(v) == [n \in 1..Blocks |-> [src |-> v, n |-> n]]

\* The file s after block b is written at position k.
WriteAt(s, k, b) ==
  [i \in 1..(IF k > Len(s) THEN k ELSE Len(s)) |->
     IF i = k THEN b ELSE IF i <= Len(s) THEN s[i] ELSE Hole]

\* The first k blocks of s.
UpTo(s, k) == [i \in 1..k |-> s[i]]

HasMagic(s) == s # <<>> /\ \E v \in Gguf : s[1] = Model(v)[1]

Whole(s) == \E v \in Gguf : s = Model(v)
============================================================================
