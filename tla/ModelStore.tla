---------------------------- MODULE ModelStore ----------------------------
(***************************************************************************)
(* The orchestrator's catalog, internal/server/models.go, for one model    *)
(* name: <name>.gguf, <name>.gguf.partial and the pulls that write them,   *)
(* each in the goroutine of its POST /api/models/pull.  Overlap says       *)
(* whether a pull may be asked for while another one runs; the code does   *)
(* nothing to prevent it.                                                  *)
(***************************************************************************)
EXTENDS Disk

CONSTANTS Pulls,    \* pulls of the model, each asked for once
          Overlap   \* whether they may run at the same time

ASSUME StoreAssumption == Overlap \in BOOLEAN /\ None \notin Pulls

VARIABLES final,    \* the file named <name>.gguf
          partial,  \* the file named <name>.gguf.partial
          data,     \* contents of files; a file is named after its creator
          pull,     \* where pull is
          src,      \* what it downloads
          fd,       \* the file it has open
          off       \* blocks it has written

storeVars == <<final, partial, data, pull, src, fd, off>>

Running == {"copying", "copied", "verified", "rejected", "failing", "removing"}
PullState == Running \union {"idle", "done", "error", "dead"}

StoreInit == /\ final = None
             /\ partial = None
             /\ data = [p \in Pulls |-> <<>>]
             /\ pull = [p \in Pulls |-> "idle"]
             /\ src \in [Pulls -> Sources]
             /\ fd = [p \in Pulls |-> None]
             /\ off = [p \in Pulls |-> 0]

\* What list returns: a name ending in .partial is no model.
Listed == {final} \ {None}

CanStart(p) == /\ pull[p] = "idle"
               /\ Overlap \/ \A q \in Pulls : pull[q] \notin Running

\* A bad name, an unreachable source, a status other than 200.
RequestFails(p) ==
  /\ CanStart(p)
  /\ pull' = [pull EXCEPT ![p] = "error"]
  /\ UNCHANGED <<final, partial, data, src, fd, off>>

\* Variant: a model that is pulled again is overwritten in place.
CreateInPlace(p) ==
  /\ CanStart(p)
  /\ pull' = [pull EXCEPT ![p] = "copying"]
  /\ partial' = IF final = None THEN p ELSE final
  /\ fd' = [fd EXCEPT ![p] = partial']
  /\ data' = [data EXCEPT ![partial'] = <<>>]
  /\ UNCHANGED <<final, src, off>>

\* Variant: a partial file that was left behind is resumed.
CreateResumes(p) ==
  /\ CanStart(p)
  /\ pull' = [pull EXCEPT ![p] = "copying"]
  /\ partial' = IF partial = None THEN p ELSE partial
  /\ fd' = [fd EXCEPT ![p] = partial']
  /\ off' = [off EXCEPT ![p] = Len(data[partial'])]
  /\ UNCHANGED <<final, data, src>>

\* os.Create makes the file, or truncates the one that has the name.
CreatePartial(p) ==
  /\ CanStart(p)
  /\ pull' = [pull EXCEPT ![p] = "copying"]
  /\ partial' = IF partial = None THEN p ELSE partial
  /\ fd' = [fd EXCEPT ![p] = partial']
  /\ data' = [data EXCEPT ![partial'] = <<>>]
  /\ UNCHANGED <<final, src, off>>

\* Variant: the end of the body is not noticed.
CopyOn(p) ==
  /\ pull[p] = "copying"
  /\ off' = [off EXCEPT ![p] = @ + 1]
  /\ data' = [data EXCEPT ![fd[p]] =
       WriteAt(@, off'[p], Model(src[p])[(off[p] % Blocks) + 1])]
  /\ UNCHANGED <<final, partial, pull, src, fd>>

CopyBlock(p) ==
  /\ pull[p] = "copying"
  /\ off[p] < Blocks
  /\ off' = [off EXCEPT ![p] = @ + 1]
  /\ data' = [data EXCEPT ![fd[p]] = WriteAt(@, off'[p], Model(src[p])[off'[p]])]
  /\ UNCHANGED <<final, partial, pull, src, fd>>

\* The client of the pull left, or a read, a write or the Close failed.  A body
\* shorter than its Content-Length is a read error.
CopyFails(p) ==
  /\ pull[p] = "copying"
  /\ pull' = [pull EXCEPT ![p] = "failing"]
  /\ UNCHANGED <<final, partial, data, src, fd, off>>

CopyEnds(p) ==
  /\ pull[p] = "copying"
  /\ off[p] = Blocks
  /\ pull' = [pull EXCEPT ![p] = "copied"]
  /\ UNCHANGED <<final, partial, data, src, fd, off>>

\* The magic is read from the file that has the name now.
VerifyGGUF(p) ==
  /\ pull[p] = "copied"
  /\ pull' = [pull EXCEPT ![p] =
       IF partial # None /\ HasMagic(data[partial]) THEN "verified" ELSE "rejected"]
  /\ UNCHANGED <<final, partial, data, src, fd, off>>

RemoveRejected(p) ==
  /\ pull[p] = "rejected"
  /\ pull' = [pull EXCEPT ![p] = "failing"]
  /\ partial' = None
  /\ UNCHANGED <<final, data, src, fd, off>>

\* The deferred Stat that follows finds the file.
RenamePartial(p) ==
  /\ pull[p] = "verified"
  /\ partial # None
  /\ final' = partial
  /\ partial' = None
  /\ pull' = [pull EXCEPT ![p] = "done"]
  /\ UNCHANGED <<data, src, fd, off>>

RenameFails(p) ==
  /\ pull[p] = "verified"
  /\ pull' = [pull EXCEPT ![p] = "failing"]
  /\ UNCHANGED <<final, partial, data, src, fd, off>>

\* Variant: an error returns without the deferred cleanup.
StatNothing(p) ==
  /\ pull[p] = "failing"
  /\ pull' = [pull EXCEPT ![p] = "error"]
  /\ UNCHANGED <<final, partial, data, src, fd, off>>

\* The deferred cleanup: the partial file goes if there is no final one.
StatFinal(p) ==
  /\ pull[p] = "failing"
  /\ pull' = [pull EXCEPT ![p] = IF final = None THEN "removing" ELSE "error"]
  /\ UNCHANGED <<final, partial, data, src, fd, off>>

RemovePartial(p) ==
  /\ pull[p] = "removing"
  /\ pull' = [pull EXCEPT ![p] = "error"]
  /\ partial' = None
  /\ UNCHANGED <<final, data, src, fd, off>>

\* The orchestrator is killed and started again.
StoreCrash ==
  /\ \E p \in Pulls : pull[p] \in Running
  /\ pull' = [p \in Pulls |-> IF pull[p] \in Running THEN "dead" ELSE pull[p]]
  /\ UNCHANGED <<final, partial, data, src, fd, off>>

PullStep(p) == \/ RequestFails(p) \/ CreatePartial(p)
               \/ CopyBlock(p) \/ CopyFails(p) \/ CopyEnds(p)
               \/ VerifyGGUF(p) \/ RemoveRejected(p)
               \/ RenamePartial(p) \/ RenameFails(p)
               \/ StatFinal(p) \/ RemovePartial(p)

StoreNext == StoreCrash \/ \E p \in Pulls : PullStep(p)

StoreTypeOK == /\ final \in Pulls \union {None}
               /\ partial \in Pulls \union {None}
               /\ data \in [Pulls -> Seq(Block)]
               /\ \A p \in Pulls : Len(data[p]) <= Blocks
               /\ pull \in [Pulls -> PullState]
               /\ src \in [Pulls -> Sources]
               /\ fd \in [Pulls -> Pulls \union {None}]
               /\ off \in [Pulls -> 0..Blocks]
============================================================================
