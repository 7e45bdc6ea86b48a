--------------------------- MODULE LlamaInstall ---------------------------
(***************************************************************************)
(* ensureLlamaServer, internal/worker/llama_install.go: the release zip of *)
(* llama.cpp is extracted into a cache directory that outlives the worker. *)
(* The binary and the libraries it loads are entries of the same zip, in   *)
(* whatever order its author packed them.                                  *)
(***************************************************************************)
EXTENDS Integers

CONSTANTS Entries,  \* files of the zip
          Binary,   \* llama-server
          None      \* no entry

ASSUME InstallAssumption == Binary \in Entries /\ None \notin Entries

VARIABLES disk,     \* state of each file in the cache directory
          todo,     \* entries not yet extracted by this installation
          open,     \* the entry being written
          cut       \* an installation stopped between its first and last entry

installVars == <<disk, todo, open, cut>>

Complete == \A e \in Entries : disk[e] = "whole"

InstallInit == /\ disk = [e \in Entries |-> "missing"]
               /\ todo = {}
               /\ open = None
               /\ cut = FALSE

\* Only the presence of the binary is looked at.
Cached == disk[Binary] # "missing"

\* The zip is downloaded to a temporary file of its own and opened; a truncated
\* one does not open.
Downloaded == /\ ~Cached
              /\ todo' = Entries
              /\ UNCHANGED <<disk, open, cut>>

OpenEntry(e) == /\ open = None
                /\ e \in todo
                /\ open' = e
                /\ disk' = [disk EXCEPT ![e] = "partial"]
                /\ UNCHANGED <<todo, cut>>

WriteEntry == /\ open # None
              /\ disk' = [disk EXCEPT ![open] = "whole"]
              /\ todo' = todo \ {open}
              /\ open' = None
              /\ cut' = cut

\* Variant: the extraction is over once the binary is there.
BinaryExtracted == Cached

Extracted == todo = {} /\ Cached

\* An entry that cannot be written, or the end of the process.
InstallStops == /\ cut' = (cut \/ open # None \/ todo \notin {{}, Entries})
                /\ todo' = {}
                /\ open' = None
                /\ disk' = disk

InstallTypeOK == /\ disk \in [Entries -> {"missing", "partial", "whole"}]
                 /\ todo \subseteq Entries
                 /\ open \in Entries \union {None}
                 /\ cut \in BOOLEAN
============================================================================
