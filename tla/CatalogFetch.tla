--------------------------- MODULE CatalogFetch ---------------------------
(***************************************************************************)
(* fetchFromCatalog, internal/worker/catalog.go: a worker gets its model   *)
(* from the orchestrator's catalog into a cache directory that survives    *)
(* it.  Fetches are the successive launches of workers with one cache      *)
(* directory.                                                              *)
(***************************************************************************)
EXTENDS ModelStore

CONSTANT Fetches

ASSUME FetchAssumption == None \notin Fetches

VARIABLES target,  \* the file named <name>.gguf in the cache
          tmp,     \* the file named <name>.gguf.partial
          cdata,   \* contents of files; a file is named after its creator
          fetch,   \* where the fetch is
          body,    \* the catalog's file that answers it
          size,    \* its Content-Length, in blocks
          cfd,     \* the file it has open
          pos      \* blocks it has written

cacheVars == <<target, tmp, cdata, fetch, body, size, cfd, pos>>

Fetching == {"clearing", "requesting", "answered", "copying", "copied",
             "verified", "rejected"}
FetchState == Fetching \union {"idle", "have", "error", "dead"}

CacheInit == /\ target = None
             /\ tmp = None
             /\ cdata = [f \in Fetches |-> <<>>]
             /\ fetch = [f \in Fetches |-> "idle"]
             /\ body = [f \in Fetches |-> None]
             /\ size = [f \in Fetches |-> 0]
             /\ cfd = [f \in Fetches |-> None]
             /\ pos = [f \in Fetches |-> 0]

Goes(f, state) == fetch' = [fetch EXCEPT ![f] = state]

\* A cached file with the right magic is taken as it is.
CheckCache(f) ==
  /\ fetch[f] = "idle"
  /\ \A g \in Fetches : fetch[g] \notin Fetching
  /\ Goes(f, IF target # None /\ HasMagic(cdata[target]) THEN "have" ELSE "clearing")
  /\ UNCHANGED <<target, tmp, cdata, body, size, cfd, pos>>

RemoveLeftover(f) ==
  /\ fetch[f] = "clearing"
  /\ tmp' = None
  /\ Goes(f, "requesting")
  /\ UNCHANGED <<target, cdata, body, size, cfd, pos>>

\* GET /api/models/{name}: the orchestrator opens the file that has the name
\* now; http.ServeFile takes its length from the open file.
Get(f) ==
  /\ fetch[f] = "requesting"
  /\ final # None
  /\ body' = [body EXCEPT ![f] = final]
  /\ size' = [size EXCEPT ![f] = Len(data[final])]
  /\ Goes(f, "answered")
  /\ UNCHANGED <<target, tmp, cdata, cfd, pos>>

\* No such model (404), no answer, or the temporary file cannot be made.
GetFails(f) ==
  /\ fetch[f] \in {"requesting", "answered"}
  /\ Goes(f, "error")
  /\ UNCHANGED <<target, tmp, cdata, body, size, cfd, pos>>

CreateTmp(f) ==
  /\ fetch[f] = "answered"
  /\ Goes(f, "copying")
  /\ tmp' = IF tmp = None THEN f ELSE tmp
  /\ cfd' = [cfd EXCEPT ![f] = tmp']
  /\ cdata' = [cdata EXCEPT ![tmp'] = <<>>]
  /\ UNCHANGED <<target, body, size, pos>>

\* Variant: each block is asked for by name.
FetchBlockByName(f) ==
  /\ fetch[f] = "copying"
  /\ pos[f] < size[f]
  /\ pos[f] < Len(data[final])
  /\ pos' = [pos EXCEPT ![f] = @ + 1]
  /\ cdata' = [cdata EXCEPT ![cfd[f]] = WriteAt(@, pos'[f], data[final][pos'[f]])]
  /\ UNCHANGED <<target, tmp, fetch, body, size, cfd>>

FetchBlock(f) ==
  /\ fetch[f] = "copying"
  /\ pos[f] < size[f]
  /\ pos[f] < Len(data[body[f]])
  /\ pos' = [pos EXCEPT ![f] = @ + 1]
  /\ cdata' = [cdata EXCEPT ![cfd[f]] = WriteAt(@, pos'[f], data[body[f]][pos'[f]])]
  /\ UNCHANGED <<target, tmp, fetch, body, size, cfd>>

\* Variant: a body cut short is taken for a complete one.
FetchStops(f) ==
  /\ fetch[f] = "copying"
  /\ Goes(f, "copied")
  /\ UNCHANGED <<target, tmp, cdata, body, size, cfd, pos>>

\* Variant: a download that breaks is asked for again, from where it was.
FetchResumes(f) ==
  /\ fetch[f] = "copying"
  /\ final # None
  /\ body' = [body EXCEPT ![f] = final]
  /\ UNCHANGED <<target, tmp, cdata, fetch, size, cfd, pos>>

\* The orchestrator or the connection fails, or the disk is full: the temporary
\* file stays.  Only a worker that is asked to stop removes it.
FetchFails(f) ==
  /\ fetch[f] = "copying"
  /\ Goes(f, "error")
  /\ tmp' \in {tmp, None}
  /\ UNCHANGED <<target, cdata, body, size, cfd, pos>>

FetchEnds(f) ==
  /\ fetch[f] = "copying"
  /\ pos[f] = size[f]
  /\ Goes(f, "copied")
  /\ UNCHANGED <<target, tmp, cdata, body, size, cfd, pos>>

VerifyTmp(f) ==
  /\ fetch[f] = "copied"
  /\ Goes(f, IF tmp # None /\ HasMagic(cdata[tmp]) THEN "verified" ELSE "rejected")
  /\ UNCHANGED <<target, tmp, cdata, body, size, cfd, pos>>

RemoveTmp(f) ==
  /\ fetch[f] = "rejected"
  /\ tmp' = None
  /\ Goes(f, "error")
  /\ UNCHANGED <<target, cdata, body, size, cfd, pos>>

RenameTmp(f) ==
  /\ fetch[f] = "verified"
  /\ \/ /\ tmp # None
        /\ target' = tmp
        /\ tmp' = None
        /\ Goes(f, "have")
     \/ /\ UNCHANGED <<target, tmp>>
        /\ Goes(f, "error")
  /\ UNCHANGED <<cdata, body, size, cfd, pos>>

\* The worker is killed.
WorkerDies(f) ==
  /\ fetch[f] \in Fetching
  /\ Goes(f, "dead")
  /\ UNCHANGED <<target, tmp, cdata, body, size, cfd, pos>>

FetchStep(f) == \/ CheckCache(f) \/ RemoveLeftover(f)
                \/ Get(f) \/ GetFails(f) \/ CreateTmp(f)
                \/ FetchBlock(f) \/ FetchFails(f) \/ FetchEnds(f)
                \/ VerifyTmp(f) \/ RemoveTmp(f) \/ RenameTmp(f)
                \/ WorkerDies(f)

CacheTypeOK == /\ target \in Fetches \union {None}
               /\ tmp \in Fetches \union {None}
               /\ cdata \in [Fetches -> Seq(Block)]
               /\ fetch \in [Fetches -> FetchState]
               /\ body \in [Fetches -> Pulls \union {None}]
               /\ size \in [Fetches -> 0..Blocks]
               /\ cfd \in [Fetches -> Fetches \union {None}]
               /\ pos \in [Fetches -> 0..Blocks]
============================================================================
