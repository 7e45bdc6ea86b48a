---------------------------- MODULE ModelFiles ----------------------------
(***************************************************************************)
(* How a model travels: pulled into the orchestrator's catalog            *)
(* (ModelStore), fetched from there into a worker's cache (CatalogFetch),  *)
(* with either process killed at any moment and started again.             *)
(***************************************************************************)
EXTENDS CatalogFetch

filesVars == <<storeVars, cacheVars>>

FilesInit == StoreInit /\ CacheInit

Pulling == StoreNext /\ UNCHANGED cacheVars
FetchNext == (\E f \in Fetches : FetchStep(f)) /\ UNCHANGED storeVars

FilesNext == Pulling \/ FetchNext

FilesSpec == FilesInit /\ [][FilesNext]_filesVars

FilesTypeOK == StoreTypeOK /\ CacheTypeOK

\* models.go:84-86, "streams to <name>.partial then atomically renames on
\* success": what the catalog lists is a whole GGUF model, whatever pulls failed
\* or were killed before.
CatalogWhole == \A file \in Listed : Whole(data[file])

\* catalog.go:20-23, "a partial download from a previous failure never poisons
\* the cache": the cached model is whole, though only its magic is checked.
CacheWhole == target # None => Whole(cdata[target])

\* A published file is never written again: a worker that downloads it, or a
\* llama-server that maps it, sees it unchanged while a new version replaces it.
PublishedIsFrozen ==
  [][/\ final # None => data'[final] = data[final]
     /\ target # None => cdata'[target] = cdata[target]]_filesVars

\* models.go:115, "best-effort cleanup of the partial file on error": with no
\* pull running, a partial file is left only by a crash, or beside an older
\* version of the model.
LeftoverExplained ==
  partial # None /\ (\A p \in Pulls : pull[p] \notin Running) =>
     final # None \/ \E p \in Pulls : pull[p] = "dead"

\* A download that is still answered reads the whole of one version, even when
\* that version is replaced meanwhile.
BodyIsOneVersion ==
  \A f \in Fetches : fetch[f] \in {"answered", "copying"} =>
     /\ Whole(data[body[f]])
     /\ size[f] = Blocks
     /\ fetch[f] = "copying" =>
          cdata[cfd[f]] = UpTo(data[body[f]], pos[f])
============================================================================
