-------------------------- MODULE CatalogService --------------------------
(***************************************************************************)
(* What the orchestrator and its workers promise about one model,          *)
(* whatever blocks, temporary files, crashes and failed requests carry it: *)
(* a pull replaces the listed model at one moment or not at all, a worker  *)
(* that starts is given the model listed at one moment, its cache holds    *)
(* what some launch was given, and a command reports the outcome of its    *)
(* own pull.  PullCommand implements it (PullCommand!ServesModels).        *)
(***************************************************************************)
CONSTANTS Versions,  \* models, each of them whole
          Nothing,   \* no model
          Pulls,     \* pulls of the model into the catalog
          Fetches    \* launches of workers with one cache directory

VARIABLES listed,   \* the model in the catalog
          cached,   \* the model in the cache
          outcome,  \* outcome of a pull
          launch,   \* whether a launch got its model
          given,    \* what the catalog gave to a launch
          cut,      \* pulls whose command was cut off from the orchestrator
          told      \* what the command of a pull reported

serviceVars == <<listed, cached, outcome, launch, given, cut, told>>

ServiceTypeOK == /\ listed \in Versions \union {Nothing}
                 /\ cached \in Versions \union {Nothing}
                 /\ outcome \in [Pulls -> {"open", "done", "error", "dead"}]
                 /\ launch \in [Fetches -> {"open", "ready", "stopped"}]
                 /\ given \in [Fetches -> Versions \union {Nothing}]
                 /\ cut \subseteq Pulls
                 /\ told \in [Pulls -> {"nothing", "success", "failure"}]

ServiceInit == /\ listed = Nothing
               /\ cached = Nothing
               /\ outcome = [p \in Pulls |-> "open"]
               /\ launch = [f \in Fetches |-> "open"]
               /\ given = [f \in Fetches |-> Nothing]
               /\ cut = {}
               /\ told = [p \in Pulls |-> "nothing"]

Publish(p) == /\ outcome[p] = "open"
              /\ listed' \in Versions
              /\ outcome' = [outcome EXCEPT ![p] = "done"]
              /\ UNCHANGED <<cached, launch, given, cut, told>>

PullFails(p) == /\ outcome[p] = "open"
                /\ outcome' = [outcome EXCEPT ![p] = "error"]
                /\ UNCHANGED <<listed, cached, launch, given, cut, told>>

\* The orchestrator stops in the middle of some pulls, or connections of commands
\* break.
Breaks(S, C) == /\ \A p \in S : outcome[p] = "open"
                /\ outcome' = [p \in Pulls |-> IF p \in S THEN "dead" ELSE outcome[p]]
                /\ cut' = cut \union C
                /\ UNCHANGED <<listed, cached, launch, given, told>>

ReportSuccess(p) == /\ told[p] = "nothing"
                    /\ outcome[p] = "done"
                    /\ told' = [told EXCEPT ![p] = "success"]
                    /\ UNCHANGED <<listed, cached, outcome, launch, given, cut>>

\* A command that is cut off, perhaps before it was answered, reports a failure
\* whatever became of its pull.
ReportFailure(p) == /\ told[p] = "nothing"
                    /\ cut' \in {cut, cut \union {p}}
                    /\ outcome[p] = "error" \/ p \in cut'
                    /\ told' = [told EXCEPT ![p] = "failure"]
                    /\ UNCHANGED <<listed, cached, outcome, launch, given>>

\* The whole download reads the catalog now.
Give(f) == /\ launch[f] = "open"
           /\ given[f] = Nothing
           /\ listed # Nothing
           /\ given' = [given EXCEPT ![f] = listed]
           /\ UNCHANGED <<listed, cached, outcome, launch, cut, told>>

Keep(f) == /\ launch[f] = "open"
           /\ given[f] # Nothing
           /\ cached' = given[f]
           /\ launch' = [launch EXCEPT ![f] = "ready"]
           /\ UNCHANGED <<listed, outcome, given, cut, told>>

Reuse(f) == /\ launch[f] = "open"
            /\ given[f] = Nothing
            /\ cached # Nothing
            /\ launch' = [launch EXCEPT ![f] = "ready"]
            /\ UNCHANGED <<listed, cached, outcome, given, cut, told>>

Stop(f) == /\ launch[f] = "open"
           /\ launch' = [launch EXCEPT ![f] = "stopped"]
           /\ UNCHANGED <<listed, cached, outcome, given, cut, told>>

ServiceNext == \/ \E p \in Pulls : \/ Publish(p) \/ PullFails(p)
                                   \/ ReportSuccess(p) \/ ReportFailure(p)
               \/ \E S, C \in SUBSET Pulls : Breaks(S, C)
               \/ \E f \in Fetches : Give(f) \/ Keep(f) \/ Reuse(f) \/ Stop(f)

ServiceSpec == ServiceInit /\ [][ServiceNext]_serviceVars
-----------------------------------------------------------------------------
\* A model is listed as soon as one pull is done, and it is never unlisted.
ListedSinceDone == listed # Nothing <=> \E p \in Pulls : outcome[p] = "done"

\* What the cache holds was given by the catalog, whole, to a launch that is ready.
CachedWasGiven ==
  cached # Nothing => \E f \in Fetches : launch[f] = "ready" /\ given[f] = cached

\* A worker is ready only with a model in its cache.
ReadyHasModel == \A f \in Fetches : launch[f] = "ready" => cached # Nothing

\* A report is the outcome of the pull it is about, unless the command was cut off.
ReportsAreTrue ==
  \A p \in Pulls : /\ told[p] = "success" => outcome[p] = "done"
                   /\ told[p] = "failure" => outcome[p] = "error" \/ p \in cut
============================================================================
