----------------------------- MODULE Publication -----------------------------
(***************************************************************************)
(* How a forecast is published: SnapshotPublisher and what it writes, the  *)
(* dated snapshot and the latest pointer (s3/snapshots.py), the sidecars   *)
(* (s3/publish.py), the run index (s3/index.py) and the fitted state       *)
(* (s3/fitted.py).                                                         *)
(*                                                                         *)
(* Jobs run in processes of their own: the daily simulation (run.py), the  *)
(* agent run and the fallback of a failed one (run_agent.py), the pass of  *)
(* the match-day loop (live.py).  Each writes key after key without a lock *)
(* and may die between any two.  A job repeated on one day has the run id  *)
(* of the first.                                                           *)
(***************************************************************************)
EXTENDS Naturals, FiniteSets

CONSTANTS
    Jobs,
    Kind,           \* [Jobs -> {"daily", "fallback", "live", "agent"}]
    RunOf,          \* [Jobs -> run ids]
    NoJob,          \* no snapshot yet
    MaxClock,       \* bound: seconds that pass
    MaxFaults       \* bound: jobs that die and calls to the index that fail

Kinds == {"daily", "fallback", "live", "agent"}

RunIds == {RunOf[j] : j \in Jobs}

ASSUME PublicationAssumption ==
    /\ IsFiniteSet(Jobs) /\ Kind \in [Jobs -> Kinds] /\ NoJob \notin Jobs
    /\ {MaxClock, MaxFaults} \subseteq Nat
    /\ \A j, k \in Jobs : RunOf[j] = RunOf[k] => Kind[j] = Kind[k]

VARIABLES
    pc,             \* where each job is
    created,        \* its created_at
    dated,          \* by run id, the job whose snapshot the dated key holds
    sidecars,       \* the same of its sidecars
    latest,         \* the job whose snapshot snapshots/latest.json holds
    wins,           \* jobs that found themselves newer than latest
    failed,         \* jobs that have no snapshot
    sawLatest,      \* what latest held when a job compared itself with it
    index,          \* items of the table: [sk, run, job]
    stale,          \* by job, the items it has yet to delete
    recorded,       \* ghost: jobs that have put their item
    torn,           \* ghost: jobs that deleted an item of their run, none put since
    states, pointer, \* FITTED_STATE by run id, and the run FITTED_LATEST names
    enabled, clock, faults

snapshotVars == <<dated, sidecars, latest, wins, failed, sawLatest>>
indexVars == <<index, stale, recorded, torn>>
fittedVars == <<states, pointer>>
worldVars == <<enabled, clock, faults>>
publicationVars == <<pc, created, snapshotVars, indexVars, fittedVars, worldVars>>

\* The order of a job's writes; the daily run publishes its fit first.
FitFirst == {"daily", "fallback"}
Steps == {"idle", "fit", "point", "stamp", "date", "compare", "repoint", "sidecars",
          "list", "delete", "put", "done", "dead"}

PublicationTypeOK ==
    /\ pc \in [Jobs -> Steps] /\ created \in [Jobs -> Nat]
    /\ dated \in [RunIds -> Jobs \cup {NoJob}] /\ sidecars \in [RunIds -> Jobs \cup {NoJob}]
    /\ latest \in Jobs \cup {NoJob} /\ wins \subseteq Jobs /\ failed \subseteq Jobs
    /\ sawLatest \in [Jobs -> Jobs \cup {NoJob}]
    /\ index \subseteq [sk : Nat, run : RunIds, job : Jobs]
    /\ stale \in [Jobs -> SUBSET Nat] /\ recorded \subseteq Jobs /\ torn \subseteq Jobs
    /\ states \in [RunIds -> Jobs \cup {NoJob}] /\ pointer \in RunIds \cup {NoJob}
    /\ enabled \in BOOLEAN /\ {clock, faults} \subseteq Nat

PublicationInit ==
    /\ pc = [j \in Jobs |-> "idle"] /\ created = [j \in Jobs |-> 0]
    /\ dated = [r \in RunIds |-> NoJob] /\ sidecars = [r \in RunIds |-> NoJob]
    /\ latest = NoJob /\ wins = {} /\ failed = {} /\ sawLatest = [j \in Jobs |-> NoJob]
    /\ index = {} /\ stale = [j \in Jobs |-> {}] /\ recorded = {} /\ torn = {}
    /\ states = [r \in RunIds |-> NoJob] /\ pointer = NoJob
    /\ enabled = TRUE /\ clock = 0 /\ faults = 0

Advance(j, from, to) == pc[j] = from /\ pc' = [pc EXCEPT ![j] = to]

-----------------------------------------------------------------------------
(* A job begins, simulates and dates its snapshot.                          *)

\* run_enabled is asked once, when a job begins; the fallback does not ask.
Begin(j) ==
    /\ Advance(j, "idle", IF Kind[j] \in FitFirst THEN "fit" ELSE "stamp")
    /\ enabled \/ Kind[j] = "fallback"
    /\ created' = [created EXCEPT ![j] = clock]
    /\ UNCHANGED <<snapshotVars, indexVars, fittedVars, worldVars>>

Stamp(j) ==
    /\ Advance(j, "stamp", "date")
    /\ created' = [created EXCEPT ![j] = clock]
    /\ UNCHANGED <<snapshotVars, indexVars, fittedVars, worldVars>>

\* An exception before there is a snapshot: record_failure indexes the run as failed, an
\* agent run at that time, the others at the time they began.
Fails(j) ==
    /\ pc[j] = "stamp" \/ (Kind[j] \in FitFirst /\ pc[j] \in {"fit", "point"})
    /\ Kind[j] # "fallback"
    /\ faults < MaxFaults /\ faults' = faults + 1
    /\ pc' = [pc EXCEPT ![j] = "list"] /\ failed' = failed \cup {j}
    /\ created' = [created EXCEPT ![j] = IF Kind[j] = "agent" THEN clock ELSE @]
    /\ UNCHANGED <<dated, sidecars, latest, wins, sawLatest, indexVars, fittedVars, enabled, clock>>

-----------------------------------------------------------------------------
(* put_snapshot, and the sidecars.                                          *)

PutDated(j) ==
    /\ Advance(j, "date", "compare")
    /\ dated' = [dated EXCEPT ![RunOf[j]] = j]
    /\ UNCHANGED <<created, sidecars, latest, wins, failed, sawLatest, indexVars, fittedVars, worldVars>>

\* _latest_rank, by the kind the snapshot says it is of.
Rank(j) == IF Kind[j] \in {"live", "agent"} THEN 1 ELSE 0

\* _newer_than_latest.
NewerThan(j, k) ==
    \/ k = NoJob
    \/ Rank(j) > Rank(k)
    \/ Rank(j) = Rank(k) /\ created[j] >= created[k]

Compare(j) ==
    /\ Advance(j, "compare", "repoint")
    /\ wins' = IF NewerThan(j, latest) THEN wins \cup {j} ELSE wins
    /\ sawLatest' = [sawLatest EXCEPT ![j] = latest]
    /\ UNCHANGED <<created, dated, sidecars, latest, failed, indexVars, fittedVars, worldVars>>

\* Mutant of Repoint: the comparison is not asked.
RepointAlways(j) ==
    /\ Advance(j, "repoint", "sidecars")
    /\ latest' = j
    /\ UNCHANGED <<created, dated, sidecars, wins, failed, sawLatest, indexVars, fittedVars, worldVars>>

Repoint(j) ==
    /\ Advance(j, "repoint", "sidecars")
    /\ latest' = IF j \in wins THEN j ELSE latest
    /\ UNCHANGED <<created, dated, sidecars, wins, failed, sawLatest, indexVars, fittedVars, worldVars>>

PutSidecars(j) ==
    /\ Advance(j, "sidecars", "list")
    /\ sidecars' = [sidecars EXCEPT ![RunOf[j]] = j]
    /\ UNCHANGED <<created, dated, latest, wins, failed, sawLatest, indexVars, fittedVars, worldVars>>

-----------------------------------------------------------------------------
(* record_run: the table's key is the second the run was created in.        *)

\* After its index item a job publishes its fit, unless it has, or has failed.
AfterIndex(j) == IF Kind[j] \in FitFirst \/ j \in failed THEN "done" ELSE "fit"

\* The items a job is to delete, and where it goes from there.
Replaces(j, items) ==
    /\ pc[j] = "list"
    /\ pc' = [pc EXCEPT ![j] = IF items = {} THEN "put" ELSE "delete"]
    /\ stale' = [stale EXCEPT ![j] = {i.sk : i \in items}]
    /\ UNCHANGED <<created, snapshotVars, index, recorded, torn, fittedVars, worldVars>>

\* Mutant of ListItems: whose run an item is of is not asked.
ListEveryItem(j) == Replaces(j, {i \in index : i.sk # created[j]})

ListItems(j) == Replaces(j, {i \in index : i.run = RunOf[j] /\ i.sk # created[j]})

\* One call for each item.
DeleteItem(j) ==
    /\ pc[j] = "delete"
    /\ \E sk \in stale[j] :
          /\ index' = {i \in index : i.sk # sk}
          /\ stale' = [stale EXCEPT ![j] = @ \ {sk}]
          /\ pc' = [pc EXCEPT ![j] = IF stale[j] = {sk} THEN "put" ELSE "delete"]
    /\ torn' = torn \cup {j}
    /\ UNCHANGED <<created, snapshotVars, recorded, fittedVars, worldVars>>

PutItem(j) ==
    /\ Advance(j, "put", AfterIndex(j))
    /\ index' = {i \in index : i.sk # created[j]}
                    \cup {[sk |-> created[j], run |-> RunOf[j], job |-> j]}
    /\ recorded' = recorded \cup {j}
    /\ torn' = {k \in torn : RunOf[k] # RunOf[j]}
    /\ UNCHANGED <<created, snapshotVars, stale, fittedVars, worldVars>>

\* RunIndexUnavailableError at any of the three calls is a warning.
IndexUnreachable(j) ==
    /\ pc[j] \in {"list", "delete", "put"}
    /\ faults < MaxFaults /\ faults' = faults + 1
    /\ pc' = [pc EXCEPT ![j] = AfterIndex(j)]
    /\ UNCHANGED <<created, snapshotVars, indexVars, fittedVars, enabled, clock>>

-----------------------------------------------------------------------------
(* FittedStateStore.publish: the state, then the pointer.                   *)

\* Mutant of PutState: the pointer first.
PutPointerEarly(j) ==
    /\ Advance(j, "fit", "point")
    /\ pointer' = RunOf[j]
    /\ UNCHANGED <<created, snapshotVars, indexVars, states, worldVars>>

PutState(j) ==
    /\ Advance(j, "fit", "point")
    /\ states' = [states EXCEPT ![RunOf[j]] = j]
    /\ UNCHANGED <<created, snapshotVars, indexVars, pointer, worldVars>>

PutPointer(j) ==
    /\ Advance(j, "point", IF Kind[j] \in FitFirst THEN "stamp" ELSE "done")
    /\ pointer' = RunOf[j]
    /\ UNCHANGED <<created, snapshotVars, indexVars, states, worldVars>>

\* The process dies, or the bucket fails it for good.
Dies(j) ==
    /\ pc[j] \notin {"idle", "done", "dead"} /\ faults < MaxFaults
    /\ faults' = faults + 1
    /\ pc' = [pc EXCEPT ![j] = "dead"]
    /\ UNCHANGED <<created, snapshotVars, indexVars, fittedVars, enabled, clock>>

Tick ==
    /\ clock < MaxClock /\ clock' = clock + 1
    /\ UNCHANGED <<pc, created, snapshotVars, indexVars, fittedVars, enabled, faults>>

\* set_run_enabled, from the admin API.
SetRunEnabled ==
    /\ enabled' = ~enabled
    /\ UNCHANGED <<pc, created, snapshotVars, indexVars, fittedVars, clock, faults>>

JobStep(j) ==
    \/ Begin(j) \/ Stamp(j) \/ Fails(j)
    \/ PutDated(j) \/ Compare(j) \/ Repoint(j) \/ PutSidecars(j)
    \/ ListItems(j) \/ DeleteItem(j) \/ PutItem(j) \/ IndexUnreachable(j)
    \/ PutState(j) \/ PutPointer(j) \/ Dies(j)

PublicationNext == (\E j \in Jobs : JobStep(j)) \/ Tick \/ SetRunEnabled

PublicationSpec == PublicationInit /\ [][PublicationNext]_publicationVars

-----------------------------------------------------------------------------
(* What a reader of the store may rely on.                                  *)

\* The latest pointer goes back to an older or a thinner snapshot only in the window
\* _newer_than_latest admits: the one displaced was written after the comparison.
LatestGoesForward ==
    [][latest' # latest => NewerThan(latest', latest) \/ sawLatest[latest'] # latest]_publicationVars

\* A boot from the published fit finds it, wherever a publisher died.
PointerResolves == pointer # NoJob => states[pointer] # NoJob

\* Jobs of run r and of another run have put items of one second, that is one key.
Collides(r) ==
    \E j, k \in recorded : RunOf[j] = r /\ RunOf[k] # r /\ created[j] = created[k]

\* A run that was once recorded is listed, however its reruns interleave with it, fail,
\* die or lose the table, and however other runs do.  It drops out of the list in two
\* ways: another run of the same second took its key, or a rerun of its own deleted the
\* item and has not put the new one, and never will if it died there.
IndexKnowsRuns ==
    \A j \in recorded :
        \/ \E i \in index : i.run = RunOf[j]
        \/ Collides(RunOf[j])
        \/ \E k \in torn : RunOf[k] = RunOf[j]

=============================================================================
