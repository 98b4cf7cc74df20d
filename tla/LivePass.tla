------------------------------ MODULE LivePass ------------------------------
(***************************************************************************)
(* The match-day loop (live.py, run in-process by jobs.LiveLoop) and the   *)
(* store of played results it is the only writer of                        *)
(* (sim/results_store.py).                                                 *)
(*                                                                         *)
(* A pass polls the provider, records what has finished, and publishes a   *)
(* snapshot if a polled result still lacks one.  Daily and agent runs read *)
(* the store when they start and publish when they end.  The host of the   *)
(* loop keeps a mirror of what it reads and writes; daily and agent runs   *)
(* start in a container of their own, with no mirror.  Any call to the     *)
(* bucket may fail, and the host may die between two steps.                *)
(*                                                                         *)
(* The score of a match is the number of times the provider has revised    *)
(* it: 0 is unfinished, 1 the first final score, more a correction.        *)
(***************************************************************************)
EXTENDS Naturals, FiniteSets

CONSTANTS
    Matches,
    Revisions,      \* bound: final scores the provider gives of a match, [Matches -> Nat]
    MaxRuns,        \* bound: daily and agent runs
    Faults,         \* which faults this instance has
    MaxFaults       \* bound: faults in one behaviour

FaultKinds == {"read", "resultsPut", "snapshotPut", "fittedPut", "crash"}

ASSUME LiveAssumption ==
    /\ IsFiniteSet(Matches) /\ {MaxRuns, MaxFaults} \subseteq Nat
    /\ Revisions \in [Matches -> Nat]
    /\ Faults \subseteq FaultKinds

Results == [Matches -> Nat]
NoResults == [m \in Matches |-> 0]
Finished(r) == {m \in Matches : r[m] # 0}

\* dict union: what the second operand holds wins.
Merge(r, s) == [m \in Matches |-> IF s[m] # 0 THEN s[m] ELSE r[m]]

\* A snapshot: when it was created, the results it was simulated from (its matches
\* are the others) and those its ratings were fitted with.
Snapshots == [at : Nat, live : BOOLEAN, results : Results, fit : Results]
Newer(s, t) == IF s.at >= t.at THEN s ELSE t

VARIABLES
    feed,           \* the provider's final scores
    bucket, mirror, \* RESULTS in the bucket and on the loop's host
    remote, local,  \* the newest snapshot in the bucket and on the host
    fitted,         \* results the loop's forecaster was fitted with, <<>> before
    pass,           \* the pass under way
    run,            \* the daily or agent run under way
    clock, runs, faults,
    recorded,       \* by match, scores whose put to the bucket was ever tried
    hydrated,       \* the mirror has held the bucket's blob since the disk was new
    covered         \* what the bucket held when a pass of this process last published in full

storeVars == <<bucket, mirror, recorded, hydrated>>
snapshotVars == <<remote, local>>
runVars == <<run, runs>>
liveVars == <<feed, storeVars, snapshotVars, fitted, pass, runVars, clock, faults, covered>>

Unfitted == <<>>
IdlePass == [pc |-> "idle", overlay |-> NoResults, pending |-> {}, merged |-> NoResults,
             at |-> 0]
IdleRun == [pc |-> "idle", results |-> NoResults]

LiveTypeOK ==
    /\ feed \in Results /\ bucket \in Results /\ mirror \in Results /\ covered \in Results
    /\ remote \in Snapshots /\ local \in Snapshots
    /\ fitted \in Results \cup {Unfitted}
    /\ pass \in [pc : {"idle", "polled", "recorded", "simulated"}, overlay : Results,
                 pending : SUBSET Matches, merged : Results, at : Nat]
    /\ run \in [pc : {"idle", "loaded"}, results : Results]
    /\ {clock, runs, faults} \subseteq Nat
    /\ recorded \in [Matches -> SUBSET Nat] /\ hydrated \in BOOLEAN

\* A run of the days before has published a forecast of every match.
LiveInit ==
    LET opening == [at |-> 0, live |-> FALSE, results |-> NoResults, fit |-> NoResults]
    IN  /\ feed = NoResults /\ bucket = NoResults /\ mirror = NoResults /\ covered = NoResults
        /\ remote = opening /\ local = opening
        /\ fitted = Unfitted /\ pass = IdlePass /\ run = IdleRun
        /\ clock = 0 /\ runs = 0 /\ faults = 0
        /\ recorded = [m \in Matches |-> {}] /\ hydrated = FALSE

-----------------------------------------------------------------------------
(* The faults, and the store under them.                                    *)

Fault(kind) == kind \in Faults /\ faults < MaxFaults /\ faults' = faults + 1
NoFault == UNCHANGED faults

\* ResultsStore.load: the bucket; in an outage, and before there is a blob, the mirror.
Loaded(reachable) == IF reachable /\ bucket # NoResults THEN bucket ELSE mirror

\* Reading through the bucket renews the mirror.
Renewed(reachable) == IF reachable /\ bucket # NoResults THEN bucket ELSE mirror

\* A read of the store: whether the bucket answered.
Reads(reachable) == IF reachable THEN NoFault ELSE Fault("read")

-----------------------------------------------------------------------------
(* The pass.                                                                *)

\* Mutant of Pending: what the store holds needs no snapshot.
PendingUnrecorded(overlay, known, previous) == {m \in Finished(overlay) : known[m] # overlay[m]}

\* publishable_results: what the newest snapshot still forecasts, and corrections.
Pending(overlay, known, previous) ==
    {m \in Finished(overlay) : previous.results[m] = 0 \/ known[m] # overlay[m]}

\* The provider answers with the final scores of some matches; the pass compares
\* them with the store and with the newest snapshot either side holds.
Poll(polled, reachable) ==
    /\ pass.pc = "idle" /\ Reads(reachable)
    /\ LET overlay == [m \in Matches |-> IF m \in polled THEN feed[m] ELSE 0]
       IN  pass' = [IdlePass EXCEPT !.pc = "polled", !.overlay = overlay,
                        !.pending = Pending(overlay, Loaded(reachable), Newer(remote, local))]
    /\ local' = Newer(remote, local)
    /\ mirror' = Renewed(reachable)
    /\ hydrated' = (hydrated \/ reachable)
    /\ UNCHANGED <<feed, bucket, recorded, remote, fitted, runVars, clock, covered>>

\* ResultsStore.record skips a write that changes nothing.
RecordNothing(reachable) ==
    /\ pass.pc = "polled" /\ Reads(reachable)
    /\ LET known == Loaded(reachable)
       IN  /\ Merge(known, pass.overlay) = known
           /\ pass' = [pass EXCEPT !.pc = "recorded", !.merged = known]
    /\ mirror' = Renewed(reachable)
    /\ hydrated' = (hydrated \/ reachable)
    /\ UNCHANGED <<feed, bucket, recorded, snapshotVars, fitted, runVars, clock, covered>>

Recorded(r) == [m \in Matches |-> IF r[m] = 0 THEN recorded[m] ELSE recorded[m] \cup {r[m]}]

\* Mutant of Record: the poll replaces the blob.
RecordOverwrites(reachable) ==
    /\ pass.pc = "polled" /\ Reads(reachable)
    /\ Merge(Loaded(reachable), pass.overlay) # Loaded(reachable)
    /\ mirror' = pass.overlay /\ bucket' = pass.overlay /\ recorded' = Recorded(pass.overlay)
    /\ pass' = [pass EXCEPT !.pc = "recorded", !.merged = pass.overlay]
    /\ hydrated' = TRUE
    /\ UNCHANGED <<feed, snapshotVars, fitted, runVars, clock, covered>>

\* Mutant of Record: the merged results go to the simulation and not to the bucket.
RecordInMemory(reachable) ==
    /\ pass.pc = "polled" /\ Reads(reachable)
    /\ LET merged == Merge(Loaded(reachable), pass.overlay)
       IN  /\ merged # Loaded(reachable)
           /\ mirror' = merged
           /\ pass' = [pass EXCEPT !.pc = "recorded", !.merged = merged]
    /\ hydrated' = (hydrated \/ reachable)
    /\ UNCHANGED <<feed, bucket, recorded, snapshotVars, fitted, runVars, clock, covered>>

Record(reachable) ==
    /\ pass.pc = "polled" /\ Reads(reachable)
    /\ LET known == Loaded(reachable)
           merged == Merge(known, pass.overlay)
       IN  /\ merged # known
           /\ mirror' = merged /\ bucket' = merged /\ recorded' = Recorded(merged)
           /\ pass' = [pass EXCEPT !.pc = "recorded", !.merged = merged]
    /\ hydrated' = TRUE
    /\ UNCHANGED <<feed, snapshotVars, fitted, runVars, clock, covered>>

\* The mirror is written first, the bucket fails, and the error ends the pass.
RecordFails ==
    /\ pass.pc = "polled" /\ Fault("resultsPut")
    /\ LET merged == Merge(Loaded(TRUE), pass.overlay)
       IN  merged # Loaded(TRUE) /\ mirror' = merged /\ recorded' = Recorded(merged)
    /\ pass' = IdlePass
    /\ hydrated' = TRUE
    /\ UNCHANGED <<feed, bucket, snapshotVars, fitted, runVars, clock, covered>>

\* The forecaster is fitted once, with what the store holds by then; with nothing
\* pending the pass is a no-op, else it dates its snapshot and simulates.
Build(reachable) ==
    /\ pass.pc = "recorded"
    /\ IF fitted = Unfitted
         THEN /\ Reads(reachable)
              /\ fitted' = Loaded(reachable) /\ mirror' = Renewed(reachable)
              /\ hydrated' = (hydrated \/ reachable)
         ELSE reachable /\ NoFault /\ UNCHANGED <<fitted, mirror, hydrated>>
    /\ IF pass.pending = {}
         THEN pass' = IdlePass /\ UNCHANGED clock
         ELSE /\ pass' = [pass EXCEPT !.pc = "simulated", !.at = clock + 1]
              /\ clock' = clock + 1
    /\ UNCHANGED <<feed, bucket, recorded, snapshotVars, runVars, covered>>

PassSnapshot == [at |-> pass.at, live |-> TRUE, results |-> pass.merged, fit |-> fitted]

\* Mutant of Publish: the loop keeps its forecaster.
PublishKeepingFit ==
    /\ pass.pc = "simulated" /\ NoFault
    /\ local' = Newer(PassSnapshot, local) /\ remote' = Newer(PassSnapshot, remote)
    /\ pass' = IdlePass /\ covered' = bucket
    /\ UNCHANGED <<feed, storeVars, fitted, runVars, clock>>

\* The snapshot and the fitted state are out: the loop will refit.
Publish ==
    /\ pass.pc = "simulated" /\ NoFault
    /\ local' = Newer(PassSnapshot, local) /\ remote' = Newer(PassSnapshot, remote)
    /\ pass' = IdlePass /\ covered' = bucket
    /\ fitted' = Unfitted
    /\ UNCHANGED <<feed, storeVars, runVars, clock>>

\* The host's copy is written first, the bucket fails.
PublishFails ==
    /\ pass.pc = "simulated" /\ Fault("snapshotPut")
    /\ local' = Newer(PassSnapshot, local)
    /\ pass' = IdlePass
    /\ UNCHANGED <<feed, storeVars, remote, fitted, runVars, clock, covered>>

\* The snapshot is out and the fitted state fails: the pass did not return True.
FittedPutFails ==
    /\ pass.pc = "simulated" /\ Fault("fittedPut")
    /\ local' = Newer(PassSnapshot, local) /\ remote' = Newer(PassSnapshot, remote)
    /\ pass' = IdlePass
    /\ UNCHANGED <<feed, storeVars, fitted, runVars, clock, covered>>

\* The host dies; its successor has a new disk.
Crash ==
    /\ Fault("crash")
    /\ pass' = IdlePass /\ fitted' = Unfitted
    /\ mirror' = NoResults /\ hydrated' = FALSE /\ covered' = NoResults
    /\ local' = [remote EXCEPT !.at = 0, !.results = NoResults]
    /\ UNCHANGED <<feed, bucket, recorded, remote, runVars, clock>>

-----------------------------------------------------------------------------
(* The provider, and the daily and agent runs.                              *)

Finish(m) ==
    /\ feed[m] < Revisions[m]
    /\ feed' = [feed EXCEPT ![m] = @ + 1]
    /\ UNCHANGED <<storeVars, snapshotVars, fitted, pass, runVars, clock, faults, covered>>

\* A run's container has no mirror to fall back on.
StartRun(reachable) ==
    /\ run.pc = "idle" /\ runs < MaxRuns /\ Reads(reachable)
    /\ runs' = runs + 1
    /\ run' = [pc |-> "loaded", results |-> IF reachable THEN bucket ELSE NoResults]
    /\ UNCHANGED <<feed, storeVars, snapshotVars, fitted, pass, clock, covered>>

PublishRun ==
    /\ run.pc = "loaded"
    /\ clock' = clock + 1
    /\ remote' = [at |-> clock + 1, live |-> FALSE, results |-> run.results, fit |-> run.results]
    /\ run' = IdleRun
    /\ UNCHANGED <<feed, storeVars, local, fitted, pass, runs, faults, covered>>

PollSome == \E polled \in SUBSET Finished(feed), reachable \in BOOLEAN : Poll(polled, reachable)
PollAll == \E reachable \in BOOLEAN : Poll(Finished(feed), reachable)
RecordPolled == \E reachable \in BOOLEAN : RecordNothing(reachable) \/ Record(reachable)
BuildState == \E reachable \in BOOLEAN : Build(reachable)

LiveNext ==
    \/ PollSome \/ RecordPolled \/ RecordFails \/ BuildState
    \/ Publish \/ PublishFails \/ FittedPutFails \/ Crash
    \/ \E m \in Matches : Finish(m)
    \/ \E reachable \in BOOLEAN : StartRun(reachable)
    \/ PublishRun

\* The loop goes round for as long as its host is up, and now and then the provider
\* answers in full.  Nothing is assumed of the runs.
LiveFairness ==
    /\ SF_liveVars(PollAll)
    /\ WF_liveVars(RecordPolled) /\ WF_liveVars(BuildState) /\ WF_liveVars(Publish)

LiveSpec == LiveInit /\ [][LiveNext]_liveVars /\ LiveFairness

-----------------------------------------------------------------------------
(* What the loop promises.                                                  *)

\* "A polled result must survive even when this pass publishes nothing": no snapshot
\* of the loop shows a score that the store the other runs read was never given.
RecordedBeforePublished ==
    remote.live => \A m \in Finished(remote.results) : remote.results[m] \in recorded[m]

\* A partial poll erases no known result, whatever fails, on a host that has seen the
\* store: only a new disk and an unreadable bucket together lose one.
ErasedOnlyBlind ==
    [][(\E m \in Matches : bucket[m] # 0 /\ bucket'[m] = 0) => ~hydrated]_liveVars

\* The ratings of a snapshot of the loop lag the store by one publish at most: they cover
\* every match the bucket had a result of when a pass last returned True.
RatingsLagOnePublish ==
    [][remote' # remote /\ remote'.live =>
          Finished(covered) \subseteq Finished(remote'.fit)]_liveVars

\* However the host dies, whatever a slow run publishes in between and however few
\* results a poll brings, a finished match comes to be played in a snapshot; if the
\* bucket failed the loop, perhaps only in the one on its host.
ResultsReachSnapshot ==
    \A m \in Matches : feed[m] # 0 ~> remote.results[m] # 0 \/ local.results[m] # 0

=============================================================================
