---------------------------- MODULE LivePassProofs ----------------------------
(* The match-day loop, for any number of matches, revisions and faults: no  *)
(* snapshot of the loop shows a score the store was never given, no poll    *)
(* erases a known result on a host that has seen the store, and the ratings *)
(* cover what the bucket held when a pass last published.                   *)
EXTENDS LivePass, TLAPS

LEMMA MergeType ==
    ASSUME NEW r \in Results, NEW s \in Results
    PROVE  Merge(r, s) \in Results
BY DEF Merge, Results

LEMMA LoadedType ==
    ASSUME bucket \in Results, mirror \in Results, NEW b
    PROVE  Loaded(b) \in {bucket, mirror} /\ Renewed(b) \in {bucket, mirror}
           /\ Loaded(b) \in Results /\ Renewed(b) \in Results /\ Renewed(b) = Loaded(b)
BY DEF Loaded, Renewed

LEMMA NewerType ==
    ASSUME NEW s \in Snapshots, NEW t \in Snapshots
    PROVE  Newer(s, t) \in {s, t} /\ Newer(s, t) \in Snapshots
BY DEF Newer

Steps == {"idle", "polled", "recorded", "simulated"}
Passes == [pc : Steps, overlay : Results, pending : SUBSET Matches, merged : Results, at : Nat]

LEMMA NoResultsType == NoResults \in Results /\ IdlePass \in Passes
<1>1. NoResults \in Results
      BY DEF NoResults, Results
<1>2. {} \in SUBSET Matches
      OBVIOUS
<1> QED BY <1>1, <1>2 DEF IdlePass, Passes, Steps

LEMMA PassType == LiveTypeOK => pass \in Passes
BY DEF LiveTypeOK, Passes, Steps

LEMMA PendingType ==
    ASSUME NEW o \in Results, NEW k, NEW p
    PROVE  Pending(o, k, p) \in SUBSET Matches
BY DEF Pending, Finished

LEMMA RecordedType ==
    ASSUME recorded \in [Matches -> SUBSET Nat], NEW r \in Results
    PROVE  Recorded(r) \in [Matches -> SUBSET Nat]
BY DEF Recorded, Results

\* The types, one by one.
Typed ==
    /\ pass \in Passes
    /\ feed \in Results /\ bucket \in Results /\ mirror \in Results /\ covered \in Results
    /\ remote \in Snapshots /\ local \in Snapshots
    /\ fitted \in Results \cup {Unfitted}
    /\ run \in [pc : {"idle", "loaded"}, results : Results]
    /\ clock \in Nat /\ runs \in Nat /\ faults \in Nat
    /\ recorded \in [Matches -> SUBSET Nat] /\ hydrated \in BOOLEAN

LEMMA TypesAre == LiveTypeOK <=> Typed
BY DEF LiveTypeOK, Typed, Passes, Steps

LEMMA FaultsTyped ==
    ASSUME faults \in Nat,
           \/ NoFault \/ (\E kind : Fault(kind)) \/ (\E reachable : Reads(reachable))
    PROVE  faults' \in Nat
BY DEF NoFault, Fault, Reads

LEMMA PassTypedNext ==
    ASSUME Typed, [LiveNext]_liveVars
    PROVE  pass' \in Passes
<1> USE DEF Typed
<1>1. ASSUME NEW polled, NEW reachable \in BOOLEAN, Poll(polled, reachable) PROVE pass' \in Passes
  <2> DEFINE overlay == [m \in Matches |-> IF m \in polled THEN feed[m] ELSE 0]
             pending == Pending(overlay, Loaded(reachable), Newer(remote, local))
  <2>1. overlay \in Results
        BY DEF Results
  <2>2. pending \in SUBSET Matches
        BY <2>1, PendingType
  <2>3. pass' = [IdlePass EXCEPT !.pc = "polled", !.overlay = overlay, !.pending = pending]
        BY <1>1 DEF Poll
  <2> HIDE DEF overlay, pending
  <2> QED BY <2>1, <2>2, <2>3, NoResultsType DEF Passes, Steps
<1>2. ASSUME NEW reachable \in BOOLEAN, RecordNothing(reachable) PROVE pass' \in Passes
  <2>1. Loaded(reachable) \in Results
        BY LoadedType
  <2> QED BY <1>2, <2>1 DEF RecordNothing, Passes, Steps
<1>3. ASSUME NEW reachable \in BOOLEAN, Record(reachable) PROVE pass' \in Passes
  <2>1. Merge(Loaded(reachable), pass.overlay) \in Results
        BY LoadedType, MergeType DEF Passes
  <2> QED BY <1>3, <2>1 DEF Record, Passes, Steps
<1>4. ASSUME NEW reachable \in BOOLEAN, Build(reachable) PROVE pass' \in Passes
  <2>1. CASE pass.pending = {}
        BY <1>4, <2>1, NoResultsType DEF Build
  <2>2. CASE pass.pending # {}
    <3>1. pass' = [pass EXCEPT !.pc = "simulated", !.at = clock + 1]
          BY <1>4, <2>2 DEF Build
    <3>2. clock + 1 \in Nat
          OBVIOUS
    <3>3. "simulated" \in Steps
          BY DEF Steps
    <3> QED BY <3>1, <3>2, <3>3 DEF Passes
  <2> QED BY <2>1, <2>2
<1>5. CASE RecordFails \/ Publish \/ PublishFails \/ FittedPutFails \/ Crash
      BY <1>5, NoResultsType DEF RecordFails, Publish, PublishFails, FittedPutFails, Crash
<1>6. CASE \/ \E m \in Matches : Finish(m)
           \/ \E reachable \in BOOLEAN : StartRun(reachable)
           \/ PublishRun \/ UNCHANGED liveVars
      BY <1>6 DEF Finish, StartRun, PublishRun, liveVars
<1> QED BY <1>1, <1>2, <1>3, <1>4, <1>5, <1>6 DEF LiveNext, PollSome, RecordPolled, BuildState

\* What a pass publishes is a snapshot.
LEMMA SnapshotTypes ==
    ASSUME Typed
    PROVE  /\ fitted \in Results => PassSnapshot \in Snapshots
           /\ [remote EXCEPT !.at = 0, !.results = NoResults] \in Snapshots
           /\ [at |-> clock + 1, live |-> FALSE, results |-> run.results, fit |-> run.results]
                \in Snapshots
           /\ [at |-> 0, live |-> FALSE, results |-> NoResults, fit |-> NoResults] \in Snapshots
<1>1. fitted \in Results => PassSnapshot \in Snapshots
  <2>1. pass.at \in Nat /\ pass.merged \in Results
        BY DEF Typed, Passes
  <2> QED BY <2>1 DEF Typed, Snapshots, PassSnapshot
<1>2. [remote EXCEPT !.at = 0, !.results = NoResults] \in Snapshots
      BY NoResultsType DEF Typed, Snapshots
<1>3. [at |-> clock + 1, live |-> FALSE, results |-> run.results, fit |-> run.results] \in Snapshots
      BY DEF Typed, Snapshots
<1>4. [at |-> 0, live |-> FALSE, results |-> NoResults, fit |-> NoResults] \in Snapshots
      BY NoResultsType DEF Snapshots
<1> QED BY <1>1, <1>2, <1>3, <1>4

\* A pass that has simulated has a forecaster.
PassFitted == pass.pc = "simulated" => fitted \in Results

LEMMA RestTypedNext ==
    ASSUME Typed, PassFitted, [LiveNext]_liveVars
    PROVE  Typed' /\ PassFitted'
<1>0. pass' \in Passes
      BY PassTypedNext
<1> USE DEF storeVars, snapshotVars, runVars
<1>1. ASSUME NEW polled, NEW reachable \in BOOLEAN, Poll(polled, reachable)
      PROVE  Typed' /\ PassFitted'
  <2>1. local' \in Snapshots
        BY <1>1, NewerType DEF Poll, Typed
  <2>2. mirror' \in Results /\ hydrated' \in BOOLEAN /\ faults' \in Nat
        BY <1>1, LoadedType, FaultsTyped DEF Poll, Typed
  <2>3. pass'.pc = "polled"
        BY <1>1 DEF Poll, IdlePass
  <2> QED BY <1>0, <1>1, <2>1, <2>2, <2>3 DEF Poll, Typed, PassFitted
<1>2. ASSUME NEW reachable \in BOOLEAN, RecordNothing(reachable) PROVE Typed' /\ PassFitted'
  <2>1. mirror' \in Results /\ hydrated' \in BOOLEAN /\ faults' \in Nat
        BY <1>2, LoadedType, FaultsTyped DEF RecordNothing, Typed
  <2>2. pass'.pc = "recorded"
        BY <1>2 DEF RecordNothing, Typed, Passes
  <2> QED BY <1>0, <1>2, <2>1, <2>2 DEF RecordNothing, Typed, PassFitted
<1>3. ASSUME NEW reachable \in BOOLEAN, Record(reachable) PROVE Typed' /\ PassFitted'
  <2>1. Merge(Loaded(reachable), pass.overlay) \in Results
        BY LoadedType, MergeType DEF Typed, Passes
  <2>2. mirror' \in Results /\ bucket' \in Results /\ recorded' \in [Matches -> SUBSET Nat]
        BY <1>3, <2>1, RecordedType DEF Record, Typed
  <2>3. faults' \in Nat
        BY <1>3, FaultsTyped DEF Record, Typed
  <2>4. pass'.pc = "recorded"
        BY <1>3 DEF Record, Typed, Passes
  <2> QED BY <1>0, <1>3, <2>2, <2>3, <2>4 DEF Record, Typed, PassFitted
<1>4. CASE RecordFails
  <2>1. Merge(Loaded(TRUE), pass.overlay) \in Results
        BY LoadedType, MergeType DEF Typed, Passes
  <2>2. mirror' \in Results /\ recorded' \in [Matches -> SUBSET Nat]
        BY <1>4, <2>1, RecordedType DEF RecordFails, Typed
  <2>3. faults' \in Nat
        BY <1>4, FaultsTyped DEF RecordFails, Typed
  <2>4. pass'.pc = "idle"
        BY <1>4 DEF RecordFails, IdlePass
  <2> QED BY <1>0, <1>4, <2>2, <2>3, <2>4 DEF RecordFails, Typed, PassFitted
<1>5. ASSUME NEW reachable \in BOOLEAN, Build(reachable) PROVE Typed' /\ PassFitted'
  <2>1. fitted' \in Results
        BY <1>5, LoadedType DEF Build, Typed
  <2>2. mirror' \in Results /\ hydrated' \in BOOLEAN
        BY <1>5, LoadedType DEF Build, Typed
  <2>3. faults' \in Nat
        BY <1>5, FaultsTyped DEF Build, Typed
  <2>4. clock' \in Nat
        BY <1>5 DEF Build, Typed
  <2> QED BY <1>0, <1>5, <2>1, <2>2, <2>3, <2>4 DEF Build, Typed, PassFitted
<1>6. CASE Publish \/ FittedPutFails \/ PublishFails
  <2>1. PassSnapshot \in Snapshots
        BY <1>6, SnapshotTypes DEF PassFitted, Publish, FittedPutFails, PublishFails
  <2>2. local' \in Snapshots /\ remote' \in Snapshots
        BY <1>6, <2>1, NewerType DEF Publish, FittedPutFails, PublishFails, Typed
  <2>3. faults' \in Nat
        BY <1>6, FaultsTyped DEF Publish, FittedPutFails, PublishFails, Typed
  <2>4. pass'.pc = "idle"
        BY <1>6 DEF Publish, FittedPutFails, PublishFails, IdlePass
  <2> QED BY <1>0, <1>6, <2>2, <2>3, <2>4
          DEF Publish, FittedPutFails, PublishFails, Typed, PassFitted
<1>7. CASE Crash
  <2>1. local' \in Snapshots
        BY <1>7, SnapshotTypes DEF Crash
  <2>2. faults' \in Nat
        BY <1>7, FaultsTyped DEF Crash, Typed
  <2>3. pass'.pc = "idle"
        BY <1>7 DEF Crash, IdlePass
  <2> QED BY <1>0, <1>7, <2>1, <2>2, <2>3, NoResultsType DEF Crash, Typed, PassFitted
<1>8. ASSUME NEW m \in Matches, Finish(m) PROVE Typed' /\ PassFitted'
  <2>1. feed' \in Results
        BY <1>8 DEF Finish, Typed, Results
  <2> QED BY <1>0, <1>8, <2>1 DEF Finish, Typed, PassFitted
<1>9. ASSUME NEW reachable \in BOOLEAN, StartRun(reachable) PROVE Typed' /\ PassFitted'
  <2>1. run' \in [pc : {"idle", "loaded"}, results : Results] /\ runs' \in Nat
        BY <1>9, NoResultsType DEF StartRun, Typed
  <2>2. faults' \in Nat
        BY <1>9, FaultsTyped DEF StartRun, Typed
  <2> QED BY <1>0, <1>9, <2>1, <2>2 DEF StartRun, Typed, PassFitted
<1>10. CASE PublishRun
  <2>1. remote' \in Snapshots
        BY <1>10, SnapshotTypes DEF PublishRun
  <2>2. run' \in [pc : {"idle", "loaded"}, results : Results] /\ clock' \in Nat
        BY <1>10, NoResultsType DEF PublishRun, Typed, IdleRun
  <2> QED BY <1>0, <1>10, <2>1, <2>2 DEF PublishRun, Typed, PassFitted
<1>11. CASE UNCHANGED liveVars
  <2> QED BY <1>11 DEF liveVars, Typed, PassFitted
<1> QED BY <1>1, <1>2, <1>3, <1>4, <1>5, <1>6, <1>7, <1>8, <1>9, <1>10, <1>11
        DEF LiveNext, PollSome, RecordPolled, BuildState

LEMMA TypedInit == LiveInit => Typed /\ PassFitted
<1> SUFFICES ASSUME LiveInit PROVE Typed /\ PassFitted
      OBVIOUS
<1>1. remote \in Snapshots /\ local \in Snapshots
  <2> DEFINE opening == [at |-> 0, live |-> FALSE, results |-> NoResults, fit |-> NoResults]
  <2>1. opening \in Snapshots
        BY NoResultsType DEF Snapshots
  <2> QED BY <2>1 DEF LiveInit
<1>2. pass \in Passes /\ pass.pc = "idle"
      BY NoResultsType DEF LiveInit, IdlePass
<1>3. run \in [pc : {"idle", "loaded"}, results : Results]
      BY NoResultsType DEF LiveInit, IdleRun
<1>4. recorded \in [Matches -> SUBSET Nat] /\ hydrated \in BOOLEAN
      BY DEF LiveInit
<1>5. feed \in Results /\ bucket \in Results /\ mirror \in Results /\ covered \in Results
      /\ fitted \in Results \cup {Unfitted}
      BY NoResultsType DEF LiveInit
<1> QED BY <1>1, <1>2, <1>3, <1>4, <1>5 DEF Typed, PassFitted, LiveInit

LEMMA TypesKept == LiveSpec => [](Typed /\ PassFitted)
<1>1. Typed /\ PassFitted /\ [LiveNext]_liveVars => Typed' /\ PassFitted'
      BY RestTypedNext
<1> QED BY <1>1, TypedInit, PTL DEF LiveSpec

\* What the loop keeps and what it publishes are results and snapshots (live_pass).
THEOREM LiveTypeCorrect == LiveSpec => []LiveTypeOK
<1>1. Typed /\ PassFitted => LiveTypeOK
      BY TypesAre
<1> QED BY <1>1, TypesKept, PTL

-----------------------------------------------------------------------------
(* What a snapshot of the loop shows.                                       *)

Put(r) == \A m \in Matches : r[m] # 0 => r[m] \in recorded[m]

\* What the bucket, the mirror and a pass on its way to a snapshot hold has been put.
AllRecorded ==
    /\ Put(bucket) /\ Put(mirror)
    /\ pass.pc \in {"recorded", "simulated"} => Put(pass.merged)
    /\ RecordedBeforePublished

\* No put is forgotten.
LEMMA PutsKept ==
    ASSUME Typed, [LiveNext]_liveVars, NEW r, Put(r)
    PROVE  Put(r)'
<1> USE DEF storeVars, snapshotVars, runVars
<1> SUFFICES \A m \in Matches : recorded[m] \subseteq recorded'[m]
      BY DEF Put
<1>1. ASSUME NEW s, recorded' = Recorded(s) PROVE \A m \in Matches : recorded[m] \subseteq recorded'[m]
      BY <1>1 DEF Recorded
<1>2. ASSUME NEW polled, NEW reachable \in BOOLEAN, Poll(polled, reachable) PROVE recorded' = recorded
      BY <1>2 DEF Poll
<1>3. ASSUME NEW reachable \in BOOLEAN, RecordNothing(reachable) \/ Build(reachable) \/ StartRun(reachable)
      PROVE  recorded' = recorded
      BY <1>3 DEF RecordNothing, Build, StartRun
<1>4. CASE Publish \/ PublishFails \/ FittedPutFails \/ Crash \/ PublishRun
           \/ (\E m \in Matches : Finish(m)) \/ UNCHANGED liveVars
      BY <1>4 DEF Publish, PublishFails, FittedPutFails, Crash, PublishRun, Finish, liveVars
<1>5. ASSUME NEW reachable \in BOOLEAN, Record(reachable) PROVE \E s : recorded' = Recorded(s)
      BY <1>5 DEF Record
<1>6. CASE RecordFails
      BY <1>1, <1>6 DEF RecordFails
<1> QED BY <1>1, <1>2, <1>3, <1>4, <1>5, <1>6
        DEF LiveNext, PollSome, RecordPolled, BuildState

LEMMA PutNow ==
    ASSUME Typed, NEW r \in Results, recorded' = Recorded(r)
    PROVE  Put(r)'
BY DEF Put, Recorded, Results, Typed

LEMMA AllRecordedNext ==
    ASSUME Typed, PassFitted, AllRecorded, [LiveNext]_liveVars
    PROVE  AllRecorded'
<1> USE DEF storeVars, snapshotVars, runVars
<1>0. \A r : Put(r) => Put(r)'
      BY PutsKept
<1>a. /\ Put(bucket) /\ Put(mirror)
      /\ pass.pc \in {"recorded", "simulated"} => Put(pass.merged)
      /\ remote.live => Put(remote.results)
      BY DEF AllRecorded, RecordedBeforePublished, Put, Finished
<1>b. SUFFICES /\ Put(bucket)' /\ Put(mirror)'
               /\ pass'.pc \in {"recorded", "simulated"} => Put(pass.merged)'
               /\ remote'.live => Put(remote.results)'
      BY DEF AllRecorded, RecordedBeforePublished, Put, Finished
<1>c. \A r : Put(r) =>
          (\A m \in Matches : r[m] # 0 => r[m] \in recorded'[m])
      BY <1>0 DEF Put
<1>2. ASSUME NEW polled, NEW reachable \in BOOLEAN, Poll(polled, reachable)
      PROVE  /\ Put(bucket)' /\ Put(mirror)'
             /\ pass'.pc \in {"recorded", "simulated"} => Put(pass.merged)'
             /\ remote'.live => Put(remote.results)'
  <2>1. mirror' \in {bucket, mirror} /\ bucket' = bucket /\ remote' = remote
        BY <1>2, LoadedType DEF Poll, Typed
  <2>2. pass'.pc = "polled"
        BY <1>2 DEF Poll, IdlePass
  <2> QED BY <1>a, <1>c, <2>1, <2>2 DEF Put
<1>3. ASSUME NEW reachable \in BOOLEAN, RecordNothing(reachable)
      PROVE  /\ Put(bucket)' /\ Put(mirror)'
             /\ pass'.pc \in {"recorded", "simulated"} => Put(pass.merged)'
             /\ remote'.live => Put(remote.results)'
  <2>1. mirror' \in {bucket, mirror} /\ bucket' = bucket /\ remote' = remote
        BY <1>3, LoadedType DEF RecordNothing, Typed
  <2>2. pass'.merged \in {bucket, mirror}
        BY <1>3, LoadedType DEF RecordNothing, Typed, Passes
  <2> QED BY <1>a, <1>c, <2>1, <2>2 DEF Put
<1>4. ASSUME NEW reachable \in BOOLEAN, Record(reachable)
      PROVE  /\ Put(bucket)' /\ Put(mirror)'
             /\ pass'.pc \in {"recorded", "simulated"} => Put(pass.merged)'
             /\ remote'.live => Put(remote.results)'
  <2> DEFINE merged == Merge(Loaded(reachable), pass.overlay)
  <2>1. merged \in Results
        BY LoadedType, MergeType DEF Typed, Passes
  <2>2. /\ bucket' = merged /\ mirror' = merged /\ recorded' = Recorded(merged) /\ remote' = remote
        /\ pass' = [pass EXCEPT !.pc = "recorded", !.merged = merged]
        BY <1>4 DEF Record
  <2> HIDE DEF merged
  <2>3. pass'.merged = merged
        BY <2>2 DEF Typed, Passes
  <2>4. \A m \in Matches : merged[m] # 0 => merged[m] \in recorded'[m]
        BY <2>1, <2>2, PutNow DEF Recorded, Results, Typed
  <2> QED BY <1>a, <1>c, <2>2, <2>3, <2>4 DEF Put
<1>5. CASE RecordFails
  <2> DEFINE merged == Merge(Loaded(TRUE), pass.overlay)
  <2>1. merged \in Results
        BY LoadedType, MergeType DEF Typed, Passes
  <2>2. bucket' = bucket /\ mirror' = merged /\ recorded' = Recorded(merged) /\ remote' = remote
        BY <1>5 DEF RecordFails
  <2> HIDE DEF merged
  <2>3. pass'.pc = "idle"
        BY <1>5 DEF RecordFails, IdlePass
  <2>4. \A m \in Matches : merged[m] # 0 => merged[m] \in recorded'[m]
        BY <2>1, <2>2 DEF Recorded, Results, Typed
  <2> QED BY <1>a, <1>c, <2>2, <2>3, <2>4 DEF Put
<1>6. ASSUME NEW reachable \in BOOLEAN, Build(reachable)
      PROVE  /\ Put(bucket)' /\ Put(mirror)'
             /\ pass'.pc \in {"recorded", "simulated"} => Put(pass.merged)'
             /\ remote'.live => Put(remote.results)'
  <2>1. mirror' \in {bucket, mirror} /\ bucket' = bucket /\ remote' = remote
        BY <1>6, LoadedType DEF Build, Typed
  <2>2. pass'.pc \in {"recorded", "simulated"} => pass'.merged = pass.merged /\ pass.pc = "recorded"
    <3>1. pass.pc = "recorded"
          BY <1>6 DEF Build
    <3>2. CASE pass.pending = {}
          BY <1>6, <3>2 DEF Build, IdlePass
    <3>3. CASE pass.pending # {}
      <4>1. pass' = [pass EXCEPT !.pc = "simulated", !.at = clock + 1]
            BY <1>6, <3>3 DEF Build
      <4> QED BY <3>1, <4>1 DEF Typed, Passes
    <3> QED BY <3>2, <3>3
  <2> QED BY <1>a, <1>c, <2>1, <2>2 DEF Put
<1>7. CASE Publish \/ FittedPutFails
  <2>1. Put(pass.merged)
        BY <1>7, <1>a DEF Publish, FittedPutFails
  <2>2. remote' \in {PassSnapshot, remote} /\ bucket' = bucket /\ mirror' = mirror
        BY <1>7 DEF Publish, FittedPutFails, Newer
  <2>3. pass'.pc = "idle"
        BY <1>7 DEF Publish, FittedPutFails, IdlePass
  <2>4. PassSnapshot.results = pass.merged
        BY DEF PassSnapshot
  <2> QED BY <1>a, <1>c, <2>1, <2>2, <2>3, <2>4 DEF Put
<1>8. CASE Crash
  <2>1. mirror' = NoResults /\ bucket' = bucket /\ remote' = remote /\ pass'.pc = "idle"
        BY <1>8 DEF Crash, IdlePass
  <2> QED BY <1>a, <1>c, <2>1 DEF Put, NoResults
<1>9. CASE PublishRun
  <2>1. bucket' = bucket /\ mirror' = mirror /\ pass' = pass /\ remote'.live = FALSE
        BY <1>9 DEF PublishRun
  <2> QED BY <1>a, <1>c, <2>1 DEF Put
<1>10. CASE \/ PublishFails \/ (\E m \in Matches : Finish(m))
            \/ (\E reachable \in BOOLEAN : StartRun(reachable)) \/ UNCHANGED liveVars
  <2>1. UNCHANGED <<bucket, mirror, remote>>
        BY <1>10 DEF PublishFails, Finish, StartRun, liveVars
  <2>2. pass' = pass \/ pass'.pc = "idle"
        BY <1>10 DEF PublishFails, Finish, StartRun, liveVars, IdlePass
  <2> QED BY <1>a, <1>c, <2>1, <2>2 DEF Put
<1> QED BY <1>2, <1>3, <1>4, <1>5, <1>6, <1>7, <1>8, <1>9, <1>10
        DEF LiveNext, PollSome, RecordPolled, BuildState

\* However many faults strike, a snapshot of the loop shows no score that the results
\* store was not given first (live_pass records, then publishes).
THEOREM LiveRecordsFirst == LiveSpec => []RecordedBeforePublished
<1>1. LiveInit => AllRecorded
      BY DEF LiveInit, AllRecorded, RecordedBeforePublished, Put, IdlePass, NoResults, Finished
<1>2. AllRecorded => RecordedBeforePublished
      BY DEF AllRecorded
<1> QED BY <1>1, <1>2, AllRecordedNext, TypesKept, PTL DEF LiveSpec

-----------------------------------------------------------------------------
(* What the host has seen.                                                  *)

\* The mirror of a host that has seen the store has every match the bucket has.
MirrorCovers == hydrated => Finished(bucket) \subseteq Finished(mirror)

\* What a read of the store gives covers the bucket, if the bucket or the host can.
LEMMA LoadedCovers ==
    ASSUME Typed, MirrorCovers, NEW reachable \in BOOLEAN, reachable \/ hydrated
    PROVE  Finished(bucket) \subseteq Finished(Loaded(reachable))
<1>1. CASE bucket = NoResults
  <2>1. Finished(bucket) = {}
        BY <1>1 DEF Finished, NoResults
  <2> QED BY <2>1
<1>2. CASE bucket # NoResults
      BY <1>2 DEF Loaded, MirrorCovers
<1> QED BY <1>1, <1>2

LEMMA MergeCovers ==
    ASSUME NEW r, NEW s
    PROVE  /\ Finished(r) \subseteq Finished(Merge(r, s))
           /\ Merge(r, s) = NoResults => Finished(s) = {}
BY DEF Finished, Merge, NoResults

LEMMA MirrorCoversNext ==
    ASSUME Typed, MirrorCovers, [LiveNext]_liveVars
    PROVE  MirrorCovers'
<1> USE DEF storeVars, snapshotVars, runVars
<1>1. ASSUME NEW reachable \in BOOLEAN, bucket' = bucket, mirror' = Renewed(reachable),
             hydrated' = (hydrated \/ reachable)
      PROVE  MirrorCovers'
  <2>1. hydrated' => Finished(bucket) \subseteq Finished(Loaded(reachable))
        BY <1>1, LoadedCovers
  <2> QED BY <1>1, <2>1 DEF MirrorCovers, Loaded, Renewed
<1>2. ASSUME NEW polled, NEW reachable \in BOOLEAN, Poll(polled, reachable) PROVE MirrorCovers'
      BY <1>1, <1>2 DEF Poll
<1>3. ASSUME NEW reachable \in BOOLEAN, RecordNothing(reachable) PROVE MirrorCovers'
      BY <1>1, <1>3 DEF RecordNothing
<1>4. ASSUME NEW reachable \in BOOLEAN, Record(reachable) PROVE MirrorCovers'
      BY <1>4 DEF Record, MirrorCovers
<1>5. CASE RecordFails
  <2> DEFINE merged == Merge(Loaded(TRUE), pass.overlay)
  <2>1. Finished(bucket) \subseteq Finished(Loaded(TRUE))
        BY LoadedCovers
  <2>2. Finished(Loaded(TRUE)) \subseteq Finished(merged)
        BY MergeCovers
  <2>3. bucket' = bucket /\ mirror' = merged
        BY <1>5 DEF RecordFails
  <2> QED BY <2>1, <2>2, <2>3 DEF MirrorCovers
<1>6. ASSUME NEW reachable \in BOOLEAN, Build(reachable) PROVE MirrorCovers'
  <2>1. CASE fitted = Unfitted
        BY <1>1, <1>6, <2>1 DEF Build
  <2>2. CASE fitted # Unfitted
        BY <1>6, <2>2 DEF Build, MirrorCovers
  <2> QED BY <2>1, <2>2
<1>7. CASE Crash
      BY <1>7 DEF Crash, MirrorCovers
<1>8. CASE \/ Publish \/ PublishFails \/ FittedPutFails \/ PublishRun
           \/ (\E m \in Matches : Finish(m))
           \/ (\E reachable \in BOOLEAN : StartRun(reachable)) \/ UNCHANGED liveVars
      BY <1>8 DEF Publish, PublishFails, FittedPutFails, PublishRun, Finish, StartRun, liveVars,
         MirrorCovers
<1> QED BY <1>2, <1>3, <1>4, <1>5, <1>6, <1>7, <1>8
        DEF LiveNext, PollSome, RecordPolled, BuildState

\* Only a record writes the bucket.
LEMMA BucketWritten ==
    ASSUME [LiveNext]_liveVars, bucket' # bucket
    PROVE  \E reachable \in BOOLEAN :
               Record(reachable) /\ bucket' = Merge(Loaded(reachable), pass.overlay)
<1> USE DEF storeVars, snapshotVars, runVars
<1>1. ASSUME NEW reachable \in BOOLEAN
      PROVE  /\ ~StartRun(reachable) /\ ~RecordNothing(reachable) /\ ~Build(reachable)
             /\ \A polled : ~Poll(polled, reachable)
      BY DEF StartRun, RecordNothing, Build, Poll
<1>2. /\ ~RecordFails /\ ~Publish /\ ~PublishFails /\ ~FittedPutFails /\ ~Crash
      /\ ~PublishRun /\ ~(UNCHANGED liveVars) /\ \A m \in Matches : ~Finish(m)
      BY DEF RecordFails, Publish, PublishFails, FittedPutFails, Crash, PublishRun, Finish, liveVars
<1>3. \E reachable \in BOOLEAN : Record(reachable)
      BY <1>1, <1>2 DEF LiveNext, PollSome, RecordPolled, BuildState
<1> QED BY <1>3 DEF Record

\* On a host that has seen the store, a record keeps every match the bucket has.
LEMMA BucketGrows ==
    ASSUME Typed, MirrorCovers, [LiveNext]_liveVars, hydrated
    PROVE  Finished(bucket) \subseteq Finished(bucket')
<1>1. CASE bucket' = bucket
      BY <1>1
<1>2. CASE bucket' # bucket
  <2>1. PICK reachable \in BOOLEAN : bucket' = Merge(Loaded(reachable), pass.overlay)
        BY <1>2, BucketWritten
  <2>2. Finished(bucket) \subseteq Finished(Loaded(reachable))
        BY LoadedCovers
  <2>3. Finished(Loaded(reachable)) \subseteq Finished(bucket')
        BY <2>1, MergeCovers
  <2> QED BY <2>2, <2>3
<1> QED BY <1>1, <1>2

\* However partial a poll and whatever fails, only a host that never saw the store since
\* its disk was new loses a result it knows (ResultsStore.record).
THEOREM LiveErasesOnlyBlind == LiveSpec => ErasedOnlyBlind
<1>1. LiveInit => MirrorCovers
      BY DEF LiveInit, MirrorCovers
<1>2. Typed /\ MirrorCovers /\ [LiveNext]_liveVars => MirrorCovers'
      BY MirrorCoversNext
<1>3. Typed /\ MirrorCovers /\ [LiveNext]_liveVars
        => [(\E m \in Matches : bucket[m] # 0 /\ bucket'[m] = 0) => ~hydrated]_liveVars
  <2> SUFFICES ASSUME Typed, MirrorCovers, [LiveNext]_liveVars, hydrated,
                      NEW m \in Matches, bucket[m] # 0, bucket'[m] = 0
               PROVE  FALSE
        OBVIOUS
  <2>1. m \in Finished(bucket) /\ m \notin Finished(bucket')
        BY DEF Finished
  <2> QED BY <2>1, BucketGrows
<1> QED BY <1>1, <1>2, <1>3, TypesKept, PTL DEF LiveSpec, ErasedOnlyBlind

-----------------------------------------------------------------------------
(* What the ratings cover.                                                  *)

\* A pass has nothing pending that it did not poll; a host that has not seen the store
\* knows nothing, and publishes nothing.
BlindIsIdle ==
    /\ pass.pc = "polled" => pass.pending \subseteq Finished(pass.overlay)
    /\ ~hydrated => /\ mirror = NoResults /\ Finished(covered) = {}
                    /\ pass.pc # "simulated"
                    /\ pass.pc = "recorded" => pass.pending = {}

LEMMA BlindIsIdleNext ==
    ASSUME Typed, BlindIsIdle, [LiveNext]_liveVars
    PROVE  BlindIsIdle'
<1> USE DEF storeVars, snapshotVars, runVars
<1>0. ASSUME ~hydrated, NEW reachable \in BOOLEAN, ~reachable
      PROVE  Loaded(reachable) = NoResults /\ Renewed(reachable) = NoResults
      BY <1>0 DEF BlindIsIdle, Loaded, Renewed
<1>1. ASSUME NEW polled, NEW reachable \in BOOLEAN, Poll(polled, reachable) PROVE BlindIsIdle'
  <2> DEFINE overlay == [m \in Matches |-> IF m \in polled THEN feed[m] ELSE 0]
             pending == Pending(overlay, Loaded(reachable), Newer(remote, local))
  <2>1. pending \subseteq Finished(overlay)
        BY DEF Pending
  <2>2. pass' = [IdlePass EXCEPT !.pc = "polled", !.overlay = overlay, !.pending = pending]
        BY <1>1 DEF Poll
  <2> HIDE DEF overlay, pending
  <2>3. pass'.pc = "polled" /\ pass'.overlay = overlay /\ pass'.pending = pending
        BY <2>2 DEF IdlePass
  <2>4. hydrated' = (hydrated \/ reachable) /\ mirror' = Renewed(reachable) /\ covered' = covered
        BY <1>1 DEF Poll
  <2>5. ~hydrated' => mirror' = NoResults /\ Finished(covered') = {}
        BY <1>0, <2>4 DEF BlindIsIdle
  <2> QED BY <2>1, <2>3, <2>5 DEF BlindIsIdle
<1>2. ASSUME NEW reachable \in BOOLEAN, RecordNothing(reachable) PROVE BlindIsIdle'
  <2>1. /\ pass.pc = "polled" /\ pass'.pc = "recorded" /\ pass'.pending = pass.pending
        /\ Merge(Loaded(reachable), pass.overlay) = Loaded(reachable)
        BY <1>2 DEF RecordNothing, Typed, Passes
  <2>2. hydrated' = (hydrated \/ reachable) /\ mirror' = Renewed(reachable) /\ covered' = covered
        BY <1>2 DEF RecordNothing
  <2>3. ASSUME ~hydrated' PROVE mirror' = NoResults /\ Finished(covered') = {} /\ pass.pending = {}
    <3>1. Loaded(reachable) = NoResults /\ mirror' = NoResults
          BY <1>0, <2>2, <2>3
    <3>2. Finished(pass.overlay) = {}
          BY <2>1, <3>1, MergeCovers
    <3> QED BY <2>1, <2>2, <2>3, <3>1, <3>2 DEF BlindIsIdle
  <2> QED BY <2>1, <2>3 DEF BlindIsIdle
<1>3. ASSUME NEW reachable \in BOOLEAN, Record(reachable) PROVE BlindIsIdle'
  <2>1. hydrated' = TRUE /\ pass'.pc = "recorded"
        BY <1>3 DEF Record, Typed, Passes
  <2> QED BY <2>1 DEF BlindIsIdle
<1>4. CASE RecordFails
  <2>1. hydrated' = TRUE /\ pass'.pc = "idle"
        BY <1>4 DEF RecordFails, IdlePass
  <2> QED BY <2>1 DEF BlindIsIdle
<1>5. ASSUME NEW reachable \in BOOLEAN, Build(reachable) PROVE BlindIsIdle'
  <2>1. pass.pc = "recorded" /\ covered' = covered
        BY <1>5 DEF Build
  <2>2. pass'.pc \in {"idle", "simulated"} /\ (pass.pending = {} => pass'.pc = "idle")
    <3>1. CASE pass.pending = {}
          BY <1>5, <3>1 DEF Build, IdlePass
    <3>2. CASE pass.pending # {}
      <4>1. pass' = [pass EXCEPT !.pc = "simulated", !.at = clock + 1]
            BY <1>5, <3>2 DEF Build
      <4> QED BY <3>2, <4>1 DEF Typed, Passes
    <3> QED BY <3>1, <3>2
  <2>3. ASSUME ~hydrated' PROVE ~hydrated /\ mirror' = NoResults
    <3>1. CASE fitted = Unfitted
      <4>1. mirror' = Renewed(reachable) /\ hydrated' = (hydrated \/ reachable)
            BY <1>5, <3>1 DEF Build
      <4> QED BY <1>0, <2>3, <4>1
    <3>2. CASE fitted # Unfitted
          BY <1>5, <2>3, <3>2 DEF Build, BlindIsIdle
    <3> QED BY <3>1, <3>2
  <2> QED BY <2>1, <2>2, <2>3 DEF BlindIsIdle
<1>6. CASE Publish \/ PublishFails \/ FittedPutFails
  <2>1. pass.pc = "simulated" /\ hydrated' = hydrated /\ pass'.pc = "idle"
        BY <1>6 DEF Publish, PublishFails, FittedPutFails, IdlePass
  <2> QED BY <2>1 DEF BlindIsIdle
<1>7. CASE Crash
  <2>1. mirror' = NoResults /\ covered' = NoResults /\ pass'.pc = "idle"
        BY <1>7 DEF Crash, IdlePass
  <2>2. Finished(covered') = {}
        BY <2>1 DEF Finished, NoResults
  <2> QED BY <2>1, <2>2 DEF BlindIsIdle
<1>8. CASE \/ PublishRun \/ (\E m \in Matches : Finish(m))
           \/ (\E reachable \in BOOLEAN : StartRun(reachable)) \/ UNCHANGED liveVars
  <2>1. UNCHANGED <<pass, hydrated, mirror, covered>>
        BY <1>8 DEF PublishRun, Finish, StartRun, liveVars
  <2> QED BY <2>1 DEF BlindIsIdle
<1> QED BY <1>1, <1>2, <1>3, <1>4, <1>5, <1>6, <1>7, <1>8
        DEF LiveNext, PollSome, RecordPolled, BuildState

\* What the bucket held at the last full publish it still holds, and what a forecaster was
\* fitted with since covers it.
FitCovers ==
    /\ Finished(covered) \subseteq Finished(bucket)
    /\ pass.pc = "simulated" \/ fitted # Unfitted => Finished(covered) \subseteq Finished(fitted)

LEMMA FitCoversNext ==
    ASSUME Typed, MirrorCovers, BlindIsIdle, FitCovers, [LiveNext]_liveVars
    PROVE  FitCovers'
<1> USE DEF storeVars, snapshotVars, runVars
<1>0. covered' = covered => Finished(covered') \subseteq Finished(bucket')
  <2>1. CASE hydrated
        BY <2>1, BucketGrows DEF FitCovers
  <2>2. CASE ~hydrated
        BY <2>2 DEF BlindIsIdle
  <2> QED BY <2>1, <2>2
<1>1. ASSUME covered' = covered, fitted' = fitted, pass'.pc = "simulated" => pass.pc = "simulated"
      PROVE  FitCovers'
      BY <1>0, <1>1 DEF FitCovers
<1>2. ASSUME NEW polled, NEW reachable \in BOOLEAN, Poll(polled, reachable) PROVE FitCovers'
      BY <1>1, <1>2 DEF Poll, IdlePass
<1>3. ASSUME NEW reachable \in BOOLEAN, RecordNothing(reachable) \/ Record(reachable) PROVE FitCovers'
  <2>1. covered' = covered /\ fitted' = fitted /\ pass'.pc = "recorded"
        BY <1>3 DEF RecordNothing, Record, Typed, Passes
  <2> QED BY <1>1, <2>1
<1>4. CASE RecordFails \/ PublishFails \/ FittedPutFails
  <2>1. covered' = covered /\ fitted' = fitted /\ pass' = IdlePass
        BY <1>4 DEF RecordFails, PublishFails, FittedPutFails
  <2>2. pass'.pc = "idle"
        BY <2>1 DEF IdlePass
  <2> QED BY <1>1, <2>1, <2>2
<1>5. ASSUME NEW reachable \in BOOLEAN, Build(reachable) PROVE FitCovers'
  <2>1. covered' = covered
        BY <1>5 DEF Build
  <2>2. CASE fitted = Unfitted
    <3>1. fitted' = Loaded(reachable)
          BY <1>5, <2>2 DEF Build
    <3>2. CASE reachable \/ hydrated
      <4>1. Finished(bucket) \subseteq Finished(fitted')
            BY <3>1, <3>2, LoadedCovers
      <4> QED BY <1>0, <2>1, <4>1 DEF FitCovers
    <3>3. CASE ~hydrated
      <4>1. Finished(covered) = {}
            BY <3>3 DEF BlindIsIdle
      <4> QED BY <2>1, <4>1 DEF FitCovers
    <3> QED BY <3>2, <3>3
  <2>3. CASE fitted # Unfitted
    <3>1. fitted' = fitted
          BY <1>5, <2>3 DEF Build
    <3> QED BY <1>0, <2>1, <2>3, <3>1 DEF FitCovers
  <2> QED BY <2>2, <2>3
<1>6. CASE Publish
  <2>1. covered' = bucket /\ bucket' = bucket /\ fitted' = Unfitted /\ pass'.pc = "idle"
        BY <1>6 DEF Publish, IdlePass
  <2> QED BY <2>1 DEF FitCovers
<1>7. CASE Crash
  <2>1. covered' = NoResults /\ fitted' = Unfitted /\ pass'.pc = "idle"
        BY <1>7 DEF Crash, IdlePass
  <2>2. Finished(covered') = {}
        BY <2>1 DEF Finished, NoResults
  <2> QED BY <2>1, <2>2 DEF FitCovers
<1>8. CASE \/ PublishRun \/ (\E m \in Matches : Finish(m))
           \/ (\E reachable \in BOOLEAN : StartRun(reachable)) \/ UNCHANGED liveVars
  <2>1. UNCHANGED <<pass, fitted, covered>>
        BY <1>8 DEF PublishRun, Finish, StartRun, liveVars
  <2> QED BY <1>1, <2>1
<1> QED BY <1>2, <1>3, <1>4, <1>5, <1>6, <1>7, <1>8
        DEF LiveNext, PollSome, RecordPolled, BuildState

\* Only a pass that has simulated publishes a snapshot of the loop, with its ratings.
LEMMA LiveSnapshots ==
    ASSUME Typed, [LiveNext]_liveVars, remote' # remote, remote'.live
    PROVE  pass.pc = "simulated" /\ remote'.fit = fitted
<1> USE DEF storeVars, snapshotVars, runVars
<1>1. ASSUME NEW reachable \in BOOLEAN
      PROVE  /\ ~StartRun(reachable) /\ ~RecordNothing(reachable) /\ ~Record(reachable)
             /\ ~Build(reachable) /\ \A polled : ~Poll(polled, reachable)
      BY DEF StartRun, RecordNothing, Record, Build, Poll
<1>2. /\ ~RecordFails /\ ~PublishFails /\ ~Crash /\ ~(UNCHANGED liveVars)
      /\ \A m \in Matches : ~Finish(m)
      BY DEF RecordFails, PublishFails, Crash, Finish, liveVars
<1>3. ~PublishRun
      BY DEF PublishRun
<1>4. Publish \/ FittedPutFails
      BY <1>1, <1>2, <1>3 DEF LiveNext, PollSome, RecordPolled, BuildState
<1>5. pass.pc = "simulated" /\ remote' = PassSnapshot
      BY <1>4 DEF Publish, FittedPutFails, Newer
<1> QED BY <1>5 DEF PassSnapshot

\* The forecaster is dropped after a full publish and fitted again with all the store
\* holds by then, so a snapshot's ratings lag by one such publish at most.
THEOREM LiveRatingsLag == LiveSpec => RatingsLagOnePublish
<1>1. LiveInit => MirrorCovers /\ BlindIsIdle /\ FitCovers
  <2>1. Finished(NoResults) = {}
        BY DEF Finished, NoResults
  <2> QED BY <2>1 DEF LiveInit, MirrorCovers, BlindIsIdle, FitCovers, IdlePass
<1>2. Typed /\ MirrorCovers /\ BlindIsIdle /\ FitCovers /\ [LiveNext]_liveVars
        => MirrorCovers' /\ BlindIsIdle' /\ FitCovers'
      BY MirrorCoversNext, BlindIsIdleNext, FitCoversNext
<1>3. Typed /\ FitCovers /\ [LiveNext]_liveVars
        => [remote' # remote /\ remote'.live =>
              Finished(covered) \subseteq Finished(remote'.fit)]_liveVars
      BY LiveSnapshots DEF FitCovers
<1> QED BY <1>1, <1>2, <1>3, TypesKept, PTL DEF LiveSpec, RatingsLagOnePublish

===============================================================================
