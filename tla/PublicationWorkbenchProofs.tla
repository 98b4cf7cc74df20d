---------------------- MODULE PublicationWorkbenchProofs ----------------------
(* Theorems of Publication, then of Workbench.                             *)
(*                                                                          *)
(* The publishers' store, for any number of jobs that die or lose the index *)
(* anywhere: the fitted pointer resolves, the latest pointer goes back only *)
(* in the admitted window, and the index knows the runs.                    *)
(*                                                                          *)
(* The quant workbench for any nodes, calls, files and mixtures: what the   *)
(* registrations of any interleaving keep of the store, what its readers    *)
(* may rely on, and the audit policy the two ends share.                    *)
EXTENDS Publication, Workbench, FiniteSetTheorems, TLAPS

\* record_run keeps its types at every step of every job.
THEOREM PublicationTypeCorrect == PublicationSpec => []PublicationTypeOK
<1>1. PublicationInit => PublicationTypeOK
      BY DEF PublicationInit, PublicationTypeOK, Steps, RunIds
<1>2. PublicationTypeOK /\ [PublicationNext]_publicationVars => PublicationTypeOK'
  <2> SUFFICES ASSUME PublicationTypeOK, [PublicationNext]_publicationVars
               PROVE  PublicationTypeOK'
        OBVIOUS
  <2> USE PublicationAssumption DEF PublicationTypeOK, Advance, Steps, snapshotVars, indexVars,
          fittedVars, worldVars
  <2>1. ASSUME NEW j \in Jobs PROVE RunOf[j] \in RunIds
        BY DEF RunIds
  <2>2. ASSUME NEW j \in Jobs, Begin(j) PROVE PublicationTypeOK'
        BY <2>2 DEF Begin
  <2>3. ASSUME NEW j \in Jobs, Stamp(j) PROVE PublicationTypeOK'
        BY <2>3 DEF Stamp
  <2>4. ASSUME NEW j \in Jobs, Fails(j) PROVE PublicationTypeOK'
        BY <2>4 DEF Fails
  <2>5. ASSUME NEW j \in Jobs, PutDated(j) PROVE PublicationTypeOK'
        BY <2>1, <2>5 DEF PutDated
  <2>6. ASSUME NEW j \in Jobs, Compare(j) PROVE PublicationTypeOK'
        BY <2>6 DEF Compare
  <2>7. ASSUME NEW j \in Jobs, Repoint(j) PROVE PublicationTypeOK'
        BY <2>7 DEF Repoint
  <2>8. ASSUME NEW j \in Jobs, PutSidecars(j) PROVE PublicationTypeOK'
        BY <2>1, <2>8 DEF PutSidecars
  <2>9. ASSUME NEW j \in Jobs, ListItems(j) PROVE PublicationTypeOK'
        BY <2>9 DEF ListItems, Replaces
  <2>10. ASSUME NEW j \in Jobs, DeleteItem(j) PROVE PublicationTypeOK'
        BY <2>10 DEF DeleteItem
  <2>11. ASSUME NEW j \in Jobs, PutItem(j) PROVE PublicationTypeOK'
        BY <2>1, <2>11 DEF PutItem, AfterIndex
  <2>12. ASSUME NEW j \in Jobs, IndexUnreachable(j) PROVE PublicationTypeOK'
        BY <2>12 DEF IndexUnreachable, AfterIndex
  <2>13. ASSUME NEW j \in Jobs, PutState(j) PROVE PublicationTypeOK'
        BY <2>1, <2>13 DEF PutState
  <2>14. ASSUME NEW j \in Jobs, PutPointer(j) PROVE PublicationTypeOK'
        BY <2>1, <2>14 DEF PutPointer
  <2>15. ASSUME NEW j \in Jobs, Dies(j) PROVE PublicationTypeOK'
        BY <2>15 DEF Dies
  <2>16. CASE Tick
        BY <2>16 DEF Tick
  <2>17. CASE SetRunEnabled
        BY <2>17 DEF SetRunEnabled
  <2>18. CASE UNCHANGED publicationVars
        BY <2>18 DEF publicationVars
  <2> QED BY <2>2, <2>3, <2>4, <2>5, <2>6, <2>7, <2>8, <2>9, <2>10, <2>11, <2>12, <2>13, <2>14,
             <2>15, <2>16, <2>17, <2>18 DEF PublicationNext, JobStep
<1> QED BY <1>1, <1>2, PTL DEF PublicationSpec

-----------------------------------------------------------------------------
(* The fitted pointer.                                                      *)

\* A job that has come to the pointer has put its state, and no state is ever taken back.
StatePut ==
    /\ PointerResolves
    /\ \A j \in Jobs : pc[j] = "point" => states[RunOf[j]] # NoJob

LEMMA StatePutNext ==
    ASSUME PublicationTypeOK, StatePut, [PublicationNext]_publicationVars
    PROVE  StatePut'
<1> USE PublicationAssumption DEF PublicationTypeOK, StatePut, PointerResolves, Advance, snapshotVars,
        indexVars, fittedVars, worldVars
<1>0. ASSUME NEW j \in Jobs PROVE RunOf[j] \in RunIds
      BY DEF RunIds
<1>1. ASSUME NEW j \in Jobs, PutState(j) PROVE StatePut'
      BY <1>0, <1>1 DEF PutState
<1>2. ASSUME NEW j \in Jobs, PutPointer(j) PROVE StatePut'
      BY <1>0, <1>2 DEF PutPointer
<1>3. ASSUME UNCHANGED fittedVars,
             \A j \in Jobs : pc'[j] = "point" => pc[j] = "point"
      PROVE  StatePut'
      BY <1>0, <1>3
<1>4. ASSUME NEW j \in Jobs, JobStep(j), ~PutState(j), ~PutPointer(j)
      PROVE  UNCHANGED fittedVars /\ \A k \in Jobs : pc'[k] = "point" => pc[k] = "point"
      BY <1>4 DEF JobStep, Begin, Stamp, Fails, PutDated, Compare, Repoint, PutSidecars, ListItems, Replaces,
         DeleteItem, PutItem, IndexUnreachable, AfterIndex, Dies
<1>5. CASE Tick \/ SetRunEnabled \/ UNCHANGED publicationVars
      BY <1>3, <1>5 DEF Tick, SetRunEnabled, publicationVars
<1> QED BY <1>1, <1>2, <1>3, <1>4, <1>5 DEF PublicationNext

\* FITTED_LATEST names a run whose FITTED_STATE is there, wherever a publisher died and
\* whatever a rerun writes again.
THEOREM PublicationPointerResolves == PublicationSpec => []PointerResolves
<1>1. PublicationInit => StatePut
      BY DEF PublicationInit, StatePut, PointerResolves
<1>2. StatePut => PointerResolves
      BY DEF StatePut
<1> QED BY <1>1, <1>2, StatePutNext, PublicationTypeCorrect, PTL DEF PublicationSpec

-----------------------------------------------------------------------------
(* The latest pointer.                                                      *)

\* Jobs whose created_at may still change.
Undated(j) ==
    \/ pc[j] \in {"idle", "stamp"}
    \/ Kind[j] \in FitFirst /\ pc[j] \in {"fit", "point"}

\* A job is dated once.
LEMMA DatedOnce ==
    ASSUME PublicationTypeOK, [PublicationNext]_publicationVars, NEW j \in Jobs, ~Undated(j)
    PROVE  ~Undated(j)' /\ created'[j] = created[j]
<1> USE PublicationAssumption DEF PublicationTypeOK, Advance, Undated
<1>1. ASSUME NEW k \in Jobs, JobStep(k) PROVE ~Undated(j)' /\ created'[j] = created[j]
  <2>1. CASE Begin(k) \/ Stamp(k) \/ Fails(k)
        BY <2>1 DEF Begin, Stamp, Fails
  <2>2. CASE PutState(k) \/ PutPointer(k)
        BY <2>2 DEF PutState, PutPointer
  <2>3. CASE PutItem(k) \/ IndexUnreachable(k)
        BY <2>3 DEF PutItem, IndexUnreachable, AfterIndex
  <2>4. CASE PutDated(k) \/ Compare(k) \/ Repoint(k) \/ PutSidecars(k) \/ ListItems(k)
             \/ DeleteItem(k) \/ Dies(k)
        BY <2>4 DEF PutDated, Compare, Repoint, PutSidecars, ListItems, Replaces, DeleteItem, Dies
  <2> QED BY <1>1, <2>1, <2>2, <2>3, <2>4 DEF JobStep
<1>2. CASE Tick \/ SetRunEnabled \/ UNCHANGED publicationVars
      BY <1>2 DEF Tick, SetRunEnabled, publicationVars
<1> QED BY <1>1, <1>2 DEF PublicationNext

\* Who won a comparison is dated, and so is what it was compared with; it was newer.
WinnersNewer ==
    /\ \A j \in wins :
          ~Undated(j) /\ pc[j] \notin {"date", "compare"} /\ NewerThan(j, sawLatest[j])
    /\ \A j \in wins : sawLatest[j] # NoJob => sawLatest[j] \in wins
    /\ latest # NoJob => latest \in wins

LEMMA WinnersNewerNext ==
    ASSUME PublicationTypeOK, WinnersNewer, [PublicationNext]_publicationVars
    PROVE  WinnersNewer'
<1> USE PublicationAssumption DEF PublicationTypeOK, Advance
<1>1. ASSUME UNCHANGED <<wins, sawLatest>>, latest' = latest \/ latest' \in wins,
             \A j \in wins : pc'[j] \in {"date", "compare"} => pc[j] \in {"date", "compare", "stamp"}
      PROVE  WinnersNewer'
  <2>1. ASSUME NEW j \in wins
        PROVE  ~Undated(j)' /\ pc'[j] \notin {"date", "compare"} /\ created'[j] = created[j]
        BY <1>1, DatedOnce DEF WinnersNewer, Undated
  <2>2. ASSUME NEW j \in wins PROVE NewerThan(j, sawLatest[j])'
        BY <1>1, <2>1 DEF WinnersNewer, NewerThan, Rank
  <2> QED BY <1>1, <2>1, <2>2 DEF WinnersNewer
<1>2. ASSUME NEW k \in Jobs, Compare(k) PROVE WinnersNewer'
  <2>1. k \notin wins /\ wins' \subseteq wins \cup {k} /\ wins \subseteq wins' /\ latest' = latest
        /\ created' = created /\ sawLatest'[k] = latest
        BY <1>2 DEF Compare, WinnersNewer
  <2>2. \A j \in wins : pc'[j] = pc[j] /\ sawLatest'[j] = sawLatest[j]
        BY <1>2, <2>1 DEF Compare
  <2>3. k \in wins' => NewerThan(k, latest)
        BY <1>2, <2>1 DEF Compare
  <2>4. ASSUME NEW j \in wins'
        PROVE  /\ ~Undated(j)' /\ pc'[j] \notin {"date", "compare"} /\ NewerThan(j, sawLatest[j])'
               /\ sawLatest'[j] # NoJob => sawLatest'[j] \in wins'
    <3>1. CASE j \in wins
          BY <2>1, <2>2, <3>1 DEF WinnersNewer, Undated, NewerThan
    <3>2. CASE j = k
      <4>1. pc'[j] = "repoint"
            BY <1>2, <3>2 DEF Compare
      <4>2. NewerThan(j, sawLatest[j])'
            BY <2>1, <2>3, <3>2 DEF NewerThan
      <4> QED BY <2>1, <3>2, <4>1, <4>2 DEF WinnersNewer, Undated
    <3> QED BY <2>1, <3>1, <3>2
  <2> QED BY <2>1, <2>4 DEF WinnersNewer
<1>3. ASSUME NEW k \in Jobs, JobStep(k), ~Compare(k)
      PROVE  /\ UNCHANGED <<wins, sawLatest>> /\ (latest' = latest \/ latest' \in wins)
             /\ \A j \in wins : pc'[j] \in {"date", "compare"} => pc[j] \in {"date", "compare", "stamp"}
      BY <1>3 DEF JobStep, Begin, Stamp, Fails, PutDated, Repoint, PutSidecars, ListItems, Replaces, DeleteItem,
         PutItem, IndexUnreachable, AfterIndex, PutState, PutPointer, Dies, snapshotVars
<1>4. CASE Tick \/ SetRunEnabled \/ UNCHANGED publicationVars
      BY <1>1, <1>4 DEF Tick, SetRunEnabled, publicationVars, snapshotVars
<1> QED BY <1>1, <1>2, <1>3, <1>4 DEF PublicationNext

\* A pointer that moves goes to a newer or a richer snapshot, or has itself been moved
\* since the comparison.
LEMMA RepointsNewer ==
    ASSUME PublicationTypeOK, WinnersNewer, [PublicationNext]_publicationVars, latest' # latest
    PROVE  NewerThan(latest', latest) \/ sawLatest[latest'] # latest
<1>1. PICK j \in Jobs : Repoint(j)
      BY DEF PublicationNext, JobStep, Begin, Stamp, Fails, PutDated, Compare, PutSidecars, ListItems, Replaces,
         DeleteItem, PutItem, IndexUnreachable, PutState, PutPointer, Dies, Tick, SetRunEnabled,
         snapshotVars, publicationVars
<1>2. j \in wins /\ latest' = j
      BY <1>1 DEF Repoint
<1>3. NewerThan(j, sawLatest[j])
      BY <1>2 DEF WinnersNewer
<1> QED BY <1>2, <1>3

LEMMA WinnersInvariant == PublicationSpec => []WinnersNewer
<1>1. PublicationInit => WinnersNewer
      BY DEF PublicationInit, WinnersNewer
<1> QED BY <1>1, WinnersNewerNext, PublicationTypeCorrect, PTL DEF PublicationSpec

\* snapshots/latest.json goes back to an older or a thinner snapshot only in the window
\* that _newer_than_latest admits, for any number of publishers.
THEOREM PublicationGoesForward == PublicationSpec => LatestGoesForward
<1>1. PublicationTypeOK /\ WinnersNewer /\ [PublicationNext]_publicationVars
        => [latest' # latest => NewerThan(latest', latest) \/ sawLatest[latest'] # latest]_publicationVars
      BY RepointsNewer
<1> QED BY <1>1, WinnersInvariant, PublicationTypeCorrect, PTL DEF PublicationSpec, LatestGoesForward

-----------------------------------------------------------------------------
(* The run index.                                                           *)

\* A recorded job is dated, an item is of a recorded job, and what is to be deleted was
\* created with a recorded job of the deleter's run.
IndexInv ==
    /\ \A j \in recorded : ~Undated(j)
    /\ \A i \in index : i.job \in recorded /\ i.sk = created[i.job] /\ i.run = RunOf[i.job]
    /\ \A j \in Jobs : \A sk \in stale[j] :
          \E k \in recorded : RunOf[k] = RunOf[j] /\ created[k] = sk
    /\ IndexKnowsRuns

\* Recorded jobs stay recorded and keep their date, so that two that met have met.
LEMMA RecordedStay ==
    ASSUME PublicationTypeOK, IndexInv, [PublicationNext]_publicationVars, recorded \subseteq recorded'
    PROVE  /\ \A j \in recorded : ~Undated(j)' /\ created'[j] = created[j]
           /\ \A r : Collides(r) => Collides(r)'
<1>1. \A j \in recorded : ~Undated(j)' /\ created'[j] = created[j]
      BY DatedOnce DEF IndexInv, PublicationTypeOK
<1> QED BY <1>1 DEF Collides

LEMMA IndexInvNext ==
    ASSUME PublicationTypeOK, PublicationTypeOK', IndexInv, [PublicationNext]_publicationVars
    PROVE  IndexInv'
<1>1. ASSUME UNCHANGED indexVars PROVE IndexInv'
  <2>1. \A j \in recorded : ~Undated(j)' /\ created'[j] = created[j]
        BY <1>1, RecordedStay DEF indexVars
  <2>2. \A r : Collides(r) => Collides(r)'
        BY <1>1, RecordedStay DEF indexVars
  <2>3. IndexKnowsRuns'
        BY <1>1, <2>2 DEF IndexInv, IndexKnowsRuns, indexVars
  <2> QED BY <1>1, <2>1, <2>3 DEF IndexInv, indexVars, PublicationTypeOK
<1>2. ASSUME NEW k \in Jobs, ListItems(k) PROVE IndexInv'
  <2>1. /\ stale' = [stale EXCEPT ![k] =
              {i.sk : i \in {i \in index : i.run = RunOf[k] /\ i.sk # created[k]}}]
        /\ UNCHANGED <<created, index, recorded, torn>>
        BY <1>2 DEF ListItems, Replaces
  <2>2. \A j \in recorded : ~Undated(j)'
        BY <2>1, RecordedStay
  <2>3. ASSUME NEW j \in Jobs, NEW sk \in stale'[j]
        PROVE  \E o \in recorded : RunOf[o] = RunOf[j] /\ created[o] = sk
    <3>1. CASE j = k
      <4>1. PICK i \in index : i.run = RunOf[k] /\ i.sk = sk
            BY <2>1, <2>3, <3>1 DEF PublicationTypeOK
      <4> QED BY <3>1, <4>1 DEF IndexInv
    <3>2. CASE j # k
          BY <2>1, <2>3, <3>2 DEF IndexInv, PublicationTypeOK
    <3> QED BY <3>1, <3>2
  <2>4. IndexKnowsRuns'
        BY <2>1 DEF IndexInv, IndexKnowsRuns, Collides
  <2> QED BY <2>1, <2>2, <2>3, <2>4 DEF IndexInv
<1>3. ASSUME NEW k \in Jobs, DeleteItem(k) PROVE IndexInv'
  <2>1. PICK sk \in stale[k] :
          /\ index' = {i \in index : i.sk # sk}
          /\ stale' = [stale EXCEPT ![k] = @ \ {sk}]
        BY <1>3 DEF DeleteItem
  <2>2. torn' = torn \cup {k} /\ UNCHANGED <<created, recorded>>
        BY <1>3 DEF DeleteItem
  <2>3. \A j \in recorded : ~Undated(j)'
        BY <2>2, RecordedStay
  <2>4. \A j \in Jobs : stale'[j] \subseteq stale[j]
        BY <2>1 DEF PublicationTypeOK
  <2>5. PICK o \in recorded : RunOf[o] = RunOf[k] /\ created[o] = sk
        BY <2>1 DEF IndexInv
  <2>6. ASSUME NEW j \in recorded
        PROVE  \/ \E i \in index' : i.run = RunOf[j]
               \/ Collides(RunOf[j])'
               \/ \E q \in torn' : RunOf[q] = RunOf[j]
    <3>1. CASE RunOf[j] = RunOf[k]
          BY <2>2, <3>1
    <3>2. CASE Collides(RunOf[j])
          BY <2>2, <3>2 DEF Collides
    <3>3. CASE \E q \in torn : RunOf[q] = RunOf[j]
          BY <2>2, <3>3
    <3>4. ASSUME NEW i \in index, i.run = RunOf[j], RunOf[j] # RunOf[k]
          PROVE  (\E h \in index' : h.run = RunOf[j]) \/ Collides(RunOf[j])'
      <4>1. CASE i.sk # sk
            BY <2>1, <3>4, <4>1
      <4>2. CASE i.sk = sk
        <5>1. i.job \in recorded /\ created[i.job] = created[o] /\ RunOf[i.job] = RunOf[j]
              BY <2>5, <3>4, <4>2 DEF IndexInv
        <5> QED BY <2>2, <2>5, <3>4, <5>1 DEF Collides
      <4> QED BY <4>1, <4>2
    <3> QED BY <3>1, <3>2, <3>3, <3>4 DEF IndexInv, IndexKnowsRuns
  <2>7. IndexKnowsRuns'
        BY <2>2, <2>6 DEF IndexKnowsRuns
  <2> QED BY <2>1, <2>2, <2>3, <2>4, <2>7 DEF IndexInv
<1>4. ASSUME NEW k \in Jobs, PutItem(k) PROVE IndexInv'
  <2> DEFINE item == [sk |-> created[k], run |-> RunOf[k], job |-> k]
  <2>1. /\ index' = {i \in index : i.sk # created[k]} \cup {item}
        /\ recorded' = recorded \cup {k} /\ torn' = {q \in torn : RunOf[q] # RunOf[k]}
        /\ UNCHANGED <<created, stale>> /\ pc'[k] \in {"done", "fit"}
        /\ (pc'[k] = "fit" => Kind[k] \notin FitFirst)
        BY <1>4 DEF PutItem, Advance, AfterIndex, PublicationTypeOK
  <2>2. \A j \in recorded' : ~Undated(j)'
        BY <2>1, RecordedStay DEF Undated
  <2>3. \A i \in index' : i.job \in recorded' /\ i.sk = created[i.job] /\ i.run = RunOf[i.job]
        BY <2>1 DEF IndexInv
  <2>4. \A j \in Jobs : \A sk \in stale[j] :
            \E o \in recorded' : RunOf[o] = RunOf[j] /\ created[o] = sk
        BY <2>1 DEF IndexInv
  <2>5. ASSUME NEW j \in recorded'
        PROVE  \/ \E i \in index' : i.run = RunOf[j]
               \/ Collides(RunOf[j])'
               \/ \E q \in torn' : RunOf[q] = RunOf[j]
    <3>1. CASE RunOf[j] = RunOf[k]
      <4>1. item \in index' /\ item.run = RunOf[j]
            BY <2>1, <3>1
      <4> QED BY <4>1
    <3>2. CASE RunOf[j] # RunOf[k]
      <4>1. j \in recorded
            BY <2>1, <2>5, <3>2
      <4>2. CASE Collides(RunOf[j])
            BY <2>1, <4>2 DEF Collides
      <4>3. CASE \E q \in torn : RunOf[q] = RunOf[j]
            BY <2>1, <3>2, <4>3
      <4>4. ASSUME NEW i \in index, i.run = RunOf[j]
            PROVE  (\E h \in index' : h.run = RunOf[j]) \/ Collides(RunOf[j])'
        <5>1. CASE i.sk # created[k]
              BY <2>1, <4>4, <5>1
        <5>2. CASE i.sk = created[k]
          <6>1. i.job \in recorded /\ created[i.job] = created[k] /\ RunOf[i.job] = RunOf[j]
                BY <4>4, <5>2 DEF IndexInv
          <6> QED BY <2>1, <3>2, <6>1 DEF Collides
        <5> QED BY <5>1, <5>2
      <4> QED BY <4>1, <4>2, <4>3, <4>4 DEF IndexInv, IndexKnowsRuns
    <3> QED BY <3>1, <3>2
  <2>6. IndexKnowsRuns'
        BY <2>5 DEF IndexKnowsRuns
  <2> QED BY <2>1, <2>2, <2>3, <2>4, <2>6 DEF IndexInv
<1>5. ASSUME NEW k \in Jobs, JobStep(k), ~ListItems(k), ~DeleteItem(k), ~PutItem(k)
      PROVE  UNCHANGED indexVars
      BY <1>5 DEF JobStep, Begin, Stamp, Fails, PutDated, Compare, Repoint, PutSidecars,
         IndexUnreachable, PutState, PutPointer, Dies
<1>6. CASE Tick \/ SetRunEnabled \/ UNCHANGED publicationVars
      BY <1>1, <1>6 DEF Tick, SetRunEnabled, publicationVars
<1> QED BY <1>1, <1>2, <1>3, <1>4, <1>5, <1>6 DEF PublicationNext

\* Whatever fails or dies, and for any number of jobs that rerun one another, a run once
\* recorded stays in the index: but for a rerun of its own caught between a delete and
\* its put, and for runs of one second, which share a key.
THEOREM PublicationIndexKnows == PublicationSpec => []IndexKnowsRuns
<1>1. PublicationInit => IndexInv
      BY DEF PublicationInit, IndexInv, IndexKnowsRuns
<1>2. IndexInv => IndexKnowsRuns
      BY DEF IndexInv
<1> QED BY <1>1, <1>2, IndexInvNext, PublicationTypeCorrect, PTL DEF PublicationSpec

-----------------------------------------------------------------------------
(* Workbench.                                                               *)

-----------------------------------------------------------------------------
(* The audit policy that run_python's guard and the validator share.        *)

\* A quiet large mixture has its audit, and the rows the guard asks for.
LEMMA QuietHasRows ==
    ASSUME NEW p, Unwarned(p), IsLargeNonBase(p)
    PROVE  /\ p.audited = "rows"
           /\ Status(p, "mixture_spread") \notin {"absent", "missing"}
           /\ BothBases(p) => Status(p, "bases") \notin {"absent", "missing"}
           /\ Status(p, "market_gap") \in {"checked", "not_material"}
<1>1. IntrinsicMissing(p) = {} /\ AdvisoryMissing(p) = {}
      BY DEF Unwarned
<1>2. Status(p, "mixture_spread") \notin {"absent", "missing"}
      BY <1>1 DEF IntrinsicMissing, RequiredKeys, AuditKeys
<1>3. BothBases(p) => Status(p, "bases") \notin {"absent", "missing"}
      BY <1>1 DEF IntrinsicMissing, RequiredKeys, AuditKeys
<1>4. Status(p, "market_gap") \in {"checked", "not_material"}
      BY <1>1 DEF AdvisoryMissing
<1>5. p.audited = "rows"
      BY <1>2 DEF Status
<1> QED BY <1>2, <1>3, <1>4, <1>5

\* "so the two can never disagree about what a large mixture owes" (audit_policy.py): a large
\* mixture the guard passed in silence, and whose branch audit does not contradict it, is sent
\* back exactly when it holds what the guard never asks for or the submission asks for more.
THEOREM PolicyPartsExactly ==
    ASSUME NEW p, Unwarned(p), IsLargeNonBase(p), ~Contradicts(p), NEW s \in Citation
    PROVE  QuantIssues(p, s) # {} <=> Overlooked(p) \/ AsksMore(p, s)
<1>1. /\ p.audited = "rows"
      /\ Status(p, "mixture_spread") \notin NoRow
      /\ BothBases(p) => Status(p, "bases") \notin NoRow
      /\ Status(p, "market_gap") \in {"checked", "not_material"}
      BY QuietHasRows DEF NoRow
<1>2. /\ "mixture_spread" \in AuditKeys /\ "previous_continuity" \in AuditKeys
      /\ "market_gap" \in AuditKeys /\ "ledger_pricing" \in AuditKeys
      BY DEF AuditKeys
<1>3. \A key : key \in Uncovered(p, s) <=>
              /\ Status(p, key) \in NoRow
              /\ \/ key = "previous_continuity" /\ s.previous
                 \/ key = "ledger_pricing" /\ (p.priced \/ s.news)
  <2>1. \A key : key \in Uncovered(p, s) <=> key \in Owed(p, s) /\ Status(p, key) \in NoRow
        BY <1>1 DEF Uncovered, NoRow
  <2>2. \A key : key \in Owed(p, s) <=>
              /\ key \in AuditKeys
              /\ \/ key = "mixture_spread"
                 \/ key = "previous_continuity" /\ s.previous
                 \/ key = "bases" /\ BothBases(p)
                 \/ key = "market_gap" /\ HasStance(s)
                 \/ key = "ledger_pricing" /\ (p.priced \/ s.news)
        BY DEF Owed, RequiredKeys
  <2>3. Status(p, "market_gap") \notin NoRow
        BY <1>1 DEF NoRow
  <2> QED BY <1>1, <1>2, <2>1, <2>2, <2>3
<1>4. Uncovered(p, s) # {} <=>
          \/ Status(p, "previous_continuity") \in NoRow /\ s.previous
          \/ Status(p, "ledger_pricing") \in NoRow /\ (p.priced \/ s.news)
      BY <1>3
<1>5. FactorAuditIssues(p, s) # {} <=>
          \/ \E key \in AuditKeys : Status(p, key) = "unknown"
          \/ Uncovered(p, s) # {}
          \/ ~(s.gaps \subseteq CoveredTeams(p))
      BY <1>1 DEF FactorAuditIssues
<1>6. CASE ~Buildable(p)
      BY <1>6 DEF QuantIssues, Overlooked
<1>7. CASE Buildable(p)
  <2>1. QuantIssues(p, s) # {} <=> FactorAuditIssues(p, s) # {}
        BY <1>7 DEF QuantIssues
  <2> QED BY <1>4, <1>5, <1>7, <2>1 DEF Overlooked, AsksMore
<1> QED BY <1>6, <1>7

\* What the readers ask of a mixture in terms of what the guard asks.
LEMMA ReadersAndGuard ==
    /\ SelfInconsistent \subseteq SelfContradicting
    /\ QuietMixtures \cap Unexplained \subseteq SelfContradicting
    /\ \A m \in Submittable : Buildable(Payload[m])
<1>1. ASSUME NEW m \in SelfInconsistent
      PROVE  m \in SelfContradicting
  <2>1. PICK s \in Citation : "branch_audit_self_inconsistent" \in QuantIssues(Payload[m], s)
        BY DEF SelfInconsistent
  <2>2. "branch_audit_self_inconsistent" \notin FactorAuditIssues(Payload[m], s)
        BY DEF FactorAuditIssues
  <2> QED BY <2>1, <2>2 DEF QuantIssues, SelfInconsistent, SelfContradicting
<1>2. ASSUME NEW m \in QuietMixtures, m \in Unexplained, m \notin SelfContradicting
      PROVE  FALSE
  <2>1. Unwarned(Payload[m]) /\ IsLargeNonBase(Payload[m]) /\ ~Contradicts(Payload[m])
        BY <1>2 DEF QuietMixtures, Unexplained, SelfContradicting
  <2>2. PICK s \in Citation :
            ~(QuantIssues(Payload[m], s) # {}
                <=> Overlooked(Payload[m]) \/ AsksMore(Payload[m], s))
        BY <1>2 DEF Unexplained
  <2> QED BY <2>1, <2>2, PolicyPartsExactly
<1>3. \A m \in Submittable : Buildable(Payload[m])
      BY DEF Submittable, QuantIssues
<1> QED BY <1>1, <1>2, <1>3

-----------------------------------------------------------------------------
(* The types.                                                                *)

CallStates == Waiting \cup {"idle", "done", "cancelled"}
Contents == Mixtures \cup {Junk, Empty}
Artifacts == [file : Dirs \X Files, payload : Mixtures]

NodesTyped ==
    /\ used \in [Nodes -> Nat] /\ call \in [Calls -> CallStates] /\ child \subseteq Calls
    /\ before \in [Calls -> [Files -> Contents]]
    /\ disk \in [Dirs -> [Files -> Contents]]

\* Artifacts are never dropped: a warning, a surface and a verdict are of one that is there.
StoreTyped == store \in Seq(Artifacts) /\ quiet \subseteq DOMAIN store

DeskTyped ==
    /\ DOMAIN surface \subseteq DOMAIN store
    /\ \A id \in DOMAIN surface : surface[id] \in Mixtures
    /\ clean \subseteq DOMAIN surface

Typed == NodesTyped /\ StoreTyped /\ DeskTyped

LEMMA StoredType == ASSUME StoreTyped PROVE \A id \in DOMAIN store : store[id].payload \in Mixtures
<1> SUFFICES ASSUME NEW id \in DOMAIN store PROVE store[id].payload \in Mixtures
    OBVIOUS
<1>1. store \in Seq(Artifacts) /\ DOMAIN store = 1..Len(store)
      BY DEF StoreTyped
<1>2. store[id] \in Artifacts
      BY <1>1
<1> QED BY <1>2 DEF Artifacts

LEMMA HomeType == \A c \in Calls : Home(c) \in Dirs
BY WorkbenchAssumption DEF Home, Dirs

LEMMA InitTyped == Init => Typed
<1> SUFFICES ASSUME Init PROVE Typed
    OBVIOUS
<1>1. NothingSeen \in [Files -> Contents]
      BY DEF NothingSeen, Contents
<1>2. NodesTyped
      BY <1>1 DEF Init, NodesTyped, CallStates
<1>3. store = <<>> /\ surface = <<>> /\ quiet = {} /\ clean = {}
      BY DEF Init
<1>4. StoreTyped /\ DeskTyped
      BY <1>3 DEF StoreTyped, DeskTyped
<1> QED BY <1>2, <1>4 DEF Typed

-----------------------------------------------------------------------------
(* Registration.                                                             *)

\* SetToSeq lists a finite set, each element once.
LEMMA Listing ==
    ASSUME NEW S, IsFiniteSet(S)
    PROVE  /\ SetToSeq(S) \in Seq(S) /\ DOMAIN SetToSeq(S) = 1..Len(SetToSeq(S))
           /\ Len(SetToSeq(S)) \in Nat
           /\ \A i \in DOMAIN SetToSeq(S) : SetToSeq(S)[i] \in S
           /\ \A i, j \in DOMAIN SetToSeq(S) : SetToSeq(S)[i] = SetToSeq(S)[j] => i = j
<1>1. Cardinality(S) \in Nat /\ ExistsBijection(1..Cardinality(S), S)
      BY FS_CardinalityType
<1>2. PICK f \in [1..Cardinality(S) -> S] : IsInjective(f)
      BY <1>1 DEF ExistsBijection, Bijection, Injection, IsInjective
<1>3. SetToSeq(S) \in [1..Cardinality(S) -> S] /\ IsInjective(SetToSeq(S))
      BY <1>2 DEF SetToSeq
<1>4. Len(SetToSeq(S)) = Cardinality(S) /\ SetToSeq(S) \in Seq(S)
      BY <1>1, <1>3
<1> QED BY <1>1, <1>3, <1>4 DEF IsInjective

\* Two lists, one after the other.
LEMMA Joined ==
    ASSUME NEW S, NEW m \in Nat, NEW n \in Nat, NEW a \in [1..m -> S], NEW b \in [1..n -> S]
    PROVE  /\ a \o b \in Seq(S) /\ DOMAIN (a \o b) = 1..(m + n)
           /\ \A i \in 1..m : (a \o b)[i] = a[i]
           /\ \A i \in (m + 1)..(m + n) : (a \o b)[i] = b[i - m] /\ i - m \in 1..n
<1>1. a \in Seq(S) /\ Len(a) = m /\ b \in Seq(S) /\ Len(b) = n
      OBVIOUS
<1>2. a \o b \in Seq(S) /\ Len(a \o b) = m + n
      BY <1>1
<1>3. \A i \in 1..m : (a \o b)[i] = a[i]
      BY <1>1
<1>4. \A i \in (m + 1)..(m + n) : (a \o b)[i] = b[i - m] /\ i - m \in 1..n
      BY <1>1
<1> QED BY <1>2, <1>3, <1>4

\* What a registration does to the store: an artifact keeps its number and its file, and takes
\* a new mixture only if that is sound; what is added is sound, and of files that had none.
LEMMA Registration ==
    ASSUME Typed, NEW c \in Calls, NEW files \in SUBSET Files, Register(c, files)
    PROVE  /\ store' \in Seq(Artifacts) /\ DOMAIN store \subseteq DOMAIN store'
           /\ \A id \in DOMAIN store :
                 /\ store'[id].file = store[id].file
                 /\ store'[id] = store[id] \/ store'[id].payload \in Mixtures \ SelfContradicting
           /\ \A id \in DOMAIN store' \ DOMAIN store :
                 /\ store'[id].payload \in Mixtures \ SelfContradicting
                 /\ \A old \in DOMAIN store :
                       store[old].file = store'[id].file =>
                          ReadBack[store[old].file[2]] # store[old].file[2]
           /\ \A i, j \in DOMAIN store' \ DOMAIN store :
                 store'[i].file = store'[j].file => i = j
<1> DEFINE sound == {f \in files : Sound(c, f)}
           fresh == {f \in sound : Known(c, f) = {}}
           new == SetToSeq(fresh)
           Read(f) == disk[Home(c)][f]
           amended == [id \in DOMAIN store |->
                         IF \E f \in sound : id \in Amended(c, f)
                         THEN [store[id] EXCEPT !.payload = Read(ReadBack[store[id].file[2]])]
                         ELSE store[id]]
           added == [i \in DOMAIN new |-> [file |-> <<Home(c), new[i]>>, payload |-> Read(new[i])]]
           n == Len(store)
<1>1. store' = amended \o added
      BY DEF Register
<1>2. store \in Seq(Artifacts) /\ n \in Nat /\ DOMAIN store = 1..n
      BY DEF Typed, StoreTyped
<1>3. \A f \in sound : Read(f) \in Mixtures \ SelfContradicting /\ <<Home(c), f>> \in Dirs \X Files
      BY HomeType DEF Sound
<1>4. ASSUME NEW id \in 1..n
      PROVE  /\ amended[id] \in Artifacts /\ amended[id].file = store[id].file
             /\ amended[id] = store[id] \/ amended[id].payload \in Mixtures \ SelfContradicting
  <2>1. store[id] \in Artifacts
        BY <1>2
  <2>2. CASE \E f \in sound : id \in Amended(c, f)
    <3>1. PICK f \in sound : id \in Amended(c, f)
          BY <2>2
    <3>2. ReadBack[store[id].file[2]] = f
          BY <3>1 DEF Amended, Known
    <3>3. amended[id] = [store[id] EXCEPT !.payload = Read(f)]
          BY <1>2, <2>2, <3>2
    <3> QED BY <1>3, <2>1, <3>3 DEF Artifacts
  <2>3. CASE ~\E f \in sound : id \in Amended(c, f)
        BY <1>2, <2>1, <2>3
  <2> QED BY <2>2, <2>3
<1>5. /\ Len(new) \in Nat /\ DOMAIN new = 1..Len(new)
      /\ \A i \in DOMAIN new : new[i] \in fresh
      /\ \A i, j \in DOMAIN new : new[i] = new[j] => i = j
  <2>1. IsFiniteSet(fresh)
        BY FS_Subset, WorkbenchAssumption
  <2> HIDE DEF fresh
  <2> QED BY <2>1, Listing
<1>6. ASSUME NEW i \in 1..Len(new)
      PROVE  /\ added[i] \in Artifacts /\ added[i].payload \in Mixtures \ SelfContradicting
             /\ added[i].file = <<Home(c), new[i]>>
             /\ \A old \in 1..n :
                   store[old].file = added[i].file =>
                      ReadBack[store[old].file[2]] # store[old].file[2]
  <2>1. /\ new[i] \in sound /\ Known(c, new[i]) = {}
        /\ added[i] = [file |-> <<Home(c), new[i]>>, payload |-> Read(new[i])]
        BY <1>5
  <2>2. ASSUME NEW old \in 1..n, store[old].file = <<Home(c), new[i]>>
        PROVE  ReadBack[store[old].file[2]] # store[old].file[2]
    <3>1. store[old].file[1] = Home(c) /\ store[old].file[2] = new[i]
          BY <2>2
    <3>2. old \notin Known(c, new[i])
          BY <2>1
    <3> QED BY <1>2, <3>1, <3>2 DEF Known
  <2>3. added[i] \in Artifacts
    <3>1. Read(new[i]) \in Mixtures /\ <<Home(c), new[i]>> \in Dirs \X Files
          BY <1>3, <2>1
    <3>2. \A file \in Dirs \X Files, payload \in Mixtures :
              [file |-> file, payload |-> payload] \in Artifacts
          BY DEF Artifacts
    <3>3. [file |-> <<Home(c), new[i]>>, payload |-> Read(new[i])] \in Artifacts
          BY <3>1, <3>2
    <3> QED BY <2>1, <3>3
  <2>4. /\ added[i].payload \in Mixtures \ SelfContradicting
        /\ added[i].file = <<Home(c), new[i]>>
    <3>1. Read(new[i]) \in Mixtures \ SelfContradicting
          BY <1>3, <2>1
    <3>2. \A file, payload :
              LET entry == [file |-> file, payload |-> payload]
              IN  entry.file = file /\ entry.payload = payload
          OBVIOUS
    <3> HIDE DEF added, Read
    <3> QED BY <2>1, <3>1, <3>2
  <2> HIDE DEF added
  <2> QED BY <2>2, <2>3, <2>4
<1> DEFINE k == Len(new)
<1>7. amended \in [1..n -> Artifacts]
      BY <1>2, <1>4
<1>8. k \in Nat /\ added \in [1..k -> Artifacts]
      BY <1>5, <1>6
<1> HIDE DEF amended, added, k, n
<1>9. /\ store' \in Seq(Artifacts) /\ DOMAIN store' = 1..(n + k)
      /\ \A i \in 1..n : store'[i] = amended[i]
      /\ \A i \in (n + 1)..(n + k) : store'[i] = added[i - n] /\ i - n \in 1..k
  <2>1. n \in Nat
        BY <1>2
  <2>2. /\ amended \o added \in Seq(Artifacts) /\ DOMAIN (amended \o added) = 1..(n + k)
        /\ \A i \in 1..n : (amended \o added)[i] = amended[i]
        /\ \A i \in (n + 1)..(n + k) :
              (amended \o added)[i] = added[i - n] /\ i - n \in 1..k
        BY <1>7, <1>8, <2>1, Joined
  <2> QED BY <1>1, <2>2
<1>10. ASSUME NEW i \in DOMAIN store' \ DOMAIN store
       PROVE  i \in Nat /\ i - n \in 1..k /\ store'[i] = added[i - n]
  <2>1. i \in 1..(n + k) /\ i \notin 1..n /\ n \in Nat /\ k \in Nat
        BY <1>2, <1>8, <1>9
  <2>2. i \in (n + 1)..(n + k)
        BY <2>1
  <2> QED BY <1>9, <2>1, <2>2
<1>11. ASSUME NEW i \in DOMAIN store' \ DOMAIN store, NEW j \in DOMAIN store' \ DOMAIN store,
              store'[i].file = store'[j].file
       PROVE  i = j
  <2>1. new[i - n] = new[j - n]
    <3>1. /\ added[i - n].file = <<Home(c), new[i - n]>>
          /\ added[j - n].file = <<Home(c), new[j - n]>>
          BY <1>6, <1>10 DEF k
    <3> QED BY <1>10, <1>11, <3>1
  <2>2. i - n = j - n
      <3>1. i - n \in DOMAIN new /\ j - n \in DOMAIN new
          BY <1>5, <1>10 DEF k
    <3> QED BY <1>5, <2>1, <3>1
  <2> QED BY <1>2, <1>10, <2>2
<1>12. \A id \in DOMAIN store :
          /\ store'[id].file = store[id].file
          /\ store'[id] = store[id] \/ store'[id].payload \in Mixtures \ SelfContradicting
      BY <1>2, <1>4, <1>9
<1>13. \A id \in DOMAIN store' \ DOMAIN store :
          /\ store'[id].payload \in Mixtures \ SelfContradicting
          /\ \A old \in DOMAIN store :
                store[old].file = store'[id].file =>
                   ReadBack[store[old].file[2]] # store[old].file[2]
  <2>1. ASSUME NEW id \in DOMAIN store' \ DOMAIN store
        PROVE  /\ store'[id].payload \in Mixtures \ SelfContradicting
               /\ \A old \in DOMAIN store :
                     store[old].file = store'[id].file =>
                        ReadBack[store[old].file[2]] # store[old].file[2]
    <3>1. id - n \in 1..Len(new) /\ store'[id] = added[id - n]
          BY <1>10 DEF k
    <3>2. /\ added[id - n].payload \in Mixtures \ SelfContradicting
          /\ \A old \in 1..n :
                store[old].file = added[id - n].file =>
                   ReadBack[store[old].file[2]] # store[old].file[2]
          BY <1>6, <3>1
    <3> QED BY <1>2, <3>1, <3>2
  <2> QED BY <2>1
<1>14. DOMAIN store \subseteq DOMAIN store'
      BY <1>2, <1>8, <1>9
<1> QED BY <1>9, <1>11, <1>12, <1>13, <1>14


-----------------------------------------------------------------------------
(* Every step keeps the types.                                               *)

\* A step of a call that only waits, and of a child: the store and the desk are left alone.
NodeStep(c) ==
    \/ Refused(c) \/ Stillborn(c) \/ Start(c)
    \/ ChildWrites(c) \/ ChildEnds(c) \/ TimesOut(c)

LEMMA NextCases ==
    ASSUME Next
    PROVE  /\ snapshot = <<>>
           /\ \/ \E c \in Calls : NodeStep(c) \/ Return(c)
              \/ \E n \in Nodes : CancelNode(n)
              \/ \E id \in DOMAIN store : Check(id) \/ Accept(id)
              \/ Publish
BY DEF Next, NodeStep

\* What leaves the store and the desk alone.
LEMMA Bystanders ==
    /\ \A c \in Calls : NodeStep(c) => UNCHANGED <<storeVars, deskVars>>
    /\ \A n \in Nodes : CancelNode(n) => UNCHANGED <<storeVars, deskVars>>
<1>1. \A c \in Calls : NodeStep(c) => UNCHANGED <<storeVars, deskVars>>
      BY DEF NodeStep, Refused, Stillborn, Start, ChildWrites, ChildEnds, TimesOut
<1>2. \A n \in Nodes : CancelNode(n) => UNCHANGED <<storeVars, deskVars>>
      BY DEF CancelNode
<1> QED BY <1>1, <1>2

\* What a script that ends may put into the store.
LEMMA ReturnCases ==
    ASSUME NEW c \in Calls, Return(c)
    PROVE  \/ UNCHANGED storeVars
           \/ \E files \in SUBSET Files : Register(c, files) /\ Warn
<1>1. \A raced \in SUBSET Rewritable(c) : Listed(c) \cup raced \in SUBSET Files
      BY DEF Rewritable, Listed
<1> QED BY <1>1 DEF Return

LEMMA NodesNext ==
    ASSUME Typed, Next
    PROVE  NodesTyped'
<1>1. ASSUME NEW c \in Calls, NodeStep(c)
      PROVE  NodesTyped'
  <2> USE DEF NodesTyped, CallStates, Waiting
  <2>1. Home(c) \in Dirs /\ Actor[c] \in Nodes
        BY HomeType, WorkbenchAssumption
  <2>2. CASE Refused(c)
        BY <2>2 DEF Refused, Typed
  <2>3. CASE Stillborn(c)
        BY <2>1, <2>3 DEF Stillborn, Typed
  <2>4. CASE Start(c)
        BY <2>1, <2>4 DEF Start, Typed
  <2>5. CASE ChildWrites(c)
    <3>1. PICK f \in Files : \E v \in Outputs[f] : disk' = [disk EXCEPT ![Home(c)][f] = v]
          BY <2>5 DEF ChildWrites
    <3>2. Outputs[f] \subseteq Contents
          BY WorkbenchAssumption DEF Contents
    <3>3. PICK v \in Contents : disk' = [disk EXCEPT ![Home(c)][f] = v]
          BY <3>1, <3>2
    <3>4. disk' \in [Dirs -> [Files -> Contents]]
          BY <2>1, <3>3 DEF Typed
    <3> QED BY <2>5, <3>4 DEF ChildWrites, Typed
  <2>6. CASE ChildEnds(c)
        BY <2>6 DEF ChildEnds, Typed
  <2>7. CASE TimesOut(c)
        BY <2>7 DEF TimesOut, Typed
  <2> QED BY <1>1, <2>2, <2>3, <2>4, <2>5, <2>6, <2>7 DEF NodeStep
<1>2. NothingSeen \in [Files -> Contents]
      BY DEF NothingSeen, Contents
<1>3. ASSUME NEW c \in Calls, Return(c)
      PROVE  NodesTyped'
      BY <1>2, <1>3 DEF Return, NodesTyped, CallStates, Waiting, Typed
<1>4. ASSUME NEW n \in Nodes, CancelNode(n)
      PROVE  NodesTyped'
      BY <1>2, <1>4 DEF CancelNode, NodesTyped, CallStates, Waiting, Typed
<1>5. CASE UNCHANGED nodeVars
      BY <1>5 DEF nodeVars, NodesTyped, Typed
<1> QED BY <1>1, <1>3, <1>4, <1>5, NextCases DEF Check, Accept, Publish

LEMMA StoreNext ==
    ASSUME Typed, Next
    PROVE  StoreTyped' /\ DOMAIN store \subseteq DOMAIN store'
<1>1. CASE UNCHANGED storeVars
      BY <1>1 DEF storeVars, StoreTyped, Typed
<1>2. ASSUME NEW c \in Calls, NEW files \in SUBSET Files, Register(c, files), Warn
      PROVE  StoreTyped' /\ DOMAIN store \subseteq DOMAIN store'
  <2>1. store' \in Seq(Artifacts) /\ DOMAIN store \subseteq DOMAIN store'
        BY <1>2, Registration
  <2>2. quiet' \subseteq DOMAIN store'
        BY <1>2 DEF Warn
  <2> QED BY <2>1, <2>2 DEF StoreTyped
<1> QED BY <1>1, <1>2, NextCases, Bystanders, ReturnCases DEF Check, Accept, Publish, storeVars

LEMMA DeskNext ==
    ASSUME Typed, Next
    PROVE  DeskTyped'
<1>1. /\ DOMAIN surface \subseteq DOMAIN store /\ DOMAIN store \subseteq DOMAIN store'
      /\ \A id \in DOMAIN surface : surface[id] \in Mixtures
      /\ clean \subseteq DOMAIN surface
      BY StoreNext DEF Typed, DeskTyped
<1>2. CASE UNCHANGED <<surface, clean>>
      BY <1>1, <1>2 DEF DeskTyped
<1>3. ASSUME NEW id \in DOMAIN store, Check(id)
      PROVE  DeskTyped'
  <2>1. store[id].payload \in Mixtures
        BY StoredType DEF Typed
  <2>2. CASE surface' = [i \in {id} \cup DOMAIN surface |-> Surface(i)]
    <3>1. DOMAIN surface' = {id} \cup DOMAIN surface
          BY <2>2
    <3>2. \A i \in DOMAIN surface' : surface'[i] \in Mixtures
          BY <1>1, <2>1, <2>2, <3>1 DEF Surface
    <3>3. clean' \subseteq DOMAIN surface'
          BY <1>1, <1>3, <3>1 DEF Check
    <3> QED BY <1>1, <3>1, <3>2, <3>3 DEF DeskTyped
  <2>3. CASE surface' = surface /\ id \notin DOMAIN surface /\ ~Buildable(Payload[store[id].payload])
    <3>1. clean' = clean
          BY <1>3, <2>3, ReadersAndGuard DEF Check
    <3> QED BY <1>1, <2>3, <3>1 DEF DeskTyped
  <2> QED BY <1>1, <1>3, <2>2, <2>3 DEF Check
<1> QED BY <1>2, <1>3, NextCases, Bystanders DEF Return, Accept, Publish, deskVars

LEMMA TypedNext == ASSUME Typed, [Next]_vars PROVE Typed'
<1>1. CASE Next
      BY <1>1, NodesNext, StoreNext, DeskNext DEF Typed
<1>2. CASE UNCHANGED vars
      BY <1>2 DEF vars, nodeVars, storeVars, deskVars, Typed, NodesTyped, StoreTyped, DeskTyped
<1> QED BY <1>1, <1>2

\* The workbench and its readers keep their types: no warning, surface or verdict is of an
\* artifact the store does not have, and what was found clean has been simulated.
THEOREM WorkbenchTypeCorrect == WorkbenchSpec => []Typed
<1> QED BY InitTyped, TypedNext, PTL DEF WorkbenchSpec

-----------------------------------------------------------------------------
(* The store: one artifact for a file, sound mixtures, warnings that were    *)
(* given.                                                                    *)

StoreSound ==
    /\ OneArtifactPerFile
    /\ \A id \in DOMAIN store : store[id].payload \notin SelfContradicting
    /\ \A id \in quiet : id \in DOMAIN store /\ store[id].payload \in QuietMixtures

LEMMA RegistrationSound ==
    ASSUME Typed, StoreSound, NEW c \in Calls, NEW files \in SUBSET Files,
           Register(c, files), Warn
    PROVE  StoreSound'
<1>1. /\ \A id \in DOMAIN store :
            /\ store'[id].file = store[id].file
            /\ store'[id] = store[id] \/ store'[id].payload \in Mixtures \ SelfContradicting
      /\ \A id \in DOMAIN store' \ DOMAIN store :
            /\ store'[id].payload \in Mixtures \ SelfContradicting
            /\ \A old \in DOMAIN store :
                  store[old].file = store'[id].file =>
                     ReadBack[store[old].file[2]] # store[old].file[2]
      /\ \A i, j \in DOMAIN store' \ DOMAIN store : store'[i].file = store'[j].file => i = j
      BY Registration
<1>2. ASSUME NEW i \in DOMAIN store', NEW j \in DOMAIN store', i # j,
             store'[i].file = store'[j].file
      PROVE  ReadBack[store'[i].file[2]] # store'[i].file[2]
  <2>1. CASE i \in DOMAIN store /\ j \in DOMAIN store
        BY <1>1, <1>2, <2>1 DEF StoreSound, OneArtifactPerFile
  <2>2. CASE i \in DOMAIN store /\ j \notin DOMAIN store
    <3>1. store[i].file = store'[j].file /\ store'[i].file = store[i].file
          BY <1>1, <1>2, <2>2
    <3> QED BY <1>1, <2>2, <3>1
  <2>3. CASE i \notin DOMAIN store /\ j \in DOMAIN store
    <3>1. store[j].file = store'[i].file
          BY <1>1, <1>2, <2>3
    <3> QED BY <1>1, <2>3, <3>1
  <2>4. CASE i \notin DOMAIN store /\ j \notin DOMAIN store
        BY <1>1, <1>2, <2>4
  <2> QED BY <2>1, <2>2, <2>3, <2>4
<1>3. \A id \in DOMAIN store' : store'[id].payload \notin SelfContradicting
      BY <1>1 DEF StoreSound
<1>4. \A id \in quiet' : id \in DOMAIN store' /\ store'[id].payload \in QuietMixtures
      BY DEF Warn, StoreSound
<1> QED BY <1>2, <1>3, <1>4 DEF StoreSound, OneArtifactPerFile

LEMMA SoundNext == ASSUME Typed, StoreSound, [Next]_vars PROVE StoreSound'
<1>1. CASE UNCHANGED storeVars
      BY <1>1 DEF storeVars, StoreSound, OneArtifactPerFile
<1>2. ASSUME Next
      PROVE  StoreSound'
      BY <1>1, <1>2, RegistrationSound, NextCases, Bystanders, ReturnCases
         DEF Check, Accept, Publish, storeVars
<1> QED BY <1>1, <1>2 DEF vars

LEMMA SoundAlways == WorkbenchSpec => []StoreSound
<1>1. Init => StoreSound
      BY DEF Init, StoreSound, OneArtifactPerFile
<1> QED BY <1>1, SoundNext, WorkbenchTypeCorrect, PTL DEF WorkbenchSpec

\* A file whose name is read back whole is one artifact, however many calls, nodes and orphaned children write to it and
\* in whatever order their calls return.
THEOREM FilesAreOneArtifact == WorkbenchSpec => []OneArtifactPerFile
<1>1. StoreSound => OneArtifactPerFile
      BY DEF StoreSound
<1> QED BY <1>1, SoundAlways, PTL

\* No mixture of the store keeps a world its own branch audit killed.
THEOREM NoKilledWorld == WorkbenchSpec => []KilledStayDead
<1>1. StoreSound => KilledStayDead
      BY ReadersAndGuard DEF StoreSound, KilledStayDead
<1> QED BY <1>1, SoundAlways, PTL

\* A large mixture run_python was quiet about is sent back exactly for what the guard never
\* asks for or the submission adds.
THEOREM QuietIsExplained == WorkbenchSpec => []QuietIsSentBackForCause
<1>1. StoreSound => QuietIsSentBackForCause
      BY ReadersAndGuard DEF StoreSound, QuietIsSentBackForCause
<1> QED BY <1>1, SoundAlways, PTL

-----------------------------------------------------------------------------
(* The desk: a surface that is there is never made again.                    *)

ShownInv ==
    /\ accepted # <<>> => accepted[1] \in DOMAIN surface /\ surface[accepted[1]] = accepted[2]
    /\ PublishedAsShown

LEMMA ShownNext == ASSUME Typed, ShownInv, [Next]_vars PROVE ShownInv'
<1>1. CASE UNCHANGED deskVars
      BY <1>1 DEF deskVars, ShownInv, PublishedAsShown
<1>2. ASSUME NEW id \in DOMAIN store, Check(id), snapshot = <<>>
      PROVE  ShownInv'
  <2>1. DOMAIN surface \subseteq DOMAIN surface' /\ \A i \in DOMAIN surface : surface'[i] = surface[i]
        BY <1>2 DEF Check, Surface
  <2>2. UNCHANGED <<accepted, snapshot>>
        BY <1>2 DEF Check
  <2> QED BY <1>2, <2>1, <2>2 DEF ShownInv, PublishedAsShown
<1>3. ASSUME NEW id \in DOMAIN store, Accept(id), snapshot = <<>>
      PROVE  ShownInv'
  <2>1. id \in DOMAIN surface
        BY <1>3 DEF Accept, Typed, DeskTyped
  <2>2. accepted'[1] = id /\ accepted'[2] = surface[id] /\ UNCHANGED <<surface, snapshot>>
        BY <1>3, <2>1 DEF Accept, Surface
  <2> QED BY <1>3, <2>1, <2>2 DEF ShownInv, PublishedAsShown
<1>4. CASE Publish
  <2>1. snapshot'[1] = surface[accepted[1]] /\ UNCHANGED <<surface, accepted>>
        BY <1>4 DEF Publish, Surface, ShownInv
  <2>2. accepted # <<>>
        BY <1>4 DEF Publish
  <2> QED BY <2>1, <2>2 DEF ShownInv, PublishedAsShown
<1>5. CASE Next
      BY <1>1, <1>2, <1>3, <1>4, <1>5, NextCases, Bystanders DEF Return
<1> QED BY <1>1, <1>5 DEF vars

\* The probabilities that are published are those the accepted submission was shown with,
\* whatever was put in place of its mixture since.
THEOREM PublishedIsWhatWasShown == WorkbenchSpec => []PublishedAsShown
<1>1. Init => ShownInv
      BY DEF Init, ShownInv, PublishedAsShown
<1>2. ShownInv => PublishedAsShown
      BY DEF ShownInv
<1> QED BY <1>1, <1>2, ShownNext, WorkbenchTypeCorrect, PTL DEF WorkbenchSpec

===============================================================================
