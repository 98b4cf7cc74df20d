---------------------------- MODULE ArchiveProofs ----------------------------
(* The static archive for any runs, stamps, ranges of days, hosts and       *)
(* retirements: what an index names is there, what was retired is not       *)
(* exported, and an export agrees with its own verification.                *)
EXTENDS Archive, ListsProofs

-----------------------------------------------------------------------------
(* The types.                                                                *)

Objects == Runs \X {"snapshot", "sidecars"}

Jobs == [days : SUBSET Nat, pinned : SUBSET Objects, toRead : SUBSET Runs,
         complete : SUBSET Runs, rejected : BOOLEAN, gone : SUBSET Runs,
         copying : SUBSET Objects]

Steps == {"idle", "list", "read", "metadata", "write", "verify", "upload", "copy"}

\* Files are told apart by what they hold, and have no type of their own.
ArchiveTyped ==
    /\ created \in [Runs -> Nat]
    /\ snapshot \in [Runs -> {"absent", "current", "retired"}]
    /\ sidecars \in [Runs -> {"absent", "current", "retired"}]
    /\ step \in [Hosts -> Steps] /\ job \in [Hosts -> Jobs]
    /\ exists \in [Hosts -> BOOLEAN]
    /\ root = [h \in Hosts |-> root[h]]

\* A job whose fields are of these sets stays one whatever of them is set.
LEMMA JobUpdates ==
    ASSUME NEW D, NEW P, NEW R, NEW B,
           NEW j \in [days : D, pinned : P, toRead : R, complete : R, rejected : B, gone : R,
                      copying : P],
           NEW days \in D, NEW pinned \in P, NEW toRead \in R, NEW complete \in R,
           NEW rejected \in B, NEW gone \in R, NEW copying \in P
    PROVE  /\ [j EXCEPT !.days = days] \in
                  [days : D, pinned : P, toRead : R, complete : R, rejected : B, gone : R, copying : P]
           /\ [j EXCEPT !.days = days, !.pinned = pinned] \in
                  [days : D, pinned : P, toRead : R, complete : R, rejected : B, gone : R, copying : P]
           /\ [j EXCEPT !.copying = copying] \in
                  [days : D, pinned : P, toRead : R, complete : R, rejected : B, gone : R, copying : P]
           /\ [j EXCEPT !.pinned = pinned, !.toRead = toRead, !.gone = gone] \in
                  [days : D, pinned : P, toRead : R, complete : R, rejected : B, gone : R, copying : P]
           /\ [j EXCEPT !.toRead = toRead, !.complete = complete, !.rejected = rejected] \in
                  [days : D, pinned : P, toRead : R, complete : R, rejected : B, gone : R, copying : P]
OBVIOUS

LEMMA NoJobType == NoJob \in Jobs
<1>1. ASSUME NEW D, NEW P, NEW R, NEW B, NEW days \in D, NEW pinned \in P, NEW toRead \in R,
             NEW complete \in R, NEW rejected \in B, NEW gone \in R, NEW copying \in P
      PROVE  [days |-> days, pinned |-> pinned, toRead |-> toRead, complete |-> complete,
              rejected |-> rejected, gone |-> gone, copying |-> copying] \in
             [days : D, pinned : P, toRead : R, complete : R, rejected : B, gone : R, copying : P]
      OBVIOUS
<1>2. {} \in SUBSET Nat /\ {} \in SUBSET Objects /\ {} \in SUBSET Runs
      OBVIOUS
<1>3. FALSE \in BOOLEAN
      OBVIOUS
<1> QED BY Zenon, <1>1, <1>2, <1>3 DEF NoJob, Jobs

\* What the bucket holds are objects, and the days taken by default are numbers.
LEMMA BucketTypes ==
    ASSUME ArchiveTyped
    PROVE  /\ Current \in SUBSET Objects /\ Retained \in SUBSET Objects
           /\ DefaultDays(Whole) \in SUBSET Nat
<1>1. FinalDay \in Nat
      BY ArchiveAssumption
<1>2. DefaultDays(Whole) \subseteq 0..FinalDay
      BY DEF DefaultDays
<1>3. \A d \in 0..FinalDay : d \in Nat
      BY <1>1
<1> QED BY <1>2, <1>3 DEF Current, Retained, Objects

LEMMA InitTyped == ArchiveInit => ArchiveTyped
<1> SUFFICES ASSUME ArchiveInit PROVE ArchiveTyped
    OBVIOUS
<1>1. created \in [Runs -> Nat]
      BY ArchiveAssumption DEF ArchiveInit
<1>2. snapshot \in [Runs -> {"absent", "current", "retired"}]
      BY DEF ArchiveInit
<1>3. sidecars \in [Runs -> {"absent", "current", "retired"}]
      BY <1>2 DEF ArchiveInit
<1>4. step \in [Hosts -> Steps]
      BY DEF ArchiveInit, Steps
<1>5. job \in [Hosts -> Jobs]
      BY NoJobType, Zenon DEF ArchiveInit
<1>6. exists \in [Hosts -> BOOLEAN]
      BY DEF ArchiveInit
<1>7. root = [h \in Hosts |-> root[h]]
      BY DEF ArchiveInit
<1> QED BY <1>1, <1>2, <1>3, <1>4, <1>5, <1>6, <1>7 DEF ArchiveTyped

\* The job an export starts with, or a preservation.
LEMMA StartTypes ==
    ASSUME NEW days \in SUBSET Nat, NEW pinned \in SUBSET Objects
    PROVE  /\ [NoJob EXCEPT !.days = days] \in Jobs
           /\ [NoJob EXCEPT !.days = days, !.pinned = pinned] \in Jobs
           /\ [NoJob EXCEPT !.copying = pinned] \in Jobs
<1>1. NoJob \in [days : SUBSET Nat, pinned : SUBSET Objects, toRead : SUBSET Runs,
                 complete : SUBSET Runs, rejected : BOOLEAN, gone : SUBSET Runs,
                 copying : SUBSET Objects]
      BY NoJobType DEF Jobs
<1>2. {} \in SUBSET Runs
      OBVIOUS
<1>3. TRUE \in BOOLEAN
      OBVIOUS
<1> QED BY <1>1, <1>2, <1>3, JobUpdates, Zenon DEF Jobs

LEMMA ExportType ==
    ASSUME ArchiveTyped, NEW h \in Hosts, Export(h)
    PROVE  ArchiveTyped'
<1>1. Current \in SUBSET Objects /\ DefaultDays(Whole) \in SUBSET Nat
      BY BucketTypes
<1>2. \A asked \in Asked : asked \in SUBSET Nat
      BY ArchiveAssumption
<1>3. PICK days \in SUBSET Nat, pinned \in SUBSET Objects :
          \/ Start(h, "list", [NoJob EXCEPT !.days = days, !.pinned = pinned])
          \/ Start(h, "list", [NoJob EXCEPT !.days = days])
  <2>1. {} \in SUBSET Objects
        OBVIOUS
  <2> QED BY <1>1, <1>2, <2>1, Zenon DEF Export
<1>4. PICK new \in Jobs : Start(h, "list", new)
      BY <1>3, StartTypes, Zenon
<1>5. step' = [step EXCEPT ![h] = "list"] /\ job' = [job EXCEPT ![h] = new]
      BY <1>4, Zenon DEF Start
<1>6. UNCHANGED <<bucket, output>>
      BY DEF Export
<1> QED BY <1>5, <1>6 DEF ArchiveTyped, Steps, bucket, output

LEMMA JobKept ==
    ASSUME ArchiveTyped, NEW h \in Hosts, NEW new \in Jobs, job' = [job EXCEPT ![h] = new]
    PROVE  job' \in [Hosts -> Jobs]
BY DEF ArchiveTyped

LEMMA ListType ==
    ASSUME ArchiveTyped, NEW h \in Hosts, List(h)
    PROVE  ArchiveTyped'
<1> DEFINE pinned == job[h].pinned \cup Current
           toRead == {r \in Runs : snapshot[r] = "current"}
           gone == {r \in Runs : snapshot[r] = "retired"}
<1>1. job[h] \in Jobs
      BY DEF ArchiveTyped
<1>2. pinned \in SUBSET Objects /\ toRead \in SUBSET Runs /\ gone \in SUBSET Runs
      BY <1>1, BucketTypes DEF Jobs
<1>3. job' = [job EXCEPT ![h] = [job[h] EXCEPT !.pinned = pinned, !.toRead = toRead, !.gone = gone]]
      BY DEF List, ArchiveTyped
<1> HIDE DEF pinned, toRead, gone
<1>4. [job[h] EXCEPT !.pinned = pinned, !.toRead = toRead, !.gone = gone] \in Jobs
  <2>1. {} \in SUBSET Nat /\ {} \in SUBSET Objects
        OBVIOUS
  <2>2. TRUE \in BOOLEAN
        OBVIOUS
  <2> QED BY <1>1, <1>2, <2>1, <2>2, JobUpdates, Zenon DEF Jobs
<1>5. job' \in [Hosts -> Jobs]
      BY <1>3, <1>4, JobKept
<1>6. UNCHANGED <<bucket, output>> /\ step' = [step EXCEPT ![h] = "read"]
      BY DEF List
<1> QED BY <1>5, <1>6 DEF ArchiveTyped, Steps, bucket, output

LEMMA ReadRunType ==
    ASSUME ArchiveTyped, NEW h \in Hosts, NEW r \in Runs, ReadRun(h, r)
    PROVE  ArchiveTyped'
<1> DEFINE found == <<r, "sidecars">> \in job[h].pinned \cup Current
           toRead == job[h].toRead \ {r}
           complete == IF found THEN job[h].complete \cup {r} ELSE job[h].complete
           rejected == job[h].rejected \/ ~found
<1>1. job[h] \in Jobs
      BY DEF ArchiveTyped
<1>2. toRead \in SUBSET Runs /\ complete \in SUBSET Runs
      BY <1>1 DEF Jobs
<1>3. rejected \in BOOLEAN
      BY Zenon
<1>4. job' = [job EXCEPT ![h] = [job[h] EXCEPT !.toRead = toRead, !.complete = complete,
                                              !.rejected = rejected]]
      BY Zenon DEF ReadRun, ArchiveTyped
<1> HIDE DEF toRead, complete, rejected, found
<1>5. [job[h] EXCEPT !.toRead = toRead, !.complete = complete, !.rejected = rejected] \in Jobs
  <2>1. {} \in SUBSET Nat /\ {} \in SUBSET Objects /\ {} \in SUBSET Runs
        OBVIOUS
  <2> QED BY <1>1, <1>2, <1>3, <2>1, JobUpdates, Zenon DEF Jobs
<1>6. job' \in [Hosts -> Jobs]
      BY <1>4, <1>5, JobKept
<1>7. UNCHANGED <<bucket, output, step>>
      BY DEF ReadRun
<1> QED BY <1>6, <1>7 DEF ArchiveTyped, Steps, bucket, output

LEMMA PreserveType ==
    ASSUME ArchiveTyped, NEW h \in Hosts, Preserve(h)
    PROVE  ArchiveTyped'
<1>1. Retained \in SUBSET Objects
      BY BucketTypes
<1>2. {} \in SUBSET Nat
      OBVIOUS
<1>3. [NoJob EXCEPT !.copying = Retained] \in Jobs
      BY <1>1, <1>2, StartTypes, Zenon
<1>4. step' = [step EXCEPT ![h] = "copy"] /\ job' = [job EXCEPT ![h] = [NoJob EXCEPT !.copying = Retained]]
      BY Zenon DEF Preserve, Start
<1>5. job' \in [Hosts -> Jobs]
      BY <1>3, <1>4, JobKept
<1>6. UNCHANGED <<bucket, output>>
      BY DEF Preserve
<1> QED BY <1>4, <1>5, <1>6 DEF ArchiveTyped, Steps, bucket, output

\* The other steps set the step of a host, and with it its job to none or its directory.
LEMMA TypedNext == ArchiveTyped /\ [ArchiveNext]_vars => ArchiveTyped'
<1> SUFFICES ASSUME ArchiveTyped, [ArchiveNext]_vars PROVE ArchiveTyped'
    OBVIOUS
<1> USE NoJobType
<1>1. ASSUME NEW r \in Runs, PutSnapshot(r) \/ PutSidecars(r) \/ Retire(r) PROVE ArchiveTyped'
      BY <1>1 DEF PutSnapshot, PutSidecars, Retire, ArchiveTyped, output
<1>2. ASSUME NEW h \in Hosts, MakeRoot(h) \/ LoadMetadata(h) PROVE ArchiveTyped'
      BY <1>2 DEF MakeRoot, LoadMetadata, Stop, ArchiveTyped, Steps, bucket, output
<1>3. ASSUME NEW h \in Hosts, WriteDay(h) PROVE ArchiveTyped'
  <2>1. \/ RemoveRoot(h) /\ Stop(h)
        \/ (\E f : WriteFile(h, f)) /\ UNCHANGED <<step, job>>
        BY <1>3 DEF WriteDay
  <2>2. UNCHANGED bucket
        BY <1>3 DEF WriteDay
  <2> QED BY <2>1, <2>2 DEF RemoveRoot, Stop, WriteFile, ArchiveTyped, Steps, bucket
<1>4. ASSUME NEW h \in Hosts, WriteRun(h) \/ WriteManifest(h) PROVE ArchiveTyped'
  <2>1. /\ \E f : WriteFile(h, f)
        /\ UNCHANGED <<bucket, job>>
        /\ UNCHANGED step \/ step' = [step EXCEPT ![h] = "verify"]
        BY <1>4 DEF WriteRun, WriteManifest
  <2> QED BY <2>1 DEF WriteFile, ArchiveTyped, Steps, bucket
<1>5. ASSUME NEW h \in Hosts, Verify(h) \/ Ends(h) PROVE ArchiveTyped'
  <2>1. Stop(h) /\ (UNCHANGED output \/ RemoveRoot(h)) /\ UNCHANGED bucket
        BY <1>5 DEF Verify, Ends
  <2> QED BY <2>1 DEF RemoveRoot, Stop, ArchiveTyped, Steps, bucket, output
<1>6. ASSUME NEW h \in Hosts, Publish(h) \/ Upload(h) \/ Copy(h) PROVE ArchiveTyped'
      BY <1>6 DEF Publish, Upload, Copy, ArchiveTyped, Steps, bucket, output
<1>7. ASSUME NEW h \in Hosts, WriteInventory(h) \/ ClearRoot(h) PROVE ArchiveTyped'
      BY <1>7 DEF WriteInventory, ClearRoot, Stop, RemoveRoot, ArchiveTyped, Steps, bucket, output
<1>8. CASE UNCHANGED vars
      BY <1>8 DEF vars, bucket, output, ArchiveTyped
<1> QED BY <1>1, <1>2, <1>3, <1>4, <1>5, <1>6, <1>7, <1>8, ExportType, ListType, ReadRunType,
           PreserveType, Zenon DEF ArchiveNext, Command

\* Type correctness of the archive: every host is in a step of a command and holds a job whose
\* parts are days, runs and versions.
THEOREM ArchiveTypeCorrect == Spec => []ArchiveTyped
BY InitTyped, TypedNext, PTL DEF Spec

-----------------------------------------------------------------------------
(* What an index names is there.  A directory holds at most one manifest,     *)
(* written after everything else, and none while a command may still write    *)
(* into it; what is released and preserved is never taken away.               *)

OneManifest(h) ==
    /\ ~exists[h] => root[h] = {}
    /\ step[h] \in {"metadata", "write"} => exists[h] /\ FilesOf("manifest", root[h]) = {}
    /\ \A f, g \in FilesOf("manifest", root[h]) : f = g

ReleaseHolds(object, out) ==
    /\ object = <<object[1], object[2]>>
    /\ object[2].kind = "manifest" =>
          /\ \A f \in FilesOf("manifest", object[1]) : f = object[2]
          /\ \A file \in object[1] \ FilesOf("manifest", object[1]) :
                <<object[1], file>> \in out

DurableInv ==
    /\ \A h \in Hosts : OneManifest(h)
    /\ \A object \in released : ReleaseHolds(object, released)
    /\ \A inventory \in inventories : inventory \subseteq preserved

LEMMA InitDurable == ArchiveInit => DurableInv
BY DEF ArchiveInit, DurableInv, OneManifest, FilesOf

\* What a step of a host leaves of the directories of the others.
LEMMA OthersKept ==
    ASSUME ArchiveTyped, NEW h \in Hosts, NEW g \in Hosts \ {h},
           Command(h)
    PROVE  step'[g] = step[g] /\ exists'[g] = exists[g] /\ root'[g] = root[g] /\ job'[g] = job[g]
<1>1. ASSUME Stop(h) PROVE step'[g] = step[g] /\ job'[g] = job[g]
      BY <1>1 DEF Stop, ArchiveTyped
<1>2. ASSUME NEW next, NEW new, Start(h, next, new) PROVE step'[g] = step[g] /\ job'[g] = job[g]
      BY <1>2 DEF Start, ArchiveTyped
<1>3. ASSUME RemoveRoot(h) PROVE exists'[g] = exists[g] /\ root'[g] = root[g]
      BY <1>3 DEF RemoveRoot, ArchiveTyped
<1>4. ASSUME NEW f, WriteFile(h, f) PROVE exists'[g] = exists[g] /\ root'[g] = root[g]
      BY <1>4 DEF WriteFile, ArchiveTyped
<1>5. ASSUME NEW next, step' = [step EXCEPT ![h] = next] PROVE step'[g] = step[g]
      BY <1>5 DEF ArchiveTyped
<1>6. ASSUME NEW new, job' = [job EXCEPT ![h] = new] PROVE job'[g] = job[g]
      BY <1>6 DEF ArchiveTyped
<1>7. CASE Export(h)
      BY <1>2, <1>7, Zenon DEF Export, output
<1>8. CASE List(h)
      BY <1>5, <1>6, <1>8, Zenon DEF List, output
<1>9. CASE MakeRoot(h)
  <2>1. exists'[g] = exists[g]
        BY <1>9 DEF MakeRoot, ArchiveTyped
  <2> QED BY <1>1, <1>5, <1>9, <2>1, Zenon DEF MakeRoot
<1>10. CASE LoadMetadata(h)
      BY <1>5, <1>10, Zenon DEF LoadMetadata, output
<1>11. ASSUME NEW r \in Runs, ReadRun(h, r)
       PROVE  step'[g] = step[g] /\ exists'[g] = exists[g] /\ root'[g] = root[g] /\ job'[g] = job[g]
      BY <1>6, <1>11, Zenon DEF ReadRun, output
<1>12. CASE WriteDay(h)
      BY <1>1, <1>3, <1>4, <1>12, Zenon DEF WriteDay
<1>13. CASE WriteRun(h)
      BY <1>4, <1>13, Zenon DEF WriteRun
<1>14. CASE WriteManifest(h)
      BY <1>4, <1>5, <1>14, Zenon DEF WriteManifest
<1>15. CASE Verify(h)
      BY <1>1, <1>3, <1>15, Zenon DEF Verify, output
<1>16. CASE Publish(h)
      BY <1>5, <1>16, Zenon DEF Publish, output
<1>17. CASE Upload(h) \/ Copy(h)
      BY <1>17, Zenon DEF Upload, Copy, output
<1>18. CASE Preserve(h)
      BY <1>2, <1>18, Zenon DEF Preserve, output
<1>19. CASE WriteInventory(h)
      BY <1>1, <1>19, Zenon DEF WriteInventory, output
<1>20. CASE Ends(h)
      BY <1>1, <1>3, <1>20, Zenon DEF Ends, output
<1>21. CASE ClearRoot(h)
      BY <1>3, <1>21, Zenon DEF ClearRoot
<1> QED BY <1>7, <1>8, <1>9, <1>10, <1>11, <1>12, <1>13, <1>14, <1>15, <1>16, <1>17, <1>18, <1>19,
           <1>20, <1>21, Zenon DEF Command

LEMMA FileKinds ==
    /\ \A runs, day : DayFile(runs, day).kind = "day"
    /\ \A r : RunFile(r).kind = "run"
    /\ \A files : Provenance(files).kind = "provenance"
    /\ \A h \in Hosts : Manifest(h).kind = "manifest"
<1>1. \A k, a, b, c : /\ [kind |-> k, day |-> a, forecast |-> b, history |-> c].kind = k
                      /\ [kind |-> k, run |-> a].kind = k
                      /\ [kind |-> k, covers |-> a].kind = k
                      /\ [kind |-> k, days |-> a, runs |-> b].kind = k
      OBVIOUS
<1>2. \A runs, day : DayFile(runs, day).kind = "day"
      BY <1>1, Zenon DEF DayFile
<1>3. \A r : RunFile(r).kind = "run"
      BY <1>1, Zenon DEF RunFile
<1>4. \A files : Provenance(files).kind = "provenance"
      BY <1>1, Zenon DEF Provenance
<1>5. \A h \in Hosts : Manifest(h).kind = "manifest"
      BY <1>1, Zenon DEF Manifest
<1> QED BY <1>2, <1>3, <1>4, <1>5

\* The steps that write a file, and which.
LEMMA Writes ==
    ASSUME ArchiveTyped, NEW h \in Hosts, WriteDay(h) \/ WriteRun(h) \/ WriteManifest(h)
    PROVE  /\ step[h] = "write"
           /\ \/ step'[h] = "idle" /\ exists'[h] = FALSE /\ root'[h] = {}
              \/ /\ step'[h] = "write" /\ UNCHANGED exists
                 /\ \E f : root'[h] = root[h] \cup {f} /\ f.kind # "manifest"
              \/ /\ step'[h] = "verify" /\ UNCHANGED exists
                 /\ root'[h] = root[h] \cup {Manifest(h)}
<1>1. ASSUME NEW f, WriteFile(h, f) PROVE root'[h] = root[h] \cup {f} /\ UNCHANGED exists
      BY <1>1 DEF WriteFile, ArchiveTyped
<1>2. CASE WriteDay(h)
  <2>1. CASE RemoveRoot(h) /\ Stop(h)
        BY <1>2, <2>1 DEF RemoveRoot, Stop, WriteDay, ArchiveTyped
  <2>2. ASSUME NEW runs, NEW day, WriteFile(h, DayFile(runs, day)), UNCHANGED step
        PROVE  /\ step'[h] = "write" /\ UNCHANGED exists
               /\ \E f : root'[h] = root[h] \cup {f} /\ f.kind # "manifest"
    <3>1. DayFile(runs, day).kind # "manifest"
          BY FileKinds
    <3>2. step[h] = "write"
          BY <1>2 DEF WriteDay
    <3> QED BY <1>1, <2>2, <3>1, <3>2
  <2> QED BY <1>2, <2>1, <2>2, Zenon DEF WriteDay
<1>3. CASE WriteRun(h)
  <2>1. PICK r : WriteFile(h, RunFile(r))
        BY <1>3, Zenon DEF WriteRun
  <2>2. RunFile(r).kind # "manifest"
        BY FileKinds
  <2>3. step[h] = "write" /\ UNCHANGED step
        BY <1>3 DEF WriteRun
  <2> QED BY <1>1, <2>1, <2>2, <2>3
<1>4. CASE WriteManifest(h)
  <2>1. step[h] = "write"
        BY <1>4 DEF WriteManifest
  <2>2. CASE WriteFile(h, Provenance(root[h])) /\ UNCHANGED step
    <3>1. Provenance(root[h]).kind # "manifest"
          BY FileKinds
    <3> QED BY <1>1, <2>1, <2>2, <3>1
  <2>3. CASE WriteFile(h, Manifest(h)) /\ step' = [step EXCEPT ![h] = "verify"]
    <3>1. step'[h] = "verify"
          BY <2>3 DEF ArchiveTyped
    <3> QED BY <1>1, <2>1, <2>3, <3>1
  <2> QED BY <1>4, <2>2, <2>3, Zenon DEF WriteManifest
<1> QED BY <1>2, <1>3, <1>4

LEMMA OneManifestNext ==
    ASSUME ArchiveTyped, NEW h \in Hosts, OneManifest(h), Command(h)
    PROVE  OneManifest(h)'
<1>1. ASSUME UNCHANGED <<exists, root>>, step'[h] \notin {"metadata", "write"} \/ step'[h] = step[h]
      PROVE  OneManifest(h)'
      BY <1>1 DEF OneManifest
<1>2. ASSUME RemoveRoot(h), step'[h] = "idle" PROVE OneManifest(h)'
  <2>1. exists'[h] = FALSE /\ root'[h] = {}
        BY <1>2 DEF RemoveRoot, ArchiveTyped
  <2> QED BY <1>2, <2>1 DEF OneManifest, FilesOf
<1>3. ASSUME Stop(h) PROVE step'[h] = "idle"
      BY <1>3 DEF Stop, ArchiveTyped
<1>4. ASSUME NEW next, step' = [step EXCEPT ![h] = next] PROVE step'[h] = next
      BY <1>4 DEF ArchiveTyped
<1>5. CASE Export(h) \/ Preserve(h)
  <2>1. step' = [step EXCEPT ![h] = "list"] \/ step' = [step EXCEPT ![h] = "copy"]
        BY <1>5, Zenon DEF Export, Preserve, Start
  <2> QED BY <1>1, <1>4, <1>5, <2>1 DEF Export, Preserve, output
<1>6. CASE List(h)
      BY <1>1, <1>4, <1>6 DEF List, output
<1>7. CASE \E r \in Runs : ReadRun(h, r)
  <2>1. UNCHANGED <<exists, root>> /\ step'[h] = step[h]
        BY <1>7, Zenon DEF ReadRun, output
  <2> QED BY <1>1, <2>1
<1>8. CASE MakeRoot(h)
  <2>1. CASE Stop(h) /\ UNCHANGED exists
        BY <1>1, <1>3, <1>8, <2>1 DEF MakeRoot
  <2>2. CASE ~exists[h] /\ step' = [step EXCEPT ![h] = "metadata"] /\ exists' = [exists EXCEPT ![h] = TRUE]
    <3>1. exists'[h] = TRUE /\ step'[h] = "metadata" /\ root'[h] = {}
          BY <1>8, <2>2 DEF MakeRoot, ArchiveTyped, OneManifest
    <3> QED BY <3>1 DEF OneManifest, FilesOf
  <2> QED BY <1>8, <2>1, <2>2, Zenon DEF MakeRoot
<1>9. CASE LoadMetadata(h)
  <2>1. step[h] = "metadata" /\ UNCHANGED <<exists, root>>
        BY <1>9 DEF LoadMetadata, output
  <2> QED BY <2>1 DEF OneManifest
<1>10. CASE WriteDay(h) \/ WriteRun(h) \/ WriteManifest(h)
  <2>1. exists[h] /\ FilesOf("manifest", root[h]) = {}
        BY <1>10, Writes DEF OneManifest
  <2>2. CASE step'[h] = "idle" /\ exists'[h] = FALSE /\ root'[h] = {}
        BY <2>2 DEF OneManifest, FilesOf
  <2>3. CASE /\ step'[h] = "write" /\ UNCHANGED exists
             /\ \E f : root'[h] = root[h] \cup {f} /\ f.kind # "manifest"
    <3>1. FilesOf("manifest", root'[h]) = {}
          BY <2>1, <2>3 DEF FilesOf
    <3> QED BY <2>1, <2>3, <3>1 DEF OneManifest
  <2>4. CASE /\ step'[h] = "verify" /\ UNCHANGED exists
             /\ root'[h] = root[h] \cup {Manifest(h)}
    <3>1. Manifest(h).kind = "manifest"
          BY FileKinds
    <3>2. FilesOf("manifest", root'[h]) = {Manifest(h)}
          BY <2>1, <2>4, <3>1 DEF FilesOf
    <3> QED BY <2>1, <2>4, <3>2 DEF OneManifest
  <2> QED BY <1>10, <2>2, <2>3, <2>4, Writes
<1>11. CASE Verify(h) \/ Ends(h)
  <2>1. Stop(h) /\ (UNCHANGED output \/ RemoveRoot(h))
        BY <1>11 DEF Verify, Ends
  <2> QED BY <1>1, <1>2, <1>3, <2>1 DEF output
<1>12. CASE Publish(h)
      BY <1>1, <1>4, <1>12 DEF Publish, output
<1>13. CASE Upload(h) \/ Copy(h)
      BY <1>1, <1>13 DEF Upload, Copy, output
<1>14. CASE WriteInventory(h)
      BY <1>1, <1>3, <1>14 DEF WriteInventory, output
<1>15. CASE ClearRoot(h)
  <2>1. step'[h] = "idle"
        BY <1>15 DEF ClearRoot
  <2> QED BY <1>2, <1>15, <2>1 DEF ClearRoot
<1> QED BY <1>5, <1>6, <1>7, <1>8, <1>9, <1>10, <1>11, <1>12, <1>13, <1>14, <1>15, Zenon DEF Command

LEMMA ReleaseNext ==
    ASSUME DurableInv, NEW h \in Hosts, Upload(h)
    PROVE  \A object \in released' : ReleaseHolds(object, released')
<1>1. PICK file \in root[h] \ Uploaded(h) :
          /\ file.kind = "manifest" => Payload(h) \subseteq Uploaded(h)
          /\ released' = released \cup {<<root[h], file>>}
      BY DEF Upload
<1>2. ASSUME NEW object \in released PROVE ReleaseHolds(object, released')
      BY <1>1, <1>2 DEF DurableInv, ReleaseHolds
<1>3. ReleaseHolds(<<root[h], file>>, released')
  <2> DEFINE object == <<root[h], file>>
  <2>1. object[1] = root[h] /\ object[2] = file
        OBVIOUS
  <2>2. ASSUME file.kind = "manifest"
        PROVE  /\ \A f \in FilesOf("manifest", root[h]) : f = file
               /\ \A f \in root[h] \ FilesOf("manifest", root[h]) : <<root[h], f>> \in released'
    <3>1. file \in FilesOf("manifest", root[h])
          BY <2>2 DEF FilesOf
    <3>2. \A f \in FilesOf("manifest", root[h]) : f = file
          BY <3>1 DEF DurableInv, OneManifest
    <3>3. \A f \in root[h] \ FilesOf("manifest", root[h]) : <<root[h], f>> \in released
          BY <1>1, <2>2 DEF Payload, Uploaded
    <3> QED BY <1>1, <3>2, <3>3
  <2> HIDE DEF object
  <2>3. object = <<root[h], file>>
        BY DEF object
  <2>4. ReleaseHolds(object, released')
        BY <2>1, <2>2, <2>3 DEF ReleaseHolds
  <2> QED BY <2>3, <2>4
<1> QED BY <1>1, <1>2, <1>3

LEMMA DurableNext == ArchiveTyped /\ DurableInv /\ [ArchiveNext]_vars => DurableInv'
<1> SUFFICES ASSUME ArchiveTyped, DurableInv, [ArchiveNext]_vars PROVE DurableInv'
    OBVIOUS
<1>1. ASSUME UNCHANGED <<step, exists, root, prefixes>> PROVE DurableInv'
      BY <1>1 DEF DurableInv, OneManifest, ReleaseHolds, prefixes
<1>2. ASSUME NEW r \in Runs, PutSnapshot(r) \/ PutSidecars(r) \/ Retire(r) PROVE DurableInv'
      BY <1>1, <1>2 DEF PutSnapshot, PutSidecars, Retire, output
<1>3. CASE UNCHANGED vars
      BY <1>1, <1>3 DEF vars, output
<1>4. ASSUME NEW h \in Hosts, Command(h) PROVE DurableInv'
  <2>1. ASSUME NEW g \in Hosts PROVE OneManifest(g)'
    <3>1. CASE g = h
          BY <1>4, <3>1, OneManifestNext DEF DurableInv
    <3>2. CASE g # h
      <4>1. step'[g] = step[g] /\ exists'[g] = exists[g] /\ root'[g] = root[g]
            BY <1>4, <3>2, OthersKept
      <4> QED BY <4>1 DEF DurableInv, OneManifest
    <3> QED BY <3>1, <3>2
  <2>2. \A object \in released' : ReleaseHolds(object, released')
    <3>1. CASE Upload(h)
          BY <3>1, ReleaseNext
    <3>2. CASE released' = released
          BY <3>2 DEF DurableInv, ReleaseHolds
    <3>3. Upload(h) \/ released' = released
          BY <1>4, Zenon DEF Command, Export, List, MakeRoot, LoadMetadata, ReadRun, WriteDay,
             WriteRun, WriteManifest, Verify, Publish, Preserve, Copy, WriteInventory, Ends,
             ClearRoot, prefixes
    <3> QED BY <3>1, <3>2, <3>3
  <2>3. \A inventory \in inventories' : inventory \subseteq preserved'
    <3>1. CASE Copy(h)
          BY <3>1 DEF Copy, DurableInv
    <3>2. CASE WriteInventory(h)
          BY <3>2 DEF WriteInventory, DurableInv
    <3>3. CASE UNCHANGED <<inventories, preserved>>
          BY <3>3 DEF DurableInv
    <3>4. Copy(h) \/ WriteInventory(h) \/ UNCHANGED <<inventories, preserved>>
          BY <1>4, Zenon DEF Command, Export, List, MakeRoot, LoadMetadata, ReadRun, WriteDay,
             WriteRun, WriteManifest, Verify, Publish, Preserve, Upload, Ends,
             ClearRoot, prefixes
    <3> QED BY <3>1, <3>2, <3>3, <3>4
  <2> QED BY <2>1, <2>2, <2>3 DEF DurableInv
<1> QED BY <1>2, <1>3, <1>4 DEF ArchiveNext

\* What an index in the bucket names is in the bucket, wherever the commands died and whoever
\* else was uploading: the manifest of a release goes when its payload is up, an inventory when
\* its copies are made, and no other file of a release is a manifest.
THEOREM IndexNamesWhatIsThere == Spec => []NamedIsDurable
<1>1. DurableInv => NamedIsDurable
  <2> SUFFICES ASSUME DurableInv,
                      NEW object \in released, object[2].kind = "manifest", NEW file \in object[1]
               PROVE  <<object[1], file>> \in released
      BY DEF DurableInv, NamedIsDurable
  <2>1. ReleaseHolds(object, released)
        BY DEF DurableInv
  <2>2. CASE file \in FilesOf("manifest", object[1])
        BY <2>1, <2>2 DEF ReleaseHolds
  <2> QED BY <2>1, <2>2 DEF ReleaseHolds
<1> QED BY <1>1, InitDurable, DurableNext, ArchiveTypeCorrect, PTL DEF Spec

-----------------------------------------------------------------------------
(* The order of the runs: by their stamps, and by their keys within one.     *)

LEMMA PositionFacts ==
    /\ IsFiniteSet(Runs)
    /\ \A r \in Runs : Position(r) \in Nat /\ Position(r) \in DOMAIN Keys /\ Keys[Position(r)] = r
    /\ \A r, s \in Runs : Position(r) = Position(s) => r = s
<1> DEFINE n == Len(Keys)
<1>1. Keys \in Seq(Runs)
      BY ArchiveAssumption
<1>2. n \in Nat /\ DOMAIN Keys = 1..n /\ Keys \in [1..n -> Runs]
      BY <1>1
<1>3. Runs = {Keys[i] : i \in DOMAIN Keys}
      BY DEF Runs, ToSet
<1>4. Keys \in Surjection(1..n, Runs)
      BY <1>2, <1>3 DEF Surjection
<1>5. IsFiniteSet(1..n)
      BY <1>2, FS_Interval
<1>6. IsFiniteSet(Runs)
  <2> HIDE DEF n
  <2> QED BY <1>4, <1>5, FS_Surjection
<1>7. \A r \in Runs : Position(r) \in DOMAIN Keys /\ Keys[Position(r)] = r
      BY <1>3 DEF Position
<1>8. \A r \in Runs : Position(r) \in Nat
      BY <1>2, <1>7
<1> QED BY <1>6, <1>7, <1>8

LEMMA EarlierOrders ==
    ASSUME created \in [Runs -> Nat]
    PROVE  /\ \A r \in Runs : ~Earlier(r, r)
           /\ \A r, s \in Runs : r = s \/ Earlier(r, s) \/ Earlier(s, r)
           /\ \A r, s, t \in Runs : Earlier(r, s) /\ Earlier(s, t) => Earlier(r, t)
           /\ \A r, s \in Runs : Earlier(r, s) => created[r] <= created[s]
<1>1. \A r \in Runs : created[r] \in Nat /\ Position(r) \in Nat
      BY PositionFacts
<1>2. \A r, s \in Runs : Position(r) = Position(s) => r = s
      BY PositionFacts
<1> QED BY <1>1, <1>2 DEF Earlier

\* Ranks follow the order, tell the runs apart and leave no gap.
LEMMA RankFacts ==
    ASSUME created \in [Runs -> Nat], NEW runs \in SUBSET Runs
    PROVE  /\ IsFiniteSet(runs) /\ Cardinality(runs) \in Nat
           /\ \A r \in runs : Rank(runs, r) \in 1..Cardinality(runs)
           /\ \A r, s \in runs : Earlier(r, s) => Rank(runs, r) < Rank(runs, s)
           /\ \A r, s \in runs : Rank(runs, r) = Rank(runs, s) => r = s
           /\ \A k \in 1..Cardinality(runs) : \E r \in runs : Rank(runs, r) = k
<1> DEFINE c == Cardinality(runs)
           upTo(r) == {s \in runs : s = r \/ Earlier(s, r)}
           f == [r \in runs |-> Rank(runs, r)]
<1>0. IsFiniteSet(runs)
      BY PositionFacts, FS_Subset
<1>1. c \in Nat
      BY <1>0, FS_CardinalityType
<1>2. ASSUME NEW r \in runs
      PROVE  /\ IsFiniteSet(upTo(r)) /\ Cardinality(upTo(r)) \in 1..c
             /\ Rank(runs, r) = Cardinality(upTo(r))
  <2>1. IsFiniteSet(upTo(r)) /\ Cardinality(upTo(r)) <= c /\ Cardinality(upTo(r)) \in Nat
        BY <1>0, FS_Subset, FS_CardinalityType
  <2>2. r \in upTo(r)
        OBVIOUS
  <2>3. Cardinality(upTo(r)) # 0
        BY <2>1, <2>2, FS_EmptySet
  <2> QED BY <1>1, <2>1, <2>3 DEF Rank
<1>3. ASSUME NEW r \in runs, NEW s \in runs, Earlier(r, s)
      PROVE  Rank(runs, r) < Rank(runs, s)
  <2>0. /\ \A q \in Runs : ~Earlier(q, q)
        /\ \A q, t, u \in Runs : Earlier(q, t) /\ Earlier(t, u) => Earlier(q, u)
        BY EarlierOrders
  <2>1. upTo(r) \subseteq upTo(s)
        BY <1>3, <2>0
  <2>2. s \in upTo(s) /\ s \notin upTo(r)
        BY <1>3, <2>0
  <2> HIDE DEF upTo
  <2>3. Cardinality(upTo(r)) <= Cardinality(upTo(s)) /\ Cardinality(upTo(r)) # Cardinality(upTo(s))
        BY <1>2, <2>1, <2>2, FS_Subset
  <2> QED BY <1>1, <1>2, <2>3
<1>4. \A r, s \in runs : Rank(runs, r) = Rank(runs, s) => r = s
  <2>1. \A r, s \in runs : r = s \/ Earlier(r, s) \/ Earlier(s, r)
        BY EarlierOrders
  <2>2. \A r \in runs : Rank(runs, r) \in 1..c
        BY <1>2
  <2> HIDE DEF c
  <2> QED BY <1>1, <1>3, <2>1, <2>2
<1>5. f \in Injection(runs, 1..c)
      BY <1>2, <1>4 DEF Injection, IsInjective
<1>6. f \in Surjection(runs, 1..c)
  <2>1. IsFiniteSet(1..c) /\ Cardinality(1..c) = c
        BY <1>1, FS_Interval
  <2> HIDE DEF f
  <2> QED BY <1>5, <2>1, FS_Injection
<1>7. \A k \in 1..c : \E r \in runs : Rank(runs, r) = k
      BY <1>6 DEF Surjection
<1> QED BY <1>0, <1>1, <1>2, <1>3, <1>4, <1>7

\* The runs in their order: each once, at its rank.
LEMMA InOrderFacts ==
    ASSUME created \in [Runs -> Nat], NEW runs \in SUBSET Runs
    PROVE  /\ Cardinality(runs) \in Nat /\ DOMAIN InOrder(runs) = 1..Cardinality(runs)
           /\ \A k \in 1..Cardinality(runs) :
                 InOrder(runs)[k] \in runs /\ Rank(runs, InOrder(runs)[k]) = k
           /\ \A r \in runs : /\ Rank(runs, r) \in 1..Cardinality(runs)
                              /\ InOrder(runs)[Rank(runs, r)] = r
           /\ \A k, l \in 1..Cardinality(runs) :
                 k < l => Earlier(InOrder(runs)[k], InOrder(runs)[l])
           /\ InOrder(runs) \in Seq(runs)
           /\ ToSet(InOrder(runs)) = runs
<1> DEFINE c == Cardinality(runs)
           who(k) == CHOOSE r \in runs : Rank(runs, r) = k
<1>1. /\ c \in Nat
      /\ \A r \in runs : Rank(runs, r) \in 1..c
      /\ \A r, s \in runs : Earlier(r, s) => Rank(runs, r) < Rank(runs, s)
      /\ \A r, s \in runs : Rank(runs, r) = Rank(runs, s) => r = s
      /\ \A k \in 1..c : \E r \in runs : Rank(runs, r) = k
      BY RankFacts
<1>2. \A k \in 1..c : who(k) \in runs /\ Rank(runs, who(k)) = k
      BY <1>1
<1>3. InOrder(runs) = [k \in 1..c |-> who(k)]
      BY DEF InOrder
<1> HIDE DEF c, who
<1>4. \A r \in runs : who(Rank(runs, r)) = r
      BY <1>1, <1>2
<1>5. ASSUME NEW k \in 1..c, NEW l \in 1..c, k < l
      PROVE  Earlier(who(k), who(l))
  <2>1. who(k) \in runs /\ who(l) \in runs
        BY <1>2
  <2>2. who(k) # who(l) /\ ~Earlier(who(l), who(k))
        BY <1>1, <1>2, <1>5
  <2> QED BY <2>1, <2>2, EarlierOrders
<1>6. InOrder(runs) \in [1..c -> runs]
      BY <1>2, <1>3
<1>7. InOrder(runs) \in Seq(runs)
      BY <1>1, <1>6
<1>8. DOMAIN InOrder(runs) = 1..c /\ \A k \in 1..c : InOrder(runs)[k] = who(k)
      BY <1>3
<1>9. ToSet(InOrder(runs)) = runs
      BY <1>1, <1>2, <1>4, <1>8 DEF ToSet
<1> QED BY <1>1, <1>2, <1>4, <1>5, <1>7, <1>8, <1>9 DEF c

-----------------------------------------------------------------------------
(* Selection.                                                                *)

LEMMA NewestFacts ==
    ASSUME created \in [Runs -> Nat], NEW runs \in SUBSET Runs, runs # {}
    PROVE  Newest(runs) \in runs
<1> DEFINE stamps == {created[r] : r \in runs}
<1>1. IsFiniteSet(runs)
      BY RankFacts
<1>2. stamps \in SUBSET Nat /\ stamps # {}
      OBVIOUS
<1>3. IsFiniteSet(stamps)
  <2> DEFINE f == [r \in runs |-> created[r]]
  <2>1. f \in Surjection(runs, stamps)
        BY DEF Surjection
  <2> HIDE DEF f, stamps
  <2> QED BY <1>1, <2>1, FS_Surjection
<1>4. PICK last \in stamps : \A stamp \in stamps : stamp <= last
  <2> HIDE DEF stamps
  <2> QED BY <1>2, <1>3, LargestNumber
<1> DEFINE ties == {r \in runs : created[r] = last}
           places == {Position(r) : r \in ties}
<1>5. places \in SUBSET Nat /\ places # {}
      BY PositionFacts
<1>6. PICK first \in places : \A place \in places : first <= place
  <2> HIDE DEF places
  <2> QED BY <1>5, LeastNatural
<1>7. PICK r \in ties : Position(r) = first
      OBVIOUS
<1>8. ASSUME NEW s \in runs \ {r}
      PROVE  created[s] < created[r] \/ (created[s] = created[r] /\ Earlier(r, s))
  <2>1. created[s] <= created[r] /\ created[s] \in Nat /\ created[r] \in Nat
        BY <1>4
  <2>2. CASE created[s] = created[r]
    <3>1. Position(r) <= Position(s)
          BY <1>6, <1>7, <2>2
    <3>2. Position(r) # Position(s) /\ Position(r) \in Nat /\ Position(s) \in Nat
          BY PositionFacts
    <3>3. Position(r) < Position(s)
          BY <3>1, <3>2
    <3> QED BY <2>2, <3>3 DEF Earlier
  <2> QED BY <2>1, <2>2
<1>9. \E q \in runs : \A s \in runs \ {q} :
         created[s] < created[q] \/ (created[s] = created[q] /\ Earlier(q, s))
      BY <1>8
<1> QED BY <1>9 DEF Newest

\* The forecast of a day is one of the runs due by it, and its history are agents due by it.
LEMMA DayFacts ==
    ASSUME created \in [Runs -> Nat], NEW runs \in SUBSET Runs, NEW day
    PROVE  /\ DueBy(runs, day) # {} => Forecast(runs, day) \in DueBy(runs, day)
           /\ History(runs, day) \in Seq(DueBy(runs \cap Agents, day))
           /\ ToSet(History(runs, day)) = DueBy(runs \cap Agents, day)
<1>1. DueBy(runs, day) \in SUBSET Runs /\ DueBy(runs \cap Agents, day) \in SUBSET Runs
      BY DEF DueBy
<1>2. ASSUME DueBy(runs, day) # {} PROVE Forecast(runs, day) \in DueBy(runs, day)
  <2>1. /\ AgentsOr(DueBy(runs, day)) \in SUBSET DueBy(runs, day)
        /\ AgentsOr(DueBy(runs, day)) # {}
        BY <1>2 DEF AgentsOr
  <2>2. Newest(AgentsOr(DueBy(runs, day))) \in AgentsOr(DueBy(runs, day))
        BY <1>1, <2>1, NewestFacts
  <2> QED BY <2>1, <2>2 DEF Forecast
<1>3. /\ InOrder(DueBy(runs \cap Agents, day)) \in Seq(DueBy(runs \cap Agents, day))
      /\ ToSet(InOrder(DueBy(runs \cap Agents, day))) = DueBy(runs \cap Agents, day)
      BY <1>1, InOrderFacts
<1> QED BY <1>2, <1>3 DEF History

\* Ranks tell runs apart: as many ranks as runs.
LEMMA RanksCount ==
    ASSUME created \in [Runs -> Nat], NEW runs \in SUBSET Runs, NEW some \in SUBSET runs
    PROVE  Cardinality({Rank(runs, r) : r \in some}) = Cardinality(some)
<1> DEFINE ranks == {Rank(runs, r) : r \in some}
           f == [r \in some |-> Rank(runs, r)]
<1>1. IsFiniteSet(some)
      BY RankFacts, FS_Subset
<1>2. \A r, s \in some : Rank(runs, r) = Rank(runs, s) => r = s
      BY RankFacts
<1>3. f \in Surjection(some, ranks)
      BY DEF Surjection
<1>4. f \in Injection(some, ranks)
      BY <1>2 DEF Injection, IsInjective
<1> HIDE DEF f, ranks
<1>5. Cardinality(ranks) = Cardinality(some)
      BY <1>1, <1>3, <1>4, FS_Surjection
<1> QED BY <1>5 DEF ranks

\* What stays of the runs in their order are the runs that stay, in their order.
LEMMA KeptInOrder ==
    ASSUME created \in [Runs -> Nat], NEW runs \in SUBSET Runs, NEW some \in SUBSET runs
    PROVE  Kept(InOrder(runs), {i \in DOMAIN InOrder(runs) : InOrder(runs)[i] \in some}) =
               InOrder(some)
<1> DEFINE list == InOrder(runs)
           c == Cardinality(runs)
           kept == {i \in DOMAIN list : list[i] \in some}
           n == Cardinality(some)
<1>1. /\ c \in Nat /\ DOMAIN list = 1..c
      /\ \A k \in 1..c : list[k] \in runs /\ Rank(runs, list[k]) = k
      /\ \A r \in runs : Rank(runs, r) \in 1..c /\ list[Rank(runs, r)] = r
      /\ \A k, l \in 1..c : k < l => Earlier(list[k], list[l])
      /\ list \in Seq(runs)
      BY InOrderFacts
<1>2. /\ n \in Nat /\ DOMAIN InOrder(some) = 1..n
      /\ \A r \in some : Rank(some, r) \in 1..n /\ InOrder(some)[Rank(some, r)] = r
      BY InOrderFacts
<1>3. InOrder(some) = [k \in 1..n |-> InOrder(some)[k]]
  <2>1. InOrder(some) = [k \in 1..n |-> CHOOSE r \in some : Rank(some, r) = k]
        BY DEF InOrder
  <2> HIDE DEF n
  <2> QED BY <2>1
<1> HIDE DEF list, c, n
<1>4. kept = {Rank(runs, r) : r \in some}
      BY <1>1
<1>5. Cardinality(kept) = n
  <2>1. Cardinality({Rank(runs, r) : r \in some}) = Cardinality(some)
        BY RanksCount
  <2> QED BY <1>4, <2>1 DEF n
<1>6. ASSUME NEW r \in some PROVE Place(kept, Rank(runs, r)) = Rank(some, r)
  <2> DEFINE below == {s \in some : s = r \/ Earlier(s, r)}
  <2>1. {j \in kept : j <= Rank(runs, r)} = {Rank(runs, s) : s \in below}
    <3>1. ASSUME NEW s \in some PROVE Rank(runs, s) <= Rank(runs, r) <=> s \in below
      <4>1. Rank(runs, s) \in 1..c /\ Rank(runs, r) \in 1..c
            BY <1>1
      <4>2. s \in Runs /\ r \in Runs /\ s \in runs /\ r \in runs
            OBVIOUS
      <4>3. /\ Earlier(s, r) => Rank(runs, s) < Rank(runs, r)
            /\ Earlier(r, s) => Rank(runs, r) < Rank(runs, s)
            BY <4>2, RankFacts
      <4>4. r = s \/ Earlier(s, r) \/ Earlier(r, s)
            BY <4>2, EarlierOrders
      <4> QED BY <1>1, <4>1, <4>3, <4>4
    <3>2. below \subseteq some
          OBVIOUS
    <3> HIDE DEF below, kept
    <3> QED BY <1>4, <3>1, <3>2
  <2>2. Cardinality({Rank(runs, s) : s \in below}) = Cardinality(below)
    <3>1. below \in SUBSET runs
          OBVIOUS
    <3> HIDE DEF below
    <3> QED BY <3>1, RanksCount
  <2> QED BY <2>1, <2>2 DEF Place, Rank
<1>7. kept \in SUBSET DOMAIN list
      OBVIOUS
<1> HIDE DEF kept
<1>8. /\ DOMAIN Kept(list, kept) = 1..n
      /\ \A k \in 1..n : \E i \in kept : k = Place(kept, i) /\ Kept(list, kept)[k] = list[i]
      BY <1>1, <1>5, <1>7, KeptFacts
<1>9. ASSUME NEW k \in 1..n PROVE Kept(list, kept)[k] = InOrder(some)[k]
  <2>1. PICK i \in kept : k = Place(kept, i) /\ Kept(list, kept)[k] = list[i]
        BY <1>8
  <2>2. PICK r \in some : i = Rank(runs, r)
        BY <1>4
  <2>3. list[i] = r
        BY <1>1, <2>2
  <2>4. k = Rank(some, r)
        BY <1>6, <2>1, <2>2
  <2> QED BY <1>2, <2>1, <2>3, <2>4
<1>10. Kept(list, kept) = [k \in 1..n |-> Kept(list, kept)[k]]
  <2>1. Kept(list, kept) \in Seq(runs)
        BY <1>1, <1>7, KeptFacts
  <2> QED BY <1>8, <2>1
<1>11. Kept(list, kept) = InOrder(some)
      BY <1>3, <1>9, <1>10
<1> QED BY <1>11 DEF list, kept

-----------------------------------------------------------------------------
(* What an export holds and has written.  What it reads was current when it   *)
(* listed; every file in its directory is the one its days and its runs call  *)
(* for, and they are written in turn: the days, their runs, the provenance of *)
(* both and then the manifest.                                                *)

DayWritten(h, f) ==
    /\ f.day \in job[h].days
    /\ DueBy(job[h].complete, f.day) # {}
    /\ f = DayFile(job[h].complete, f.day)

RunWritten(h, f) == f.run \in ToSet(Exported(h)) /\ f = RunFile(f.run)

AllWritten(h) == Valid(job[h].days) /\ DaysLeft(h) = {} /\ RunsLeft(h) = {}

Selected(h) ==
    /\ step[h] = "list" => job[h].complete = {}
    /\ step[h] \in {"read", "metadata", "write", "verify"} =>
          (job[h].toRead \cup job[h].complete) \cap job[h].gone = {}

Written(h) ==
    /\ step[h] = "metadata" => root[h] = {}
    /\ step[h] \in {"write", "verify"} =>
          /\ \A f \in FilesOf("day", root[h]) : DayWritten(h, f)
          /\ \A f \in FilesOf("run", root[h]) : RunWritten(h, f)
    /\ step[h] = "write" =>
          /\ FilesOf("run", root[h]) # {} => Valid(job[h].days) /\ DaysLeft(h) = {}
          /\ \A f \in FilesOf("provenance", root[h]) : AllWritten(h) /\ f = Provenance(root[h])
    /\ step[h] = "verify" =>
          /\ AllWritten(h)
          /\ Provenance(root[h]) \in root[h]
          /\ FilesOf("manifest", root[h]) = {Manifest(h)}

ExportInv == \A h \in Hosts : Selected(h) /\ Written(h)

\* What only depends on the job of a host is the same while the job is.
LEMMA ExportKept ==
    ASSUME created' = created, NEW h, job'[h] = job[h]
    PROVE  /\ Exported(h)' = Exported(h)
           /\ \A f : DayWritten(h, f)' <=> DayWritten(h, f)
           /\ \A f : RunWritten(h, f)' <=> RunWritten(h, f)
<1>1. Exported(h)' = Exported(h)
      BY DEF Exported, LastOf, History, InOrder, Rank, DueBy, DayOf, Earlier
<1>2. \A runs, day : DueBy(runs, day)' = DueBy(runs, day)
      BY DEF DueBy, DayOf
<1>3. \A runs, day : Forecast(runs, day)' = Forecast(runs, day)
      BY DEF Forecast, Newest, AgentsOr, DueBy, DayOf, Earlier
<1>4. \A runs, day : History(runs, day)' = History(runs, day)
      BY DEF History, InOrder, Rank, DueBy, DayOf, Earlier
<1>5. \A runs, day : DayFile(runs, day)' = DayFile(runs, day)
      BY <1>3, <1>4 DEF DayFile
<1>6. \A f : DayWritten(h, f)' <=> DayWritten(h, f)
      BY <1>2, <1>5 DEF DayWritten
<1>7. \A f : RunWritten(h, f)' <=> RunWritten(h, f)
      BY <1>1 DEF RunWritten, RunFile
<1> QED BY <1>1, <1>6, <1>7

\* And what depends on the day files, while they are the same.
LEMMA ManifestKept ==
    ASSUME created' = created, NEW h, job'[h] = job[h],
           FilesOf("day", root'[h]) = FilesOf("day", root[h])
    PROVE  DaysLeft(h)' = DaysLeft(h) /\ Manifest(h)' = Manifest(h)
<1>1. Exported(h)' = Exported(h)
      BY ExportKept
<1>2. DaysLeft(h)' = DaysLeft(h)
      BY DEF DaysLeft
<1>3. Manifest(h)' = Manifest(h)
  <2> DEFINE days == Ascending(job[h].days)
             runs == Exported(h)
             dayFiles == [i \in DOMAIN days |-> CHOOSE f \in FilesOf("day", root[h]) : f.day = days[i]]
             entries == [i \in DOMAIN runs |->
                            [run |-> runs[i], day |-> ArchiveDay(job[h].days, runs[i]),
                             payload |-> RunFile(runs[i])]]
  <2>1. days' = days
        OBVIOUS
  <2>2. dayFiles' = dayFiles
        BY <2>1
  <2>3. \A r : ArchiveDay(job[h].days, r)' = ArchiveDay(job[h].days, r)
        BY DEF ArchiveDay, DayOf
  <2>4. entries' = entries
    <3> HIDE DEF runs
    <3>1. runs' = runs
          BY <1>1 DEF runs
    <3> QED BY <2>3, <3>1
  <2>5. Manifest(h) = [kind |-> "manifest", days |-> dayFiles, runs |-> entries]
        BY Zenon DEF Manifest
  <2>6. Manifest(h)' = [kind |-> "manifest", days |-> dayFiles', runs |-> entries']
        BY Zenon DEF Manifest
  <2> HIDE DEF dayFiles, entries
  <2> QED BY <2>2, <2>4, <2>5, <2>6
<1> QED BY <1>2, <1>3

\* A host whose directory, job and step stay keeps what it has written.
LEMMA ExportStays ==
    ASSUME created' = created, NEW h, Selected(h), Written(h),
           job'[h] = job[h], root'[h] = root[h], step'[h] = step[h]
    PROVE  Selected(h)' /\ Written(h)'
<1>1. Selected(h)'
      BY DEF Selected
<1>2. /\ \A f : DayWritten(h, f)' <=> DayWritten(h, f)
      /\ \A f : RunWritten(h, f)' <=> RunWritten(h, f)
      /\ Exported(h)' = Exported(h)
      BY ExportKept
<1>3. DaysLeft(h)' = DaysLeft(h) /\ Manifest(h)' = Manifest(h)
      BY ManifestKept
<1>4. RunsLeft(h)' = RunsLeft(h)
      BY <1>2 DEF RunsLeft
<1>5. AllWritten(h)' <=> AllWritten(h)
      BY <1>3, <1>4 DEF AllWritten
<1>6. Written(h)'
      BY <1>2, <1>3, <1>5 DEF Written
<1> QED BY <1>1, <1>6

LEMMA InitExport == ArchiveInit => ExportInv
BY DEF ArchiveInit, ExportInv, Selected, Written

\* What an export lists is current, so nothing of it was retired before.
LEMMA SelectedNext ==
    ASSUME ArchiveTyped, NEW h \in Hosts, Selected(h), Command(h)
    PROVE  Selected(h)'
<1>0. job[h] \in Jobs
      BY DEF ArchiveTyped
<1>1. ASSUME UNCHANGED job, step'[h] \notin {"list", "read", "metadata", "write", "verify"}
      PROVE  Selected(h)'
      BY <1>1 DEF Selected
<1>2. ASSUME UNCHANGED job, step[h] \in {"read", "metadata", "write", "verify"},
             step'[h] \in {"read", "metadata", "write", "verify"}
      PROVE  Selected(h)'
      BY <1>2 DEF Selected
<1>3. ASSUME Stop(h) PROVE Selected(h)'
  <2>1. step'[h] = "idle"
        BY <1>3 DEF Stop, ArchiveTyped
  <2> QED BY <2>1 DEF Selected
<1>4. ASSUME NEW next, step' = [step EXCEPT ![h] = next] PROVE step'[h] = next
      BY <1>4 DEF ArchiveTyped
<1>5. CASE Export(h)
  <2>1. PICK new : /\ job' = [job EXCEPT ![h] = new] /\ step' = [step EXCEPT ![h] = "list"]
                   /\ new.complete = {}
    <3>1. \A days, pinned : /\ [NoJob EXCEPT !.days = days, !.pinned = pinned].complete = {}
                            /\ [NoJob EXCEPT !.days = days].complete = {}
      <4>1. ASSUME NEW D, NEW P, NEW R, NEW B,
                   NEW j \in [days : D, pinned : P, toRead : R, complete : R, rejected : B,
                              gone : R, copying : P], NEW a, NEW b
            PROVE  /\ [j EXCEPT !.days = a, !.pinned = b].complete = j.complete
                   /\ [j EXCEPT !.days = a].complete = j.complete
            OBVIOUS
      <4>2. NoJob.complete = {}
            BY DEF NoJob
      <4> QED BY <4>1, <4>2, NoJobType, Zenon DEF Jobs
    <3>2. \/ \E days, pinned : Start(h, "list", [NoJob EXCEPT !.days = days, !.pinned = pinned])
          \/ \E days : Start(h, "list", [NoJob EXCEPT !.days = days])
          BY <1>5, Zenon DEF Export
    <3>3. \E new : Start(h, "list", new) /\ new.complete = {}
      <4>1. ASSUME NEW days, NEW pinned, Start(h, "list", [NoJob EXCEPT !.days = days, !.pinned = pinned])
            PROVE  \E new : Start(h, "list", new) /\ new.complete = {}
            BY <3>1, <4>1, Zenon
      <4>2. ASSUME NEW days, Start(h, "list", [NoJob EXCEPT !.days = days])
            PROVE  \E new : Start(h, "list", new) /\ new.complete = {}
            BY <3>1, <4>2, Zenon
      <4> QED BY <3>2, <4>1, <4>2
    <3> QED BY <3>3 DEF Start
  <2>2. job'[h].complete = {} /\ step'[h] = "list"
        BY <2>1 DEF ArchiveTyped
  <2> QED BY <2>2 DEF Selected
<1>6. CASE List(h)
  <2>1. step[h] = "list" /\ step'[h] = "read"
        BY <1>6 DEF List, ArchiveTyped
  <2> DEFINE pinned == job[h].pinned \cup Current
             toRead == {r \in Runs : snapshot[r] = "current"}
             gone == {r \in Runs : snapshot[r] = "retired"}
  <2>2. job' = [job EXCEPT ![h] = [job[h] EXCEPT !.pinned = pinned, !.toRead = toRead, !.gone = gone]]
        BY <1>6 DEF List
  <2>3. toRead \cap gone = {}
        OBVIOUS
  <2> HIDE DEF pinned, toRead, gone
  <2>4. job'[h] = [job[h] EXCEPT !.pinned = pinned, !.toRead = toRead, !.gone = gone]
        BY <2>2 DEF ArchiveTyped
  <2>5. job'[h].toRead = toRead /\ job'[h].gone = gone /\ job'[h].complete = job[h].complete
        BY <1>0, <2>4 DEF Jobs
  <2>6. job[h].complete = {}
        BY <2>1 DEF Selected
  <2> QED BY <2>1, <2>3, <2>5, <2>6 DEF Selected
<1>7. ASSUME NEW r \in Runs, ReadRun(h, r) PROVE Selected(h)'
  <2>1. step[h] = "read" /\ UNCHANGED step /\ r \in job[h].toRead
        BY <1>7 DEF ReadRun
  <2> DEFINE found == <<r, "sidecars">> \in job[h].pinned \cup Current
             toRead == job[h].toRead \ {r}
             complete == IF found THEN job[h].complete \cup {r} ELSE job[h].complete
             rejected == job[h].rejected \/ ~found
  <2>2. job' = [job EXCEPT ![h] = [job[h] EXCEPT !.toRead = toRead, !.complete = complete,
                                                !.rejected = rejected]]
        BY <1>7, Zenon DEF ReadRun
  <2>3. toRead \cup complete \subseteq job[h].toRead \cup job[h].complete
        BY <2>1
  <2> HIDE DEF found, toRead, complete, rejected
  <2>4. job'[h] = [job[h] EXCEPT !.toRead = toRead, !.complete = complete, !.rejected = rejected]
        BY <2>2, Zenon DEF ArchiveTyped
  <2>5. job'[h].toRead = toRead /\ job'[h].gone = job[h].gone /\ job'[h].complete = complete
    <3>1. ASSUME NEW D, NEW P, NEW R, NEW B,
                 NEW j \in [days : D, pinned : P, toRead : R, complete : R, rejected : B, gone : R,
                            copying : P], NEW a, NEW b, NEW c
          PROVE  LET k == [j EXCEPT !.toRead = a, !.complete = b, !.rejected = c]
                 IN  k.toRead = a /\ k.complete = b /\ k.gone = j.gone
          OBVIOUS
    <3> QED BY <1>0, <2>4, <3>1, Zenon DEF Jobs
  <2> QED BY <2>1, <2>3, <2>5 DEF Selected
<1>8. CASE MakeRoot(h)
  <2>1. Stop(h) \/ (step[h] = "read" /\ step' = [step EXCEPT ![h] = "metadata"] /\ UNCHANGED job)
        BY <1>8, Zenon DEF MakeRoot
  <2> QED BY <1>2, <1>3, <1>4, <2>1
<1>9. CASE LoadMetadata(h)
      BY <1>2, <1>4, <1>9 DEF LoadMetadata
<1>10. CASE WriteDay(h) \/ WriteRun(h) \/ WriteManifest(h)
  <2>1. Stop(h) \/ UNCHANGED job
        BY <1>10 DEF WriteDay, WriteRun, WriteManifest
  <2>2. step[h] = "write" /\ step'[h] \in {"idle", "write", "verify"}
        BY <1>10, Writes
  <2> QED BY <1>1, <1>2, <1>3, <2>1, <2>2
<1>11. CASE Verify(h) \/ Ends(h) \/ WriteInventory(h)
      BY <1>3, <1>11 DEF Verify, Ends, WriteInventory
<1>12. CASE Publish(h)
      BY <1>1, <1>4, <1>12 DEF Publish
<1>13. CASE Upload(h) \/ Copy(h) \/ ClearRoot(h)
  <2>1. UNCHANGED <<job, step>>
        BY <1>13 DEF Upload, Copy, ClearRoot
  <2> QED BY <2>1 DEF Selected
<1>14. CASE Preserve(h)
  <2>1. step'[h] = "copy"
        BY <1>4, <1>14, Zenon DEF Preserve, Start
  <2> QED BY <2>1 DEF Selected
<1> QED BY <1>5, <1>6, <1>7, <1>8, <1>9, <1>10, <1>11, <1>12, <1>13, <1>14, Zenon DEF Command

\* The day that is written is one of those left, and the first of them.
LEMMA WriteDayWritten ==
    ASSUME ArchiveTyped, NEW h \in Hosts, Written(h), WriteDay(h)
    PROVE  Written(h)'
<1>1. CASE RemoveRoot(h) /\ Stop(h)
  <2>1. step'[h] = "idle"
        BY <1>1 DEF Stop, ArchiveTyped
  <2> QED BY <2>1 DEF Written
<1> DEFINE day == CHOOSE d \in DaysLeft(h) : \A e \in DaysLeft(h) : d <= e
           file == DayFile(job[h].complete, day)
<1>2. CASE /\ Valid(job[h].days) /\ DueBy(job[h].complete, day) # {}
           /\ WriteFile(h, file) /\ UNCHANGED <<step, job>>
  <2>1. step[h] = "write" /\ step'[h] = "write" /\ job'[h] = job[h] /\ created' = created
        BY <1>2 DEF WriteDay, bucket
  <2>2. DaysLeft(h) # {} /\ DaysLeft(h) \in SUBSET Nat
    <3>1. job[h] \in Jobs
          BY DEF ArchiveTyped
    <3> QED BY <1>2, <3>1 DEF WriteDay, DaysLeft, Jobs
  <2>3. day \in DaysLeft(h)
    <3>1. \E d \in DaysLeft(h) : \A e \in DaysLeft(h) : d <= e
          BY <2>2, LeastNatural
    <3> QED BY <3>1
  <2>4. day \in job[h].days
        BY <2>3 DEF DaysLeft
  <2>5. root'[h] = root[h] \cup {file}
        BY <1>2 DEF WriteFile, ArchiveTyped
  <2>6. file.kind = "day" /\ file.day = day
    <3>1. \A runs, d : DayFile(runs, d).kind = "day" /\ DayFile(runs, d).day = d
          BY DEF DayFile
    <3> QED BY <3>1
  <2>7. DueBy(job[h].complete, day) # {}
        BY <1>2
  <2>8. DayWritten(h, file)
        BY <2>4, <2>6, <2>7 DEF DayWritten
  <2> HIDE DEF day, file
  <2>9. FilesOf("run", root[h]) = {} /\ FilesOf("provenance", root[h]) = {}
        BY <2>1, <2>2 DEF Written, AllWritten
  <2>10. /\ FilesOf("day", root'[h]) = FilesOf("day", root[h]) \cup {file}
         /\ FilesOf("run", root'[h]) = {} /\ FilesOf("provenance", root'[h]) = {}
         BY <2>5, <2>6, <2>9 DEF FilesOf
  <2>11. \A f \in FilesOf("day", root'[h]) : DayWritten(h, f)'
    <3>1. \A f : DayWritten(h, f)' <=> DayWritten(h, f)
          BY <2>1, ExportKept
    <3> QED BY <2>1, <2>8, <2>10, <3>1 DEF Written
  <2> QED BY <2>1, <2>10, <2>11 DEF Written
<1> HIDE DEF day, file
<1> QED BY <1>1, <1>2, Zenon DEF WriteDay, day, file

LEMMA ExportedFacts ==
    ASSUME ArchiveTyped, NEW h \in Hosts
    PROVE  /\ job[h].complete \in SUBSET Runs
           /\ ToSet(Exported(h)) = DueBy(job[h].complete \cap Agents, LastOf(job[h].days))
           /\ ToSet(Exported(h)) \in SUBSET job[h].complete
<1>1. job[h].complete \in SUBSET Runs
      BY DEF ArchiveTyped, Jobs
<1>2. ToSet(Exported(h)) = DueBy(job[h].complete \cap Agents, LastOf(job[h].days))
      BY <1>1, DayFacts DEF Exported, ArchiveTyped
<1> QED BY <1>1, <1>2 DEF DueBy

\* The run that is written is one of those left.
LEMMA WriteRunWritten ==
    ASSUME ArchiveTyped, NEW h \in Hosts, Written(h), WriteRun(h)
    PROVE  Written(h)'
<1> DEFINE r == InOrder(RunsLeft(h))[1]
           file == RunFile(r)
<1>1. /\ step[h] = "write" /\ step'[h] = "write" /\ job'[h] = job[h] /\ created' = created
      /\ Valid(job[h].days) /\ DaysLeft(h) = {} /\ RunsLeft(h) # {}
      BY DEF WriteRun, bucket
<1>2. RunsLeft(h) \in SUBSET Runs /\ RunsLeft(h) \subseteq ToSet(Exported(h))
      BY ExportedFacts DEF RunsLeft
<1>3. r \in RunsLeft(h)
  <2>1. /\ Cardinality(RunsLeft(h)) \in Nat
        /\ \A k \in 1..Cardinality(RunsLeft(h)) : InOrder(RunsLeft(h))[k] \in RunsLeft(h)
        /\ \A q \in RunsLeft(h) : Rank(RunsLeft(h), q) \in 1..Cardinality(RunsLeft(h))
        BY <1>2, InOrderFacts DEF ArchiveTyped
  <2>2. PICK q \in RunsLeft(h) : TRUE
        BY <1>1
  <2>3. 1 \in 1..Cardinality(RunsLeft(h))
        BY <2>1, <2>2
  <2> QED BY <2>1, <2>3
<1>4. root'[h] = root[h] \cup {file}
      BY DEF WriteRun, WriteFile, ArchiveTyped
<1>5. file.kind = "run" /\ file.run = r
      BY DEF RunFile
<1>6. RunWritten(h, file)
      BY <1>2, <1>3, <1>5 DEF RunWritten
<1> HIDE DEF r, file
<1>7. FilesOf("provenance", root[h]) = {}
      BY <1>1 DEF Written, AllWritten
<1>8. /\ FilesOf("day", root'[h]) = FilesOf("day", root[h])
      /\ FilesOf("run", root'[h]) = FilesOf("run", root[h]) \cup {file}
      /\ FilesOf("provenance", root'[h]) = {}
      BY <1>4, <1>5, <1>7 DEF FilesOf
<1>9. /\ \A f : DayWritten(h, f)' <=> DayWritten(h, f)
      /\ \A f : RunWritten(h, f)' <=> RunWritten(h, f)
      BY <1>1, ExportKept
<1>10. DaysLeft(h)' = {}
      BY <1>1, <1>8, ManifestKept
<1>11. Valid(job'[h].days)
      BY <1>1
<1>12. \A f \in FilesOf("day", root'[h]) : DayWritten(h, f)'
      BY <1>1, <1>8, <1>9 DEF Written
<1>13. \A f \in FilesOf("run", root'[h]) : RunWritten(h, f)'
      BY <1>1, <1>6, <1>8, <1>9 DEF Written
<1> QED BY <1>1, <1>8, <1>10, <1>11, <1>12, <1>13 DEF Written

\* The provenance and the manifest come when everything else is there.
LEMMA WriteManifestWritten ==
    ASSUME ArchiveTyped, NEW h \in Hosts, OneManifest(h), Written(h), WriteManifest(h)
    PROVE  Written(h)'
<1>1. /\ step[h] = "write" /\ job'[h] = job[h] /\ created' = created /\ AllWritten(h)
      BY DEF WriteManifest, AllWritten, bucket
<1>2. /\ \A f : DayWritten(h, f)' <=> DayWritten(h, f)
      /\ \A f : RunWritten(h, f)' <=> RunWritten(h, f)
      /\ Exported(h)' = Exported(h)
      BY <1>1, ExportKept
<1>3. ASSUME NEW file, root'[h] = root[h] \cup {file}, file.kind \notin {"day", "run"}
      PROVE  /\ FilesOf("day", root'[h]) = FilesOf("day", root[h])
             /\ FilesOf("run", root'[h]) = FilesOf("run", root[h])
             /\ AllWritten(h)' /\ Manifest(h)' = Manifest(h)
             /\ Provenance(root'[h]) = Provenance(root[h])
             /\ \A f \in FilesOf("day", root'[h]) : DayWritten(h, f)'
             /\ \A f \in FilesOf("run", root'[h]) : RunWritten(h, f)'
  <2>1. /\ FilesOf("day", root'[h]) = FilesOf("day", root[h])
        /\ FilesOf("run", root'[h]) = FilesOf("run", root[h])
        BY <1>3 DEF FilesOf
  <2>2. DaysLeft(h)' = DaysLeft(h) /\ Manifest(h)' = Manifest(h)
        BY <1>1, <2>1, ManifestKept
  <2>3. RunsLeft(h)' = RunsLeft(h)
        BY <1>2, <2>1 DEF RunsLeft
  <2>4. AllWritten(h)'
        BY <1>1, <2>2, <2>3 DEF AllWritten
  <2>5. Provenance(root'[h]) = Provenance(root[h])
        BY <2>1 DEF Provenance
  <2>6. \A f \in FilesOf("day", root'[h]) : DayWritten(h, f)'
        BY <1>1, <1>2, <2>1 DEF Written
  <2>7. \A f \in FilesOf("run", root'[h]) : RunWritten(h, f)'
        BY <1>1, <1>2, <2>1 DEF Written
  <2> QED BY <2>1, <2>2, <2>4, <2>5, <2>6, <2>7
<1>4. CASE /\ FilesOf("provenance", root[h]) = {}
           /\ WriteFile(h, Provenance(root[h])) /\ UNCHANGED step
  <2> DEFINE file == Provenance(root[h])
  <2>1. root'[h] = root[h] \cup {file} /\ step'[h] = "write"
        BY <1>1, <1>4 DEF WriteFile, ArchiveTyped
  <2>2. file.kind = "provenance"
        BY FileKinds
  <2> HIDE DEF file
  <2>3. FilesOf("provenance", root'[h]) = {file}
        BY <1>4, <2>1, <2>2 DEF FilesOf
  <2>4. /\ AllWritten(h)' /\ Provenance(root'[h]) = Provenance(root[h])
        /\ \A f \in FilesOf("day", root'[h]) : DayWritten(h, f)'
        /\ \A f \in FilesOf("run", root'[h]) : RunWritten(h, f)'
        BY <1>3, <2>1, <2>2
  <2>5. file = Provenance(root'[h])
        BY <2>4 DEF file
  <2>6. Valid(job'[h].days) /\ DaysLeft(h)' = {}
        BY <2>4 DEF AllWritten
  <2> QED BY <2>1, <2>3, <2>4, <2>5, <2>6 DEF Written
<1>5. CASE /\ FilesOf("provenance", root[h]) # {}
           /\ WriteFile(h, Manifest(h)) /\ step' = [step EXCEPT ![h] = "verify"]
  <2> DEFINE file == Manifest(h)
  <2>1. root'[h] = root[h] \cup {file} /\ step'[h] = "verify"
        BY <1>5 DEF WriteFile, ArchiveTyped
  <2>2. file.kind = "manifest"
        BY FileKinds
  <2>3. Provenance(root[h]) \in root[h]
    <3>1. PICK f \in FilesOf("provenance", root[h]) : TRUE
          BY <1>5
    <3>2. f \in root[h] /\ f = Provenance(root[h])
          BY <1>1, <3>1 DEF Written, FilesOf
    <3> QED BY <3>2
  <2>4. FilesOf("manifest", root[h]) = {}
        BY <1>1 DEF OneManifest
  <2> HIDE DEF file
  <2>5. FilesOf("manifest", root'[h]) = {file}
        BY <2>1, <2>2, <2>4 DEF FilesOf
  <2>6. /\ AllWritten(h)' /\ Provenance(root'[h]) = Provenance(root[h]) /\ Manifest(h)' = Manifest(h)
        /\ \A f \in FilesOf("day", root'[h]) : DayWritten(h, f)'
        /\ \A f \in FilesOf("run", root'[h]) : RunWritten(h, f)'
        BY <1>3, <2>1, <2>2
  <2>7. Provenance(root'[h]) \in root'[h]
        BY <2>1, <2>3, <2>6
  <2>8. FilesOf("manifest", root'[h]) = {Manifest(h)'}
        BY <2>5, <2>6 DEF file
  <2> QED BY <2>1, <2>6, <2>7, <2>8 DEF Written
<1> QED BY <1>4, <1>5, Zenon DEF WriteManifest

LEMMA WrittenNext ==
    ASSUME ArchiveTyped, NEW h \in Hosts, OneManifest(h), Written(h), Command(h)
    PROVE  Written(h)'
<1>1. ASSUME step'[h] \in {"idle", "list", "read", "upload", "copy"} PROVE Written(h)'
      BY <1>1 DEF Written
<1>2. ASSUME Stop(h) PROVE step'[h] = "idle"
      BY <1>2 DEF Stop, ArchiveTyped
<1>3. ASSUME NEW next, step' = [step EXCEPT ![h] = next] PROVE step'[h] = next
      BY <1>3 DEF ArchiveTyped
<1>4. CASE Export(h) \/ Preserve(h)
  <2>1. step' = [step EXCEPT ![h] = "list"] \/ step' = [step EXCEPT ![h] = "copy"]
        BY <1>4, Zenon DEF Export, Preserve, Start
  <2> QED BY <1>1, <1>3, <2>1
<1>5. CASE List(h)
      BY <1>1, <1>3, <1>5 DEF List
<1>6. CASE \E r \in Runs : ReadRun(h, r)
  <2>1. step'[h] = "read"
        BY <1>6, Zenon DEF ReadRun
  <2> QED BY <1>1, <2>1
<1>7. CASE MakeRoot(h)
  <2>1. CASE Stop(h)
        BY <1>1, <1>2, <2>1
  <2>2. CASE ~exists[h] /\ step' = [step EXCEPT ![h] = "metadata"]
    <3>1. step'[h] = "metadata" /\ root'[h] = {}
          BY <1>3, <1>7, <2>2 DEF MakeRoot, OneManifest
    <3> QED BY <3>1 DEF Written
  <2> QED BY <1>7, <2>1, <2>2, Zenon DEF MakeRoot
<1>8. CASE LoadMetadata(h)
  <2>1. step'[h] = "write" /\ root'[h] = {}
        BY <1>3, <1>8 DEF LoadMetadata, Written, output
  <2>2. \A kind : FilesOf(kind, root'[h]) = {}
        BY <2>1 DEF FilesOf
  <2> QED BY <2>1, <2>2 DEF Written
<1>9. CASE WriteDay(h)
      BY <1>9, WriteDayWritten
<1>10. CASE WriteRun(h)
      BY <1>10, WriteRunWritten
<1>11. CASE WriteManifest(h)
      BY <1>11, WriteManifestWritten
<1>12. CASE Verify(h) \/ Ends(h) \/ WriteInventory(h)
      BY <1>1, <1>2, <1>12 DEF Verify, Ends, WriteInventory
<1>13. CASE Publish(h)
      BY <1>1, <1>3, <1>13 DEF Publish
<1>14. CASE Upload(h) \/ Copy(h) \/ ClearRoot(h)
  <2>1. step'[h] \in {"upload", "copy", "idle"}
        BY <1>14 DEF Upload, Copy, ClearRoot
  <2> QED BY <1>1, <2>1
<1> QED BY <1>4, <1>5, <1>6, <1>7, <1>8, <1>9, <1>10, <1>11, <1>12, <1>13, <1>14, Zenon DEF Command

LEMMA ExportNext == ArchiveTyped /\ DurableInv /\ ExportInv /\ [ArchiveNext]_vars => ExportInv'
<1> SUFFICES ASSUME ArchiveTyped, DurableInv, ExportInv, [ArchiveNext]_vars, NEW g \in Hosts
             PROVE  Selected(g)' /\ Written(g)'
    BY DEF ExportInv
<1>0. Selected(g) /\ Written(g) /\ OneManifest(g)
      BY DEF ExportInv, DurableInv
<1>1. ASSUME UNCHANGED <<created, step, job, root>> PROVE Selected(g)' /\ Written(g)'
      BY <1>0, <1>1, ExportStays
<1>2. ASSUME NEW r \in Runs, PutSnapshot(r) \/ PutSidecars(r) \/ Retire(r)
      PROVE  Selected(g)' /\ Written(g)'
      BY <1>1, <1>2 DEF PutSnapshot, PutSidecars, Retire, output
<1>3. CASE UNCHANGED vars
      BY <1>1, <1>3 DEF vars, output, bucket
<1>4. ASSUME NEW h \in Hosts, Command(h) PROVE Selected(g)' /\ Written(g)'
  <2>1. CASE g = h
        BY <1>0, <1>4, <2>1, SelectedNext, WrittenNext
  <2>2. CASE g # h
    <3>1. step'[g] = step[g] /\ root'[g] = root[g] /\ job'[g] = job[g]
          BY <1>4, <2>2, OthersKept
    <3>2. created' = created
          BY <1>4, Zenon DEF Command, Export, List, MakeRoot, LoadMetadata, ReadRun, WriteDay,
             WriteRun, WriteManifest, Verify, Publish, Upload, Preserve, Copy, WriteInventory, Ends,
             ClearRoot, bucket
    <3> QED BY <1>0, <3>1, <3>2, ExportStays
  <2> QED BY <2>1, <2>2
<1> QED BY <1>2, <1>3, <1>4 DEF ArchiveNext

\* A forecast retired before an export listed the bucket is nowhere in what it writes: the days
\* and runs it writes are selected among those it read, which were current when it listed.
THEOREM RetiredIsNotExported == Spec => []NoRetiredForecast
<1>1. ArchiveTyped /\ ExportInv => NoRetiredForecast
  <2> SUFFICES ASSUME ArchiveTyped, ExportInv, NEW h \in Hosts, step[h] \in {"write", "verify"}
               PROVE  /\ \A file \in FilesOf("day", root[h]) :
                            ToSet(Append(file.history, file.forecast)) \cap job[h].gone = {}
                      /\ \A file \in FilesOf("run", root[h]) : file.run \notin job[h].gone
      BY DEF NoRetiredForecast
  <2>1. Selected(h) /\ Written(h)
        BY DEF ExportInv
  <2>2. job[h].complete \cap job[h].gone = {} /\ job[h].complete \in SUBSET Runs
        BY <2>1, ExportedFacts DEF Selected
  <2>3. ASSUME NEW file \in FilesOf("day", root[h])
        PROVE  ToSet(Append(file.history, file.forecast)) \cap job[h].gone = {}
    <3> DEFINE runs == job[h].complete
               day == file.day
    <3>1. DueBy(runs, day) # {} /\ file = DayFile(runs, day)
          BY <2>1 DEF Written, DayWritten
    <3>2. /\ Forecast(runs, day) \in DueBy(runs, day)
          /\ History(runs, day) \in Seq(DueBy(runs \cap Agents, day))
          BY <2>2, <3>1, DayFacts DEF ArchiveTyped
    <3>3. file.forecast = Forecast(runs, day) /\ file.history = History(runs, day)
      <4>1. \A R, d : /\ DayFile(R, d).forecast = Forecast(R, d)
                      /\ DayFile(R, d).history = History(R, d)
            BY DEF DayFile
      <4> QED BY <3>1, <4>1
    <3> HIDE DEF runs, day
    <3>4. file.forecast \in runs /\ file.history \in Seq(runs)
      <4>1. DueBy(runs, day) \subseteq runs /\ DueBy(runs \cap Agents, day) \subseteq runs
            BY DEF DueBy
      <4>2. ASSUME NEW S, NEW T, S \subseteq T, NEW q \in Seq(S) PROVE q \in Seq(T)
        <5>1. Len(q) \in Nat /\ q \in [1..Len(q) -> T]
              BY <4>2
        <5> QED BY <5>1
      <4>3. file.history \in Seq(DueBy(runs \cap Agents, day))
            BY <3>2, <3>3
      <4> QED BY <3>2, <3>3, <4>1, <4>2, <4>3
    <3>5. Append(file.history, file.forecast) \in Seq(runs)
          BY <3>4
    <3>6. ToSet(Append(file.history, file.forecast)) \subseteq runs
          BY <3>5 DEF ToSet
    <3> QED BY <2>2, <3>6 DEF runs
  <2>4. ASSUME NEW file \in FilesOf("run", root[h]) PROVE file.run \notin job[h].gone
    <3>1. file.run \in ToSet(Exported(h))
          BY <2>1 DEF Written, RunWritten
    <3> QED BY <2>2, <3>1, ExportedFacts
  <2> QED BY <2>3, <2>4
<1> QED BY <1>1, InitTyped, TypedNext, InitDurable, DurableNext, InitExport, ExportNext, PTL DEF Spec

-----------------------------------------------------------------------------
(* An export agrees with its verification.                                   *)

\* The days of an export that has written them all, in their order.
LEMMA DaysFacts ==
    ASSUME ArchiveTyped, NEW h \in Hosts, Valid(job[h].days)
    PROVE  LET days == job[h].days
               asc == Ascending(days)
           IN  /\ days \in SUBSET Nat /\ days # {} /\ IsFiniteSet(days)
               /\ DOMAIN asc # {} /\ DOMAIN asc \in SUBSET Nat
               /\ \A i \in DOMAIN asc : asc[i] \in days
               /\ \A d \in days : \E i \in DOMAIN asc : asc[i] = d
               /\ \A i, j \in DOMAIN asc : i < j => asc[i] < asc[j]
               /\ LastOf(days) \in days /\ \A d \in days : d <= LastOf(days)
<1> DEFINE days == job[h].days
           asc == Ascending(days)
           c == Cardinality(days)
<1>1. days \in SUBSET Nat /\ days # {}
      BY DEF ArchiveTyped, Jobs, Valid
<1>2. FinalDay \in Nat /\ days \subseteq 0..FinalDay
  <2>1. FinalDay \in Nat
        BY ArchiveAssumption
  <2>2. \A d \in days : d \in Nat /\ d <= FinalDay
        BY <1>1 DEF Valid
  <2> QED BY <2>1, <2>2
<1>3. IsFiniteSet(days)
  <2> HIDE DEF days
  <2> QED BY <1>2, NumbersFinite
<1> HIDE DEF days
<1>4. /\ c \in Nat /\ DOMAIN asc = 1..c
      /\ \A k \in 1..c : asc[k] \in days
      /\ \A d \in days : Place(days, d) \in 1..c /\ asc[Place(days, d)] = d
      /\ \A k, l \in 1..c : k < l => asc[k] < asc[l]
      BY <1>1, <1>3, AscendingFacts
<1> HIDE DEF asc, c
<1>5. DOMAIN asc # {}
      BY <1>1, <1>4
<1>6. LastOf(days) \in days /\ \A d \in days : d <= LastOf(days)
  <2>1. \E x \in days : \A y \in days : y <= x
        BY <1>1, <1>3, LargestNumber
  <2> QED BY <2>1 DEF LastOf
<1>7. DOMAIN asc \in SUBSET Nat
      BY <1>4
<1> QED BY <1>1, <1>3, <1>4, <1>5, <1>6, <1>7 DEF days, asc

\* A run is archived on the first of the days it is due by.
LEMMA ArchiveDayFacts ==
    ASSUME created \in [Runs -> Nat], NEW days \in SUBSET Nat, NEW r \in Runs,
           NEW d \in days, DayOf(r) <= d
    PROVE  /\ ArchiveDay(days, r) \in days /\ DayOf(r) <= ArchiveDay(days, r)
           /\ \A e \in days : DayOf(r) <= e => ArchiveDay(days, r) <= e
<1> DEFINE due == {e \in days : DayOf(r) <= e}
<1>1. due \in SUBSET Nat /\ due # {}
      OBVIOUS
<1>2. \E x \in due : \A y \in due : x <= y
  <2> HIDE DEF due
  <2> QED BY <1>1, LeastNatural
<1>3. \E x \in days : DayOf(r) <= x /\ \A e \in days : DayOf(r) <= e => x <= e
      BY <1>2
<1> QED BY <1>3 DEF ArchiveDay

\* The manifest names the file of every day and, of every run, its number, day and file.
LEMMA ManifestFacts ==
    ASSUME ArchiveTyped, NEW h \in Hosts, Written(h), step[h] = "verify"
    PROVE  LET days == Ascending(job[h].days)
               runs == Exported(h)
               m == Manifest(h)
           IN  /\ DOMAIN m.days = DOMAIN days /\ DOMAIN m.runs = DOMAIN runs
               /\ \A i \in DOMAIN days :
                     /\ m.days[i] \in FilesOf("day", root[h])
                     /\ m.days[i].day = days[i]
                     /\ m.days[i] = DayFile(job[h].complete, days[i])
               /\ \A i \in DOMAIN runs :
                     /\ m.runs[i].run = runs[i]
                     /\ m.runs[i].day = ArchiveDay(job[h].days, runs[i])
                     /\ m.runs[i].payload = RunFile(runs[i])
               /\ m.days # <<>>
<1> DEFINE days == Ascending(job[h].days)
           runs == Exported(h)
           m == Manifest(h)
           dayFiles == [i \in DOMAIN days |-> CHOOSE f \in FilesOf("day", root[h]) : f.day = days[i]]
           entries == [i \in DOMAIN runs |->
                          [run |-> runs[i], day |-> ArchiveDay(job[h].days, runs[i]),
                           payload |-> RunFile(runs[i])]]
<1>1. AllWritten(h)
      BY DEF Written
<1>2. DOMAIN days # {} /\ \A i \in DOMAIN days : days[i] \in job[h].days
      BY <1>1, DaysFacts DEF AllWritten
<1>3. m = [kind |-> "manifest", days |-> dayFiles, runs |-> entries]
      BY Zenon DEF Manifest
<1>4. m.days = dayFiles /\ m.runs = entries
  <2> HIDE DEF m, dayFiles, entries
  <2> QED BY <1>3
<1>5. ASSUME NEW i \in DOMAIN days
      PROVE  /\ dayFiles[i] \in FilesOf("day", root[h])
             /\ dayFiles[i].day = days[i]
             /\ dayFiles[i] = DayFile(job[h].complete, days[i])
  <2>1. days[i] \in job[h].days
        BY <1>2
  <2> HIDE DEF days
  <2>2. \E f \in FilesOf("day", root[h]) : f.day = days[i]
        BY <1>1, <2>1 DEF AllWritten, DaysLeft
  <2>3. dayFiles[i] = CHOOSE f \in FilesOf("day", root[h]) : f.day = days[i]
        OBVIOUS
  <2> HIDE DEF dayFiles
  <2>4. dayFiles[i] \in FilesOf("day", root[h]) /\ dayFiles[i].day = days[i]
        BY <2>2, <2>3
  <2>5. DayWritten(h, dayFiles[i])
        BY <2>4 DEF Written
  <2>6. dayFiles[i] = DayFile(job[h].complete, days[i])
        BY <2>4, <2>5 DEF DayWritten
  <2> QED BY <2>4, <2>6
<1>6. \A i \in DOMAIN runs : /\ entries[i].run = runs[i]
                             /\ entries[i].day = ArchiveDay(job[h].days, runs[i])
                             /\ entries[i].payload = RunFile(runs[i])
  <2> HIDE DEF runs
  <2> QED OBVIOUS
<1>7. DOMAIN dayFiles = DOMAIN days /\ DOMAIN entries = DOMAIN runs
      OBVIOUS
<1>8. m.days # <<>>
  <2>1. DOMAIN <<>> = {}
        OBVIOUS
  <2> HIDE DEF dayFiles, days, m
  <2> QED BY <1>2, <1>4, <1>7, <2>1
<1> HIDE DEF dayFiles, entries
<1> QED BY <1>4, <1>5, <1>6, <1>7, <1>8

\* What it names is what the provenance covers.
LEMMA PayloadsFacts ==
    ASSUME ArchiveTyped, NEW h \in Hosts, Written(h), step[h] = "verify"
    PROVE  Payloads(Manifest(h)) = FilesOf("day", root[h]) \cup FilesOf("run", root[h])
<1> DEFINE days == Ascending(job[h].days)
           runs == Exported(h)
           m == Manifest(h)
<1>1. AllWritten(h)
      BY DEF Written
<1>2. /\ DOMAIN m.days = DOMAIN days /\ DOMAIN m.runs = DOMAIN runs
      /\ \A i \in DOMAIN days :
            /\ m.days[i] \in FilesOf("day", root[h])
            /\ m.days[i].day = days[i]
            /\ m.days[i] = DayFile(job[h].complete, days[i])
      /\ \A i \in DOMAIN runs : m.runs[i].payload = RunFile(runs[i])
      BY ManifestFacts
<1>3. \A d \in job[h].days : \E i \in DOMAIN days : days[i] = d
      BY <1>1, DaysFacts DEF AllWritten
<1>4. Payloads(m) = {m.days[i] : i \in DOMAIN days} \cup {RunFile(runs[i]) : i \in DOMAIN runs}
      BY <1>2 DEF Payloads, ToSet
<1>5. {m.days[i] : i \in DOMAIN days} = FilesOf("day", root[h])
  <2>1. ASSUME NEW f \in FilesOf("day", root[h]) PROVE \E i \in DOMAIN days : f = m.days[i]
    <3>1. f.day \in job[h].days /\ f = DayFile(job[h].complete, f.day)
          BY DEF Written, DayWritten
    <3>2. PICK i \in DOMAIN days : days[i] = f.day
          BY <1>3, <3>1
    <3> HIDE DEF days, m
    <3> QED BY <1>2, <3>1, <3>2
  <2> HIDE DEF days, m
  <2> QED BY <1>2, <2>1
<1>6. {RunFile(runs[i]) : i \in DOMAIN runs} = FilesOf("run", root[h])
  <2>1. ToSet(runs) = {runs[i] : i \in DOMAIN runs}
        BY DEF ToSet
  <2>2. ASSUME NEW f \in FilesOf("run", root[h]) PROVE \E i \in DOMAIN runs : f = RunFile(runs[i])
    <3>1. f.run \in ToSet(runs) /\ f = RunFile(f.run)
          BY DEF Written, RunWritten
    <3> QED BY <2>1, <3>1
  <2>3. ASSUME NEW i \in DOMAIN runs PROVE RunFile(runs[i]) \in FilesOf("run", root[h])
    <3>1. runs[i] \in ToSet(runs)
          BY <2>1
    <3>2. PICK f \in FilesOf("run", root[h]) : f.run = runs[i]
          BY <1>1, <3>1 DEF AllWritten, RunsLeft
    <3>3. f = RunFile(f.run)
          BY <3>2 DEF Written, RunWritten
    <3> QED BY <3>2, <3>3
  <2> HIDE DEF runs
  <2> QED BY <2>2, <2>3
<1> QED BY <1>4, <1>5, <1>6

\* The history of a day is what stays of the runs of the last one.
LEMMA HistoryKept ==
    ASSUME created \in [Runs -> Nat], NEW runs \in SUBSET Runs, NEW last \in Nat, NEW day \in Nat,
           day <= last, NEW list, list = History(runs, last)
    PROVE  History(runs, day) = Kept(list, {i \in DOMAIN list : DayOf(list[i]) <= day})
<1> DEFINE all == DueBy(runs \cap Agents, last)
           some == DueBy(runs \cap Agents, day)
<1>0. \A r \in Runs : DayOf(r) \in Nat
  <2>1. Instants \in Nat \ {0}
        BY ArchiveAssumption
  <2> QED BY <2>1 DEF DayOf
<1>1. all \in SUBSET Runs /\ some \in SUBSET all
      BY <1>0 DEF DueBy
<1>2. list = InOrder(all) /\ History(runs, day) = InOrder(some)
      BY DEF History
<1>3. \A r \in all : DayOf(r) <= day <=> r \in some
      BY DEF DueBy
<1> HIDE DEF all, some
<1>4. \A i \in DOMAIN InOrder(all) : InOrder(all)[i] \in all
      BY <1>1, InOrderFacts
<1>5. {i \in DOMAIN list : DayOf(list[i]) <= day} = {i \in DOMAIN list : list[i] \in some}
      BY <1>2, <1>3, <1>4
<1>6. Kept(InOrder(all), {i \in DOMAIN InOrder(all) : InOrder(all)[i] \in some}) = InOrder(some)
      BY <1>1, KeptInOrder
<1> QED BY <1>2, <1>5, <1>6

LEMMA VerifiedDayFacts ==
    ASSUME ArchiveTyped, NEW h \in Hosts, Written(h), step[h] = "verify",
           NEW i \in DOMAIN Ascending(job[h].days)
    PROVE  VerifiedDay(Manifest(h), Manifest(h).days[i])
<1> DEFINE m == Manifest(h)
           file == m.days[i]
           runs == Exported(h)
           c == job[h].complete
           day == Ascending(job[h].days)[i]
           last == LastOf(job[h].days)
           listed == [k \in DOMAIN m.runs |-> m.runs[k].run]
<1>1. AllWritten(h) /\ c \in SUBSET Runs /\ created \in [Runs -> Nat]
      BY ExportedFacts DEF Written, ArchiveTyped
<1>2. /\ file \in FilesOf("day", root[h]) /\ file.day = day /\ file = DayFile(c, day)
      /\ DOMAIN m.runs = DOMAIN runs /\ \A k \in DOMAIN runs : m.runs[k].run = runs[k]
      BY ManifestFacts
<1>3. day \in Nat /\ last \in Nat /\ day <= last
      BY <1>1, DaysFacts DEF AllWritten
<1>4. DueBy(c, day) # {}
      BY <1>2 DEF Written, DayWritten
<1>5. file.forecast = Forecast(c, day) /\ file.history = History(c, day)
  <2>1. \A R, d : /\ DayFile(R, d).forecast = Forecast(R, d)
                  /\ DayFile(R, d).history = History(R, d)
        BY DEF DayFile
  <2> QED BY <1>2, <2>1
<1>6. runs = History(c, last)
      BY DEF Exported
<1>7. listed = runs
  <2>1. runs \in Seq(DueBy(c \cap Agents, last))
        BY <1>1, <1>6, DayFacts
  <2>2. runs = [k \in DOMAIN runs |-> runs[k]]
    <3> HIDE DEF runs
    <3> QED BY <2>1
  <2> HIDE DEF runs, m
  <2> QED BY <1>2, <2>2
<1>8. DayOf(Forecast(c, day)) <= day
  <2>1. Forecast(c, day) \in DueBy(c, day)
        BY <1>1, <1>4, DayFacts
  <2> HIDE DEF day, c
  <2> QED BY <2>1 DEF DueBy
<1>9. History(c, day) = Kept(runs, {k \in DOMAIN runs : DayOf(runs[k]) <= day})
  <2> HIDE DEF day, c, last, runs
  <2> QED BY <1>1, <1>3, <1>6, HistoryKept
<1>10. VerifiedDay(m, file) <=>
          /\ DayOf(file.forecast) <= file.day
          /\ file.history = Kept(listed, {k \in DOMAIN listed : DayOf(listed[k]) <= file.day})
      BY DEF VerifiedDay
<1> HIDE DEF m, file, runs, c, day, last, listed
<1>11. VerifiedDay(m, file)
      BY <1>2, <1>5, <1>7, <1>8, <1>9, <1>10
<1> QED BY <1>11 DEF m, file

LEMMA VerifiedRunFacts ==
    ASSUME ArchiveTyped, NEW h \in Hosts, Written(h), step[h] = "verify",
           NEW i \in DOMAIN Exported(h)
    PROVE  VerifiedRun(Manifest(h), Manifest(h).runs[i])
<1> DEFINE m == Manifest(h)
           entry == m.runs[i]
           days == job[h].days
           asc == Ascending(days)
           run == Exported(h)[i]
           named == {m.days[k].day : k \in DOMAIN m.days}
<1>1. AllWritten(h) /\ created \in [Runs -> Nat]
      BY DEF Written, ArchiveTyped
<1>2. /\ days \in SUBSET Nat /\ LastOf(days) \in days
      /\ \A k \in DOMAIN asc : asc[k] \in days
      /\ \A d \in days : \E k \in DOMAIN asc : asc[k] = d
      BY <1>1, DaysFacts DEF AllWritten
<1>3. /\ DOMAIN m.days = DOMAIN asc /\ \A k \in DOMAIN asc : m.days[k].day = asc[k]
      /\ entry.run = run /\ entry.day = ArchiveDay(days, run)
      BY ManifestFacts
<1>4. named = days
  <2> HIDE DEF m, asc, days
  <2> QED BY <1>2, <1>3
<1>5. run \in Runs /\ DayOf(run) <= LastOf(days)
  <2>1. run \in ToSet(Exported(h))
        BY DEF ToSet
  <2> HIDE DEF run
  <2> QED BY <2>1, ExportedFacts DEF DueBy
<1> HIDE DEF m, entry, days, asc, run
<1>6. /\ ArchiveDay(days, run) \in days /\ DayOf(run) <= ArchiveDay(days, run)
      /\ \A e \in days : DayOf(run) <= e => ArchiveDay(days, run) <= e
      BY <1>1, <1>2, <1>5, ArchiveDayFacts
<1>7. VerifiedRun(m, entry) <=>
         /\ entry.day \in {d \in named : DayOf(entry.run) <= d}
         /\ \A d \in {d \in named : DayOf(entry.run) <= d} : entry.day <= d
      BY DEF VerifiedRun
<1> HIDE DEF named
<1>8. VerifiedRun(m, entry)
      BY <1>3, <1>4, <1>6, <1>7
<1> QED BY <1>8 DEF m, entry

\* An export never fails its own verification, whatever runs, ties, gaps and days it was given:
\* its files are the ones its selection calls for, and of that selection the verification holds.
THEOREM ExportAgreesWithVerification == Spec => []ExportVerifies
<1>1. ArchiveTyped /\ ExportInv => ExportVerifies
  <2> SUFFICES ASSUME ArchiveTyped, ExportInv, NEW h \in Hosts, step[h] = "verify"
               PROVE  Verified(root[h], ManifestIn(root[h]))
      BY DEF ExportVerifies
  <2> DEFINE m == Manifest(h)
             days == Ascending(job[h].days)
             runs == Exported(h)
  <2>1. Written(h) /\ AllWritten(h) /\ created \in [Runs -> Nat]
        BY DEF ExportInv, Written, ArchiveTyped
  <2>2. ManifestIn(root[h]) = m
    <3>1. FilesOf("manifest", root[h]) = {m}
          BY <2>1 DEF Written
    <3> HIDE DEF m
    <3> QED BY <3>1 DEF ManifestIn
  <2>3. /\ DOMAIN m.days = DOMAIN days /\ DOMAIN m.runs = DOMAIN runs
        /\ \A i \in DOMAIN days : m.days[i].day = days[i]
        /\ \A i \in DOMAIN runs : m.runs[i].run = runs[i]
        /\ m.days # <<>>
        BY <2>1, ManifestFacts
  <2>4. \A i, j \in DOMAIN days : i < j => days[i] < days[j]
        BY <2>1, DaysFacts DEF AllWritten
  <2>5. \A i, j \in DOMAIN runs :
           i < j => runs[i] # runs[j] /\ created[runs[i]] <= created[runs[j]]
    <3> DEFINE all == DueBy(job[h].complete \cap Agents, LastOf(job[h].days))
    <3>1. all \in SUBSET Runs /\ runs = InOrder(all)
          BY ExportedFacts DEF DueBy, Exported, History
    <3> HIDE DEF all, runs
    <3>2. /\ DOMAIN runs = 1..Cardinality(all)
          /\ \A k \in 1..Cardinality(all) : runs[k] \in all
          /\ \A k, l \in 1..Cardinality(all) : k < l => Earlier(runs[k], runs[l])
          BY <2>1, <3>1, InOrderFacts
    <3>3. /\ \A r \in Runs : ~Earlier(r, r)
          /\ \A r, s \in Runs : Earlier(r, s) => created[r] <= created[s]
          BY <2>1, EarlierOrders
    <3>4. \A k \in DOMAIN runs : runs[k] \in Runs
          BY <3>1, <3>2
    <3> QED BY <3>2, <3>3, <3>4
  <2>6. Payloads(m) = FilesOf("day", root[h]) \cup FilesOf("run", root[h])
        BY <2>1, PayloadsFacts
  <2>7. Payloads(m) \subseteq root[h]
        BY <2>6 DEF FilesOf
  <2>8. [kind |-> "provenance", covers |-> Payloads(m)] \in root[h]
        BY <2>1, <2>6 DEF Written, Provenance
  <2>9. \A i \in DOMAIN days : VerifiedDay(m, m.days[i])
        BY <2>1, VerifiedDayFacts
  <2>10. \A i \in DOMAIN runs : VerifiedRun(m, m.runs[i])
        BY <2>1, VerifiedRunFacts
  <2>11. \A i, j \in DOMAIN m.days : i < j => m.days[i].day < m.days[j].day
    <3> HIDE DEF m, days
    <3> QED BY <2>3, <2>4
  <2>12. \A i, j \in DOMAIN m.runs :
            i < j => /\ m.runs[i].run # m.runs[j].run
                     /\ created[m.runs[i].run] <= created[m.runs[j].run]
    <3> HIDE DEF m, runs
    <3> QED BY <2>3, <2>5
  <2>13. /\ \A i \in DOMAIN m.days : VerifiedDay(m, m.days[i])
         /\ \A i \in DOMAIN m.runs : VerifiedRun(m, m.runs[i])
    <3> HIDE DEF m, runs, days
    <3> QED BY <2>3, <2>9, <2>10
  <2> HIDE DEF m
  <2>14. Verified(root[h], m)
        BY <2>3, <2>7, <2>8, <2>11, <2>12, <2>13 DEF Verified
  <2> QED BY <2>2, <2>14
<1> QED BY <1>1, InitTyped, TypedNext, InitDurable, DurableNext, InitExport, ExportNext, PTL DEF Spec

=============================================================================
