------------------------------ MODULE Archive ------------------------------
(***************************************************************************)
(* The static archive: export, release and preservation of what the runs   *)
(* have published.                                                         *)
(*                                                                         *)
(* Runs put their snapshot and then its sidecars into a versioned bucket;  *)
(* an operator may retire a run, whose objects then lie behind delete      *)
(* markers.  A host runs one command of wolves.archive at a time: an       *)
(* export from the bucket into a directory of its own, the release of that *)
(* directory, or the preservation of every retained version.  A command    *)
(* may die at any step; its directory and what it has put stay.            *)
(*                                                                         *)
(* Files are named by the digest of their content, so a file is its        *)
(* content, and a release, named by the digest of its files, is the set of *)
(* them.  The four sidecars of a run are one object.  Results, run records *)
(* and the live history are left out of the payloads.  A listing is taken  *)
(* to be of one moment.  A run publishes once: the rerun of a daily run,   *)
(* which puts its keys again, is left out.                                 *)
(***************************************************************************)
EXTENDS Lists, SequencesExt

CONSTANTS
    Keys,           \* the runs, in the order of their snapshots' keys
    Stamps,         \* when each may have stamped its snapshot
    Agents,         \* the runs of kind "agent"
    Instants,       \* instants of a day
    FinalDay,       \* ARCHIVE_FINAL_DAY
    Asked,          \* the day ranges an operator may ask for
    Hosts,          \* where the commands run
    Published,      \* the runs that are in the bucket at first
    Retirable,      \* the runs an operator may retire
    MaxCommands     \* bound: exports and preservations begun

Runs == ToSet(Keys)

ASSUME ArchiveAssumption ==
    /\ Keys \in Seq(Runs)
    /\ Stamps # {} /\ Stamps \subseteq [Runs -> Nat]
    /\ Agents \subseteq Runs /\ Published \subseteq Runs /\ Retirable \subseteq Runs
    /\ Instants \in Nat \ {0} /\ FinalDay \in Nat /\ MaxCommands \in Nat
    /\ \A days \in Asked : days # {} /\ days \subseteq Nat

VARIABLES
    created,    \* created_at of each run's snapshot
    snapshot,   \* a run's snapshot in the bucket: absent, current or retired
    sidecars,   \* and its sidecars
    step,       \* where a host's command is; idle when it runs none
    job,        \* and what it holds in memory
    exists,     \* the host's output directory exists
    root,       \* and the files in it
    commands,   \* exports and preservations begun
    released,   \* objects under static-archive/releases: <<release, file>>
    preserved,  \* versions whose content is under static-archive/source
    inventories \* the inventories written there

bucket == <<created, snapshot, sidecars>>
output == <<exists, root>>
prefixes == <<released, preserved, inventories>>
vars == <<bucket, step, job, output, commands, prefixes>>

(* An export: the days it covers, the objects whose versions its listings  *)
(* noted, the snapshots it has listed and not read, the runs it has        *)
(* loaded, whether one could not be loaded, and, for the properties, what  *)
(* was retired when it listed.  A preservation: the versions it copies.    *)
NoJob == [days |-> {}, pinned |-> {}, toRead |-> {}, complete |-> {},
          rejected |-> FALSE, gone |-> {}, copying |-> {}]

ArchiveInit ==
    /\ created \in Stamps
    /\ snapshot = [r \in Runs |-> IF r \in Published THEN "current" ELSE "absent"]
    /\ sidecars = snapshot
    /\ step = [h \in Hosts |-> "idle"]
    /\ job = [h \in Hosts |-> NoJob]
    /\ exists = [h \in Hosts |-> FALSE]
    /\ root = [h \in Hosts |-> {}]
    /\ commands = 0
    /\ released = {}
    /\ preserved = {}
    /\ inventories = {}

----------------------------------------------------------------------------
(* The bucket. *)

PutSnapshot(r) ==
    /\ snapshot[r] = "absent"
    /\ snapshot' = [snapshot EXCEPT ![r] = "current"]
    /\ UNCHANGED <<created, sidecars, step, job, output, commands, prefixes>>

PutSidecars(r) ==
    /\ snapshot[r] # "absent" /\ sidecars[r] = "absent"
    /\ sidecars' = [sidecars EXCEPT ![r] = "current"]
    /\ UNCHANGED <<created, snapshot, step, job, output, commands, prefixes>>

(* retire_forecast.py moves the objects of a run one by one. *)
Retire(r) ==
    /\ r \in Retirable
    /\ \/ /\ snapshot[r] = "current"
          /\ snapshot' = [snapshot EXCEPT ![r] = "retired"]
          /\ UNCHANGED sidecars
       \/ /\ sidecars[r] = "current"
          /\ sidecars' = [sidecars EXCEPT ![r] = "retired"]
          /\ UNCHANGED snapshot
    /\ UNCHANGED <<created, step, job, output, commands, prefixes>>

(* What is current, and every version that is kept, retired ones included. *)
Current ==
    {<<r, "snapshot">> : r \in {r \in Runs : snapshot[r] = "current"}} \cup
    {<<r, "sidecars">> : r \in {r \in Runs : sidecars[r] = "current"}}
Retained ==
    {<<r, "snapshot">> : r \in {r \in Runs : snapshot[r] # "absent"}} \cup
    {<<r, "sidecars">> : r \in {r \in Runs : sidecars[r] # "absent"}}
Whole == {r \in Runs : snapshot[r] = "current" /\ sidecars[r] = "current"}

----------------------------------------------------------------------------
(* Selection. *)

DayOf(r) == created[r] \div Instants
DueBy(runs, day) == {r \in runs : DayOf(r) <= day}

Position(r) == CHOOSE i \in DOMAIN Keys : Keys[i] = r
Earlier(r, s) ==
    \/ created[r] < created[s]
    \/ created[r] = created[s] /\ Position(r) < Position(s)

(* A run's number among these runs, and the runs in that order. *)
Rank(runs, r) == Cardinality({s \in runs : s = r \/ Earlier(s, r)})
InOrder(runs) == [k \in 1 .. Cardinality(runs) |-> CHOOSE r \in runs : Rank(runs, r) = k]

(* The newest, the first listed where two are of one instant. *)
Newest(runs) ==
    CHOOSE r \in runs : \A s \in runs \ {r} :
        created[s] < created[r] \/ (created[s] = created[r] /\ Earlier(r, s))

AgentsOr(runs) == IF runs \cap Agents # {} THEN runs \cap Agents ELSE runs

\* Mutant of Forecast: the newest of all runs.
ForecastOfAll(runs, day) == Newest(AgentsOr(runs))

Forecast(runs, day) == Newest(AgentsOr(DueBy(runs, day)))
History(runs, day) == InOrder(DueBy(runs \cap Agents, day))

(* Every calendar day from the first run to the last, no later than the    *)
(* final day.                                                              *)
DefaultDays(runs) ==
    LET represented == {DayOf(r) : r \in AgentsOr(runs)}
    IN  {d \in 0 .. FinalDay :
            /\ \E e \in represented : e <= d
            /\ \E e \in represented : d <= e}

----------------------------------------------------------------------------
(* Export. *)

Stop(h) ==
    /\ step' = [step EXCEPT ![h] = "idle"]
    /\ job' = [job EXCEPT ![h] = NoJob]

Start(h, next, newJob) ==
    /\ step[h] = "idle"
    /\ commands < MaxCommands
    /\ commands' = commands + 1
    /\ step' = [step EXCEPT ![h] = next]
    /\ job' = [job EXCEPT ![h] = newJob]

(* Days left to the exporter take a listing of their own, whose versions   *)
(* stay noted.                                                             *)
Export(h) ==
    /\ \/ Start(h, "list", [NoJob EXCEPT !.days = DefaultDays(Whole), !.pinned = Current])
       \/ \E asked \in Asked : Start(h, "list", [NoJob EXCEPT !.days = asked])
    /\ UNCHANGED <<bucket, output, prefixes>>

\* Mutant of List: what lies behind a delete marker counts as current.
ListRetained(h) ==
    /\ step[h] = "list"
    /\ step' = [step EXCEPT ![h] = "read"]
    /\ job' = [job EXCEPT ![h] = [job[h] EXCEPT !.pinned = @ \cup Retained,
                                                !.toRead = {r \in Runs : snapshot[r] # "absent"},
                                                !.gone = {r \in Runs : snapshot[r] = "retired"}]]
    /\ UNCHANGED <<bucket, output, commands, prefixes>>

List(h) ==
    /\ step[h] = "list"
    /\ step' = [step EXCEPT ![h] = "read"]
    /\ job' = [job EXCEPT ![h] = [job[h] EXCEPT !.pinned = @ \cup Current,
                                                !.toRead = {r \in Runs : snapshot[r] = "current"},
                                                !.gone = {r \in Runs : snapshot[r] = "retired"}]]
    /\ UNCHANGED <<bucket, output, commands, prefixes>>

(* A noted version can be read whatever happens to its key; sidecars the   *)
(* listings did not see are looked for once more.                          *)
ReadRun(h, r) ==
    /\ step[h] = "read"
    /\ r \in job[h].toRead
    /\ LET found == <<r, "sidecars">> \in job[h].pinned \cup Current
       IN  job' = [job EXCEPT ![h] = [job[h] EXCEPT !.toRead = @ \ {r},
                                                   !.complete = IF found THEN @ \cup {r} ELSE @,
                                                   !.rejected = @ \/ ~found]]
    /\ UNCHANGED <<bucket, step, output, commands, prefixes>>

MakeRoot(h) ==
    /\ step[h] = "read" /\ job[h].toRead = {}
    /\ \/ /\ job[h].rejected \/ job[h].complete = {} \/ exists[h]
          /\ Stop(h)
          /\ UNCHANGED exists
       \/ /\ ~job[h].rejected /\ job[h].complete # {} /\ ~exists[h]
          /\ step' = [step EXCEPT ![h] = "metadata"]
          /\ exists' = [exists EXCEPT ![h] = TRUE]
          /\ UNCHANGED job
    /\ UNCHANGED <<bucket, root, commands, prefixes>>

(* Records, fixture dates and live days; what raises here is outside of    *)
(* the clean-up, and the empty directory stays (Ends).                     *)
LoadMetadata(h) ==
    /\ step[h] = "metadata"
    /\ step' = [step EXCEPT ![h] = "write"]
    /\ UNCHANGED <<bucket, job, output, commands, prefixes>>

DayFile(runs, day) ==
    [kind |-> "day", day |-> day, forecast |-> Forecast(runs, day),
     history |-> History(runs, day)]
RunFile(r) == [kind |-> "run", run |-> r]
FilesOf(kind, files) == {f \in files : f.kind = kind}

LastOf(days) == CHOOSE d \in days : \A e \in days : e <= d
Exported(h) == History(job[h].complete, LastOf(job[h].days))
DaysLeft(h) == job[h].days \ {f.day : f \in FilesOf("day", root[h])}
RunsLeft(h) == ToSet(Exported(h)) \ {f.run : f \in FilesOf("run", root[h])}
Valid(days) == days # {} /\ \A d \in days : d <= FinalDay

RemoveRoot(h) ==
    /\ exists' = [exists EXCEPT ![h] = FALSE]
    /\ root' = [root EXCEPT ![h] = {}]

WriteFile(h, file) ==
    /\ root' = [root EXCEPT ![h] = @ \cup {file}]
    /\ UNCHANGED exists

WriteDay(h) ==
    /\ step[h] = "write"
    /\ ~Valid(job[h].days) \/ DaysLeft(h) # {}
    /\ LET day == CHOOSE d \in DaysLeft(h) : \A e \in DaysLeft(h) : d <= e
       IN  IF ~Valid(job[h].days) \/ DueBy(job[h].complete, day) = {}
           THEN RemoveRoot(h) /\ Stop(h)
           ELSE WriteFile(h, DayFile(job[h].complete, day)) /\ UNCHANGED <<step, job>>
    /\ UNCHANGED <<bucket, commands, prefixes>>

WriteRun(h) ==
    /\ step[h] = "write"
    /\ Valid(job[h].days) /\ DaysLeft(h) = {} /\ RunsLeft(h) # {}
    /\ WriteFile(h, RunFile(InOrder(RunsLeft(h))[1]))
    /\ UNCHANGED <<bucket, step, job, commands, prefixes>>

(* The provenance covers the payloads; the manifest names them in order.   *)
Provenance(files) ==
    [kind |-> "provenance", covers |-> FilesOf("day", files) \cup FilesOf("run", files)]

ArchiveDay(days, r) ==
    CHOOSE d \in days : /\ DayOf(r) <= d
                        /\ \A e \in days : DayOf(r) <= e => d <= e

Manifest(h) ==
    LET days == Ascending(job[h].days)
        runs == Exported(h)
    IN  [kind |-> "manifest",
         days |-> [i \in DOMAIN days |->
                      CHOOSE f \in FilesOf("day", root[h]) : f.day = days[i]],
         runs |-> [i \in DOMAIN runs |->
                      [run |-> runs[i], day |-> ArchiveDay(job[h].days, runs[i]),
                       payload |-> RunFile(runs[i])]]]

WriteManifest(h) ==
    /\ step[h] = "write"
    /\ Valid(job[h].days) /\ DaysLeft(h) = {} /\ RunsLeft(h) = {}
    /\ IF FilesOf("provenance", root[h]) = {}
       THEN WriteFile(h, Provenance(root[h])) /\ UNCHANGED step
       ELSE WriteFile(h, Manifest(h)) /\ step' = [step EXCEPT ![h] = "verify"]
    /\ UNCHANGED <<bucket, job, commands, prefixes>>

(* verify_archive. *)
Payloads(manifest) ==
    ToSet(manifest.days) \cup {manifest.runs[i].payload : i \in DOMAIN manifest.runs}

VerifiedDay(manifest, file) ==
    LET runs == [i \in DOMAIN manifest.runs |-> manifest.runs[i].run]
    IN  /\ DayOf(file.forecast) <= file.day
        /\ file.history = Kept(runs, {i \in DOMAIN runs : DayOf(runs[i]) <= file.day})

VerifiedRun(manifest, entry) ==
    LET due == {d \in {manifest.days[i].day : i \in DOMAIN manifest.days} :
                   DayOf(entry.run) <= d}
    IN  entry.day \in due /\ \A d \in due : entry.day <= d

Verified(files, manifest) ==
    /\ manifest.days # <<>>
    /\ \A i, j \in DOMAIN manifest.days :
          i < j => manifest.days[i].day < manifest.days[j].day
    /\ \A i, j \in DOMAIN manifest.runs :
          i < j => /\ manifest.runs[i].run # manifest.runs[j].run
                   /\ created[manifest.runs[i].run] <= created[manifest.runs[j].run]
    /\ Payloads(manifest) \subseteq files
    /\ \A i \in DOMAIN manifest.days : VerifiedDay(manifest, manifest.days[i])
    /\ \A i \in DOMAIN manifest.runs : VerifiedRun(manifest, manifest.runs[i])
    /\ [kind |-> "provenance", covers |-> Payloads(manifest)] \in files

ManifestIn(files) == CHOOSE f \in FilesOf("manifest", files) : TRUE

Verify(h) ==
    /\ step[h] = "verify"
    /\ Stop(h)
    /\ IF Verified(root[h], ManifestIn(root[h])) THEN UNCHANGED output ELSE RemoveRoot(h)
    /\ UNCHANGED <<bucket, commands, prefixes>>

----------------------------------------------------------------------------
(* Release. *)

Publish(h) ==
    /\ step[h] = "idle"
    /\ FilesOf("manifest", root[h]) # {}
    /\ Verified(root[h], ManifestIn(root[h]))
    /\ step' = [step EXCEPT ![h] = "upload"]
    /\ UNCHANGED <<bucket, job, output, commands, prefixes>>

(* An object that is there already has the same content, and is kept.      *)
Uploaded(h) == {f \in root[h] : <<root[h], f>> \in released}
Payload(h) == root[h] \ FilesOf("manifest", root[h])

\* Mutant of Upload: the manifest goes in its turn.
UploadInTurn(h) ==
    /\ step[h] = "upload"
    /\ \E file \in root[h] \ Uploaded(h) : released' = released \cup {<<root[h], file>>}
    /\ UNCHANGED <<bucket, step, job, output, commands, preserved, inventories>>

Upload(h) ==
    /\ step[h] = "upload"
    /\ \E file \in root[h] \ Uploaded(h) :
          /\ file.kind = "manifest" => Payload(h) \subseteq Uploaded(h)
          /\ released' = released \cup {<<root[h], file>>}
    /\ UNCHANGED <<bucket, step, job, output, commands, preserved, inventories>>

----------------------------------------------------------------------------
(* Preservation. *)

Preserve(h) ==
    /\ Retained # {}
    /\ Start(h, "copy", [NoJob EXCEPT !.copying = Retained])
    /\ UNCHANGED <<bucket, output, prefixes>>

(* A worker copies one version; the pool has several and no order.         *)
Copy(h) ==
    /\ step[h] = "copy"
    /\ \E version \in job[h].copying \ preserved : preserved' = preserved \cup {version}
    /\ UNCHANGED <<bucket, step, job, output, commands, released, inventories>>

WriteInventory(h) ==
    /\ step[h] = "copy"
    /\ job[h].copying \subseteq preserved
    /\ inventories' = inventories \cup {job[h].copying}
    /\ Stop(h)
    /\ UNCHANGED <<bucket, output, commands, released, preserved>>

----------------------------------------------------------------------------
(* A command is over, is killed or raises: a bucket that does not answer,  *)
(* a disk that is full.  What it has written stays, but an export that     *)
(* raises while it writes or verifies clears its directory.                *)
Ends(h) ==
    /\ step[h] # "idle"
    /\ Stop(h)
    /\ \/ UNCHANGED output
       \/ step[h] \in {"write", "verify"} /\ RemoveRoot(h)
    /\ UNCHANGED <<bucket, commands, prefixes>>

(* The operator deletes a directory to export again.                       *)
ClearRoot(h) ==
    /\ step[h] = "idle" /\ exists[h]
    /\ RemoveRoot(h)
    /\ UNCHANGED <<bucket, step, job, commands, prefixes>>

Command(h) ==
    \/ Export(h) \/ List(h) \/ MakeRoot(h) \/ LoadMetadata(h)
    \/ \E r \in Runs : ReadRun(h, r)
    \/ WriteDay(h) \/ WriteRun(h) \/ WriteManifest(h) \/ Verify(h)
    \/ Publish(h) \/ Upload(h)
    \/ Preserve(h) \/ Copy(h) \/ WriteInventory(h)
    \/ Ends(h) \/ ClearRoot(h)

ArchiveNext ==
    \/ \E r \in Runs : PutSnapshot(r) \/ PutSidecars(r) \/ Retire(r)
    \/ \E h \in Hosts : Command(h)

Spec == ArchiveInit /\ [][ArchiveNext]_vars

----------------------------------------------------------------------------
(* Properties. *)

(* What an index in the bucket names is in the bucket: the payloads of a   *)
(* release whose manifest is out, and the versions of an inventory,        *)
(* wherever commands died and whoever else was uploading.                  *)
NamedIsDurable ==
    /\ \A object \in released :
          object[2].kind = "manifest" =>
              \A file \in object[1] : <<object[1], file>> \in released
    /\ \A inventory \in inventories : inventory \subseteq preserved

(* An export never fails its own verification: whatever runs, ties, gaps   *)
(* and days it was given, the days' histories, the runs and the manifest   *)
(* it wrote agree.                                                         *)
ExportVerifies ==
    \A h \in Hosts : step[h] = "verify" => Verified(root[h], ManifestIn(root[h]))

(* A forecast retired before an export listed the bucket is nowhere in     *)
(* what it writes, although its versions are kept and an earlier listing   *)
(* may have noted them.                                                    *)
NoRetiredForecast ==
    \A h \in Hosts : step[h] \in {"write", "verify"} =>
        LET gone == job[h].gone
        IN  /\ \A file \in FilesOf("day", root[h]) :
                  ToSet(Append(file.history, file.forecast)) \cap gone = {}
            /\ \A file \in FilesOf("run", root[h]) : file.run \notin gone
=============================================================================
