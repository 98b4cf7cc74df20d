-------------------------------- MODULE Memory --------------------------------
(***************************************************************************)
(* What one agent run leaves to the next (run_agent._run): the files of    *)
(* AgentStateStore (s3/agent_state.py), lessons (agent/memory.py), match   *)
(* scores (agent/scoring.py), scenarios (agent/scenarios.py) and feedback  *)
(* on retrieval.                                                           *)
(*                                                                         *)
(* A run has a container of its own: it pulls the files one after another, *)
(* appends to its copies, and pushes them whole, one after another, if it  *)
(* gets so far.  Runs may overlap: the schedule, a forced request and a    *)
(* developer each start one.                                               *)
(***************************************************************************)
EXTENDS Naturals, Sequences, FiniteSets

CONSTANTS
    Runs,
    Matches,        \* matches that come to have a result
    MaxFaults       \* bound: calls that raise and processes that die

\* The order in which pull and push go through the files.
Files == <<"lessons", "calibration", "scenarios", "feedback">>
FileNames == {Files[i] : i \in DOMAIN Files}

Note(r, what) == [run |-> r, what |-> what]
Entries == [run : Runs, what : {"lesson", "scorecard", "scenario", "feedback"} \cup Matches]

ASSUME MemoryAssumption == IsFiniteSet(Runs) /\ IsFiniteSet(Matches) /\ MaxFaults \in Nat

VARIABLES
    pc,             \* where each run is
    file,           \* the file that it pulls or pushes next
    disk,           \* its copies of the files
    staged,         \* runs with lessons and scenarios that are not committed
    bucket,         \* the files
    late,           \* by run and file: entries put since the run asked for the file
    published,      \* runs whose snapshot is published
    failed,         \* runs the index lists as failed
    fallback,       \* runs for which the deterministic snapshot was published
    blocked,        \* runs whose publication is blocked
    resolved,       \* matches with a result
    enabled,        \* run_enabled, the kill switch
    faults

fileVars == <<disk, bucket, late>>
outcomeVars == <<published, failed, fallback, blocked>>
worldVars == <<resolved, enabled, faults>>
memoryVars == <<pc, file, staged, fileVars, outcomeVars, worldVars>>

Steps == {"idle", "pull", "score", "work", "publish", "fit", "commit", "push", "pushFailed",
          "record", "fallback", "done", "dead"}

MemoryTypeOK ==
    /\ pc \in [Runs -> Steps] /\ file \in [Runs -> Nat] /\ staged \subseteq Runs
    /\ disk \in [Runs -> [FileNames -> SUBSET Entries]]
    /\ bucket \in [FileNames -> SUBSET Entries]
    /\ late \in [Runs -> [FileNames -> SUBSET Entries]]
    /\ {published, failed, fallback, blocked} \subseteq SUBSET Runs
    /\ resolved \subseteq Matches /\ enabled \in BOOLEAN /\ faults \in Nat

Empty == [f \in FileNames |-> {}]

MemoryInit ==
    /\ pc = [r \in Runs |-> "idle"] /\ file = [r \in Runs |-> 1] /\ staged = {}
    /\ disk = [r \in Runs |-> Empty] /\ late = [r \in Runs |-> Empty] /\ bucket = Empty
    /\ published = {} /\ failed = {} /\ fallback = {} /\ blocked = {}
    /\ resolved = {} /\ enabled = TRUE /\ faults = 0

Goto(r, step) == pc' = [pc EXCEPT ![r] = step]
Advance(r, from, to) == pc[r] = from /\ Goto(r, to)
Fault == faults < MaxFaults /\ faults' = faults + 1

AppendTo(r, f, entries) == disk' = [disk EXCEPT ![r][f] = @ \cup entries]

-----------------------------------------------------------------------------
(* The start of a run.                                                      *)

\* The kill switch, and _live_attempt_blocker: it reads the disk before anything is
\* pulled, and in a new container finds no attempt of the day.
Start(r) ==
    /\ enabled /\ Advance(r, "idle", "pull")
    /\ UNCHANGED <<file, staged, fileVars, outcomeVars, worldVars>>

\* pull, a file at a time.
PullFile(r) ==
    /\ pc[r] = "pull"
    /\ LET f == Files[file[r]]
       IN  /\ disk' = [disk EXCEPT ![r][f] = bucket[f]]
           /\ late' = [late EXCEPT ![r][f] = {}]
    /\ Goto(r, IF file[r] = Len(Files) THEN "score" ELSE "pull")
    /\ file' = [file EXCEPT ![r] = IF @ = Len(Files) THEN 1 ELSE @ + 1]
    /\ UNCHANGED <<staged, bucket, outcomeVars, worldVars>>

\* Mutant of PullFails: the run goes on with what it has.
PullFailsSoftly(r) ==
    /\ Advance(r, "pull", "score") /\ Fault
    /\ file' = [file EXCEPT ![r] = 1]
    /\ UNCHANGED <<staged, fileVars, outcomeVars, resolved, enabled>>

\* "An amnesia run that later pushes would overwrite good S3 state": the run ends.
PullFails(r) ==
    /\ Advance(r, "pull", "done") /\ Fault
    /\ failed' = failed \cup {r}
    /\ UNCHANGED <<file, staged, fileVars, published, fallback, blocked, resolved, enabled>>

\* Mutant of Unscored: every result is scored.
UnscoredOrNot(r) == resolved

\* Matches with a result that the ledger has no score of.
Unscored(r) == {m \in resolved : \A e \in disk[r]["calibration"] : e.what # m}

\* score_yesterday: the scores, and the scorecard as a lesson.
Score(r) ==
    /\ Advance(r, "score", "work")
    /\ LET scores == {Note(r, m) : m \in Unscored(r)}
       IN  disk' = [disk EXCEPT
               ![r]["calibration"] = @ \cup scores,
               ![r]["lessons"] = IF scores = {} THEN @ ELSE @ \cup {Note(r, "scorecard")}]
    /\ UNCHANGED <<file, staged, bucket, late, outcomeVars, worldVars>>

-----------------------------------------------------------------------------
(* The graph, and the ways a run ends.                                      *)

\* write_journal and the scenario tools stage what they are told.
Stage(r) ==
    /\ pc[r] = "work" /\ r \notin staged
    /\ staged' = staged \cup {r}
    /\ UNCHANGED <<pc, file, fileVars, outcomeVars, worldVars>>

\* The graph raises or is cancelled: the staged is discarded, nothing is pushed.
Raises(r) ==
    /\ Advance(r, "work", "dead") /\ Fault
    /\ staged' = staged \ {r} /\ failed' = failed \cup {r}
    /\ UNCHANGED <<file, fileVars, published, fallback, blocked, resolved, enabled>>

Feedback(r) == AppendTo(r, "feedback", {Note(r, "feedback")})

\* A submission with a snapshot.
Submits(r) ==
    /\ Advance(r, "work", "publish")
    /\ Feedback(r)
    /\ UNCHANGED <<file, staged, bucket, late, outcomeVars, worldVars>>

\* Mutant of Incomplete: the staged is committed.
IncompleteCommits(r) ==
    /\ Advance(r, "work", "pushFailed")
    /\ disk' = [disk EXCEPT
           ![r]["feedback"] = @ \cup {Note(r, "feedback")},
           ![r]["lessons"] = IF r \in staged THEN @ \cup {Note(r, "lesson")} ELSE @]
    /\ staged' = staged \ {r}
    /\ blocked' \in {blocked, blocked \cup {r}}
    /\ UNCHANGED <<file, bucket, late, published, failed, fallback, worldVars>>

\* No submission, or none with a snapshot: the staged is discarded, the rest is pushed.
Incomplete(r) ==
    /\ Advance(r, "work", "pushFailed")
    /\ Feedback(r)
    /\ staged' = staged \ {r}
    /\ blocked' \in {blocked, blocked \cup {r}}
    /\ UNCHANGED <<file, bucket, late, published, failed, fallback, worldVars>>

Publish(r) ==
    /\ Advance(r, "publish", "fit")
    /\ published' = published \cup {r}
    /\ UNCHANGED <<file, staged, fileVars, failed, fallback, blocked, worldVars>>

\* FittedStateStore.publish; _commit_agent_state.
PublishFit(r) ==
    /\ Advance(r, "fit", "commit")
    /\ UNCHANGED <<file, staged, fileVars, outcomeVars, worldVars>>

Commit(r) ==
    /\ Advance(r, "commit", "push")
    /\ disk' = IF r \notin staged THEN disk ELSE [disk EXCEPT
           ![r]["lessons"] = @ \cup {Note(r, "lesson")},
           ![r]["scenarios"] = @ \cup {Note(r, "scenario")}]
    /\ staged' = staged \ {r}
    /\ UNCHANGED <<file, bucket, late, outcomeVars, worldVars>>

\* Who has asked for file i, and has not put it.
Holds(q, i) ==
    \/ pc[q] = "pull" /\ file[q] > i
    \/ pc[q] \in {"score", "work", "publish", "fit", "commit"}
    \/ pc[q] \in {"push", "pushFailed"} /\ file[q] <= i

\* push, a file at a time; an incomplete run is then recorded as failed.
PushFile(r) ==
    /\ pc[r] \in {"push", "pushFailed"}
    /\ LET f == Files[file[r]]
       IN  /\ bucket' = [bucket EXCEPT ![f] = disk[r][f]]
           /\ late' = [q \in Runs |->
                  IF q # r /\ Holds(q, file[r])
                  THEN [late[q] EXCEPT ![f] = @ \cup (disk[r][f] \ disk[q][f])] ELSE late[q]]
    /\ Goto(r, IF file[r] < Len(Files) THEN pc[r] ELSE IF pc[r] = "push" THEN "done" ELSE "record")
    /\ file' = [file EXCEPT ![r] = @ + 1]
    /\ UNCHANGED <<staged, disk, outcomeVars, worldVars>>

RecordFailure(r) ==
    /\ Advance(r, "record", IF r \in blocked THEN "done" ELSE "fallback")
    /\ failed' = failed \cup {r}
    /\ UNCHANGED <<file, staged, fileVars, published, fallback, blocked, worldVars>>

PublishFallback(r) ==
    /\ Advance(r, "fallback", "done")
    /\ fallback' = fallback \cup {r}
    /\ UNCHANGED <<file, staged, fileVars, published, failed, blocked, worldVars>>

\* Outside of any try: a call of the bucket that raises, or the container stops.
Dies(r) ==
    /\ pc[r] \notin {"idle", "done", "dead"}
    /\ Goto(r, "dead") /\ Fault
    /\ UNCHANGED <<file, staged, fileVars, outcomeVars, resolved, enabled>>

Resolve(m) ==
    /\ m \notin resolved /\ resolved' = resolved \cup {m}
    /\ UNCHANGED <<pc, file, staged, fileVars, outcomeVars, enabled, faults>>

SetRunEnabled ==
    /\ enabled' = ~enabled
    /\ UNCHANGED <<pc, file, staged, fileVars, outcomeVars, resolved, faults>>

RunStep(r) ==
    \/ Start(r) \/ PullFile(r) \/ PullFails(r) \/ Score(r)
    \/ Stage(r) \/ Raises(r) \/ Submits(r) \/ Incomplete(r)
    \/ Publish(r) \/ PublishFit(r) \/ Commit(r) \/ PushFile(r)
    \/ RecordFailure(r) \/ PublishFallback(r) \/ Dies(r)

MemoryNext ==
    \/ \E r \in Runs : RunStep(r)
    \/ \E m \in Matches : Resolve(m)
    \/ SetRunEnabled

MemorySpec == MemoryInit /\ [][MemoryNext]_memoryVars

-----------------------------------------------------------------------------
(* What the next run may rely on.                                           *)

\* The memory shrinks only where runs overlap: what a push takes out of a file was put there
\* after the run that pushes had asked for the file.
MemoryKept ==
    [][\A i \in DOMAIN Files : \A e \in bucket[Files[i]] \ bucket'[Files[i]] :
          \E r \in Runs : /\ pc[r] \in {"push", "pushFailed"} /\ file[r] = i
                          /\ e \in late[r][Files[i]]]_memoryVars

\* The governor's ledger has one score of a match, whoever died before its push and
\* whichever of two parallel runs was the last.
ScoredOnce ==
    \A d, e \in bucket["calibration"] : d.what = e.what => d = e

\* Only a run whose forecast was published teaches the next: no lesson and no scenario
\* of a run that failed is in the memory.
OnlyPublishedTeach ==
    \A f \in {"lessons", "scenarios"} : \A e \in bucket[f] :
        e.what \in {"lesson", "scenario"} => e.run \in published

=============================================================================
