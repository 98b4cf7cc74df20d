------------------------- MODULE MemoryResearchProofs -------------------------
(* Theorems of Memory, then of Research.                                   *)
(*                                                                          *)
(* The memory of the agent runs, for any number of runs that overlap, fail  *)
(* and die: what is scored once, who teaches, and what a push may take away.*)
(*                                                                          *)
(* A wave of research for any nodes, pages, redirects and answers: what was *)
(* read stays citable, what is confirmed was read, receipts point at what   *)
(* their author pointed at, and odds are not bought twice.                  *)
EXTENDS Memory, Research, ListsProofs

LEMMA FilesFacts ==
    /\ DOMAIN Files = 1..4 /\ Len(Files) = 4
    /\ Files[1] = "lessons" /\ Files[2] = "calibration" /\ Files[3] = "scenarios"
    /\ Files[4] = "feedback"
    /\ \A i \in 1..4 : Files[i] \in FileNames
    /\ \A i, j \in 1..4 : Files[i] = Files[j] => i = j
    /\ FileNames = {"lessons", "calibration", "scenarios", "feedback"}
<1>1. DOMAIN Files = 1..4 /\ Len(Files) = 4
      BY DEF Files
<1>2. Files[1] = "lessons" /\ Files[2] = "calibration" /\ Files[3] = "scenarios" /\ Files[4] = "feedback"
      BY DEF Files
<1>3. \A i \in 1..4 : i = 1 \/ i = 2 \/ i = 3 \/ i = 4
      OBVIOUS
<1>4. \A i \in 1..4 : Files[i] \in FileNames
      BY <1>1 DEF FileNames
<1>5. \A i, j \in 1..4 : Files[i] = Files[j] => i = j
      BY <1>2, <1>3
<1>6. FileNames = {"lessons", "calibration", "scenarios", "feedback"}
  <2>1. \A f \in FileNames : f \in {"lessons", "calibration", "scenarios", "feedback"}
        BY <1>1, <1>2, <1>3 DEF FileNames
  <2>2. {"lessons", "calibration", "scenarios", "feedback"} \subseteq FileNames
        BY <1>2, <1>4
  <2> QED BY <2>1, <2>2
<1> QED BY <1>1, <1>2, <1>4, <1>5, <1>6

LEMMA NoteType ==
    ASSUME NEW r \in Runs,
           NEW w \in {"lesson", "scorecard", "scenario", "feedback"} \cup Matches
    PROVE  Note(r, w) \in Entries /\ Note(r, w).run = r /\ Note(r, w).what = w
BY DEF Note, Entries


LEMMA ScoresType ==
    ASSUME MemoryTypeOK, NEW r \in Runs
    PROVE  {Note(r, m) : m \in Unscored(r)} \subseteq Entries
<1>1. \A m \in Unscored(r) : m \in Matches
      BY DEF Unscored, MemoryTypeOK
<1> QED BY <1>1, NoteType

\* The two halves of the types: the files, and where the runs are.
FilesTyped ==
    /\ disk \in [Runs -> [FileNames -> SUBSET Entries]]
    /\ bucket \in [FileNames -> SUBSET Entries]
    /\ late \in [Runs -> [FileNames -> SUBSET Entries]]

RunsTyped ==
    /\ pc \in [Runs -> Steps] /\ file \in [Runs -> Nat]
    /\ staged \subseteq Runs /\ published \subseteq Runs /\ failed \subseteq Runs
    /\ fallback \subseteq Runs /\ blocked \subseteq Runs
    /\ resolved \subseteq Matches /\ enabled \in BOOLEAN /\ faults \in Nat

LEMMA TypesSplit == MemoryTypeOK <=> FilesTyped /\ RunsTyped
BY DEF MemoryTypeOK, FilesTyped, RunsTyped

LEMMA FilesTypedNext ==
    ASSUME MemoryTypeOK, [MemoryNext]_memoryVars
    PROVE  FilesTyped'
<1> USE TypesSplit DEF FilesTyped, Advance, fileVars, outcomeVars, worldVars
<1>1. ASSUME NEW r \in Runs, PullFile(r) PROVE FilesTyped'
  <2>1. PICK f : /\ disk' = [disk EXCEPT ![r][f] = bucket[f]]
                 /\ late' = [late EXCEPT ![r][f] = {}] /\ bucket' = bucket
        BY <1>1 DEF PullFile
  <2> QED BY <2>1
<1>2. ASSUME NEW r \in Runs, Score(r) PROVE FilesTyped'
  <2> DEFINE scores == {Note(r, m) : m \in Unscored(r)}
  <2>1. scores \subseteq Entries /\ Note(r, "scorecard") \in Entries
        BY ScoresType, NoteType
  <2>2. disk' = [disk EXCEPT
               ![r]["calibration"] = @ \cup scores,
               ![r]["lessons"] = IF scores = {} THEN @ ELSE @ \cup {Note(r, "scorecard")}]
        /\ bucket' = bucket /\ late' = late
        BY <1>2 DEF Score
  <2> HIDE DEF scores
  <2> DEFINE scored == [disk EXCEPT ![r]["calibration"] = @ \cup scores]
             lesson == IF scores = {} THEN scored[r]["lessons"]
                       ELSE scored[r]["lessons"] \cup {Note(r, "scorecard")}
  <2>3. scored \in [Runs -> [FileNames -> SUBSET Entries]]
        BY <2>1
  <2>4. disk' = [scored EXCEPT ![r]["lessons"] = lesson]
        BY <2>2
  <2>5. lesson \in SUBSET Entries
        BY <2>1, <2>3, FilesFacts
  <2> HIDE DEF scored, lesson
  <2>6. disk' \in [Runs -> [FileNames -> SUBSET Entries]]
        BY <2>3, <2>4, <2>5
  <2> QED BY <2>2, <2>6
<1>3. ASSUME NEW r \in Runs, Submits(r) \/ Incomplete(r) PROVE FilesTyped'
  <2>1. Note(r, "feedback") \in Entries
        BY NoteType
  <2>2. disk' = [disk EXCEPT ![r]["feedback"] = @ \cup {Note(r, "feedback")}]
        /\ bucket' = bucket /\ late' = late
        BY <1>3 DEF Submits, Incomplete, Feedback, AppendTo
  <2> QED BY <2>1, <2>2
<1>4. ASSUME NEW r \in Runs, Commit(r) PROVE FilesTyped'
  <2>1. Note(r, "lesson") \in Entries /\ Note(r, "scenario") \in Entries
        BY NoteType
  <2> QED BY <1>4, <2>1, FilesFacts DEF Commit
<1>5. ASSUME NEW r \in Runs, PushFile(r) PROVE FilesTyped'
  <2> DEFINE f == Files[file[r]]
  <2>1. /\ bucket' = [bucket EXCEPT ![f] = disk[r][f]] /\ disk' = disk
        /\ late' = [q \in Runs |->
               IF q # r /\ Holds(q, file[r])
               THEN [late[q] EXCEPT ![f] = @ \cup (disk[r][f] \ disk[q][f])] ELSE late[q]]
        BY <1>5 DEF PushFile
  <2>2. ASSUME f \in FileNames
        PROVE  FilesTyped'
    <3>1. disk[r][f] \in SUBSET Entries
          BY <2>2
    <3>2. bucket' \in [FileNames -> SUBSET Entries]
          BY <2>1, <3>1
    <3>3. \A q \in Runs : late[q] \in [FileNames -> SUBSET Entries]
          OBVIOUS
    <3>4. \A q \in Runs : [late[q] EXCEPT ![f] = @ \cup (disk[r][f] \ disk[q][f])]
                            \in [FileNames -> SUBSET Entries]
          BY <2>2, <3>1, <3>3
    <3>5. late' \in [Runs -> [FileNames -> SUBSET Entries]]
          BY <2>1, <3>3, <3>4
    <3> QED BY <2>1, <3>2, <3>5
  <2>3. ASSUME f \notin FileNames
        PROVE  FilesTyped'
    <3>1. bucket' = bucket
          BY <2>1, <2>3
    <3>2. \A q \in Runs : late[q] \in [FileNames -> SUBSET Entries]
          OBVIOUS
    <3>3. \A q \in Runs : [late[q] EXCEPT ![f] = @ \cup (disk[r][f] \ disk[q][f])] = late[q]
          BY <2>3, <3>2
    <3>4. late' \in [Runs -> [FileNames -> SUBSET Entries]]
          BY <2>1, <3>2, <3>3
    <3> QED BY <2>1, <3>1, <3>4
  <2> QED BY <2>2, <2>3
<1>6. ASSUME UNCHANGED fileVars PROVE FilesTyped'
      BY <1>6
<1>7. ASSUME NEW r \in Runs,
             \/ Start(r) \/ PullFails(r) \/ Stage(r) \/ Raises(r) \/ Publish(r) \/ PublishFit(r)
             \/ RecordFailure(r) \/ PublishFallback(r) \/ Dies(r)
      PROVE  UNCHANGED fileVars
      BY <1>7 DEF Start, PullFails, Stage, Raises, Publish, PublishFit, RecordFailure, PublishFallback,
         Dies
<1>8. CASE (\E m \in Matches : Resolve(m)) \/ SetRunEnabled \/ UNCHANGED memoryVars
      BY <1>6, <1>8 DEF Resolve, SetRunEnabled, memoryVars
<1> QED BY <1>1, <1>2, <1>3, <1>4, <1>5, <1>6, <1>7, <1>8 DEF MemoryNext, RunStep

LEMMA RunsTypedNext ==
    ASSUME MemoryTypeOK, [MemoryNext]_memoryVars
    PROVE  RunsTyped'
<1> USE TypesSplit DEF RunsTyped, Advance, Goto, Steps, outcomeVars, worldVars, Fault
<1>1. ASSUME NEW r \in Runs, Start(r) \/ PullFile(r) \/ PullFails(r) \/ Score(r) PROVE RunsTyped'
      BY <1>1 DEF Start, PullFile, PullFails, Score
<1>2. ASSUME NEW r \in Runs, Stage(r) \/ Raises(r) \/ Submits(r) PROVE RunsTyped'
      BY <1>2 DEF Stage, Raises, Submits
<1>3. ASSUME NEW r \in Runs, Incomplete(r) PROVE RunsTyped'
      BY <1>3 DEF Incomplete
<1>4. ASSUME NEW r \in Runs, Publish(r) \/ PublishFit(r) \/ Commit(r) PROVE RunsTyped'
      BY <1>4 DEF Publish, PublishFit, Commit
<1>5. ASSUME NEW r \in Runs, PushFile(r) PROVE RunsTyped'
      BY <1>5 DEF PushFile
<1>6. ASSUME NEW r \in Runs, RecordFailure(r) PROVE RunsTyped'
  <2>1. CASE r \in blocked
        BY <1>6, <2>1 DEF RecordFailure
  <2>2. CASE r \notin blocked
        BY <1>6, <2>2 DEF RecordFailure
  <2> QED BY <2>1, <2>2
<1>7. ASSUME NEW r \in Runs, PublishFallback(r) \/ Dies(r) PROVE RunsTyped'
      BY <1>7 DEF PublishFallback, Dies
<1>8. CASE (\E m \in Matches : Resolve(m)) \/ SetRunEnabled \/ UNCHANGED memoryVars
      BY <1>8 DEF Resolve, SetRunEnabled, memoryVars
<1> QED BY <1>1, <1>2, <1>3, <1>4, <1>5, <1>6, <1>7, <1>8 DEF MemoryNext, RunStep

\* Every step of every run keeps its files files of entries (AgentStateStore).
THEOREM MemoryTypeCorrect == MemorySpec => []MemoryTypeOK
<1>1. MemoryInit => MemoryTypeOK
  <2> SUFFICES ASSUME MemoryInit PROVE FilesTyped /\ RunsTyped
        BY TypesSplit
  <2>1. FilesTyped
        BY DEF MemoryInit, FilesTyped, Empty
  <2>2. RunsTyped
        BY DEF MemoryInit, RunsTyped, Steps
  <2> QED BY <2>1, <2>2
<1>2. MemoryTypeOK /\ [MemoryNext]_memoryVars => MemoryTypeOK'
  <2> SUFFICES ASSUME MemoryTypeOK, [MemoryNext]_memoryVars PROVE MemoryTypeOK'
        OBVIOUS
  <2>1. FilesTyped' /\ RunsTyped'
        BY FilesTypedNext, RunsTypedNext
  <2> QED BY <2>1 DEF MemoryTypeOK, FilesTyped, RunsTyped
<1> QED BY <1>1, <1>2, PTL DEF MemorySpec

-----------------------------------------------------------------------------
(* What the steps do to one file.                                           *)

\* The scores go to one file and the scorecard to another.
LEMMA ScoreWrites ==
    ASSUME MemoryTypeOK, NEW r \in Runs, Score(r), NEW q \in Runs
    PROVE  /\ disk'[q]["calibration"] =
                 IF q = r THEN disk[r]["calibration"] \cup {Note(r, m) : m \in Unscored(r)}
                 ELSE disk[q]["calibration"]
           /\ disk'[q]["lessons"] \subseteq
                 disk[q]["lessons"] \cup {Note(r, "scorecard")}
           /\ disk'[q]["scenarios"] = disk[q]["scenarios"]
           /\ \A f \in FileNames : disk[q][f] \subseteq disk'[q][f]
<1> DEFINE scores == {Note(r, m) : m \in Unscored(r)}
           scored == [disk EXCEPT ![r]["calibration"] = @ \cup scores]
           lesson == IF scores = {} THEN scored[r]["lessons"]
                     ELSE scored[r]["lessons"] \cup {Note(r, "scorecard")}
<1>1. disk' = [scored EXCEPT ![r]["lessons"] = lesson]
      BY DEF Score
<1>2. disk \in [Runs -> [FileNames -> SUBSET Entries]]
      BY DEF MemoryTypeOK
<1>3. scores \subseteq Entries
      BY ScoresType
<1> HIDE DEF scores
<1>4. scored \in [Runs -> [FileNames -> SUBSET Entries]]
      BY <1>2, <1>3
<1>5. \A f \in FileNames : f # "calibration" => scored[q][f] = disk[q][f]
      BY <1>2
<1>6. scored[q]["calibration"] =
          IF q = r THEN disk[r]["calibration"] \cup scores ELSE disk[q]["calibration"]
      BY <1>2, FilesFacts
<1>7. lesson \subseteq scored[r]["lessons"] \cup {Note(r, "scorecard")}
      /\ scored[r]["lessons"] \subseteq lesson
      OBVIOUS
<1> HIDE DEF scored, lesson
<1>8. \A f \in FileNames : f # "lessons" => disk'[q][f] = scored[q][f]
      BY <1>1, <1>4
<1>9. disk'[q]["lessons"] = IF q = r THEN lesson ELSE scored[q]["lessons"]
      BY <1>1, <1>4, FilesFacts
<1>10. disk'[q]["lessons"] \subseteq disk[q]["lessons"] \cup {Note(r, "scorecard")}
       /\ disk[q]["lessons"] \subseteq disk'[q]["lessons"]
      BY <1>5, <1>7, <1>9, FilesFacts
<1>11. disk'[q]["calibration"] =
          IF q = r THEN disk[r]["calibration"] \cup scores ELSE disk[q]["calibration"]
      BY <1>6, <1>8, FilesFacts
<1>12. disk'[q]["scenarios"] = disk[q]["scenarios"]
      BY <1>5, <1>8, FilesFacts
<1>13. disk'[q]["feedback"] = disk[q]["feedback"]
      BY <1>5, <1>8, FilesFacts
<1>14. \A f \in FileNames : disk[q][f] \subseteq disk'[q][f]
  <2>1. disk[q]["calibration"] \subseteq disk'[q]["calibration"]
        BY <1>11
  <2> QED BY <1>10, <2>1, <1>12, <1>13, FilesFacts
<1> QED BY <1>10, <1>11, <1>12, <1>14 DEF scores

\* A commit adds a lesson and a scenario of its run, feedback an entry of feedback.
LEMMA CommitWrites ==
    ASSUME MemoryTypeOK, NEW r \in Runs, Commit(r), NEW q \in Runs
    PROVE  /\ disk'[q]["calibration"] = disk[q]["calibration"]
           /\ disk'[q]["lessons"] \subseteq
                 disk[q]["lessons"] \cup (IF q = r THEN {Note(r, "lesson")} ELSE {})
           /\ disk'[q]["scenarios"] \subseteq
                 disk[q]["scenarios"] \cup (IF q = r THEN {Note(r, "scenario")} ELSE {})
           /\ \A f \in FileNames : disk[q][f] \subseteq disk'[q][f]
<1>1. CASE r \notin staged
      BY <1>1 DEF Commit
<1>2. CASE r \in staged
  <2> DEFINE noted == [disk EXCEPT ![r]["lessons"] = @ \cup {Note(r, "lesson")}]
  <2>1. disk' = [noted EXCEPT ![r]["scenarios"] = @ \cup {Note(r, "scenario")}]
        BY <1>2 DEF Commit
  <2>2. disk \in [Runs -> [FileNames -> SUBSET Entries]]
        BY DEF MemoryTypeOK
  <2>3. Note(r, "lesson") \in Entries
        BY NoteType
  <2>4. noted \in [Runs -> [FileNames -> SUBSET Entries]]
        BY <2>2, <2>3
  <2>5. \A f \in FileNames : f # "lessons" => noted[q][f] = disk[q][f]
        BY <2>2
  <2>6. noted[q]["lessons"] =
            IF q = r THEN disk[r]["lessons"] \cup {Note(r, "lesson")} ELSE disk[q]["lessons"]
        BY <2>2, FilesFacts
  <2> HIDE DEF noted
  <2>7. \A f \in FileNames : f # "scenarios" => disk'[q][f] = noted[q][f]
        BY <2>1, <2>4
  <2>8. disk'[q]["scenarios"] =
            IF q = r THEN noted[r]["scenarios"] \cup {Note(r, "scenario")} ELSE noted[q]["scenarios"]
        BY <2>1, <2>4, FilesFacts
  <2>9. disk'[q]["calibration"] = disk[q]["calibration"] /\ disk'[q]["feedback"] = disk[q]["feedback"]
        BY <2>5, <2>7, FilesFacts
  <2>10. disk'[q]["lessons"] =
            IF q = r THEN disk[r]["lessons"] \cup {Note(r, "lesson")} ELSE disk[q]["lessons"]
        BY <2>6, <2>7, FilesFacts
  <2>11. disk'[q]["scenarios"] =
            IF q = r THEN disk[r]["scenarios"] \cup {Note(r, "scenario")} ELSE disk[q]["scenarios"]
        BY <2>5, <2>8, FilesFacts
  <2> QED BY <2>9, <2>10, <2>11, FilesFacts
<1> QED BY <1>1, <1>2

LEMMA FeedbackWrites ==
    ASSUME MemoryTypeOK, NEW r \in Runs, Submits(r) \/ Incomplete(r), NEW q \in Runs
    PROVE  /\ \A f \in FileNames : f # "feedback" => disk'[q][f] = disk[q][f]
           /\ \A f \in FileNames : disk[q][f] \subseteq disk'[q][f]
<1>1. disk' = [disk EXCEPT ![r]["feedback"] = @ \cup {Note(r, "feedback")}]
      BY DEF Submits, Incomplete, Feedback, AppendTo
<1>2. disk \in [Runs -> [FileNames -> SUBSET Entries]]
      BY DEF MemoryTypeOK
<1> QED BY <1>1, <1>2

LEMMA PullWrites ==
    ASSUME MemoryTypeOK, NEW r \in Runs, PullFile(r), NEW q \in Runs, NEW g \in FileNames
    PROVE  /\ disk'[q][g] = IF q = r /\ g = Files[file[r]] THEN bucket[g] ELSE disk[q][g]
           /\ late'[q][g] = IF q = r /\ g = Files[file[r]] THEN {} ELSE late[q][g]
           /\ bucket' = bucket
<1>1. PICK f : /\ disk' = [disk EXCEPT ![r][f] = bucket[f]] /\ late' = [late EXCEPT ![r][f] = {}]
               /\ bucket' = bucket /\ f = Files[file[r]]
      BY DEF PullFile, outcomeVars, worldVars
<1> QED BY <1>1 DEF MemoryTypeOK

LEMMA PushWrites ==
    ASSUME MemoryTypeOK, NEW r \in Runs, PushFile(r), NEW q \in Runs, NEW g \in FileNames
    PROVE  /\ bucket'[g] = IF g = Files[file[r]] THEN disk[r][g] ELSE bucket[g]
           /\ disk' = disk
           /\ late'[q][g] = IF q # r /\ Holds(q, file[r]) /\ g = Files[file[r]]
                            THEN late[q][g] \cup (disk[r][g] \ disk[q][g]) ELSE late[q][g]
<1> DEFINE f == Files[file[r]]
<1>1. /\ bucket' = [bucket EXCEPT ![f] = disk[r][f]] /\ disk' = disk
      /\ late' = [p \in Runs |->
               IF p # r /\ Holds(p, file[r])
               THEN [late[p] EXCEPT ![f] = @ \cup (disk[r][f] \ disk[p][f])] ELSE late[p]]
      BY DEF PushFile
<1>2. bucket \in [FileNames -> SUBSET Entries] /\ late[q] \in [FileNames -> SUBSET Entries]
      BY DEF MemoryTypeOK
<1>3. bucket'[g] = IF g = f THEN disk[r][g] ELSE bucket[g]
      BY <1>1, <1>2
<1>4. late'[q] = IF q # r /\ Holds(q, file[r])
                 THEN [late[q] EXCEPT ![f] = @ \cup (disk[r][f] \ disk[q][f])] ELSE late[q]
      BY <1>1
<1> QED BY <1>1, <1>2, <1>3, <1>4

LEMMA FilesUnmoved ==
    ASSUME \/ \E r \in Runs :
                 \/ Start(r) \/ PullFails(r) \/ Stage(r) \/ Raises(r) \/ Publish(r) \/ PublishFit(r)
                 \/ RecordFailure(r) \/ PublishFallback(r) \/ Dies(r)
           \/ \E m \in Matches : Resolve(m)
           \/ SetRunEnabled \/ UNCHANGED memoryVars
    PROVE  UNCHANGED <<disk, bucket, late>>
BY DEF Start, PullFails, Stage, Raises, Publish, PublishFit, RecordFailure, PublishFallback, Dies,
   Resolve, SetRunEnabled, memoryVars, fileVars

-----------------------------------------------------------------------------
(* The ledger.                                                              *)

Once(S) == \A d, e \in S : d.what = e.what => d = e

\* One score of a match in the bucket and in every copy.
OnceEverywhere ==
    /\ Once(bucket["calibration"])
    /\ \A r \in Runs : Once(disk[r]["calibration"])

LEMMA OnceEverywhereNext ==
    ASSUME MemoryTypeOK, OnceEverywhere, [MemoryNext]_memoryVars
    PROVE  OnceEverywhere'
<1>1. ASSUME NEW r \in Runs, PullFile(r) PROVE OnceEverywhere'
      BY <1>1, PullWrites, FilesFacts DEF OnceEverywhere
<1>2. ASSUME NEW r \in Runs, Score(r) PROVE OnceEverywhere'
  <2>1. bucket' = bucket
        BY <1>2 DEF Score
  <2>2. Once(disk[r]["calibration"] \cup {Note(r, m) : m \in Unscored(r)})
        BY DEF OnceEverywhere, Once, Unscored, Note
  <2>3. \A q \in Runs : disk'[q]["calibration"] =
            IF q = r THEN disk[r]["calibration"] \cup {Note(r, m) : m \in Unscored(r)}
            ELSE disk[q]["calibration"]
        BY <1>2, ScoreWrites
  <2>4. \A q \in Runs : Once(disk'[q]["calibration"])
        BY <2>2, <2>3 DEF OnceEverywhere
  <2> QED BY <2>1, <2>4 DEF OnceEverywhere
<1>3. ASSUME NEW r \in Runs, Submits(r) \/ Incomplete(r) PROVE OnceEverywhere'
  <2>1. \A q \in Runs : disk'[q]["calibration"] = disk[q]["calibration"]
        BY <1>3, FeedbackWrites, FilesFacts
  <2> QED BY <1>3, <2>1 DEF OnceEverywhere, Submits, Incomplete
<1>4. ASSUME NEW r \in Runs, Commit(r) PROVE OnceEverywhere'
  <2>1. \A q \in Runs : disk'[q]["calibration"] = disk[q]["calibration"]
        BY <1>4, CommitWrites
  <2> QED BY <1>4, <2>1 DEF OnceEverywhere, Commit
<1>5. ASSUME NEW r \in Runs, PushFile(r) PROVE OnceEverywhere'
      BY <1>5, PushWrites, FilesFacts DEF OnceEverywhere
<1>6. ASSUME UNCHANGED <<disk, bucket, late>> PROVE OnceEverywhere'
      BY <1>6 DEF OnceEverywhere
<1> QED BY <1>1, <1>2, <1>3, <1>4, <1>5, <1>6, FilesUnmoved DEF MemoryNext, RunStep

\* Whoever dies before its push and whichever of the overlapping runs pushes last, no match
\* is scored twice (score_yesterday).
THEOREM MemoryScoredOnce == MemorySpec => []ScoredOnce
<1>1. MemoryInit => OnceEverywhere
      BY FilesFacts DEF MemoryInit, OnceEverywhere, Once, Empty
<1>2. OnceEverywhere => ScoredOnce
      BY DEF OnceEverywhere, Once, ScoredOnce
<1> QED BY <1>1, <1>2, OnceEverywhereNext, MemoryTypeCorrect, PTL DEF MemorySpec

-----------------------------------------------------------------------------
(* Who teaches.                                                             *)

Taught(S) == \A e \in S : e.what \in {"lesson", "scenario"} => e.run \in published

\* A run commits after it has published, and nobody else's copy is taken over.
PublishedTeach ==
    /\ \A r \in Runs : pc[r] \in {"fit", "commit", "push"} => r \in published
    /\ \A f \in {"lessons", "scenarios"} : Taught(bucket[f]) /\ \A r \in Runs : Taught(disk[r][f])

LEMMA PublishedStays ==
    ASSUME MemoryTypeOK, [MemoryNext]_memoryVars,
           \A r \in Runs : pc[r] \in {"fit", "commit", "push"} => r \in published
    PROVE  /\ published \subseteq published'
           /\ \A r \in Runs : pc'[r] \in {"fit", "commit", "push"} => r \in published'
<1> USE DEF MemoryTypeOK, Advance, Goto, outcomeVars, worldVars, Steps
<1>1. ASSUME NEW r \in Runs,
             \/ Start(r) \/ PullFile(r) \/ PullFails(r) \/ Score(r)
      PROVE  /\ published \subseteq published'
             /\ \A q \in Runs : pc'[q] \in {"fit", "commit", "push"} => q \in published'
      BY <1>1 DEF Start, PullFile, PullFails, Score
<1>2. ASSUME NEW r \in Runs, Stage(r) \/ Raises(r) \/ Submits(r) \/ Incomplete(r)
      PROVE  /\ published \subseteq published'
             /\ \A q \in Runs : pc'[q] \in {"fit", "commit", "push"} => q \in published'
      BY <1>2 DEF Stage, Raises, Submits, Incomplete
<1>3. ASSUME NEW r \in Runs, Publish(r) \/ PublishFit(r) \/ Commit(r) \/ PushFile(r)
      PROVE  /\ published \subseteq published'
             /\ \A q \in Runs : pc'[q] \in {"fit", "commit", "push"} => q \in published'
      BY <1>3 DEF Publish, PublishFit, Commit, PushFile
<1>4. ASSUME NEW r \in Runs, RecordFailure(r) \/ PublishFallback(r) \/ Dies(r)
      PROVE  /\ published \subseteq published'
             /\ \A q \in Runs : pc'[q] \in {"fit", "commit", "push"} => q \in published'
      BY <1>4 DEF RecordFailure, PublishFallback, Dies
<1>5. CASE (\E m \in Matches : Resolve(m)) \/ SetRunEnabled \/ UNCHANGED memoryVars
      BY <1>5 DEF Resolve, SetRunEnabled, memoryVars
<1> QED BY <1>1, <1>2, <1>3, <1>4, <1>5 DEF MemoryNext, RunStep

LEMMA PublishedTeachNext ==
    ASSUME MemoryTypeOK, PublishedTeach, [MemoryNext]_memoryVars
    PROVE  PublishedTeach'
<1>1. /\ published \subseteq published'
      /\ \A r \in Runs : pc'[r] \in {"fit", "commit", "push"} => r \in published'
      BY PublishedStays DEF PublishedTeach
<1>2. ASSUME NEW f \in {"lessons", "scenarios"}
      PROVE  Taught(bucket[f])' /\ \A q \in Runs : Taught(disk[q][f])'
  <2>0. f \in FileNames
        BY FilesFacts
  <2>1. \A S : Taught(S) => \A e \in S : e.what \in {"lesson", "scenario"} => e.run \in published'
        BY <1>1 DEF Taught
  <2>2. Taught(bucket[f]) /\ \A q \in Runs : Taught(disk[q][f])
        BY DEF PublishedTeach
  <2>3. ASSUME NEW r \in Runs, PullFile(r)
        PROVE  Taught(bucket[f])' /\ \A q \in Runs : Taught(disk[q][f])'
    <3>1. bucket' = bucket /\ \A q \in Runs : disk'[q][f] \in {disk[q][f], bucket[f]}
          BY <2>0, <2>3, PullWrites
    <3> QED BY <2>1, <2>2, <3>1 DEF Taught
  <2>4. ASSUME NEW r \in Runs, Score(r)
        PROVE  Taught(bucket[f])' /\ \A q \in Runs : Taught(disk[q][f])'
    <3>1. bucket' = bucket
          BY <2>4 DEF Score
    <3>2. \A q \in Runs : disk'[q][f] \subseteq disk[q][f] \cup {Note(r, "scorecard")}
          BY <2>4, ScoreWrites
    <3>3. Note(r, "scorecard").what = "scorecard"
          BY DEF Note
    <3> QED BY <2>1, <2>2, <3>1, <3>2, <3>3 DEF Taught
  <2>5. ASSUME NEW r \in Runs, Submits(r) \/ Incomplete(r)
        PROVE  Taught(bucket[f])' /\ \A q \in Runs : Taught(disk[q][f])'
    <3>1. bucket' = bucket
          BY <2>5 DEF Submits, Incomplete
    <3>2. \A q \in Runs : disk'[q][f] = disk[q][f]
          BY <2>0, <2>5, FeedbackWrites
    <3> QED BY <2>1, <2>2, <3>1, <3>2 DEF Taught
  <2>6. ASSUME NEW r \in Runs, Commit(r)
        PROVE  Taught(bucket[f])' /\ \A q \in Runs : Taught(disk[q][f])'
    <3>1. bucket' = bucket
          BY <2>6 DEF Commit
    <3>2. r \in published'
          BY <1>1, <2>6 DEF Commit, Advance, PublishedTeach
    <3>3. \A q \in Runs :
              disk'[q][f] \subseteq disk[q][f] \cup {Note(r, "lesson"), Note(r, "scenario")}
          BY <2>6, CommitWrites
    <3>4. Note(r, "lesson").run = r /\ Note(r, "scenario").run = r
          BY DEF Note
    <3> QED BY <2>1, <2>2, <3>1, <3>2, <3>3, <3>4 DEF Taught
  <2>7. ASSUME NEW r \in Runs, PushFile(r)
        PROVE  Taught(bucket[f])' /\ \A q \in Runs : Taught(disk[q][f])'
    <3>1. bucket'[f] \in {bucket[f], disk[r][f]} /\ disk' = disk
          BY <2>0, <2>7, PushWrites
    <3> QED BY <2>1, <2>2, <3>1 DEF Taught
  <2>8. ASSUME UNCHANGED <<disk, bucket, late>>
        PROVE  Taught(bucket[f])' /\ \A q \in Runs : Taught(disk[q][f])'
        BY <2>1, <2>2, <2>8 DEF Taught
  <2> QED BY <2>3, <2>4, <2>5, <2>6, <2>7, <2>8, FilesUnmoved DEF MemoryNext, RunStep
<1> QED BY <1>1, <1>2 DEF PublishedTeach

\* No lesson and no scenario of a run whose forecast was not published is ever in the
\* memory, also by way of another run's copy (_commit_agent_state, push).
THEOREM MemoryTaughtByPublished == MemorySpec => []OnlyPublishedTeach
<1>1. MemoryInit => PublishedTeach
      BY FilesFacts DEF MemoryInit, PublishedTeach, Taught, Empty
<1>2. PublishedTeach => OnlyPublishedTeach
      BY DEF PublishedTeach, Taught, OnlyPublishedTeach
<1> QED BY <1>1, <1>2, PublishedTeachNext, MemoryTypeCorrect, PTL DEF MemorySpec

-----------------------------------------------------------------------------
(* What a push takes away.                                                  *)

\* The file that a run pulls or pushes is one, and it begins with the first.
FileInOrder ==
    \A r \in Runs :
        /\ pc[r] \in {"pull", "push", "pushFailed"} => file[r] \in 1..4
        /\ pc[r] \in {"idle", "score", "work", "publish", "fit", "commit"} => file[r] = 1

\* Who has asked for a file knows all that is in it, apart from what is late.
KnownOrLate ==
    \A r \in Runs, i \in 1..4 :
        Holds(r, i) => bucket[Files[i]] \subseteq disk[r][Files[i]] \cup late[r][Files[i]]

LEMMA FileInOrderNext ==
    ASSUME MemoryTypeOK, FileInOrder, [MemoryNext]_memoryVars
    PROVE  FileInOrder'
<1> USE DEF MemoryTypeOK, FileInOrder, Advance, Goto, worldVars, outcomeVars, Steps
<1>1. ASSUME NEW r \in Runs, PullFile(r) PROVE FileInOrder'
  <2>1. file[r] \in 1..4 /\ pc[r] = "pull"
        BY <1>1 DEF PullFile
  <2>2. CASE file[r] = 4
        BY <1>1, <2>1, <2>2, FilesFacts DEF PullFile
  <2>3. CASE file[r] # 4
        BY <1>1, <2>1, <2>3, FilesFacts DEF PullFile
  <2> QED BY <2>2, <2>3
<1>2. ASSUME NEW r \in Runs, PushFile(r) PROVE FileInOrder'
  <2>1. file[r] \in 1..4 /\ pc[r] \in {"push", "pushFailed"}
        BY <1>2 DEF PushFile
  <2>2. CASE file[r] = 4
        BY <1>2, <2>1, <2>2, FilesFacts DEF PushFile
  <2>3. CASE file[r] # 4
        BY <1>2, <2>1, <2>3, FilesFacts DEF PushFile
  <2> QED BY <2>2, <2>3
<1>3. ASSUME NEW r \in Runs, Start(r) \/ PullFails(r) \/ Score(r) \/ Stage(r) PROVE FileInOrder'
      BY <1>3 DEF Start, PullFails, Score, Stage
<1>4. ASSUME NEW r \in Runs, Raises(r) \/ Submits(r) \/ Incomplete(r) PROVE FileInOrder'
      BY <1>4 DEF Raises, Submits, Incomplete
<1>5. ASSUME NEW r \in Runs, Publish(r) \/ PublishFit(r) \/ Commit(r) PROVE FileInOrder'
      BY <1>5 DEF Publish, PublishFit, Commit
<1>6. ASSUME NEW r \in Runs, RecordFailure(r) \/ PublishFallback(r) \/ Dies(r) PROVE FileInOrder'
      BY <1>6 DEF RecordFailure, PublishFallback, Dies
<1>7. CASE (\E m \in Matches : Resolve(m)) \/ SetRunEnabled \/ UNCHANGED memoryVars
      BY <1>7 DEF Resolve, SetRunEnabled, memoryVars
<1> QED BY <1>1, <1>2, <1>3, <1>4, <1>5, <1>6, <1>7 DEF MemoryNext, RunStep

\* No step but a pull gives a run a file to hold.
LEMMA HoldsBefore ==
    ASSUME MemoryTypeOK, FileInOrder, [MemoryNext]_memoryVars, NEW q \in Runs, NEW i \in 1..4,
           Holds(q, i)'
    PROVE  \/ Holds(q, i)
           \/ PullFile(q) /\ file[q] = i
<1> USE DEF MemoryTypeOK, FileInOrder, Advance, Goto, worldVars, outcomeVars, Steps, Holds
<1>1. ASSUME NEW r \in Runs, PullFile(r) PROVE Holds(q, i) \/ (PullFile(q) /\ file[q] = i)
  <2>1. file[r] \in 1..4 /\ pc[r] = "pull"
        BY <1>1 DEF PullFile
  <2>2. CASE file[r] = 4
    <3>1. pc' = [pc EXCEPT ![r] = "score"] /\ file' = [file EXCEPT ![r] = 1]
          BY <1>1, <2>1, <2>2, FilesFacts DEF PullFile
    <3>2. CASE q = r
          BY <1>1, <2>1, <2>2, <3>2
    <3>3. CASE q # r
          BY <2>1, <3>1, <3>3
    <3> QED BY <3>2, <3>3
  <2>3. CASE file[r] # 4
    <3>1. pc' = [pc EXCEPT ![r] = "pull"] /\ file' = [file EXCEPT ![r] = @ + 1]
          BY <1>1, <2>1, <2>3, FilesFacts DEF PullFile
    <3>2. CASE q = r
          BY <1>1, <2>1, <3>1, <3>2
    <3>3. CASE q # r
          BY <2>1, <3>1, <3>3
    <3> QED BY <3>2, <3>3
  <2> QED BY <2>2, <2>3
<1>2. ASSUME NEW r \in Runs, PushFile(r) PROVE Holds(q, i)
  <2>1. file[r] \in 1..4 /\ pc[r] \in {"push", "pushFailed"}
        BY <1>2 DEF PushFile
  <2>2. CASE file[r] = 4
        BY <1>2, <2>1, <2>2, FilesFacts DEF PushFile
  <2>3. CASE file[r] # 4
        BY <1>2, <2>1, <2>3, FilesFacts DEF PushFile
  <2> QED BY <2>2, <2>3
<1>3. ASSUME NEW r \in Runs, Start(r) \/ PullFails(r) \/ Score(r) \/ Stage(r) PROVE Holds(q, i)
      BY <1>3 DEF Start, PullFails, Score, Stage
<1>4. ASSUME NEW r \in Runs, Raises(r) \/ Submits(r) \/ Incomplete(r) PROVE Holds(q, i)
      BY <1>4 DEF Raises, Submits, Incomplete
<1>5. ASSUME NEW r \in Runs, Publish(r) \/ PublishFit(r) \/ Commit(r) PROVE Holds(q, i)
      BY <1>5 DEF Publish, PublishFit, Commit
<1>6. ASSUME NEW r \in Runs, RecordFailure(r) \/ PublishFallback(r) \/ Dies(r) PROVE Holds(q, i)
      BY <1>6 DEF RecordFailure, PublishFallback, Dies
<1>7. CASE (\E m \in Matches : Resolve(m)) \/ SetRunEnabled \/ UNCHANGED memoryVars
      BY <1>7 DEF Resolve, SetRunEnabled, memoryVars
<1> QED BY <1>1, <1>2, <1>3, <1>4, <1>5, <1>6, <1>7 DEF MemoryNext, RunStep

LEMMA KnownOrLateNext ==
    ASSUME MemoryTypeOK, FileInOrder, KnownOrLate, [MemoryNext]_memoryVars
    PROVE  KnownOrLate'
<1> SUFFICES ASSUME NEW q \in Runs, NEW i \in 1..4, Holds(q, i)'
             PROVE  bucket'[Files[i]] \subseteq disk'[q][Files[i]] \cup late'[q][Files[i]]
      BY DEF KnownOrLate
<1> DEFINE f == Files[i]
<1>0. f \in FileNames
      BY FilesFacts
<1>1. CASE PullFile(q) /\ file[q] = i
      BY <1>0, <1>1, PullWrites
<1>2. CASE Holds(q, i) /\ ~(PullFile(q) /\ file[q] = i)
  <2>0. bucket[f] \subseteq disk[q][f] \cup late[q][f]
        BY <1>2 DEF KnownOrLate
  <2>1. ASSUME NEW r \in Runs, PullFile(r)
        PROVE  bucket'[f] \subseteq disk'[q][f] \cup late'[q][f]
    <3>1. disk'[q][f] = disk[q][f] /\ late'[q][f] = late[q][f] /\ bucket' = bucket
      <4>1. CASE q = r
        <5>1. file[q] \in 1..4
              BY <2>1, <4>1 DEF FileInOrder, PullFile
        <5>2. f # Files[file[q]]
              BY <1>2, <2>1, <4>1, <5>1, FilesFacts
        <5> QED BY <1>0, <2>1, <4>1, <5>2, PullWrites
      <4>2. CASE q # r
            BY <1>0, <2>1, <4>2, PullWrites
      <4> QED BY <4>1, <4>2
    <3> QED BY <2>0, <3>1
  <2>2. ASSUME NEW r \in Runs, Score(r)
        PROVE  bucket'[f] \subseteq disk'[q][f] \cup late'[q][f]
    <3>1. bucket' = bucket /\ late' = late
          BY <2>2 DEF Score
    <3>2. disk[q][f] \subseteq disk'[q][f]
          BY <1>0, <2>2, ScoreWrites
    <3> QED BY <2>0, <3>1, <3>2
  <2>3. ASSUME NEW r \in Runs, Submits(r) \/ Incomplete(r)
        PROVE  bucket'[f] \subseteq disk'[q][f] \cup late'[q][f]
    <3>1. bucket' = bucket /\ late' = late
          BY <2>3 DEF Submits, Incomplete
    <3>2. disk[q][f] \subseteq disk'[q][f]
          BY <1>0, <2>3, FeedbackWrites
    <3> QED BY <2>0, <3>1, <3>2
  <2>4. ASSUME NEW r \in Runs, Commit(r)
        PROVE  bucket'[f] \subseteq disk'[q][f] \cup late'[q][f]
    <3>1. bucket' = bucket /\ late' = late
          BY <2>4 DEF Commit
    <3>2. disk[q][f] \subseteq disk'[q][f]
          BY <1>0, <2>4, CommitWrites
    <3> QED BY <2>0, <3>1, <3>2
  <2>5. ASSUME NEW r \in Runs, PushFile(r)
        PROVE  bucket'[f] \subseteq disk'[q][f] \cup late'[q][f]
    <3>1. file[r] \in 1..4
          BY <2>5 DEF FileInOrder, PushFile
    <3>2. CASE file[r] # i
      <4>1. f # Files[file[r]]
            BY <3>1, <3>2, FilesFacts
      <4>2. bucket'[f] = bucket[f] /\ late'[q][f] = late[q][f]
        <5>1. /\ bucket'[f] = IF f = Files[file[r]] THEN disk[r][f] ELSE bucket[f]
              /\ late'[q][f] = IF q # r /\ Holds(q, file[r]) /\ f = Files[file[r]]
                               THEN late[q][f] \cup (disk[r][f] \ disk[q][f]) ELSE late[q][f]
              BY <1>0, <2>5, PushWrites
        <5> HIDE DEF f
        <5> QED BY <4>1, <5>1
      <4>3. disk' = disk
            BY <2>5 DEF PushFile
      <4> QED BY <2>0, <4>2, <4>3
    <3>3. CASE file[r] = i /\ q # r
      <4>1. /\ bucket'[f] = disk[r][f] /\ disk'[q] = disk[q]
            /\ late'[q][f] = late[q][f] \cup (disk[r][f] \ disk[q][f])
            BY <1>0, <1>2, <2>5, <3>3, PushWrites
      <4> QED BY <4>1
    <3>4. CASE file[r] = i /\ q = r
      <4>1. bucket'[f] = disk[q][f] /\ disk' = disk
            BY <1>0, <2>5, <3>4, PushWrites
      <4> QED BY <4>1
    <3> QED BY <3>2, <3>3, <3>4
  <2>6. ASSUME UNCHANGED <<disk, bucket, late>>
        PROVE  bucket'[f] \subseteq disk'[q][f] \cup late'[q][f]
        BY <2>0, <2>6
  <2> QED BY <2>1, <2>2, <2>3, <2>4, <2>5, <2>6, FilesUnmoved DEF MemoryNext, RunStep
<1> QED BY <1>1, <1>2, HoldsBefore

\* The files in the bucket grow, but where a run pushes a file that another put while it ran.
THEOREM MemoryIsKept == MemorySpec => MemoryKept
<1> DEFINE Known == MemoryTypeOK /\ FileInOrder /\ KnownOrLate
<1>1. MemoryInit => FileInOrder /\ KnownOrLate
      BY FilesFacts DEF MemoryInit, FileInOrder, KnownOrLate, Holds, Empty
<1>2. ASSUME MemoryTypeOK, FileInOrder, KnownOrLate, [MemoryNext]_memoryVars,
             NEW i \in DOMAIN Files, NEW e \in bucket[Files[i]] \ bucket'[Files[i]]
      PROVE  \E r \in Runs : /\ pc[r] \in {"push", "pushFailed"} /\ file[r] = i
                             /\ e \in late[r][Files[i]]
  <2>1. i \in 1..4 /\ Files[i] \in FileNames
        BY FilesFacts
  <2>2. PICK r \in Runs : PushFile(r)
    <3>1. ASSUME NEW r \in Runs,
                 PullFile(r) \/ Score(r) \/ Submits(r) \/ Incomplete(r) \/ Commit(r)
          PROVE  bucket' = bucket
          BY <3>1 DEF PullFile, Score, Submits, Incomplete, Commit
    <3> QED BY <1>2, <3>1, FilesUnmoved DEF MemoryNext, RunStep
  <2>3. file[r] \in 1..4 /\ pc[r] \in {"push", "pushFailed"}
        BY <1>2, <2>2 DEF FileInOrder, PushFile
  <2>7. bucket'[Files[i]] =
            IF Files[i] = Files[file[r]] THEN disk[r][Files[i]] ELSE bucket[Files[i]]
        BY <1>2, <2>1, <2>2, PushWrites
  <2>8. Files[i] = Files[file[r]] /\ e \notin disk[r][Files[i]]
        BY <1>2, <2>7
  <2>4. file[r] = i /\ e \notin disk[r][Files[i]]
        BY <2>1, <2>3, <2>8, FilesFacts
  <2>5. Holds(r, i)
        BY <2>3, <2>4 DEF Holds
  <2>6. e \in late[r][Files[i]]
        BY <1>2, <2>1, <2>4, <2>5 DEF KnownOrLate
  <2> QED BY <2>3, <2>4, <2>6
<1>3. MemoryTypeOK /\ FileInOrder /\ KnownOrLate /\ [MemoryNext]_memoryVars
        => FileInOrder' /\ KnownOrLate'
      BY FileInOrderNext, KnownOrLateNext
<1>4. MemoryTypeOK /\ FileInOrder /\ KnownOrLate /\ [MemoryNext]_memoryVars
        => [\A i \in DOMAIN Files : \A e \in bucket[Files[i]] \ bucket'[Files[i]] :
              \E r \in Runs : /\ pc[r] \in {"push", "pushFailed"} /\ file[r] = i
                              /\ e \in late[r][Files[i]]]_memoryVars
      BY <1>2
<1> QED BY <1>1, <1>3, <1>4, MemoryTypeCorrect, PTL DEF MemorySpec, MemoryKept

-----------------------------------------------------------------------------
(* Research.                                                                *)

-----------------------------------------------------------------------------
(* What tidying an answer keeps.                                             *)

\* The items an answer's receipts point at.
Pointed(answer) ==
    {answer.evidence[i] : i \in answer.evidence_indices \cap DOMAIN answer.evidence}

\* An answer with other evidence and other receipts is an answer.
LEMMA Amended ==
    ASSUME NEW E, NEW I, NEW B, NEW list \in E, NEW receipts \in I,
           NEW answer \in [evidence : E, evidence_indices : I, sound : B]
    PROVE  [evidence |-> list, evidence_indices |-> receipts, sound |-> answer.sound]
               \in [evidence : E, evidence_indices : I, sound : B]
OBVIOUS

\* Taking items away takes away the receipts of those items and moves no other.
LEMMA WithoutFacts ==
    ASSUME NEW answer \in Answers, NEW gone
    PROVE  /\ Without(answer, gone) \in Answers
           /\ Pointed(Without(answer, gone)) =
                 {answer.evidence[i] :
                     i \in (answer.evidence_indices \cap DOMAIN answer.evidence) \ gone}
<1>1. CASE gone = {}
      BY <1>1 DEF Without, Pointed
<1>2. CASE gone # {}
  <2> DEFINE list == answer.evidence
             kept == DOMAIN list \ gone
             after == Without(answer, gone)
             pointed == answer.evidence_indices \cap kept
  <2>1. list \in Seq(Items) /\ answer.evidence_indices \in SUBSET Nat
        BY DEF Answers
  <2>2. /\ Kept(list, kept) \in Seq(Items) /\ Cardinality(kept) \in Nat
        /\ DOMAIN Kept(list, kept) = 1..Cardinality(kept)
        /\ \A i \in kept : /\ Place(kept, i) \in DOMAIN Kept(list, kept)
                           /\ Kept(list, kept)[Place(kept, i)] = list[i]
    <3>1. kept \in SUBSET DOMAIN list
          OBVIOUS
    <3> HIDE DEF list, kept
    <3> QED BY <2>1, <3>1, KeptFacts
  <2> DEFINE receipts == {Place(kept, i) : i \in pointed}
  <2>3. after = [evidence |-> Kept(list, kept), evidence_indices |-> receipts,
                 sound |-> answer.sound]
        BY <1>2 DEF Without
  <2>4. receipts \subseteq DOMAIN Kept(list, kept) /\ receipts \in SUBSET Nat
    <3>1. pointed \subseteq kept
          OBVIOUS
    <3> HIDE DEF kept, pointed, list
    <3>2. receipts \subseteq DOMAIN Kept(list, kept)
          BY <2>2, <3>1
    <3>3. DOMAIN Kept(list, kept) \subseteq Nat
          BY <2>2
    <3> HIDE DEF receipts
    <3> QED BY <3>2, <3>3
  <2>5. answer \in [evidence : Seq(Items), evidence_indices : SUBSET Nat, sound : BOOLEAN]
        BY DEF Answers
  <2> HIDE DEF receipts
  <2>6. /\ after \in Answers
        /\ after.evidence = Kept(list, kept) /\ after.evidence_indices = receipts
        BY <2>2, <2>3, <2>4, <2>5, Amended DEF Answers
  <2>7. Pointed(after) = {Kept(list, kept)[Place(kept, i)] : i \in pointed}
        BY <2>4, <2>6 DEF Pointed, receipts
  <2>8. \A i \in pointed : Kept(list, kept)[Place(kept, i)] = list[i]
        BY <2>2
  <2>9. Pointed(after) = {list[i] : i \in pointed}
        BY <2>7, <2>8
  <2> QED BY <2>6, <2>9
<1> QED BY <1>1, <1>2

\* Tidying takes results that were never played from under an answer's receipts, and nothing
\* else: a snippet that no slot was left for stays if a branch points at it.
LEMMA TidiedFacts ==
    ASSUME NEW n \in Nodes, NEW draft \in Answers
    PROVE  /\ Tidied(n, draft) \in Answers
           /\ Pointed(Tidied(n, draft)) = {item \in Pointed(draft) : ~item.unplayed}
<1> DEFINE fetchable == Without(draft, Demotable(n, draft))
<1>1. fetchable \in Answers /\ Pointed(fetchable) = Pointed(draft)
  <2>1. draft.evidence_indices \cap Demotable(n, draft) = {}
        BY DEF Demotable
  <2> QED BY <2>1, WithoutFacts DEF Pointed
<1> HIDE DEF fetchable
<1>2. Pointed(Without(fetchable, Unplayed(fetchable))) =
          {item \in Pointed(fetchable) : ~item.unplayed}
  <2> DEFINE list == fetchable.evidence
             pointed == fetchable.evidence_indices \cap DOMAIN list
  <2>1. Pointed(Without(fetchable, Unplayed(fetchable))) =
            {list[i] : i \in pointed \ Unplayed(fetchable)}
        BY <1>1, WithoutFacts
  <2>2. \A i \in pointed : i \in Unplayed(fetchable) <=> list[i].unplayed
        BY DEF Unplayed
  <2>3. Pointed(fetchable) = {list[i] : i \in pointed}
        BY DEF Pointed
  <2> HIDE DEF list, pointed
  <2> QED BY <2>1, <2>2, <2>3
<1>3. Without(fetchable, Unplayed(fetchable)) \in Answers
      BY <1>1, WithoutFacts
<1>4. Tidied(n, draft) = Without(fetchable, Unplayed(fetchable))
      BY DEF Tidied, fetchable
<1> QED BY <1>1, <1>2, <1>3, <1>4

\* An answer that is accepted points at items it has.
LEMMA NoIssuesPoints ==
    ASSUME NEW answer, ~HasIssues(answer)
    PROVE  answer.evidence_indices \subseteq DOMAIN answer.evidence
BY DEF HasIssues

-----------------------------------------------------------------------------
(* The types.                                                                *)

NodesTyped ==
    /\ status \in [Nodes -> {"running", "ok", "failed"}]
    /\ odds \in [Nodes -> {"idle", "queued"} \cup Holding]
    /\ searched \in [Nodes -> Nat] /\ fetched \in [Nodes -> Nat] /\ sentBack \in [Nodes -> Nat]
    /\ fetching \in [Nodes -> SUBSET Urls]

PagesTyped == seen \in [Urls -> Records] /\ cached \subseteq Urls /\ read \subseteq Urls

\* Receipts that are kept are positions of evidence.
AnswersTyped ==
    /\ written \in [Nodes -> Answers] /\ artifact \in [Nodes -> Answers]
    /\ \A n \in Nodes : artifact[n].evidence_indices \subseteq DOMAIN artifact[n].evidence

BoardTyped ==
    /\ ledger \in Seq(Items) /\ merged \in 0..Len(Order)
    /\ sources \in [Nodes -> SUBSET Nat]

ResearchTyped == NodesTyped /\ PagesTyped /\ AnswersTyped /\ BoardTyped

LEMMA NoAnswerType == NoAnswer \in Answers /\ NoAnswer.evidence_indices = {}
<1>1. <<>> \in Seq(Items) /\ {} \in SUBSET Nat
      OBVIOUS
<1>2. TRUE \in BOOLEAN
      OBVIOUS
<1>3. ASSUME NEW E, NEW I, NEW B, NEW list \in E, NEW receipts \in I, NEW sound \in B
      PROVE  [evidence |-> list, evidence_indices |-> receipts, sound |-> sound]
                 \in [evidence : E, evidence_indices : I, sound : B]
      OBVIOUS
<1>4. NoAnswer \in Answers
      BY Zenon, <1>1, <1>2, <1>3 DEF NoAnswer, Answers
<1>5. NoAnswer.evidence_indices = {}
      BY DEF NoAnswer
<1> QED BY <1>4, <1>5

LEMMA OrderFacts ==
    /\ Len(Order) \in Nat /\ DOMAIN Order = 1..Len(Order)
    /\ \A k \in 1..Len(Order) : Order[k] \in Nodes
BY ResearchAssumption

LEMMA InitTyped == Init => ResearchTyped
<1> SUFFICES ASSUME Init PROVE ResearchTyped
    OBVIOUS
<1>1. NodesTyped
      BY DEF Init, NodesTyped
<1>2. PagesTyped
      BY ResearchAssumption DEF Init, PagesTyped
<1>3. AnswersTyped
      BY NoAnswerType DEF Init, AnswersTyped
<1>4. BoardTyped
      BY OrderFacts DEF Init, BoardTyped
<1> QED BY <1>1, <1>2, <1>3, <1>4 DEF ResearchTyped

LEMMA RecordedType ==
    ASSUME seen \in [Urls -> Records], NEW pages, NEW disposition \in {"ranked", "fetched", "empty"}
    PROVE  Recorded(pages, disposition) \in [Urls -> Records]
<1>1. ASSUME NEW u \in Urls
      PROVE  MergedDisposition(seen[u], disposition) \in {"ranked", "fetched", "empty"}
      BY DEF MergedDisposition
<1> QED BY <1>1 DEF Recorded, Records

LEMMA PagesNext ==
    ASSUME ResearchTyped, Next
    PROVE  PagesTyped'
<1> USE DEF ResearchTyped, PagesTyped
<1>1. CASE UNCHANGED memory
      BY <1>1 DEF memory
<1>2. ASSUME NEW n \in Nodes, NEW pages \in SUBSET Urls, Rank(n, pages)
      PROVE  PagesTyped'
      BY <1>2, RecordedType DEF Rank
<1>3. \A u \in Urls : Addresses(u) \subseteq Urls
      BY ResearchAssumption DEF Addresses
<1>4. ASSUME NEW n \in Nodes, NEW u \in Urls, NEW refresh \in BOOLEAN, Fetch(n, u, refresh)
      PROVE  PagesTyped'
      BY <1>1, <1>3, <1>4, RecordedType DEF Fetch
<1>5. ASSUME NEW n \in Nodes, NEW u \in Urls, PageArrives(n, u)
      PROVE  PagesTyped'
      BY <1>1, <1>3, <1>5, RecordedType DEF PageArrives
<1> QED BY <1>1, <1>2, <1>4, <1>5
        DEF Next, ToolCall, Search, AskOdds, LockMarket, OddsArrive, PricesArrive, Answer, NodeFails, Merge, memory

LEMMA NodesNext ==
    ASSUME ResearchTyped, Next
    PROVE  NodesTyped'
<1> USE DEF ResearchTyped, NodesTyped
<1>1. ASSUME NEW n \in Nodes, ToolCall(n)
      PROVE  NodesTyped'
  <2>1. CASE Search(n)
        BY <2>1 DEF Search, desk, market
  <2>2. CASE \E pages \in SUBSET Urls \ {{}} : Rank(n, pages)
        BY <2>2 DEF Rank, desk, gate, market
  <2>3. CASE \E u \in Urls, refresh \in BOOLEAN : Fetch(n, u, refresh)
        BY <2>3 DEF Fetch, desk, market
  <2>4. CASE \E u \in Urls : PageArrives(n, u)
        BY <2>4 DEF PageArrives, desk, gate, market
  <2>5. CASE AskOdds(n)
        BY <2>5 DEF AskOdds, desk, gate
  <2>6. CASE LockMarket(n)
        BY <2>6 DEF LockMarket, Holding, desk, gate
  <2>7. CASE OddsArrive(n)
        BY <2>7 DEF OddsArrive, Holding, desk, gate
  <2>8. CASE PricesArrive(n)
        BY <2>8 DEF PricesArrive, desk, gate
  <2> QED BY <1>1, <2>1, <2>2, <2>3, <2>4, <2>5, <2>6, <2>7, <2>8 DEF ToolCall
<1>2. ASSUME NEW n \in Nodes, NEW draft \in Drafts, Answer(n, draft)
      PROVE  NodesTyped'
      BY <1>2 DEF Answer, gate, market
<1>3. ASSUME NEW n \in Nodes, NodeFails(n)
      PROVE  NodesTyped'
      BY <1>3 DEF NodeFails, gate
<1>4. CASE Merge
      BY <1>4 DEF Merge, gate, market
<1> QED BY <1>1, <1>2, <1>3, <1>4 DEF Next

-----------------------------------------------------------------------------
(* What a merge puts into the ledger.                                        *)

\* Taking an item down changes neither its claim nor its source, nor whether it was played.
LEMMA DemotedFacts ==
    ASSUME NEW item \in Items
    PROVE  /\ Demoted(item) \in Items /\ Key(Demoted(item)) = Key(item)
           /\ Demoted(item).source_url = item.source_url
           /\ Demoted(item).unplayed = item.unplayed
           /\ Demoted(item).confirmed => BackedBy(item.source_url)
<1> DEFINE C == STRING
           U == Urls \cup {Internal}
           B == BOOLEAN
           backed == item.confirmed /\ BackedBy(item.source_url)
<1>2. backed \in B
      OBVIOUS
<1>x. backed => BackedBy(item.source_url)
      OBVIOUS
<1>3. Demoted(item) = [claim |-> item.claim, source_url |-> item.source_url,
                       confirmed |-> backed, unplayed |-> item.unplayed]
      BY DEF Demoted
<1>4. Items = [claim : C, source_url : U, confirmed : B, unplayed : B]
      BY Zenon DEF Items
<1> HIDE DEF C, U, B, backed
<1>5. item \in [claim : C, source_url : U, confirmed : B, unplayed : B]
      BY <1>4
<1>6. /\ Demoted(item) \in [claim : C, source_url : U, confirmed : B, unplayed : B]
      /\ Demoted(item).claim = item.claim /\ Demoted(item).source_url = item.source_url
      /\ Demoted(item).confirmed = backed /\ Demoted(item).unplayed = item.unplayed
  <2>1. ASSUME NEW b \in B, NEW d,
               d = [claim |-> item.claim, source_url |-> item.source_url, confirmed |-> b,
                    unplayed |-> item.unplayed]
        PROVE  /\ d \in [claim : C, source_url : U, confirmed : B, unplayed : B]
               /\ d.claim = item.claim /\ d.source_url = item.source_url /\ d.confirmed = b
               /\ d.unplayed = item.unplayed
        BY <1>5, <2>1
  <2> QED BY Zenon, <1>2, <1>3, <2>1
<1>7. Key(Demoted(item)) = Key(item)
      BY Zenon, <1>6 DEF Key
<1>8. Demoted(item).confirmed => BackedBy(item.source_url)
      BY Zenon, <1>x, <1>6
<1> QED BY Zenon, <1>4, <1>6, <1>7, <1>8

\* The item of a claim that opens its entry: the first of that claim and source.
LEMMA OpeningFacts ==
    ASSUME NEW items \in Seq(Items), NEW i \in DOMAIN items,
           \A e \in DOMAIN ledger : Key(ledger[e]) # Key(items[i])
    PROVE  \E o \in Opening(items) : Key(items[o]) = Key(items[i])
<1> DEFINE alike == {j \in DOMAIN items : Key(items[j]) = Key(items[i])}
<1>1. DOMAIN items = 1..Len(items) /\ Len(items) \in Nat
      OBVIOUS
<1>2. alike \in SUBSET Nat /\ alike # {}
      BY <1>1
<1>3. PICK o \in alike : \A j \in alike : o <= j
  <2> HIDE DEF alike
  <2>1. \E o \in alike : \A j \in alike : o <= j
        BY <1>2, LeastNatural
  <2> QED BY <2>1
<1>4. \A j \in 1 .. o - 1 : j \in DOMAIN items /\ ~(o <= j)
      BY <1>1
<1>5. \A j \in 1 .. o - 1 : Key(items[j]) # Key(items[o])
      BY <1>3, <1>4
<1>6. o \in Opening(items)
      BY <1>5 DEF Opening
<1> QED BY <1>6

\* The artifact's items keep their number, their claims and their sources.
LEMMA EnteredFacts ==
    ASSUME NEW items \in Seq(Items)
    PROVE  /\ Entered(items) \in Seq(Items) /\ DOMAIN Entered(items) = DOMAIN items
           /\ \A i \in DOMAIN items :
                 /\ Key(Entered(items)[i]) = Key(items[i])
                 /\ i \in Opening(items) => Entered(items)[i] = Demoted(items[i])
<1>1. DOMAIN items = 1..Len(items) /\ Len(items) \in Nat
      OBVIOUS
<1>2. \A i \in DOMAIN items : items[i] \in Items
      BY <1>1
<1>3. ASSUME NEW i \in DOMAIN items
      PROVE  /\ Entered(items)[i] \in Items /\ Key(Entered(items)[i]) = Key(items[i])
             /\ i \in Opening(items) => Entered(items)[i] = Demoted(items[i])
  <2>1. Entered(items)[i] = IF i \in Opening(items) THEN Demoted(items[i]) ELSE items[i]
        BY DEF Entered
  <2> QED BY <1>2, <2>1, DemotedFacts
<1>4. DOMAIN Entered(items) = DOMAIN items
      BY DEF Entered
<1>5. Entered(items) \in [1..Len(items) -> Items]
      BY <1>1, <1>3 DEF Entered
<1> QED BY <1>1, <1>3, <1>4, <1>5

\* The ledger after a merge: what was there stays where it was, what is new was entered,
\* and each item has its entry.
LEMMA LedgerFacts ==
    ASSUME ledger \in Seq(Items), NEW items \in Seq(Items), NEW after,
           after = ledger \o Kept(Entered(items), Opening(items))
    PROVE  /\ after \in Seq(Items) /\ DOMAIN ledger \subseteq DOMAIN after
           /\ \A e \in DOMAIN ledger : after[e] = ledger[e]
           /\ \A e \in DOMAIN after \ DOMAIN ledger :
                 after[e].confirmed => BackedBy(after[e].source_url)
           /\ \A i \in DOMAIN items : /\ EntryOf(after, items[i]) \in DOMAIN after
                                      /\ Key(after[EntryOf(after, items[i])]) = Key(items[i])
<1> DEFINE opening == Opening(items)
           new == Kept(Entered(items), opening)
<1>1. /\ Entered(items) \in Seq(Items) /\ opening \in SUBSET DOMAIN Entered(items)
      /\ \A i \in opening : /\ i \in DOMAIN items /\ Entered(items)[i] = Demoted(items[i])
                            /\ Key(Entered(items)[i]) = Key(items[i]) /\ items[i] \in Items
      BY EnteredFacts DEF Opening
<1>2. after = ledger \o new
      OBVIOUS
<1> HIDE DEF opening
<1>3. /\ new \in Seq(Items)
      /\ \A i \in opening : \E p \in DOMAIN new : new[p] = Entered(items)[i]
      /\ \A p \in DOMAIN new : \E i \in opening : new[p] = Entered(items)[i]
      BY <1>1, KeptFacts
<1> HIDE DEF new
<1>4. /\ after \in Seq(Items)
      /\ \A e \in DOMAIN ledger : e \in DOMAIN after /\ after[e] = ledger[e]
      /\ \A p \in DOMAIN new : \E e \in DOMAIN after : after[e] = new[p]
      /\ \A e \in DOMAIN after : e \in DOMAIN ledger \/ \E p \in DOMAIN new : after[e] = new[p]
  <2>1. new \in Seq(Items)
        BY <1>3
  <2>2. after \in Seq(Items)
        BY <1>2, <2>1, Followed
  <2>3. \A e \in DOMAIN ledger : e \in DOMAIN after /\ after[e] = ledger[e]
        BY <1>2, <2>1, Followed
  <2>4. \A p \in DOMAIN new : Len(ledger) + p \in DOMAIN after /\ after[Len(ledger) + p] = new[p]
        BY <1>2, <2>1, Followed
  <2>5. \A e \in DOMAIN after : e \notin DOMAIN ledger =>
           e - Len(ledger) \in DOMAIN new /\ after[e] = new[e - Len(ledger)]
        BY <1>2, <2>1, Followed
  <2> QED BY <2>2, <2>3, <2>4, <2>5
<1>6. ASSUME NEW e \in DOMAIN after \ DOMAIN ledger
      PROVE  after[e].confirmed => BackedBy(after[e].source_url)
  <2>1. PICK p \in DOMAIN new : after[e] = new[p]
        BY <1>4
  <2>2. PICK i \in opening : new[p] = Entered(items)[i]
        BY <1>3, <2>1
  <2>3. after[e] = Demoted(items[i]) /\ items[i] \in Items
        BY <1>1, <2>1, <2>2
  <2>4. /\ Demoted(items[i]).source_url = items[i].source_url
        /\ Demoted(items[i]).confirmed => BackedBy(items[i].source_url)
        BY <2>3, DemotedFacts
  <2> QED BY Zenon, <2>3, <2>4
<1>7. ASSUME NEW i \in DOMAIN items
      PROVE  \E e \in DOMAIN after : Key(after[e]) = Key(items[i])
  <2>1. CASE \E e \in DOMAIN ledger : Key(ledger[e]) = Key(items[i])
        BY Zenon, <1>4, <2>1
  <2>2. CASE \A e \in DOMAIN ledger : Key(ledger[e]) # Key(items[i])
    <3>1. PICK o \in opening : Key(items[o]) = Key(items[i])
          BY <2>2, OpeningFacts DEF opening
    <3>2. PICK p \in DOMAIN new : new[p] = Entered(items)[o]
          BY <1>3
    <3>3. PICK e \in DOMAIN after : after[e] = new[p]
          BY <1>4
    <3>4. Key(after[e]) = Key(items[i])
          BY Zenon, <1>1, <3>1, <3>2, <3>3
    <3> QED BY <3>4
  <2> QED BY <2>1, <2>2
<1>8. \A i \in DOMAIN items : /\ EntryOf(after, items[i]) \in DOMAIN after
                              /\ Key(after[EntryOf(after, items[i])]) = Key(items[i])
      BY <1>7 DEF EntryOf
<1> QED BY <1>4, <1>6, <1>8

-----------------------------------------------------------------------------
(* The types of the answers and of the board.                                *)

\* An answer with other evidence is an answer, with the receipts it had.
LEMMA Replaced ==
    ASSUME NEW E, NEW I, NEW B, NEW list \in E, NEW old \in [evidence : E, evidence_indices : I, sound : B],
           NEW answer, answer = [old EXCEPT !.evidence = list]
    PROVE  /\ answer \in [evidence : E, evidence_indices : I, sound : B]
           /\ answer.evidence = list /\ answer.evidence_indices = old.evidence_indices
OBVIOUS

\* What a merge does to the answers: it enters the items of one node's artifact.
LEMMA MergedAnswers ==
    ASSUME ResearchTyped, Merge, NEW n \in Nodes, n = Order[merged + 1]
    PROVE  /\ artifact' \in [Nodes -> Answers]
           /\ \A m \in Nodes \ {n} : artifact'[m] = artifact[m]
           /\ artifact'[n].evidence = Entered(artifact[n].evidence)
           /\ artifact'[n].evidence_indices = artifact[n].evidence_indices
           /\ artifact[n].evidence \in Seq(Items) /\ Entered(artifact[n].evidence) \in Seq(Items)
<1> DEFINE list == Entered(artifact[n].evidence)
           answer == [artifact[n] EXCEPT !.evidence = list]
<1>1. artifact \in [Nodes -> Answers] /\ artifact[n] \in Answers
      BY DEF ResearchTyped, AnswersTyped
<1>2. artifact[n].evidence \in Seq(Items)
      BY <1>1 DEF Answers
<1>3. list \in Seq(Items)
      BY <1>2, EnteredFacts
<1>4. artifact' = [artifact EXCEPT ![n] = answer]
      BY DEF Merge
<1> HIDE DEF list
<1>5. /\ answer \in Answers
      /\ answer.evidence = list /\ answer.evidence_indices = artifact[n].evidence_indices
  <2>1. artifact[n] \in [evidence : Seq(Items), evidence_indices : SUBSET Nat, sound : BOOLEAN]
        BY <1>1 DEF Answers
  <2> QED BY <1>3, <2>1, Replaced DEF Answers
<1> HIDE DEF answer
<1> QED BY <1>1, <1>2, <1>3, <1>4, <1>5 DEF list

LEMMA AnswersNext ==
    ASSUME ResearchTyped, Next
    PROVE  AnswersTyped'
<1> USE DEF AnswersTyped
<1>1. CASE UNCHANGED <<written, artifact>>
      BY <1>1 DEF ResearchTyped
<1>2. ASSUME NEW n \in Nodes, NEW draft \in Drafts, Answer(n, draft)
      PROVE  AnswersTyped'
  <2>1. draft \in Answers /\ Tidied(n, draft) \in Answers
        BY ResearchAssumption, TidiedFacts
  <2>2. CASE UNCHANGED <<written, artifact>>
        BY <1>1, <2>2
  <2>3. CASE /\ ~HasIssues(Tidied(n, draft))
             /\ written' = [written EXCEPT ![n] = draft]
             /\ artifact' = [artifact EXCEPT ![n] = Tidied(n, draft)]
        BY <2>1, <2>3, NoIssuesPoints DEF ResearchTyped
  <2> QED BY <1>2, <2>2, <2>3 DEF Answer
<1>3. CASE Merge
  <2>1. Order[merged + 1] \in Nodes
        BY <1>3, OrderFacts DEF Merge, ResearchTyped, BoardTyped
  <2> DEFINE n == Order[merged + 1]
             items == artifact[n].evidence
  <2>2. /\ artifact' \in [Nodes -> Answers]
        /\ \A m \in Nodes \ {n} : artifact'[m] = artifact[m]
        /\ artifact'[n].evidence = Entered(items)
        /\ artifact'[n].evidence_indices = artifact[n].evidence_indices
        /\ items \in Seq(Items)
        BY <1>3, <2>1, MergedAnswers
  <2>3. DOMAIN artifact'[n].evidence = DOMAIN items
        BY <2>2, EnteredFacts
  <2>4. written' = written
        BY <1>3 DEF Merge
  <2> HIDE DEF n
  <2> QED BY <2>1, <2>2, <2>3, <2>4 DEF ResearchTyped
<1> QED BY <1>1, <1>2, <1>3
        DEF Next, ToolCall, Search, Rank, Fetch, PageArrives, AskOdds, LockMarket, OddsArrive, PricesArrive,
            NodeFails, desk

LEMMA BoardNext ==
    ASSUME ResearchTyped, Next
    PROVE  BoardTyped'
<1>1. CASE UNCHANGED board
      BY <1>1 DEF ResearchTyped, BoardTyped, board
<1>2. CASE Merge
  <2> DEFINE n == Order[merged + 1]
             items == artifact[n].evidence
  <2>1. n \in Nodes /\ merged' \in 0..Len(Order)
        BY <1>2, OrderFacts DEF Merge, ResearchTyped, BoardTyped
  <2>2. items \in Seq(Items)
        BY <1>2, <2>1, MergedAnswers
  <2>3. ledger' = ledger \o Kept(Entered(items), Opening(items)) /\ ledger \in Seq(Items)
        BY <1>2 DEF Merge, ResearchTyped, BoardTyped
  <2>4. sources' = [sources EXCEPT ![n] =
                       {EntryOf(ledger', items[i]) : i \in artifact[n].evidence_indices}]
        BY <1>2 DEF Merge
  <2> DEFINE entries == {EntryOf(ledger', items[i]) : i \in artifact[n].evidence_indices}
  <2>5. /\ ledger' \in Seq(Items)
        /\ \A i \in DOMAIN items : EntryOf(ledger', items[i]) \in DOMAIN ledger'
        BY <2>2, <2>3, LedgerFacts
  <2>6. artifact[n].evidence_indices \subseteq DOMAIN items
        BY <2>1 DEF ResearchTyped, AnswersTyped
  <2>7. entries \in SUBSET Nat
    <3>1. DOMAIN ledger' \subseteq Nat
          BY <2>5
    <3> HIDE DEF n, items
    <3> QED BY <2>5, <2>6, <3>1
  <2> HIDE DEF n, entries
  <2> QED BY <2>1, <2>4, <2>5, <2>7 DEF ResearchTyped, BoardTyped, entries
<1> QED BY <1>1, <1>2
        DEF Next, ToolCall, Search, Rank, Fetch, PageArrives, AskOdds, LockMarket, OddsArrive, PricesArrive,
            Answer, NodeFails

LEMMA TypedNext == ResearchTyped /\ [Next]_vars => ResearchTyped'
<1> SUFFICES ASSUME ResearchTyped, [Next]_vars PROVE ResearchTyped'
    OBVIOUS
<1>1. CASE Next
      BY <1>1, NodesNext, PagesNext, AnswersNext, BoardNext DEF ResearchTyped
<1>2. CASE UNCHANGED vars
      BY <1>2 DEF vars, desk, gate, market, memory, board, ResearchTyped, NodesTyped,
                  PagesTyped, AnswersTyped, BoardTyped
<1> QED BY <1>1, <1>2

\* Every state of a wave is well typed, and the receipts it keeps are positions of evidence.
THEOREM ResearchTypeCorrect == Spec => []ResearchTyped
BY InitTyped, TypedNext, PTL DEF Spec

-----------------------------------------------------------------------------
(* One purchase of odds.                                                     *)

\* Whoever holds the lock holds it alone and found the cache empty; what was paid for is in the
\* hands of the call that waits for Polymarket, or in the cache.  The lock alone would let the
\* next in the queue buy again.
OddsInv ==
    /\ priced \in BOOLEAN /\ paid \in {0, 1}
    /\ \A n \in Nodes : odds[n] \in Holding => ~priced
    /\ \A m, n \in Nodes : odds[m] \in Holding /\ odds[n] \in Holding => m = n
    /\ \A n \in Nodes : odds[n] = "pricing" => paid = 1
    /\ ~priced /\ (\A n \in Nodes : odds[n] # "pricing") => paid = 0

LEMMA OddsNext == ResearchTyped /\ OddsInv /\ [Next]_vars => OddsInv'
<1> SUFFICES ASSUME ResearchTyped, OddsInv, [Next]_vars PROVE OddsInv'
    OBVIOUS
<1> USE DEF OddsInv, Holding
<1>1. CASE UNCHANGED market
      BY <1>1 DEF market
<1>2. odds \in [Nodes -> {"idle", "queued"} \cup Holding]
      BY DEF ResearchTyped, NodesTyped
<1>3. ASSUME NEW n \in Nodes, AskOdds(n)
      PROVE  OddsInv'
      BY <1>2, <1>3 DEF AskOdds
<1>4. ASSUME NEW n \in Nodes, LockMarket(n)
      PROVE  OddsInv'
  <2>1. PICK next \in {"buying", "idle"} : /\ odds' = [odds EXCEPT ![n] = next]
                                           /\ next = "buying" => ~priced
        BY <1>4 DEF LockMarket
  <2>2. priced' = priced /\ paid' = paid /\ \A m \in Nodes : odds[m] \notin Holding
        BY <1>4 DEF LockMarket, Locked
  <2>3. \A m \in Nodes : odds'[m] # "pricing" /\ (odds'[m] \in Holding => m = n /\ ~priced)
        BY <1>2, <2>1, <2>2
  <2> QED BY <2>2, <2>3
<1>5. ASSUME NEW n \in Nodes, OddsArrive(n)
      PROVE  OddsInv'
  <2>1. /\ ~priced /\ priced' = priced /\ paid = 0
        /\ \A m \in Nodes : odds[m] \in Holding => m = n
        BY <1>5 DEF OddsArrive
  <2>2. PICK next \in {"pricing", "degraded", "idle"} :
            odds' = [odds EXCEPT ![n] = next] /\ paid' = IF next = "pricing" THEN 1 ELSE 0
        BY <1>5, <2>1 DEF OddsArrive
  <2>3. /\ odds'[n] = next
        /\ \A m \in Nodes : odds'[m] \in Holding => m = n
        BY <1>2, <2>1, <2>2
  <2> QED BY <2>1, <2>2, <2>3
<1>6. ASSUME NEW n \in Nodes, odds' = [odds EXCEPT ![n] = "idle"], priced' = priced, paid' = paid - Lost(n)
      PROVE  OddsInv'
  <2>1. \A m \in Nodes : odds'[m] = IF m = n THEN "idle" ELSE odds[m]
        BY <1>2, <1>6
  <2>2. CASE odds[n] = "pricing"
        BY <1>6, <2>1, <2>2 DEF Lost
  <2>3. CASE odds[n] # "pricing"
    <3>1. paid' = paid
          BY <1>6, <2>3 DEF Lost
    <3>2. \A m \in Nodes : odds'[m] = "pricing" <=> odds[m] = "pricing"
          BY <2>1, <2>3
    <3> QED BY <1>6, <2>1, <3>1, <3>2
  <2> QED BY <2>2, <2>3
<1>7. ASSUME NEW n \in Nodes, PricesArrive(n)
      PROVE  OddsInv'
  <2>1. CASE priced' = TRUE /\ paid' = paid
    <3>1. \A m \in Nodes : odds'[m] \notin Holding
          BY <1>2, <1>7 DEF PricesArrive
    <3> QED BY <2>1, <3>1
  <2>2. CASE priced' = priced /\ paid' = paid - Lost(n)
        BY <1>6, <1>7, <2>2 DEF PricesArrive
  <2> QED BY <1>7, <2>1, <2>2 DEF PricesArrive
<1>8. ASSUME NEW n \in Nodes, NodeFails(n)
      PROVE  OddsInv'
      BY <1>6, <1>8 DEF NodeFails
<1> QED BY <1>1, <1>3, <1>4, <1>5, <1>7, <1>8
        DEF Next, ToolCall, Search, Rank, Fetch, PageArrives, Answer, Merge, vars

\* While a run has odds that it paid for it pays for no others, however many nodes ask at once
\* and whoever of them dies holding the lock.
THEOREM OneSetOfOdds == Spec => []OddsBoughtOnce
<1>1. Init => OddsInv
      BY DEF Init, OddsInv, Holding
<1>2. OddsInv => OddsBoughtOnce
      BY DEF OddsInv, OddsBoughtOnce
<1> QED BY <1>1, <1>2, InitTyped, TypedNext, OddsNext, PTL DEF Spec

-----------------------------------------------------------------------------
(* What was read.                                                            *)

\* A page that counts as fetched by this run was fetched now or counted before.
LEMMA RecordedFetched ==
    ASSUME ResearchTyped, NEW pages, NEW disposition \in {"ranked", "fetched", "empty"},
           NEW u \in Urls, seen' = Recorded(pages, disposition)
    PROVE  /\ FetchedThisRun(u)' => FetchedThisRun(u) \/ (disposition = "fetched" /\ u \in pages)
           /\ FetchedThisRun(u) => FetchedThisRun(u)' \/ seen'[u].disposition = "empty"
<1> DEFINE new == MergedDisposition(seen[u], disposition)
<1>1. CASE u \notin pages
  <2>1. seen'[u] = seen[u]
        BY <1>1 DEF Recorded
  <2> QED BY <2>1 DEF FetchedThisRun
<1>2. CASE u \in pages
  <2>1. seen'[u] = [run |-> "this", disposition |-> new]
        BY <1>2 DEF Recorded
  <2>2. seen[u] \in Records
        BY DEF ResearchTyped, PagesTyped
  <2>3. seen[u].disposition = "fetched" /\ seen[u].run = "this" => FetchedThisRun(u)
        BY <2>2 DEF Records, Unseen, FetchedThisRun
  <2>4. FetchedThisRun(u) => seen[u].disposition = "fetched" /\ seen[u].run = "this"
        BY DEF FetchedThisRun
  <2>5. new = "fetched" => \/ disposition = "fetched"
                           \/ seen[u].disposition = "fetched" /\ seen[u].run = "this"
        BY DEF MergedDisposition
  <2>6. FetchedThisRun(u) => new \in {"fetched", "empty"}
        BY <2>4 DEF MergedDisposition
  <2> HIDE DEF new
  <2>7. FetchedThisRun(u)' <=> new = "fetched"
        BY <2>1 DEF FetchedThisRun
  <2>8. seen'[u].disposition = new
        BY <2>1
  <2> QED BY <1>2, <2>3, <2>5, <2>6, <2>7, <2>8
<1> QED BY <1>1, <1>2

\* A page that this run has read stays citable until a fetch of it comes back blank.
THEOREM ReadIsCitable == Spec => ReadStaysCitable
<1> DEFINE Citable == \A u \in Urls : FetchedThisRun(u) => FetchedThisRun(u)' \/ seen'[u].disposition = "empty"
<1>1. ASSUME ResearchTyped, [Next]_vars
      PROVE  Citable
  <2>1. CASE seen' = seen
        BY <2>1 DEF FetchedThisRun
  <2>2. ASSUME NEW pages, NEW disposition \in {"ranked", "fetched", "empty"},
               seen' = Recorded(pages, disposition)
        PROVE  Citable
        BY <1>1, <2>2, RecordedFetched
  <2> QED BY <1>1, <2>1, <2>2
          DEF Next, ToolCall, Search, Rank, Fetch, PageArrives, AskOdds, LockMarket, OddsArrive, PricesArrive,
              Answer, NodeFails, Merge, memory, vars
<1> QED BY <1>1, ResearchTypeCorrect, PTL DEF Spec, ReadStaysCitable

\* A page counts as fetched by this run only if its text was given to a node of it, and a
\* confirmed entry of the ledger rests on such a page or on no public page at all.
ReadInv ==
    /\ \A u \in Urls : FetchedThisRun(u) => u \in read
    /\ ConfirmedWasRead

LEMMA ReadNext == ResearchTyped /\ ReadInv /\ [Next]_vars => ReadInv'
<1> SUFFICES ASSUME ResearchTyped, ReadInv, [Next]_vars PROVE ReadInv'
    OBVIOUS
<1> USE DEF ReadInv
<1>1. ASSUME read \subseteq read', \A u \in Urls : FetchedThisRun(u)' => u \in read'
      PROVE  ReadInv' \/ Merge
  <2>1. CASE UNCHANGED ledger
        BY <1>1, <2>1 DEF ConfirmedWasRead
  <2>2. UNCHANGED ledger \/ Merge
        BY DEF Next, ToolCall, Search, Rank, Fetch, PageArrives, AskOdds, LockMarket, OddsArrive, PricesArrive,
               Answer, NodeFails, vars, board
  <2> QED BY <2>1, <2>2
<1>2. CASE UNCHANGED <<seen, read>>
  <2>1. \A u \in Urls : FetchedThisRun(u)' => u \in read'
        BY <1>2 DEF FetchedThisRun
  <2>2. CASE Merge
    <3> DEFINE n == Order[merged + 1]
               items == artifact[n].evidence
    <3>1. n \in Nodes
          BY <2>2, OrderFacts DEF Merge, ResearchTyped, BoardTyped
    <3>2. items \in Seq(Items) /\ ledger \in Seq(Items)
          BY <2>2, <3>1, MergedAnswers DEF ResearchTyped, BoardTyped
    <3>3. ledger' = ledger \o Kept(Entered(items), Opening(items))
          BY <2>2 DEF Merge
    <3> HIDE DEF n, items
    <3>4. /\ \A e \in DOMAIN ledger : ledger'[e] = ledger[e]
          /\ \A e \in DOMAIN ledger' \ DOMAIN ledger :
                ledger'[e].confirmed => BackedBy(ledger'[e].source_url)
          BY <3>2, <3>3, LedgerFacts
    <3>5. ASSUME NEW e \in DOMAIN ledger', ledger'[e].confirmed, ledger'[e].source_url \in Urls
          PROVE  ledger'[e].source_url \in read
      <4>1. CASE e \in DOMAIN ledger
            BY <3>4, <3>5, <4>1 DEF ConfirmedWasRead
      <4>2. CASE e \notin DOMAIN ledger
        <5>1. BackedBy(ledger'[e].source_url)
              BY <3>4, <3>5, <4>2
        <5> QED BY <3>5, <5>1, ResearchAssumption DEF BackedBy
      <4> QED BY <4>1, <4>2
    <3> QED BY <1>2, <2>1, <3>5 DEF ConfirmedWasRead
  <2> QED BY <1>1, <1>2, <2>1, <2>2
<1>3. ASSUME NEW pages, NEW disposition \in {"ranked", "fetched", "empty"},
             seen' = Recorded(pages, disposition), UNCHANGED ledger,
             read' = IF disposition = "fetched" THEN read \cup pages ELSE read
      PROVE  ReadInv'
  <2>1. \A u \in Urls : FetchedThisRun(u)' => u \in read'
        BY <1>3, RecordedFetched
  <2> QED BY <1>3, <2>1 DEF ConfirmedWasRead
<1>4. ASSUME NEW n \in Nodes, NEW pages, Rank(n, pages)
      PROVE  ReadInv'
      BY <1>3, <1>4 DEF Rank, board
<1>5. ASSUME NEW n \in Nodes, NEW u \in Urls, NEW refresh, Fetch(n, u, refresh)
      PROVE  ReadInv'
      BY <1>2, <1>3, <1>5 DEF Fetch, memory, board
<1>6. ASSUME NEW n \in Nodes, NEW u \in Urls, PageArrives(n, u)
      PROVE  ReadInv'
      BY <1>2, <1>3, <1>6 DEF PageArrives, memory, board
<1> QED BY <1>2, <1>4, <1>5, <1>6
        DEF Next, ToolCall, Search, AskOdds, LockMarket, OddsArrive, PricesArrive, Answer, NodeFails, Merge,
            memory, vars

\* Whatever earlier runs recorded of a page, and whoever fetched, cached or ranked it under
\* which address: what the ledger holds as confirmed, this run was given the text of.
THEOREM ConfirmedRestsOnText == Spec => []ConfirmedWasRead
<1>1. Init => ReadInv
  <2> SUFFICES ASSUME Init PROVE ReadInv
      OBVIOUS
  <2>1. \A u \in Urls : ~FetchedThisRun(u)
    <3>1. \A u \in Urls : seen[u].run # "this"
          BY ResearchAssumption DEF Init
    <3> QED BY <3>1 DEF FetchedThisRun
  <2>2. DOMAIN ledger = {}
        BY DEF Init
  <2> QED BY <2>1, <2>2 DEF ReadInv, ConfirmedWasRead
<1>2. ReadInv => ConfirmedWasRead
      BY DEF ReadInv
<1> QED BY <1>1, <1>2, InitTyped, TypedNext, ReadNext, PTL DEF Spec

-----------------------------------------------------------------------------
(* The receipts.                                                             *)

\* The claims and sources of the items an answer points at.
Cited(answer) == {Key(item) : item \in Pointed(answer)}

\* Of those, the claims and sources of the items that are not results never played.
Meant(answer) == {Key(item) : item \in {item \in Pointed(answer) : ~item.unplayed}}

\* The claims and sources of these entries.
Listed(entries, ids) == {Key(entries[e]) : e \in ids}

\* What a run keeps of an answer cites what its author pointed at and was played; the entries of
\* a node that is merged are those its artifact cites; nothing is written after the merge began.
ReceiptInv ==
    /\ \A n \in Nodes : Cited(artifact[n]) = Meant(written[n])
    /\ \A k \in 1..merged : /\ sources[Order[k]] \subseteq DOMAIN ledger
                            /\ Listed(ledger, sources[Order[k]]) = Cited(artifact[Order[k]])
    /\ merged > 0 => \A n \in Nodes : status[n] # "running"

LEMMA ReceiptNext == ResearchTyped /\ ReceiptInv /\ [Next]_vars => ReceiptInv'
<1> SUFFICES ASSUME ResearchTyped, ReceiptInv, [Next]_vars PROVE ReceiptInv'
    OBVIOUS
<1>1. CASE UNCHANGED <<written, artifact, board>> /\ \A n \in Nodes : status'[n] = "running" => status[n] = "running"
  <2>1. UNCHANGED <<ledger, sources, merged>>
        BY <1>1 DEF board
  <2> QED BY <1>1, <2>1 DEF ReceiptInv
<1>2. ASSUME NEW n \in Nodes, NEW draft \in Drafts, Answer(n, draft)
      PROVE  ReceiptInv'
  <2>1. merged = 0 /\ status[n] = "running"
        BY <1>2 DEF Answer, ReceiptInv, ResearchTyped, BoardTyped
  <2>2. UNCHANGED <<ledger, sources, merged>>
        BY <1>2 DEF Answer, board
  <2>3. CASE UNCHANGED <<written, artifact>>
        BY <2>1, <2>2, <2>3 DEF ReceiptInv
  <2>4. CASE /\ written' = [written EXCEPT ![n] = draft]
             /\ artifact' = [artifact EXCEPT ![n] = Tidied(n, draft)]
    <3>1. /\ written \in [Nodes -> Answers] /\ artifact \in [Nodes -> Answers]
          BY DEF ResearchTyped, AnswersTyped
    <3>2. Pointed(Tidied(n, draft)) = {item \in Pointed(draft) : ~item.unplayed}
          BY ResearchAssumption, TidiedFacts
    <3>3. ASSUME NEW m \in Nodes
          PROVE  Cited(artifact'[m]) = Meant(written'[m])
      <4>1. CASE m = n
            BY <2>4, <3>1, <3>2, <4>1 DEF Cited, Meant
      <4>2. CASE m # n
            BY <2>4, <3>1, <4>2 DEF ReceiptInv
      <4> QED BY <4>1, <4>2
    <3> QED BY <2>1, <2>2, <3>3 DEF ReceiptInv
  <2> QED BY <1>2, <2>3, <2>4 DEF Answer
<1>3. CASE Merge
  <2> DEFINE n == Order[merged + 1]
             items == artifact[n].evidence
             points == artifact[n].evidence_indices
  <2>1. /\ n \in Nodes /\ merged \in Nat /\ merged' = merged + 1
        /\ \A k \in 1..(merged + 1) : Order[k] \in Nodes
        BY <1>3, OrderFacts DEF Merge, ResearchTyped, BoardTyped
  <2>2. /\ \A m \in Nodes \ {n} : artifact'[m] = artifact[m]
        /\ artifact'[n].evidence = Entered(items) /\ artifact'[n].evidence_indices = points
        /\ items \in Seq(Items)
        BY <1>3, <2>1, MergedAnswers
  <2>3. points \subseteq DOMAIN items
        BY <2>1 DEF ResearchTyped, AnswersTyped
  <2>4. sources' = [sources EXCEPT ![n] = {EntryOf(ledger', items[i]) : i \in points}]
        BY <1>3 DEF Merge
  <2>5. /\ \A e \in DOMAIN ledger : e \in DOMAIN ledger' /\ ledger'[e] = ledger[e]
        /\ \A i \in DOMAIN items : /\ EntryOf(ledger', items[i]) \in DOMAIN ledger'
                                   /\ Key(ledger'[EntryOf(ledger', items[i])]) = Key(items[i])
    <3>1. ledger' = ledger \o Kept(Entered(items), Opening(items)) /\ ledger \in Seq(Items)
          BY <1>3 DEF Merge, ResearchTyped, BoardTyped
    <3> QED BY <2>2, <3>1, LedgerFacts
  <2>6. written' = written /\ status' = status /\ \A m \in Nodes : status[m] # "running"
        BY <1>3 DEF Merge
  <2>7. sources \in [Nodes -> SUBSET Nat]
        BY DEF ResearchTyped, BoardTyped
  <2>8. Pointed(artifact[n]) = {items[i] : i \in points}
        BY <2>3 DEF Pointed
  <2>9. DOMAIN Entered(items) = DOMAIN items
        /\ \A i \in DOMAIN items : Key(Entered(items)[i]) = Key(items[i])
        BY <2>2, EnteredFacts
  <2>10. Pointed(artifact'[n]) = {Entered(items)[i] : i \in points}
        BY <2>2, <2>3, <2>9 DEF Pointed
  <2> HIDE DEF n, items, points
  <2>11. /\ Cited(artifact[n]) = {Key(items[i]) : i \in points}
         /\ Cited(artifact'[n]) = {Key(Entered(items)[i]) : i \in points}
        BY <2>8, <2>10 DEF Cited
  <2>12. Cited(artifact'[n]) = Cited(artifact[n])
        BY <2>3, <2>9, <2>11
  <2>13. sources'[n] = {EntryOf(ledger', items[i]) : i \in points}
        BY <2>1, <2>4, <2>7
  <2>14. sources'[n] \subseteq DOMAIN ledger'
        BY <2>3, <2>5, <2>13
  <2>15. Listed(ledger', sources'[n]) = Cited(artifact'[n])
    <3>1. Listed(ledger', sources'[n]) = {Key(ledger'[EntryOf(ledger', items[i])]) : i \in points}
          BY <2>13 DEF Listed
    <3>2. \A i \in points : Key(ledger'[EntryOf(ledger', items[i])]) = Key(items[i])
          BY <2>3, <2>5
    <3>3. Listed(ledger', sources'[n]) = {Key(items[i]) : i \in points}
          BY <3>1, <3>2
    <3> QED BY <2>11, <2>12, <3>3
  <2>16. ASSUME NEW k \in 1..(merged + 1)
         PROVE  /\ sources'[Order[k]] \subseteq DOMAIN ledger'
                /\ Listed(ledger', sources'[Order[k]]) = Cited(artifact'[Order[k]])
    <3>1. CASE Order[k] = n
          BY <2>14, <2>15, <3>1
    <3>2. CASE Order[k] # n
      <4>1. k \in 1..merged /\ Order[k] \in Nodes
            BY <2>1, <3>2 DEF n
      <4>2. /\ sources[Order[k]] \subseteq DOMAIN ledger
            /\ Listed(ledger, sources[Order[k]]) = Cited(artifact[Order[k]])
            BY <4>1 DEF ReceiptInv
      <4>3. sources'[Order[k]] = sources[Order[k]] /\ artifact'[Order[k]] = artifact[Order[k]]
            BY <2>2, <2>4, <2>7, <3>2, <4>1
      <4>4. Listed(ledger', sources[Order[k]]) = Listed(ledger, sources[Order[k]])
            BY <2>5, <4>2 DEF Listed
      <4> QED BY <2>5, <4>2, <4>3, <4>4
    <3> QED BY <3>1, <3>2
  <2>17. \A m \in Nodes : Cited(artifact'[m]) = Meant(written'[m])
        BY <2>1, <2>2, <2>6, <2>12 DEF ReceiptInv
  <2>18. \A m \in Nodes : status'[m] # "running"
        BY <2>6
  <2> QED BY <2>1, <2>16, <2>17, <2>18 DEF ReceiptInv
<1>4. ASSUME NEW n \in Nodes, NodeFails(n)
      PROVE  ReceiptInv'
      BY <1>1, <1>4 DEF NodeFails, ResearchTyped, NodesTyped
<1> QED BY <1>1, <1>2, <1>3, <1>4
        DEF Next, ToolCall, Search, Rank, Fetch, PageArrives, AskOdds, LockMarket, OddsArrive, PricesArrive,
            vars, desk

\* However an answer is tidied and entered, and whatever the ledger held: the entries that stand
\* behind a branch are those of the items its author pointed at, less what was never played.
THEOREM ReceiptsSurvive == Spec => []ReceiptsHold
<1>1. Init => ReceiptInv
  <2>1. Cited(NoAnswer) = {} /\ Meant(NoAnswer) = {}
        BY NoAnswerType DEF Cited, Meant, Pointed
  <2> SUFFICES ASSUME Init PROVE ReceiptInv
      OBVIOUS
  <2>2. \A n \in Nodes : artifact[n] = NoAnswer /\ written[n] = NoAnswer
        BY DEF Init
  <2>3. merged = 0 /\ 1..merged = {}
        BY DEF Init
  <2> QED BY <2>1, <2>2, <2>3 DEF ReceiptInv
<1>2. ResearchTyped /\ ReceiptInv => ReceiptsHold
  <2> SUFFICES ASSUME ResearchTyped, ReceiptInv, NEW k \in 1..merged
               PROVE  LET n == Order[k]
                          meant == {written[n].evidence[i] :
                                       i \in written[n].evidence_indices \cap DOMAIN written[n].evidence}
                      IN  {Key(ledger[i]) : i \in sources[n]} =
                          {Key(item) : item \in {item \in meant : ~item.unplayed}}
      BY DEF ReceiptsHold
  <2>1. Order[k] \in Nodes
        BY OrderFacts DEF ResearchTyped, BoardTyped
  <2>2. Listed(ledger, sources[Order[k]]) = Meant(written[Order[k]])
        BY <2>1 DEF ReceiptInv
  <2> QED BY <2>2 DEF Listed, Meant, Pointed
<1> QED BY <1>1, <1>2, InitTyped, TypedNext, ReceiptNext, PTL DEF Spec

===============================================================================
