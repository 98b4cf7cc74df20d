------------------------- MODULE ForecastRunProofs -------------------------
(* The submission desk and the run of the forecast graph around it.         *)
(*                                                                          *)
(* First the desk by itself: its types, its inductive invariant and the     *)
(* promises that follow, for every value of the constants.  The flags are   *)
(* typed apart from the rest: what a Boolean variable may be is a matter    *)
(* for Zenon, what the others may be for the SMT solver.                    *)
(*                                                                          *)
(* Then the run, which is a behaviour of the desk, so that what is shown of *)
(* the desk holds of every run.  The step from run to desk needs to know    *)
(* when the desk is quiet: the runner touches it only while no submit is    *)
(* suspended at the referee.                                                *)
EXTENDS ForecastRun, TLAPS

-----------------------------------------------------------------------------
(* The flags.                                                               *)

LEMMA SubmitKeepsFlags ==
    ASSUME FlagsOK, NEW c \in Calls, NEW s \in Submissions, Submit(c, s)
    PROVE  FlagsOK'
<1> USE DEF FlagsOK, acceptVars, revisionVars, cleanVars, copyVars, structuralVars, refereeVars,
        ForgetCopyIssues
<1>1. CASE \E contradicts \in BOOLEAN : SubmitHard(s, contradicts)
      BY Zenon, <1>1 DEF SubmitHard
<1>2. CASE \E code \in QuantCodes, contradicts \in BOOLEAN : SubmitStructural(s, code, contradicts)
      BY Zenon, <1>2 DEF SubmitStructural, RouteToQuant
<1>3. CASE \E sig \in CopySigs : SubmitCopy(s, sig)
      BY Zenon, <1>3 DEF SubmitCopy, NoteCopyIssues
<1>4. CASE SubmitPause(s)
      BY Zenon, <1>4 DEF SubmitPause
<1>5. CASE SubmitUnsubstantiated(s)
      BY Zenon, <1>5 DEF SubmitUnsubstantiated
<1>6. CASE \E escalating \in BOOLEAN : SubmitAtOnce(s, escalating)
  <2>1. unstated' \in BOOLEAN /\ copyLoop' \in BOOLEAN /\ critique' \in BOOLEAN
        BY Zenon, <1>6 DEF SubmitAtOnce
  <2>2. PICK escalating \in BOOLEAN : Accept(s, escalating)
        BY Zenon, <1>6 DEF SubmitAtOnce
  <2> QED BY Zenon, <2>1, <2>2 DEF Accept
<1>7. CASE \E escalating \in BOOLEAN : SubmitToReferee(c, s, escalating)
      BY Zenon, <1>7 DEF SubmitToReferee
<1> QED BY <1>1, <1>2, <1>3, <1>4, <1>5, <1>6, <1>7 DEF Submit

LEMMA CheckKeepsFlags ==
    ASSUME FlagsOK, NEW s \in Submissions, Check(s)
    PROVE  FlagsOK'
<1> USE DEF FlagsOK, acceptVars, revisionVars, copyVars, structuralVars, refereeVars, ForgetCopyIssues
<1>1. CASE CheckClean(s)
      BY Zenon, <1>1 DEF CheckClean
<1>2. CASE CheckHard(s)
      BY Zenon, <1>2 DEF CheckHard
<1>3. CASE \E code \in QuantCodes : CheckStructural(s, code)
      BY Zenon, <1>3 DEF CheckStructural, RouteToQuant
<1>4. CASE \E sig \in CopySigs : CheckCopy(s, sig)
      BY Zenon, <1>4 DEF CheckCopy, NoteCopyIssues
<1> QED BY <1>1, <1>2, <1>3, <1>4 DEF Check

\* The flag a waiting call carries is what it will write on acceptance.
LEMMA AnswerKeepsFlags ==
    ASSUME DeskTypeOK, NEW c \in Calls, RefereeAnswers(c)
    PROVE  FlagsOK'
<1> DEFINE flag == reviewing[c].escalating
<1>1. flag \in BOOLEAN
  <2>1. reviewing[c] # None
        BY DEF RefereeAnswers, RefereeApproves, RefereeUnavailable, RefereeBlamesInfra, RefereeBlocks,
               RefereeOverruled
  <2> QED BY <2>1 DEF DeskTypeOK, Review
<1> HIDE DEF flag
<1> FlagsOK BY DEF DeskTypeOK
<1> USE DEF FlagsOK, acceptVars, revisionVars, structuralVars, Accept
<1>2. CASE RefereeApproves(c)
      BY Zenon, <1>1, <1>2 DEF RefereeApproves, flag
<1>3. CASE RefereeUnavailable(c)
      BY Zenon, <1>1, <1>3 DEF RefereeUnavailable, flag
<1>4. CASE RefereeBlamesInfra(c)
      BY Zenon, <1>1, <1>4 DEF RefereeBlamesInfra, flag
<1>5. CASE \E needsReplan \in BOOLEAN : RefereeBlocks(c, needsReplan)
      BY Zenon, <1>5 DEF RefereeBlocks
<1>6. CASE RefereeOverruled(c)
      BY Zenon, <1>1, <1>6 DEF RefereeOverruled, flag
<1> QED BY <1>2, <1>3, <1>4, <1>5, <1>6 DEF RefereeAnswers

LEMMA RunnerKeepsFlags ==
    ASSUME FlagsOK, RunnerStep
    PROVE  FlagsOK'
<1> USE DEF FlagsOK, acceptVars, revisionVars, cleanVars, copyVars, structuralVars, refereeVars,
        ClearCopyState, ClearRepairFlags
<1>1. CASE ResetForecastCopyState
      BY Zenon, <1>1 DEF ResetForecastCopyState
<1>2. CASE \E active \in SUBSET Mixtures, newCritique \in BOOLEAN :
              SyncPublishableArtifacts(active, newCritique)
      BY Zenon, <1>2 DEF SyncPublishableArtifacts
<1>3. CASE \E replanDone, repairDone \in BOOLEAN : SettleWave(replanDone, repairDone)
      BY Zenon, <1>3 DEF SettleWave
<1>4. CASE \E replanDone, repairDone \in BOOLEAN : Reopen(replanDone, repairDone)
      BY Zenon, <1>4 DEF Reopen
<1>5. CASE RestorePriorAcceptance
      BY Zenon, <1>5 DEF RestorePriorAcceptance
<1> QED BY <1>1, <1>2, <1>3, <1>4, <1>5 DEF RunnerStep

-----------------------------------------------------------------------------
(* Type correctness.                                                        *)

LEMMA DeskInitType == DeskInit => DeskTypeOK
<1>1. DeskInit => FlagsOK
      BY Zenon DEF DeskInit, FlagsOK
<1> QED BY <1>1 DEF DeskInit, DeskTypeOK, Statuses, MaybeSubmission, NoReviews, CopyRepeatLimit

LEMMA SubmitKeepsType ==
    ASSUME DeskTypeOK, NEW c \in Calls, NEW s \in Submissions, Submit(c, s), UNCHANGED published
    PROVE  DeskTypeOK'
<1>0. FlagsOK'
      BY SubmitKeepsFlags DEF DeskTypeOK
<1> USE <1>0, SubmissionAssumption DEF DeskTypeOK, MaybeSubmission, acceptVars, revisionVars, cleanVars,
        copyVars, structuralVars, refereeVars, CopyRepeatLimit, ForgetCopyIssues
<1>1. CASE \E contradicts \in BOOLEAN : SubmitHard(s, contradicts)
      BY <1>1 DEF SubmitHard
<1>2. CASE \E code \in QuantCodes, contradicts \in BOOLEAN : SubmitStructural(s, code, contradicts)
      BY <1>2 DEF SubmitStructural, RouteToQuant
<1>3. CASE \E sig \in CopySigs : SubmitCopy(s, sig)
      BY <1>3 DEF SubmitCopy, NoteCopyIssues
<1>4. CASE SubmitPause(s)
      BY <1>4 DEF SubmitPause
<1>5. CASE SubmitUnsubstantiated(s)
      BY <1>5 DEF SubmitUnsubstantiated
<1>6. CASE \E escalating \in BOOLEAN : SubmitAtOnce(s, escalating)
      BY <1>6 DEF SubmitAtOnce, Accept, Statuses
<1>7. CASE \E escalating \in BOOLEAN : SubmitToReferee(c, s, escalating)
      BY <1>7 DEF SubmitToReferee, Review
<1> QED BY <1>1, <1>2, <1>3, <1>4, <1>5, <1>6, <1>7 DEF Submit

LEMMA CheckKeepsType ==
    ASSUME DeskTypeOK, NEW s \in Submissions, Check(s), UNCHANGED published
    PROVE  DeskTypeOK'
<1>0. FlagsOK'
      BY CheckKeepsFlags DEF DeskTypeOK
<1> USE <1>0, SubmissionAssumption DEF DeskTypeOK, MaybeSubmission, acceptVars, revisionVars,
        copyVars, structuralVars, refereeVars, CopyRepeatLimit, ForgetCopyIssues
<1>1. CASE CheckClean(s)
      BY <1>1 DEF CheckClean
<1>2. CASE CheckHard(s)
      BY <1>2 DEF CheckHard
<1>3. CASE \E code \in QuantCodes : CheckStructural(s, code)
      BY <1>3 DEF CheckStructural, RouteToQuant
<1>4. CASE \E sig \in CopySigs : CheckCopy(s, sig)
      BY <1>4 DEF CheckCopy, NoteCopyIssues
<1> QED BY <1>1, <1>2, <1>3, <1>4 DEF Check

LEMMA AnswerKeepsType ==
    ASSUME DeskTypeOK, NEW c \in Calls, RefereeAnswers(c), UNCHANGED published
    PROVE  DeskTypeOK'
<1>0. FlagsOK'
      BY AnswerKeepsFlags
<1> USE <1>0, SubmissionAssumption DEF DeskTypeOK, MaybeSubmission, acceptVars, revisionVars,
        structuralVars, CopyRepeatLimit, Accept, Answered, Review, Statuses
<1>1. CASE RefereeApproves(c)
      BY <1>1 DEF RefereeApproves
<1>2. CASE RefereeUnavailable(c)
      BY <1>2 DEF RefereeUnavailable
<1>3. CASE RefereeBlamesInfra(c)
      BY <1>3 DEF RefereeBlamesInfra
<1>4. CASE \E needsReplan \in BOOLEAN : RefereeBlocks(c, needsReplan)
      BY <1>4 DEF RefereeBlocks
<1>5. CASE RefereeOverruled(c)
      BY <1>5 DEF RefereeOverruled
<1> QED BY <1>1, <1>2, <1>3, <1>4, <1>5 DEF RefereeAnswers

LEMMA CancelKeepsType ==
    ASSUME DeskTypeOK, CancelReviews, UNCHANGED published
    PROVE  DeskTypeOK'
<1>1. FlagsOK'
      BY Zenon DEF DeskTypeOK, FlagsOK, CancelReviews, acceptVars, cleanVars, copyVars, structuralVars
<1> QED BY <1>1 DEF DeskTypeOK, CancelReviews, acceptVars, revisionVars, cleanVars, copyVars,
                    structuralVars, Calls

LEMMA RunnerKeepsType ==
    ASSUME DeskTypeOK, RunnerStep, UNCHANGED published
    PROVE  DeskTypeOK'
<1>0. FlagsOK'
      BY RunnerKeepsFlags DEF DeskTypeOK
<1> USE <1>0, SubmissionAssumption DEF DeskTypeOK, MaybeSubmission, acceptVars, revisionVars, cleanVars,
        copyVars, structuralVars, refereeVars, CopyRepeatLimit, ClearCopyState, ClearRepairFlags
<1>1. CASE ResetForecastCopyState
      BY <1>1 DEF ResetForecastCopyState
<1>2. CASE \E active \in SUBSET Mixtures, newCritique \in BOOLEAN :
              SyncPublishableArtifacts(active, newCritique)
      BY <1>2 DEF SyncPublishableArtifacts, Kept
<1>3. CASE \E replanDone, repairDone \in BOOLEAN : SettleWave(replanDone, repairDone)
      BY <1>3 DEF SettleWave
<1>4. CASE \E replanDone, repairDone \in BOOLEAN : Reopen(replanDone, repairDone)
      BY <1>4 DEF Reopen, MayReopen
<1>5. CASE RestorePriorAcceptance
      BY <1>5 DEF RestorePriorAcceptance
<1> QED BY <1>1, <1>2, <1>3, <1>4, <1>5 DEF RunnerStep

LEMMA PublishKeepsType ==
    ASSUME DeskTypeOK, PublishOutcome \/ \E outcome \in {Fallback, Dark} : GiveUp(outcome)
    PROVE  DeskTypeOK'
<1> USE DEF acceptVars, revisionVars, cleanVars, copyVars, structuralVars, refereeVars
<1>1. FlagsOK'
  <2>1. unstated' \in BOOLEAN
        BY Zenon DEF DeskTypeOK, FlagsOK, PublishOutcome, GiveUp
  <2>2. UNCHANGED <<acceptVars, cleanVars, contradiction, copyVars, structuralVars, blocked, replan,
                    critique>>
        BY Zenon DEF PublishOutcome, GiveUp
  <2> QED BY Zenon, <2>1, <2>2 DEF DeskTypeOK, FlagsOK
<1>2. CASE PublishOutcome
      BY <1>1, <1>2 DEF DeskTypeOK, MaybeSubmission, PublishOutcome, LastCleanStatus, NothingClean,
                        CanPreferLastClean, Statuses
<1>3. CASE \E outcome \in {Fallback, Dark} : GiveUp(outcome)
      BY <1>1, <1>3 DEF DeskTypeOK, GiveUp
<1> QED BY <1>2, <1>3

LEMMA DeskNextType ==
    ASSUME DeskTypeOK, [DeskNext]_deskVars
    PROVE  DeskTypeOK'
<1>1. CASE ToolCall /\ UNCHANGED published
  <2>1. CASE \E c \in NodeCalls, s \in Submissions : SubmitAllowed /\ Submit(c, s)
        BY <1>1, <2>1, SubmitKeepsType DEF Calls
  <2>2. CASE \E s \in Submissions : CheckAllowed /\ Check(s)
        BY <1>1, <2>2, CheckKeepsType
  <2>3. CASE checkedClean # None /\ accepted = None /\ Submit(AutoCall, checkedClean)
        BY <1>1, <2>3, SubmitKeepsType DEF Calls, DeskTypeOK, MaybeSubmission
  <2>4. CASE \E c \in Calls : RefereeAnswers(c)
        BY <1>1, <2>4, AnswerKeepsType
  <2>5. CASE CancelReviews
        BY <1>1, <2>5, CancelKeepsType
  <2> QED BY <1>1, <2>1, <2>2, <2>3, <2>4, <2>5 DEF ToolCall
<1>2. CASE RunnerStep /\ UNCHANGED published
      BY <1>2, RunnerKeepsType
<1>3. CASE PublishOutcome \/ \E outcome \in {Fallback, Dark} : GiveUp(outcome)
      BY <1>3, PublishKeepsType
<1>4. CASE UNCHANGED deskVars
  <2>1. FlagsOK'
        BY Zenon, <1>4 DEF DeskTypeOK, FlagsOK, deskVars, acceptVars, cleanVars, copyVars, structuralVars,
                           refereeVars
  <2> QED BY <1>4, <2>1 DEF DeskTypeOK, deskVars, acceptVars, revisionVars, cleanVars, copyVars,
                            structuralVars, refereeVars
<1> QED BY <1>1, <1>2, <1>3, <1>4 DEF DeskNext

\* The desk's fields keep their types, whatever the tools, the referee and the
\* runner do (agent/deps.py SubmissionState).
THEOREM DeskTypeCorrect == DeskSpec => []DeskTypeOK
<1>1. DeskInit => DeskTypeOK
      BY DeskInitType
<1>2. DeskTypeOK /\ [DeskNext]_deskVars => DeskTypeOK'
      BY DeskNextType
<1> QED BY <1>1, <1>2, PTL DEF DeskSpec

-----------------------------------------------------------------------------
(* The inductive invariant.                                                 *)

\* A suspended submit was let through: past the pause if it escalates, and with
\* a mixture that still is publishable when its answer comes.
ReviewsGuarded ==
    \A c \in Calls : reviewing[c] # None =>
        /\ reviewing[c].escalating => escalated
        /\ Publishable(reviewing[c].submission)

\* With the referee switched off nothing is ever suspended or renamed.
Unrefereed == ~RefereeEnabled => status = "disabled" /\ reviewing = NoReviews

DeskInv ==
    /\ DeskTypeOK
    /\ RepairsBounded /\ HeldDeskHasNoPreview /\ BlockIsEvidenced
    /\ ReviewsGuarded /\ Unrefereed

LEMMA DeskInitInv == DeskInit => DeskInv
BY DeskInitType, SubmissionAssumption
   DEF DeskInit, DeskInv, RepairsBounded, HeldDeskHasNoPreview, BlockIsEvidenced, ReviewsGuarded,
       Unrefereed, NoReviews

\* Submitting spends at most the attempts there are, and never leaves a preview
\* under a hold.
LEMMA SubmitKeepsInv ==
    ASSUME DeskInv, NEW c \in Calls, NEW s \in Submissions, Submit(c, s), UNCHANGED published
    PROVE  DeskInv'
<1> USE SubmissionAssumption DEF DeskInv, DeskTypeOK, RepairsBounded, HeldDeskHasNoPreview,
        BlockIsEvidenced, ReviewsGuarded, Unrefereed, Publishable, acceptVars, revisionVars, cleanVars,
        copyVars, structuralVars, refereeVars, ForgetCopyIssues
<1>0. DeskTypeOK'
      BY SubmitKeepsType
<1> HIDE DEF DeskTypeOK
<1>1. CASE \E contradicts \in BOOLEAN : SubmitHard(s, contradicts)
      BY <1>0, <1>1 DEF SubmitHard
<1>2. CASE \E code \in QuantCodes, contradicts \in BOOLEAN : SubmitStructural(s, code, contradicts)
      BY <1>0, <1>2 DEF SubmitStructural, RouteToQuant, RoutesToQuant, DeskTypeOK
<1>3. CASE \E sig \in CopySigs : SubmitCopy(s, sig)
      BY <1>0, <1>3 DEF SubmitCopy
<1>4. CASE SubmitPause(s)
      BY <1>0, <1>4 DEF SubmitPause
<1>5. CASE SubmitUnsubstantiated(s)
      BY <1>0, <1>5 DEF SubmitUnsubstantiated
<1>6. CASE \E escalating \in BOOLEAN : SubmitAtOnce(s, escalating)
      BY <1>0, <1>6 DEF SubmitAtOnce, Accept
<1>7. CASE \E escalating \in BOOLEAN : SubmitToReferee(c, s, escalating)
      BY <1>0, <1>7 DEF SubmitToReferee, ReachesReferee, DeskTypeOK
<1> QED BY <1>1, <1>2, <1>3, <1>4, <1>5, <1>6, <1>7 DEF Submit

\* A clean check leaves a preview, but is refused while a hold stands.
LEMMA CheckKeepsInv ==
    ASSUME DeskInv, NEW s \in Submissions, CheckAllowed, Check(s), UNCHANGED published
    PROVE  DeskInv'
<1> USE SubmissionAssumption DEF DeskInv, RepairsBounded, HeldDeskHasNoPreview,
        BlockIsEvidenced, ReviewsGuarded, Unrefereed, Publishable, acceptVars, revisionVars,
        structuralVars, refereeVars, ForgetCopyIssues
<1>0. DeskTypeOK'
      BY CheckKeepsType
<1>1. CASE CheckClean(s)
      BY <1>0, <1>1 DEF CheckClean, CheckAllowed, SubmitAllowed
<1>2. CASE CheckHard(s)
      BY <1>0, <1>2 DEF CheckHard
<1>3. CASE \E code \in QuantCodes : CheckStructural(s, code)
      BY <1>0, <1>3 DEF CheckStructural, RouteToQuant, RoutesToQuant, DeskTypeOK
<1>4. CASE \E sig \in CopySigs : CheckCopy(s, sig)
      BY <1>0, <1>4 DEF CheckCopy
<1> QED BY <1>1, <1>2, <1>3, <1>4 DEF Check

\* Whatever the referee answers, the cap is asked again after the await.
LEMMA AnswerKeepsInv ==
    ASSUME DeskInv, NEW c \in Calls, RefereeAnswers(c), UNCHANGED published
    PROVE  DeskInv'
<1> USE SubmissionAssumption DEF DeskInv, RepairsBounded, HeldDeskHasNoPreview,
        BlockIsEvidenced, ReviewsGuarded, Unrefereed, Publishable, revisionVars, structuralVars,
        Accept, Answered, NoReviews
<1>0. DeskTypeOK'
      BY AnswerKeepsType
<1>1. CASE RefereeApproves(c)
      BY <1>0, <1>1 DEF RefereeApproves, DeskTypeOK
<1>2. CASE RefereeUnavailable(c)
      BY <1>0, <1>2 DEF RefereeUnavailable, DeskTypeOK
<1>3. CASE RefereeBlamesInfra(c)
      BY <1>0, <1>3 DEF RefereeBlamesInfra, DeskTypeOK
<1>4. CASE \E needsReplan \in BOOLEAN : RefereeBlocks(c, needsReplan)
      BY <1>0, <1>4 DEF RefereeBlocks, DeskTypeOK
<1>5. CASE RefereeOverruled(c)
      BY <1>0, <1>5 DEF RefereeOverruled, DeskTypeOK
<1> QED BY <1>1, <1>2, <1>3, <1>4, <1>5 DEF RefereeAnswers

LEMMA CancelKeepsInv ==
    ASSUME DeskInv, CancelReviews, UNCHANGED published
    PROVE  DeskInv'
<1>1. DeskTypeOK'
      BY CancelKeepsType DEF DeskInv
<1> QED BY <1>1 DEF DeskInv, RepairsBounded, HeldDeskHasNoPreview, BlockIsEvidenced, ReviewsGuarded,
                    Unrefereed, Publishable, CancelReviews, NoReviews, Calls, acceptVars, revisionVars,
                    cleanVars, copyVars, structuralVars

\* The runner acts between waves, when nothing is suspended.
LEMMA RunnerKeepsInv ==
    ASSUME DeskInv, reviewing = NoReviews, RunnerStep, UNCHANGED published
    PROVE  DeskInv'
<1> USE DEF acceptVars, revisionVars, cleanVars, copyVars, structuralVars, refereeVars, ClearCopyState,
        ClearRepairFlags
<1>0. DeskTypeOK'
      BY RunnerKeepsType DEF DeskInv
<1> DEFINE Sparing ==
        /\ checkedClean' = checkedClean \/ checkedClean' = None
        /\ UNCHANGED <<interventions, structuralAttempts, status, reviewing>>
        /\ revisions' = revisions \/ (revisions < MaxRevisions /\ revisions' = revisions + 1)
<1>1. (blocked' => blocked) /\ (replan' => replan) /\ (structural' => structural)
        /\ (critique => critique') /\ Sparing
  <2>1. CASE ResetForecastCopyState
        BY Zenon, <2>1 DEF ResetForecastCopyState
  <2>2. CASE \E active \in SUBSET Mixtures, newCritique \in BOOLEAN :
                SyncPublishableArtifacts(active, newCritique)
    <3>0. PICK active \in SUBSET Mixtures, newCritique \in BOOLEAN :
                    SyncPublishableArtifacts(active, newCritique)
          BY <2>2
    <3>1. blocked' => blocked BY Zenon, <3>0 DEF SyncPublishableArtifacts
    <3>2. replan' => replan BY Zenon, <3>0 DEF SyncPublishableArtifacts
    <3>3. structural' => structural BY Zenon, <3>0 DEF SyncPublishableArtifacts
    <3>4. critique => critique' BY Zenon, <3>0 DEF SyncPublishableArtifacts
    <3>5. Sparing BY Zenon, <3>0 DEF SyncPublishableArtifacts
    <3> QED BY Zenon, <3>1, <3>2, <3>3, <3>4, <3>5
  <2>3. CASE \E replanDone, repairDone \in BOOLEAN : SettleWave(replanDone, repairDone)
    <3>0. PICK replanDone, repairDone \in BOOLEAN : SettleWave(replanDone, repairDone)
          BY <2>3
    <3>1. blocked' => blocked BY Zenon, <3>0 DEF SettleWave
    <3>2. replan' => replan BY Zenon, <3>0 DEF SettleWave
    <3>3. structural' => structural BY Zenon, <3>0 DEF SettleWave
    <3>4. critique => critique' BY Zenon, <3>0 DEF SettleWave
    <3>5. Sparing BY Zenon, <3>0 DEF SettleWave
    <3> QED BY Zenon, <3>1, <3>2, <3>3, <3>4, <3>5
  <2>4. CASE \E replanDone, repairDone \in BOOLEAN : Reopen(replanDone, repairDone)
    <3>0. PICK replanDone, repairDone \in BOOLEAN : Reopen(replanDone, repairDone)
          BY <2>4
    <3>1. blocked' => blocked BY Zenon, <3>0 DEF Reopen
    <3>2. replan' => replan BY Zenon, <3>0 DEF Reopen
    <3>3. structural' => structural BY Zenon, <3>0 DEF Reopen
    <3>4. critique => critique' BY Zenon, <3>0 DEF Reopen
    <3>5. Sparing BY Zenon, <3>0 DEF Reopen, MayReopen
    <3> QED BY Zenon, <3>1, <3>2, <3>3, <3>4, <3>5
  <2>5. CASE RestorePriorAcceptance
        BY Zenon, <2>5 DEF RestorePriorAcceptance
  <2> QED BY <2>1, <2>2, <2>3, <2>4, <2>5 DEF RunnerStep
<1>2. HeldDeskHasNoPreview' /\ BlockIsEvidenced'
      BY Zenon, <1>1 DEF DeskInv, HeldDeskHasNoPreview, BlockIsEvidenced
<1>3. ReviewsGuarded' /\ Unrefereed'
      BY <1>1 DEF ReviewsGuarded, Unrefereed, NoReviews, DeskInv
<1>4. RepairsBounded'
      BY <1>1, SubmissionAssumption DEF DeskInv, DeskTypeOK, RepairsBounded
<1> QED BY <1>0, <1>2, <1>3, <1>4 DEF DeskInv

LEMMA PublishKeepsInv ==
    ASSUME DeskInv, PublishOutcome \/ \E outcome \in {Fallback, Dark} : GiveUp(outcome)
    PROVE  DeskInv'
<1> USE DEF DeskInv, RepairsBounded, HeldDeskHasNoPreview, BlockIsEvidenced, ReviewsGuarded, Unrefereed,
        Publishable, NoReviews, acceptVars, revisionVars, cleanVars, copyVars, structuralVars, refereeVars
<1>1. DeskTypeOK'
      BY PublishKeepsType
<1>2. CASE PublishOutcome
      BY <1>1, <1>2 DEF PublishOutcome, LastCleanStatus
<1>3. CASE \E outcome \in {Fallback, Dark} : GiveUp(outcome)
      BY <1>1, <1>3 DEF GiveUp
<1> QED BY <1>2, <1>3

LEMMA DeskNextInv ==
    ASSUME DeskInv, [DeskNext]_deskVars
    PROVE  DeskInv'
<1>1. CASE ToolCall /\ UNCHANGED published
  <2>1. CASE \E c \in NodeCalls, s \in Submissions : SubmitAllowed /\ Submit(c, s)
        BY <1>1, <2>1, SubmitKeepsInv DEF Calls
  <2>2. CASE \E s \in Submissions : CheckAllowed /\ Check(s)
        BY <1>1, <2>2, CheckKeepsInv
  <2>3. CASE checkedClean # None /\ accepted = None /\ Submit(AutoCall, checkedClean)
        BY <1>1, <2>3, SubmitKeepsInv DEF Calls, DeskInv, DeskTypeOK, MaybeSubmission
  <2>4. CASE \E c \in Calls : RefereeAnswers(c)
        BY <1>1, <2>4, AnswerKeepsInv
  <2>5. CASE CancelReviews
        BY <1>1, <2>5, CancelKeepsInv
  <2> QED BY <1>1, <2>1, <2>2, <2>3, <2>4, <2>5 DEF ToolCall
<1>2. CASE RunnerStep /\ UNCHANGED published
      BY <1>2, RunnerKeepsInv DEF RunnerStep
<1>3. CASE PublishOutcome \/ \E outcome \in {Fallback, Dark} : GiveUp(outcome)
      BY <1>3, PublishKeepsInv
<1>4. CASE UNCHANGED deskVars
  <2>1. DeskTypeOK'
        BY <1>4, DeskNextType DEF DeskInv
  <2> QED BY <1>4, <2>1 DEF DeskInv, RepairsBounded, HeldDeskHasNoPreview, BlockIsEvidenced, ReviewsGuarded,
               Unrefereed, Publishable, deskVars, acceptVars, revisionVars, cleanVars, copyVars,
               structuralVars, refereeVars
<1> QED BY <1>1, <1>2, <1>3, <1>4 DEF DeskNext

THEOREM DeskInvariant == DeskSpec => []DeskInv
<1>1. DeskInit => DeskInv
      BY DeskInitInv
<1>2. DeskInv /\ [DeskNext]_deskVars => DeskInv'
      BY DeskNextInv
<1> QED BY <1>1, <1>2, PTL DEF DeskSpec


\* The repair loops are bounded, however the calls interleave.
THEOREM RepairLoopsBounded == DeskSpec => []RepairsBounded
<1>1. DeskInv => RepairsBounded
      BY DEF DeskInv
<1> QED BY <1>1, DeskInvariant, PTL

\* While a replan or a quant repair is owed there is no clean preview to submit.
THEOREM HoldKeepsPreviewAway == DeskSpec => []HeldDeskHasNoPreview
<1>1. DeskInv => HeldDeskHasNoPreview
      BY DEF DeskInv
<1> QED BY <1>1, DeskInvariant, PTL

\* A block always has a verdict and a critique behind it.
THEOREM BlocksAreEvidenced == DeskSpec => []BlockIsEvidenced
<1>1. DeskInv => BlockIsEvidenced
      BY DEF DeskInv
<1> QED BY <1>1, DeskInvariant, PTL

-----------------------------------------------------------------------------
(* Acceptance.                                                              *)

\* What a step that accepts something new leaves true of it.
Guarded(s, escalating) == Publishable(s) /\ (escalating => escalated)

LEMMA SubmitAccepts ==
    ASSUME NEW c \in Calls, NEW s \in Submissions, Submit(c, s)
    PROVE  accepted' = accepted \/ (accepted' = s /\ Guarded(s, escalations'))
<1> USE DEF acceptVars, revisionVars, cleanVars, Guarded
<1>1. CASE \E contradicts \in BOOLEAN : SubmitHard(s, contradicts)
      BY Zenon, <1>1 DEF SubmitHard
<1>2. CASE \E code \in QuantCodes, contradicts \in BOOLEAN : SubmitStructural(s, code, contradicts)
      BY Zenon, <1>2 DEF SubmitStructural
<1>3. CASE \E sig \in CopySigs : SubmitCopy(s, sig)
      BY Zenon, <1>3 DEF SubmitCopy
<1>4. CASE SubmitPause(s)
      BY Zenon, <1>4 DEF SubmitPause
<1>5. CASE SubmitUnsubstantiated(s)
      BY Zenon, <1>5 DEF SubmitUnsubstantiated
<1>6. CASE \E escalating \in BOOLEAN : SubmitAtOnce(s, escalating)
  <2>1. PICK escalating \in BOOLEAN : SubmitAtOnce(s, escalating)
        BY <1>6
  <2>2. accepted' = s /\ escalations' = escalating /\ Guarded(s, escalating)
        BY Zenon, <2>1 DEF SubmitAtOnce, ReachesReferee, Accept
  <2> QED BY <2>2
<1>7. CASE \E escalating \in BOOLEAN : SubmitToReferee(c, s, escalating)
      BY Zenon, <1>7 DEF SubmitToReferee
<1> QED BY Zenon, <1>1, <1>2, <1>3, <1>4, <1>5, <1>6, <1>7 DEF Submit

LEMMA AnswerAccepts ==
    ASSUME ReviewsGuarded, NEW c \in Calls, RefereeAnswers(c)
    PROVE  accepted' = accepted \/ Guarded(accepted', escalations')
<1> USE DEF acceptVars, Guarded, ReviewsGuarded, Accept
<1>1. CASE RefereeApproves(c)
      BY Zenon, <1>1 DEF RefereeApproves
<1>2. CASE RefereeUnavailable(c)
      BY Zenon, <1>2 DEF RefereeUnavailable
<1>3. CASE RefereeBlamesInfra(c)
      BY Zenon, <1>3 DEF RefereeBlamesInfra
<1>4. CASE \E needsReplan \in BOOLEAN : RefereeBlocks(c, needsReplan)
      BY Zenon, <1>4 DEF RefereeBlocks
<1>5. CASE RefereeOverruled(c)
      BY Zenon, <1>5 DEF RefereeOverruled
<1> QED BY Zenon, <1>1, <1>2, <1>3, <1>4, <1>5 DEF RefereeAnswers

LEMMA RunnerAccepts ==
    ASSUME RunnerStep
    PROVE  \/ accepted' \in {accepted, None}
           \/ accepted' = lastAccepted /\ Publishable(accepted')
<1> USE DEF acceptVars
<1>1. CASE ResetForecastCopyState
      BY Zenon, <1>1 DEF ResetForecastCopyState
<1>2. CASE \E active \in SUBSET Mixtures, newCritique \in BOOLEAN :
              SyncPublishableArtifacts(active, newCritique)
      BY Zenon, <1>2 DEF SyncPublishableArtifacts
<1>3. CASE \E replanDone, repairDone \in BOOLEAN : SettleWave(replanDone, repairDone)
      BY Zenon, <1>3 DEF SettleWave
<1>4. CASE \E replanDone, repairDone \in BOOLEAN : Reopen(replanDone, repairDone)
      BY Zenon, <1>4 DEF Reopen
<1>5. CASE RestorePriorAcceptance
      BY Zenon, <1>5 DEF RestorePriorAcceptance, CanRestorePriorAcceptance
<1> QED BY Zenon, <1>1, <1>2, <1>3, <1>4, <1>5 DEF RunnerStep

\* An acceptance is guarded whoever makes it.
LEMMA NextAccepts ==
    ASSUME DeskInv, [DeskNext]_deskVars
    PROVE  \/ accepted' \in {accepted, None}
           \/ accepted' = lastAccepted /\ Publishable(accepted')
           \/ Guarded(accepted', escalations')
<1>1. CASE ToolCall
  <2>1. CASE \E c \in NodeCalls, s \in Submissions : SubmitAllowed /\ Submit(c, s)
        BY <2>1, SubmitAccepts DEF Calls
  <2>2. CASE \E s \in Submissions : CheckAllowed /\ Check(s)
        BY <2>2 DEF Check, CheckClean, CheckHard, CheckStructural, CheckCopy, acceptVars
  <2>3. CASE checkedClean # None /\ accepted = None /\ Submit(AutoCall, checkedClean)
        BY <2>3, SubmitAccepts DEF Calls, DeskInv, DeskTypeOK, MaybeSubmission
  <2>4. CASE \E c \in Calls : RefereeAnswers(c)
        BY <2>4, AnswerAccepts DEF DeskInv
  <2>5. CASE CancelReviews
        BY <2>5 DEF CancelReviews, acceptVars
  <2> QED BY <1>1, <2>1, <2>2, <2>3, <2>4, <2>5 DEF ToolCall
<1>2. CASE RunnerStep
      BY <1>2, RunnerAccepts
<1>3. CASE PublishOutcome \/ \E outcome \in {Fallback, Dark} : GiveUp(outcome)
      BY <1>3 DEF PublishOutcome, GiveUp, acceptVars
<1>4. CASE UNCHANGED deskVars
      BY <1>4 DEF deskVars, acceptVars
<1> QED BY <1>1, <1>2, <1>3, <1>4 DEF DeskNext

\* No escalating forecast slips past the steelman pause by waiting at the referee.
THEOREM EscalationsArePaused == DeskSpec => EscalationPaused
<1>1. DeskInv /\ [DeskNext]_deskVars =>
        (accepted' # accepted /\ accepted' \notin {None, lastAccepted} /\ escalations' => escalated)
      BY NextAccepts DEF Guarded
<1> QED BY <1>1, DeskInvariant, PTL DEF DeskSpec, EscalationPaused

\* No mixture is superseded between the check at submit and the referee's answer.
THEOREM AcceptancesArePublishable == DeskSpec => AcceptsPublishable
<1>1. DeskInv /\ [DeskNext]_deskVars =>
        (accepted' # accepted /\ accepted' # None => Publishable(accepted'))
      BY NextAccepts DEF Guarded
<1> QED BY <1>1, DeskInvariant, PTL DEF DeskSpec, AcceptsPublishable

-----------------------------------------------------------------------------
(* Provenance.                                                              *)

\* A step earns the status of what it accepts, or accepts on a report that sets
\* none, or leaves status and latest acceptance alone, but for one that no longer
\* counts.
Earns ==
    /\ accepted' # None
    /\ \/ unstated'
       \/ /\ status' = "approved" => accepted' \in approved'
          /\ status' = "intervention_cap" => interventions' >= MaxInterventions
          /\ status' = "disabled" <=> ~RefereeEnabled

Carries ==
    /\ LatestAcceptance' \in {LatestAcceptance, None}
    /\ status' = status /\ unstated' = unstated /\ approved' = approved
    /\ interventions' >= interventions

LEMMA SubmitEarns ==
    ASSUME DeskInv, NEW c \in Calls, NEW s \in Submissions, Submit(c, s)
    PROVE  Earns \/ Carries
<1>1. interventions' = interventions => interventions' >= interventions
      BY DEF DeskInv, DeskTypeOK
<1>2. s # None
      BY SubmissionAssumption
<1> USE <1>1, <1>2 DEF acceptVars, revisionVars, refereeVars, Carries, LatestAcceptance
<1>3. CASE \E contradicts \in BOOLEAN : SubmitHard(s, contradicts)
      BY Zenon, <1>3 DEF SubmitHard
<1>4. CASE \E code \in QuantCodes, contradicts \in BOOLEAN : SubmitStructural(s, code, contradicts)
      BY Zenon, <1>4 DEF SubmitStructural
<1>5. CASE \E sig \in CopySigs : SubmitCopy(s, sig)
      BY Zenon, <1>5 DEF SubmitCopy
<1>6. CASE SubmitPause(s)
      BY Zenon, <1>6 DEF SubmitPause
<1>7. CASE SubmitUnsubstantiated(s)
      BY Zenon, <1>7 DEF SubmitUnsubstantiated
<1>8. CASE \E escalating \in BOOLEAN : SubmitAtOnce(s, escalating)
      BY <1>8 DEF SubmitAtOnce, Accept, Earns
<1>9. CASE \E escalating \in BOOLEAN : SubmitToReferee(c, s, escalating)
      BY Zenon, <1>9 DEF SubmitToReferee
<1> QED BY <1>3, <1>4, <1>5, <1>6, <1>7, <1>8, <1>9 DEF Submit

LEMMA AnswerEarns ==
    ASSUME DeskInv, NEW c \in Calls, RefereeAnswers(c)
    PROVE  Earns \/ Carries
<1>1. reviewing[c] # None
      BY DEF RefereeAnswers, RefereeApproves, RefereeUnavailable, RefereeBlamesInfra, RefereeBlocks,
             RefereeOverruled
<1>2. reviewing[c].submission # None /\ RefereeEnabled
      BY <1>1, SubmissionAssumption DEF DeskInv, DeskTypeOK, Review, Unrefereed, NoReviews
<1>3. interventions \in Nat /\ MaxInterventions \in Nat
      BY SubmissionAssumption DEF DeskInv, DeskTypeOK
<1>4. CASE RefereeApproves(c)
      BY <1>2, <1>4 DEF RefereeApproves, Accept, Earns
<1>5. CASE RefereeUnavailable(c)
      BY <1>2, <1>5 DEF RefereeUnavailable, Accept, Earns
<1>6. CASE RefereeBlamesInfra(c)
      BY <1>2, <1>6 DEF RefereeBlamesInfra, Accept, Earns
<1>7. CASE \E needsReplan \in BOOLEAN : RefereeBlocks(c, needsReplan)
      BY <1>3, <1>7 DEF RefereeBlocks, Carries, LatestAcceptance, acceptVars, revisionVars
<1>8. CASE RefereeOverruled(c)
      BY <1>2, <1>3, <1>8 DEF RefereeOverruled, Accept, Earns
<1> QED BY <1>4, <1>5, <1>6, <1>7, <1>8 DEF RefereeAnswers

LEMMA RunnerCarries ==
    ASSUME DeskInv, RunnerStep
    PROVE  Carries
<1>1. interventions' = interventions => interventions' >= interventions
      BY DEF DeskInv, DeskTypeOK
<1> USE <1>1 DEF acceptVars, revisionVars, refereeVars, Carries, LatestAcceptance
<1>2. CASE ResetForecastCopyState
      BY Zenon, <1>2 DEF ResetForecastCopyState
<1>3. CASE \E active \in SUBSET Mixtures, newCritique \in BOOLEAN :
              SyncPublishableArtifacts(active, newCritique)
      BY <1>3 DEF SyncPublishableArtifacts, Kept
<1>4. CASE \E replanDone, repairDone \in BOOLEAN : SettleWave(replanDone, repairDone)
      BY Zenon, <1>4 DEF SettleWave
<1>5. CASE \E replanDone, repairDone \in BOOLEAN : Reopen(replanDone, repairDone)
      BY <1>5 DEF Reopen, MayReopen
<1>6. CASE RestorePriorAcceptance
      BY <1>6 DEF RestorePriorAcceptance, CanRestorePriorAcceptance
<1> QED BY <1>2, <1>3, <1>4, <1>5, <1>6 DEF RunnerStep

ProvenanceInv == DeskInv /\ StatusEarned /\ PublishedProvenance

LEMMA ToolCallEarns ==
    ASSUME DeskInv, ToolCall
    PROVE  Earns \/ Carries
<1>1. interventions' = interventions => interventions' >= interventions
      BY DEF DeskInv, DeskTypeOK
<1>2. CASE \E c \in NodeCalls, s \in Submissions : SubmitAllowed /\ Submit(c, s)
      BY <1>2, SubmitEarns DEF Calls
<1>3. CASE \E s \in Submissions : CheckAllowed /\ Check(s)
      BY <1>1, <1>3 DEF Check, CheckClean, CheckHard, CheckStructural, CheckCopy, acceptVars, revisionVars,
                        refereeVars, Carries, LatestAcceptance
<1>4. CASE checkedClean # None /\ accepted = None /\ Submit(AutoCall, checkedClean)
      BY <1>4, SubmitEarns DEF Calls, DeskInv, DeskTypeOK, MaybeSubmission
<1>5. CASE \E c \in Calls : RefereeAnswers(c)
      BY <1>5, AnswerEarns
<1>6. CASE CancelReviews
      BY <1>1, <1>6 DEF CancelReviews, acceptVars, revisionVars, Carries, LatestAcceptance
<1> QED BY <1>2, <1>3, <1>4, <1>5, <1>6 DEF ToolCall

LEMMA NextProvenance ==
    ASSUME ProvenanceInv, [DeskNext]_deskVars
    PROVE  ProvenanceInv'
<1>1. DeskInv /\ DeskInv'
      BY DeskNextInv DEF ProvenanceInv
<1>2. interventions \in Nat /\ interventions' \in Nat /\ MaxInterventions \in Nat
      BY <1>1, SubmissionAssumption DEF DeskInv, DeskTypeOK
<1>3. CASE published = None /\ (ToolCall \/ RunnerStep) /\ UNCHANGED published
  <2>1. Earns \/ Carries
        BY <1>1, <1>3, ToolCallEarns, RunnerCarries
  <2>2. StatusEarned'
    <3>1. CASE Earns
          BY <3>1 DEF Earns, StatusEarned, Earned, LatestAcceptance
    <3>2. CASE Carries
          BY <1>2, <1>3, <3>2 DEF Carries, StatusEarned, Earned, ProvenanceInv
    <3> QED BY <2>1, <3>1, <3>2
  <2>3. PublishedProvenance'
        BY <1>3, SubmissionAssumption DEF PublishedProvenance
  <2> QED BY <1>1, <2>2, <2>3 DEF ProvenanceInv
<1>4. CASE published = None /\ PublishOutcome
  <2>1. published' # None
        BY <1>4, SubmissionAssumption DEF PublishOutcome, CanPreferLastClean, NothingClean
  <2>2. PublishedProvenance'
    <3>1. CASE accepted # None /\ published' = accepted /\ UNCHANGED <<status, unstated>>
          BY <1>4, <3>1 DEF PublishOutcome, PublishedProvenance, Earned, ProvenanceInv, StatusEarned,
                            LatestAcceptance
    <3>2. CASE CanPreferLastClean /\ published' = lastClean /\ status' = LastCleanStatus
          BY <1>1, <1>4, <3>2 DEF PublishOutcome, PublishedProvenance, Earned, LastCleanStatus, DeskInv,
                                  Unrefereed
    <3>3. CASE published' = NothingClean
          BY <3>3, SubmissionAssumption DEF NothingClean, PublishedProvenance
    <3> QED BY <1>4, <3>1, <3>2, <3>3 DEF PublishOutcome
  <2> QED BY <1>1, <2>1, <2>2 DEF ProvenanceInv, StatusEarned
<1>5. CASE published = None /\ \E outcome \in {Fallback, Dark} : GiveUp(outcome)
      BY <1>1, <1>5, SubmissionAssumption DEF GiveUp, ProvenanceInv, StatusEarned, PublishedProvenance
<1>6. CASE UNCHANGED deskVars
      BY <1>1, <1>6 DEF deskVars, acceptVars, revisionVars, refereeVars, ProvenanceInv, StatusEarned,
                        PublishedProvenance, Earned, LatestAcceptance
<1> QED BY <1>3, <1>4, <1>5, <1>6 DEF DeskNext

LEMMA ProvenanceInvariant == DeskSpec => []ProvenanceInv
<1>1. DeskInit => ProvenanceInv
      BY DeskInitInv, SubmissionAssumption DEF DeskInit, ProvenanceInv, StatusEarned, PublishedProvenance,
                                               LatestAcceptance
<1>2. ProvenanceInv /\ [DeskNext]_deskVars => ProvenanceInv'
      BY NextProvenance
<1> QED BY <1>1, <1>2, PTL DEF DeskSpec

\* The status the desk carries is true of the latest acceptance at all times, unless
\* that came on a report that blames infra.
THEOREM StatusIsEarned == DeskSpec => []StatusEarned
<1>1. ProvenanceInv => StatusEarned
      BY DEF ProvenanceInv
<1> QED BY <1>1, ProvenanceInvariant, PTL

\* What is published carries a referee status it earned, with the same exception.
THEOREM PublishedIsEarned == DeskSpec => []PublishedProvenance
<1>1. ProvenanceInv => PublishedProvenance
      BY DEF ProvenanceInv
<1> QED BY <1>1, ProvenanceInvariant, PTL

\* A forecast that is published unapproved names its bypass: a report that blames
\* infra is the only way the naming fails.
THEOREM BypassesAreNamed == DeskSpec => []BypassIsNamed
<1>1. PublishedProvenance => BypassIsNamed
      BY DEF PublishedProvenance, BypassIsNamed, Earned
<1> QED BY <1>1, PublishedIsEarned, PTL

-----------------------------------------------------------------------------
(* The inductive invariant of the run.                                      *)

\* Only a working forecast node has calls at the referee, besides the runner's
\* own submit in its own phase.
ReviewsHaveOwners ==
    /\ \A c \in NodeCalls : reviewing[c] # None => phase = "wave" /\ working
    /\ reviewing[AutoCall] # None => phase = "autoReview"

\* A wave of the loop is one of the MaxWaves; the demanded node runs after it.
WavesLeft ==
    /\ phase \in {"plan", "decide"} => ~demand
    /\ phase \in {"plan", "wave", "auto", "autoReview", "decide"} /\ ~demand => wave < MaxWaves

RunInv ==
    /\ TypeOK
    /\ phase \notin Ended => published = None
    /\ ReviewsHaveOwners
    /\ WavesLeft

-----------------------------------------------------------------------------
(* What the desk's operations do to the suspended reviews.                  *)

LEMMA SubmitReviews ==
    ASSUME NEW c \in Calls, NEW s \in Submissions, Submit(c, s)
    PROVE  \/ reviewing' = reviewing
           \/ \E r : reviewing' = [reviewing EXCEPT ![c] = r]
BY DEF Submit, SubmitHard, SubmitStructural, SubmitCopy, SubmitPause, SubmitUnsubstantiated, SubmitAtOnce,
       SubmitToReferee, refereeVars

LEMMA CheckReviews ==
    ASSUME NEW s \in Submissions, Check(s)
    PROVE  reviewing' = reviewing
BY DEF Check, CheckClean, CheckHard, CheckStructural, CheckCopy, refereeVars

LEMMA AnswerReviews ==
    ASSUME NEW c \in Calls, RefereeAnswers(c)
    PROVE  reviewing[c] # None /\ reviewing' = [reviewing EXCEPT ![c] = None]
BY DEF RefereeAnswers, RefereeApproves, RefereeUnavailable, RefereeBlamesInfra, RefereeBlocks,
       RefereeOverruled, Answered

LEMMA RunnerReviews ==
    ASSUME RunnerStep
    PROVE  reviewing' = reviewing
BY DEF RunnerStep, ResetForecastCopyState, SyncPublishableArtifacts, SettleWave, Reopen,
       RestorePriorAcceptance, refereeVars

\* Outside the node's and the runner's own calls nothing is suspended.
LEMMA Quiet ==
    ASSUME RunInv, phase # "autoReview", phase = "wave" => ~working
    PROVE  reviewing = NoReviews
BY DEF RunInv, ReviewsHaveOwners, TypeOK, DeskTypeOK, NoReviews, Calls

-----------------------------------------------------------------------------
(* Every step of the run is a step of the desk, or leaves it alone.         *)

DeskStep == DeskNext \/ UNCHANGED deskVars

LEMMA PlanDesk == ASSUME RunInv, Plan PROVE DeskStep
<1>1. phase = "plan"
      BY DEF Plan, PlanEnds, PlanDropped, PlanRaises, PlanWave
<1>2. reviewing = NoReviews /\ published = None
      BY <1>1, Quiet DEF RunInv, Ended
<1>3. CASE PlanEnds
      BY <1>3 DEF PlanEnds, DeskStep
<1>4. CASE PlanDropped
      BY <1>4 DEF PlanDropped, DeskStep
<1>5. CASE PlanRaises
      BY <1>2, <1>5 DEF PlanRaises, DeskStep, DeskNext
<1>6. ASSUME NEW newOps, NEW newStop, NEW replaced, PlanWave(newOps, newStop, replaced)
      PROVE  DeskStep
      BY <1>2, <1>6 DEF PlanWave, DeskStep, DeskNext, RunnerStep
<1> QED BY <1>3, <1>4, <1>5, <1>6 DEF Plan

LEMMA WaveDesk == ASSUME RunInv, Wave PROVE DeskStep
<1>1. phase = "wave" /\ published = None
  <2>1. phase = "wave"
        BY DEF Wave, RegisterMixture, NodeSubmits, NodeChecks, CallStep, NodeAnswered, NodeReturns,
               NodeTimesOut, Merge
  <2> QED BY <2>1 DEF RunInv, Ended
<1>2. ASSUME NEW m \in Mixtures, RegisterMixture(m)
      PROVE  DeskStep
      BY <1>2 DEF RegisterMixture, DeskStep
<1>3. ASSUME NEW c \in NodeCalls, NEW s \in Submissions, NodeSubmits(c, s)
      PROVE  DeskStep
      BY <1>1, <1>3 DEF NodeSubmits, CallStep, DeskStep, DeskNext, ToolCall
<1>4. ASSUME NEW s \in Submissions, NodeChecks(s)
      PROVE  DeskStep
      BY <1>1, <1>4 DEF NodeChecks, CallStep, DeskStep, DeskNext, ToolCall
<1>5. ASSUME NEW c \in NodeCalls, NodeAnswered(c)
      PROVE  DeskStep
      BY <1>1, <1>5 DEF NodeAnswered, DeskStep, DeskNext, ToolCall, Calls
<1>6. CASE NodeReturns
      BY <1>6 DEF NodeReturns, DeskStep
<1>7. CASE NodeTimesOut
      BY <1>1, <1>7 DEF NodeTimesOut, DeskStep, DeskNext, ToolCall
<1>8. ASSUME NEW ok \in SUBSET ops, Merge(ok)
      PROVE  DeskStep
  <2>1. reviewing = NoReviews
        BY <1>1, <1>8, Quiet DEF Merge
  <2>2. ActiveAfter(ok) \in SUBSET Mixtures
        BY DEF ActiveAfter, RunInv, TypeOK, DeskTypeOK
  <2>3. ("critic" \in ok) \in BOOLEAN
        OBVIOUS
  <2>4. RunnerStep /\ UNCHANGED published
        BY Zenon, <1>8, <2>1, <2>2, <2>3 DEF Merge, RunnerStep
  <2> QED BY <1>1, <2>1, <2>4 DEF DeskStep, DeskNext
<1> QED BY <1>2, <1>3, <1>4, <1>5, <1>6, <1>7, <1>8 DEF Wave

LEMMA AutoDesk == ASSUME RunInv, AutoSkipped \/ AutoSubmits \/ AutoAnswered PROVE DeskStep
<1>1. published = None
      BY DEF RunInv, Ended, AutoSkipped, AutoSubmits, AutoAnswered
<1>2. CASE AutoSkipped
      BY <1>2 DEF AutoSkipped, DeskStep
<1>3. CASE AutoSubmits
      BY <1>1, <1>3 DEF AutoSubmits, AutoWanted, autoUnchanged, DeskStep, DeskNext, ToolCall
<1>4. CASE AutoAnswered
      BY <1>1, <1>4 DEF AutoAnswered, autoUnchanged, DeskStep, DeskNext, ToolCall, Calls
<1> QED BY <1>2, <1>3, <1>4

LEMMA DecideDesk == ASSUME RunInv, Decide PROVE DeskStep
<1>1. phase = "decide"
      BY DEF Decide, DecideBlocked, DecideReplan, DecideRepair, DecideStop, DecideReopen, DecideAccepted,
             DecideUnaccepted, Settled
<1>2. reviewing = NoReviews /\ published = None
      BY <1>1, Quiet DEF RunInv, Ended
<1>3. FollowUpRan \in BOOLEAN /\ RepairRegistered \in BOOLEAN /\ FALSE \in BOOLEAN
      BY Zenon DEF FollowUpRan, RepairRegistered
<1>4. CASE DecideBlocked \/ DecideReplan
      BY <1>4 DEF DecideBlocked, DecideReplan, DeskStep
<1>5. ASSUME NEW replanDone \in BOOLEAN, NEW repairDone \in BOOLEAN, UNCHANGED published,
             SettleWave(replanDone, repairDone) \/ Reopen(replanDone, repairDone)
      PROVE  DeskStep
      BY <1>2, <1>5 DEF DeskStep, DeskNext, RunnerStep
<1>6. CASE DecideRepair
      BY Zenon, <1>3, <1>5, <1>6 DEF DecideRepair, decideUnchanged
<1>7. CASE DecideStop \/ DecideAccepted \/ DecideUnaccepted
      BY Zenon, <1>3, <1>5, <1>7 DEF DecideStop, DecideAccepted, DecideUnaccepted, decideUnchanged
<1>8. CASE DecideReopen
      BY Zenon, <1>3, <1>5, <1>8 DEF DecideReopen, decideUnchanged
<1> QED BY <1>4, <1>6, <1>7, <1>8 DEF Decide

LEMMA EndDesk ==
    ASSUME RunInv, Restore \/ DemandSubmit \/ NoDemand \/ Publish \/ PublishUnbuilt
    PROVE  DeskStep
<1>1. phase \in {"restore", "lastChance", "publish"}
      BY DEF Restore, DemandSubmit, NoDemand, Publish, PublishUnbuilt
<1>2. reviewing = NoReviews /\ published = None
      BY <1>1, Quiet DEF RunInv, Ended
<1>3. CASE Restore
      BY <1>2, <1>3 DEF Restore, DeskStep, DeskNext, RunnerStep
<1>4. CASE DemandSubmit
      BY <1>2, <1>4 DEF DemandSubmit, DeskStep, DeskNext, RunnerStep
<1>5. CASE NoDemand
      BY <1>5 DEF NoDemand, DeskStep
<1>6. CASE Publish
      BY <1>2, <1>6 DEF Publish, DeskStep, DeskNext
<1>7. CASE PublishUnbuilt
      BY <1>2, <1>7 DEF PublishUnbuilt, NothingClean, DeskStep, DeskNext
<1> QED BY <1>3, <1>4, <1>5, <1>6, <1>7

LEMMA NextDesk ==
    ASSUME RunInv, [Next]_vars
    PROVE  [DeskNext]_deskVars
<1>1. CASE Over \/ UNCHANGED vars
      BY <1>1 DEF Over, vars
<1> QED BY <1>1, PlanDesk, WaveDesk, AutoDesk, DecideDesk, EndDesk DEF Next, DeskStep

-----------------------------------------------------------------------------
(* The run's own types.                                                     *)

LEMMA RunFlags ==
    ASSUME RunInv, [Next]_vars
    PROVE  RunFlagsOK'
<1> RunFlagsOK /\ FlagsOK BY DEF RunInv, TypeOK, DeskTypeOK
<1> USE DEF RunFlagsOK, waveVars, nodeVars
<1>1. CASE PlanEnds \/ PlanDropped
      BY Zenon, <1>1 DEF PlanEnds, PlanDropped, LoopOn, LeaveLoop, ForgetWave
<1>2. CASE PlanRaises
      BY Zenon, <1>2 DEF PlanRaises
<1>3. ASSUME NEW newOps, NEW newStop \in BOOLEAN, NEW replaced, PlanWave(newOps, newStop, replaced)
      PROVE  RunFlagsOK'
  <2>1. ("forecast" \in newOps) \in BOOLEAN
        OBVIOUS
  <2> QED BY Zenon, <1>3, <2>1 DEF PlanWave, StartNodes, FlagsOK
<1>4. ASSUME NEW m \in Mixtures, RegisterMixture(m)
      PROVE  RunFlagsOK'
      BY Zenon, <1>4 DEF RegisterMixture
<1>5. CASE CallStep
      BY Zenon, <1>5 DEF CallStep
<1>6. ASSUME NEW c \in NodeCalls, NodeAnswered(c)
      PROVE  RunFlagsOK'
  <2>1. (\E d \in NodeCalls \ {c} : reviewing[d] # None) \in BOOLEAN
        OBVIOUS
  <2> QED BY Zenon, <1>6, <2>1 DEF NodeAnswered
<1>7. CASE NodeReturns \/ NodeTimesOut
      BY Zenon, <1>7 DEF NodeReturns, NodeTimesOut
<1>8. ASSUME NEW ok \in SUBSET ops, Merge(ok)
      PROVE  RunFlagsOK'
      BY Zenon, <1>8 DEF Merge
<1>9. CASE Wave
      BY <1>4, <1>5, <1>6, <1>7, <1>8, <1>9 DEF Wave, NodeSubmits, NodeChecks
<1>10. CASE AutoSkipped \/ AutoSubmits \/ AutoAnswered
       BY Zenon, <1>10 DEF AutoSkipped, AutoSubmits, AutoAnswered, autoUnchanged
<1>11. CASE Decide
       BY Zenon, <1>11 DEF Decide, DecideBlocked, DecideReplan, DecideRepair, DecideStop, DecideReopen,
             DecideAccepted, DecideUnaccepted, decideUnchanged, LoopOn, LeaveLoop, ForgetWave
<1>12. CASE Restore \/ NoDemand \/ Publish \/ PublishUnbuilt
       BY Zenon, <1>12 DEF Restore, NoDemand, Publish, PublishUnbuilt
<1>13. CASE DemandSubmit
  <2>1. ("forecast" \in {"forecast"}) \in BOOLEAN
        OBVIOUS
  <2> QED BY Zenon, <1>13, <2>1 DEF DemandSubmit, StartNodes
<1>14. CASE Over \/ UNCHANGED vars
       BY Zenon, <1>14 DEF Over, vars, runVars
<1> QED BY <1>1, <1>2, <1>3, <1>9, <1>10, <1>11, <1>12, <1>13, <1>14 DEF Next, Plan

\* The wave counter and the phase, told apart by whether the loop goes on.
LEMMA LoopTypes ==
    ASSUME RunInv, phase \in {"plan", "decide"}, LoopOn \/ LeaveLoop
    PROVE  /\ phase' \in {"plan", "restore"} /\ wave' \in 0..MaxWaves
           /\ phase' = "plan" => wave' < MaxWaves
           /\ ops' = {} /\ okKinds' = {} /\ retires' = None /\ fresh' = None
BY ForecastRunAssumption DEF RunInv, TypeOK, WavesLeft, LoopOn, LeaveLoop, ForgetWave

\* The parts of the run's state no flag is among.
RunDataOK ==
    /\ phase \in Phases /\ wave \in 0..MaxWaves
    /\ ops \subseteq Kinds /\ okKinds \subseteq Kinds
    /\ {retires, fresh} \subseteq Mixtures \cup {None}
    /\ store \subseteq Mixtures
    /\ calls \in 0..CallLimit

LEMMA RunData ==
    ASSUME RunInv, [Next]_vars
    PROVE  RunDataOK' /\ WavesLeft'
<1> RunDataOK BY DEF RunInv, TypeOK, RunDataOK
<1> USE ForecastRunAssumption DEF RunDataOK, WavesLeft, waveVars, nodeVars, Phases
<1>1. CASE PlanEnds \/ PlanDropped
      BY <1>1, LoopTypes DEF PlanEnds, PlanDropped, RunInv
<1>2. CASE PlanRaises
      BY <1>2 DEF PlanRaises
<1>3. ASSUME NEW newOps \in SUBSET Kinds, NEW newStop,
             NEW replaced \in {None} \cup Mixtures, PlanWave(newOps, newStop, replaced)
      PROVE  RunDataOK' /\ WavesLeft'
      BY <1>3 DEF PlanWave, StartNodes, RunInv
<1>4. CASE Plan
  <2>1. publishable \subseteq Mixtures
        BY DEF RunInv, TypeOK, DeskTypeOK
  <2> QED BY <1>1, <1>2, <1>3, <1>4, <2>1 DEF Plan
<1>5. ASSUME NEW m \in Mixtures, RegisterMixture(m)
      PROVE  RunDataOK' /\ WavesLeft'
      BY <1>5 DEF RegisterMixture, RunInv
<1>6. CASE CallStep
      BY <1>6 DEF CallStep, RunInv
<1>7. ASSUME NEW c \in NodeCalls, NodeAnswered(c)
      PROVE  RunDataOK' /\ WavesLeft'
      BY <1>7 DEF NodeAnswered, RunInv
<1>8. CASE NodeReturns \/ NodeTimesOut
      BY <1>8 DEF NodeReturns, NodeTimesOut, RunInv
<1>9. ASSUME NEW ok \in SUBSET ops, Merge(ok)
      PROVE  RunDataOK' /\ WavesLeft'
      BY <1>9 DEF Merge, RunInv
<1>10. CASE Wave
       BY <1>5, <1>6, <1>7, <1>8, <1>9, <1>10 DEF Wave, NodeSubmits, NodeChecks
<1>11. CASE AutoSkipped \/ AutoSubmits \/ AutoAnswered
       BY <1>11 DEF AutoSkipped, AutoSubmits, AutoAnswered, autoUnchanged, AfterAuto, RunInv
<1>12. CASE Decide
  <2>1. phase = "decide" /\ (LoopOn \/ LeaveLoop) /\ UNCHANGED <<store, nodeVars, demand>>
        BY <1>12 DEF Decide, DecideBlocked, DecideReplan, DecideRepair, DecideStop, DecideReopen,
                     DecideAccepted, DecideUnaccepted, Settled, decideUnchanged
  <2> QED BY <2>1, LoopTypes DEF RunInv
<1>13. CASE Restore \/ NoDemand \/ Publish \/ PublishUnbuilt
       BY <1>13 DEF Restore, NoDemand, Publish, PublishUnbuilt, RunInv
<1>14. CASE DemandSubmit
       BY <1>14 DEF DemandSubmit, StartNodes, RunInv, Kinds
<1>15. CASE Over \/ UNCHANGED vars
       BY <1>15 DEF Over, vars, runVars, RunInv
<1> QED BY <1>4, <1>10, <1>11, <1>12, <1>13, <1>14, <1>15 DEF Next

-----------------------------------------------------------------------------
(* Publishing ends the run, and every suspended review has an owner.        *)

LEMMA PublishingEnds ==
    ASSUME RunInv, [Next]_vars
    PROVE  phase' \notin Ended => published' = None
<1> USE DEF RunInv, Ended
<1>1. CASE Plan
      BY <1>1 DEF Plan, PlanEnds, PlanDropped, PlanRaises, PlanWave, deskVars
<1>2. CASE Wave
      BY <1>2 DEF Wave, RegisterMixture, NodeSubmits, NodeChecks, CallStep, NodeAnswered, NodeReturns,
                  NodeTimesOut, Merge, deskVars
<1>3. CASE AutoSkipped \/ AutoSubmits \/ AutoAnswered
      BY <1>3 DEF AutoSkipped, AutoSubmits, AutoAnswered, autoUnchanged
<1>4. CASE Decide
      BY <1>4 DEF Decide, DecideBlocked, DecideReplan, DecideRepair, DecideStop, DecideReopen,
                  DecideAccepted, DecideUnaccepted, Settled, decideUnchanged
<1>5. CASE Restore \/ DemandSubmit \/ NoDemand \/ Publish \/ PublishUnbuilt
      BY <1>5 DEF Restore, DemandSubmit, NoDemand, Publish, PublishUnbuilt, deskVars
<1>6. CASE Over \/ UNCHANGED vars
      BY <1>6 DEF Over, vars, runVars, deskVars
<1> QED BY <1>1, <1>2, <1>3, <1>4, <1>5, <1>6 DEF Next

\* A step that leaves the desk's reviews as they are, in a quiet phase.
LEMMA QuietStep ==
    ASSUME reviewing = NoReviews, reviewing' = reviewing
    PROVE  ReviewsHaveOwners'
BY DEF ReviewsHaveOwners, NoReviews, Calls

LEMMA ReviewsKeepOwners ==
    ASSUME RunInv, [Next]_vars
    PROVE  ReviewsHaveOwners'
<1> USE SubmissionAssumption DEF refereeVars, deskVars
<1>1. reviewing \in [Calls -> Review \cup {None}]
      BY DEF RunInv, TypeOK, DeskTypeOK
<1>2. CASE Plan
  <2>1. reviewing = NoReviews
        BY <1>2, Quiet DEF Plan, PlanEnds, PlanDropped, PlanRaises, PlanWave
  <2>2. reviewing' = reviewing
        BY <1>2 DEF Plan, PlanEnds, PlanDropped, PlanRaises, PlanWave, GiveUp, ResetForecastCopyState
  <2> QED BY <2>1, <2>2, QuietStep
<1>3. CASE \E m \in Mixtures : RegisterMixture(m)
      BY <1>3 DEF RegisterMixture, RunInv, ReviewsHaveOwners, nodeVars
<1>4. ASSUME NEW c \in NodeCalls, NEW s \in Submissions, NodeSubmits(c, s)
      PROVE  ReviewsHaveOwners'
      BY <1>1, <1>4, SubmitReviews DEF NodeSubmits, CallStep, RunInv, ReviewsHaveOwners, Calls
<1>5. CASE \E s \in Submissions : NodeChecks(s)
      BY <1>5, CheckReviews DEF NodeChecks, CallStep, RunInv, ReviewsHaveOwners
<1>6. ASSUME NEW c \in NodeCalls, NodeAnswered(c)
      PROVE  ReviewsHaveOwners'
      BY <1>1, <1>6, AnswerReviews DEF NodeAnswered, RunInv, ReviewsHaveOwners, Calls
<1>7. CASE NodeReturns
      BY <1>7, QuietStep DEF NodeReturns
<1>8. CASE NodeTimesOut
      BY <1>1, <1>8 DEF NodeTimesOut, CancelReviews, RunInv, ReviewsHaveOwners, Calls
<1>9. ASSUME NEW ok \in SUBSET ops, Merge(ok)
      PROVE  ReviewsHaveOwners'
      BY <1>9, Quiet, QuietStep DEF Merge, SyncPublishableArtifacts
<1>10. CASE AutoSkipped
       BY <1>10, Quiet, QuietStep DEF AutoSkipped
<1>11. CASE AutoSubmits
  <2>1. reviewing = NoReviews
        BY <1>11, Quiet DEF AutoSubmits
  <2>2. checkedClean \in Submissions /\ AutoCall \in Calls
        BY <1>11 DEF AutoSubmits, AutoWanted, RunInv, TypeOK, DeskTypeOK, MaybeSubmission, Calls
  <2>3. \/ reviewing' = reviewing
        \/ \E r : reviewing' = [reviewing EXCEPT ![AutoCall] = r]
        BY <1>11, <2>2, SubmitReviews DEF AutoSubmits
  <2> QED BY <1>11, <2>1, <2>3 DEF AutoSubmits, AfterAuto, ReviewsHaveOwners, NoReviews, Calls
<1>12. CASE AutoAnswered
       BY <1>1, <1>12, AnswerReviews DEF AutoAnswered, RunInv, ReviewsHaveOwners, Calls
<1>13. CASE Decide
  <2>1. reviewing = NoReviews
        BY <1>13, Quiet DEF Decide, DecideBlocked, DecideReplan, DecideRepair, DecideStop, DecideReopen,
                            DecideAccepted, DecideUnaccepted, Settled
  <2>2. reviewing' = reviewing
        BY <1>13 DEF Decide, DecideBlocked, DecideReplan, DecideRepair, DecideStop, DecideReopen,
                     DecideAccepted, DecideUnaccepted, SettleWave, Reopen
  <2> QED BY <2>1, <2>2, QuietStep
<1>14. CASE Restore \/ DemandSubmit \/ NoDemand \/ Publish \/ PublishUnbuilt
  <2>1. reviewing = NoReviews
        BY <1>14, Quiet DEF Restore, DemandSubmit, NoDemand, Publish, PublishUnbuilt
  <2>2. reviewing' = reviewing
        BY <1>14 DEF Restore, DemandSubmit, NoDemand, Publish, PublishUnbuilt, RestorePriorAcceptance,
                     ResetForecastCopyState, PublishOutcome, GiveUp
  <2> QED BY <2>1, <2>2, QuietStep
<1>15. CASE Over \/ UNCHANGED vars
       BY <1>15 DEF Over, vars, runVars, nodeVars, RunInv, ReviewsHaveOwners
<1>16. CASE Wave
       BY <1>3, <1>4, <1>5, <1>6, <1>7, <1>8, <1>9, <1>16 DEF Wave
<1> QED BY <1>2, <1>10, <1>11, <1>12, <1>13, <1>14, <1>15, <1>16 DEF Next

-----------------------------------------------------------------------------
(* The run implements the desk.                                             *)

LEMMA InitInv == Init => RunInv /\ DeskInit
<1>1. Init => RunFlagsOK
      BY Zenon DEF Init, RunFlagsOK
<1>2. Init => DeskTypeOK
      BY DeskInitType DEF Init
<1>3. Init => RunDataOK /\ WavesLeft
      BY ForecastRunAssumption DEF Init, RunDataOK, WavesLeft, Phases
<1>4. Init => ReviewsHaveOwners /\ (phase \notin Ended => published = None)
      BY DEF Init, DeskInit, ReviewsHaveOwners, NoReviews, Calls
<1> QED BY <1>1, <1>2, <1>3, <1>4 DEF Init, RunInv, TypeOK, RunDataOK

LEMMA NextInv == ASSUME RunInv, [Next]_vars PROVE RunInv'
<1>1. DeskTypeOK'
      BY NextDesk, DeskNextType DEF RunInv, TypeOK
<1> QED BY <1>1, RunFlags, RunData, PublishingEnds, ReviewsKeepOwners DEF RunInv, TypeOK, RunDataOK

LEMMA RunInvariant == Spec => []RunInv
<1>1. RunInv /\ [Next]_vars => RunInv'
      BY NextInv
<1> QED BY <1>1, InitInv, PTL DEF Spec

\* Every variable of the run keeps its type; the wave counter never passes MaxWaves.
THEOREM TypeCorrect == Spec => []TypeOK
<1>1. RunInv => TypeOK
      BY DEF RunInv
<1> QED BY <1>1, RunInvariant, PTL

\* What the run does to the desk, the desk's own specification allows: the runner
\* never touches it while a submit is suspended at the referee.
THEOREM RunImplementsDesk == Spec => DeskSpec
<1>1. RunInv /\ [Next]_vars => [DeskNext]_deskVars
      BY NextDesk
<1> QED BY <1>1, InitInv, RunInvariant, PTL DEF Spec, DeskSpec

-----------------------------------------------------------------------------
(* What the desk promises, every run keeps.                                 *)

\* The repair loops of a run are bounded, whatever siblings are in flight.
THEOREM RunRepairsBounded == Spec => []RepairsBounded
BY RunImplementsDesk, RepairLoopsBounded, PTL

\* The runner's auto-submit cannot slip past a replan or a quant repair.
THEOREM RunHoldsPreview == Spec => []HeldDeskHasNoPreview
BY RunImplementsDesk, HoldKeepsPreviewAway, PTL

\* A run's blocks have a verdict and a critique behind them.
THEOREM RunBlocksEvidenced == Spec => []BlockIsEvidenced
BY RunImplementsDesk, BlocksAreEvidenced, PTL

\* No run accepts an escalating forecast that was not paused.
THEOREM RunPausesEscalations == Spec => EscalationPaused
BY RunImplementsDesk, EscalationsArePaused, PTL

\* No run accepts a forecast on a mixture that is superseded at that moment.
THEOREM RunAcceptsPublishable == Spec => AcceptsPublishable
BY RunImplementsDesk, AcceptancesArePublishable, PTL

\* The referee status of a run is at all times true of its latest acceptance, unless
\* that came on a report that blames infra: no interleaving of siblings, re-openings
\* and withdrawals is another exception.
THEOREM RunStatusEarned == Spec => []StatusEarned
BY RunImplementsDesk, StatusIsEarned, PTL

\* What a run publishes carries a referee status it earned, with the same exception.
THEOREM RunPublishesProvenance == Spec => []PublishedProvenance
BY RunImplementsDesk, PublishedIsEarned, PTL

\* A run that publishes without approval names the bypass, or published what it
\* accepted on a report that blames infra.
THEOREM RunNamesBypass == Spec => []BypassIsNamed
BY RunImplementsDesk, BypassesAreNamed, PTL

-----------------------------------------------------------------------------
(* No accepted forecast is lost.  With at most one revision the forecast    *)
(* that was re-opened first is also the one that is restored, unless its    *)
(* mixture was superseded, and a superseded mixture never comes back: a     *)
(* quant node only registers mixtures the run has not seen.                 *)

Stored(s) == s # None => ArtifactOf[s] \in store

\* Whatever may still be accepted cites a mixture of the run's store.
CitesStore ==
    /\ Stored(accepted) /\ Stored(lastAccepted) /\ Stored(counterfactual) /\ Stored(checkedClean)
    /\ \A c \in Calls : reviewing[c] # None => Stored(reviewing[c].submission)

\* The first accepted forecast is the one to restore, or it is superseded.
FallbackHeld ==
    counterfactual # None =>
        /\ revisions >= 1
        /\ ArtifactOf[counterfactual] # fresh
        /\ lastAccepted = counterfactual \/ (lastAccepted = None /\ ~Publishable(counterfactual))

\* Once the loop is left, a run without acceptance has a reason not to restore.
AfterLoop == phase \in {"lastChance", "publish", "done"} \/ demand

ReasonHeld ==
    AfterLoop /\ counterfactual # None /\ accepted = None
        => contradiction \/ ~Publishable(counterfactual)

DemandAddsNothing == demand => fresh = None /\ "quant" \notin ops

LossInv == CitesStore /\ FallbackHeld /\ ReasonHeld /\ DemandAddsNothing

\* A tool call or an answer: nothing is withdrawn, and a contradiction is only
\* cleared by an acceptance.
CallKeeps ==
    /\ UNCHANGED <<revisionVars, publishable>>
    /\ accepted # None => accepted' # None
    /\ contradiction => contradiction' \/ accepted' # None

LEMMA SubmitKeeps ==
    ASSUME NEW c \in Calls, NEW s \in Submissions, Submit(c, s)
    PROVE  /\ CallKeeps
           /\ accepted' \in {accepted, s} /\ checkedClean' \in {checkedClean, None}
           /\ \/ reviewing' = reviewing
              \/ \E e : reviewing' = [reviewing EXCEPT ![c] = [submission |-> s, escalating |-> e]]
<1>0. s # None
      BY SubmissionAssumption
<1> USE <1>0 DEF CallKeeps, acceptVars, cleanVars, refereeVars
<1>1. CASE \E contradicts \in BOOLEAN : SubmitHard(s, contradicts)
  <2>1. PICK contradicts \in BOOLEAN : SubmitHard(s, contradicts)
        BY <1>1
  <2>2. contradiction => contradiction'
        BY Zenon, <2>1 DEF SubmitHard
  <2>3. UNCHANGED <<revisionVars, publishable, accepted, reviewing>> /\ checkedClean' = None
        BY Zenon, <2>1 DEF SubmitHard
  <2> QED BY Zenon, <2>2, <2>3
<1>2. CASE \E code \in QuantCodes, contradicts \in BOOLEAN : SubmitStructural(s, code, contradicts)
  <2>1. PICK code \in QuantCodes, contradicts \in BOOLEAN : SubmitStructural(s, code, contradicts)
        BY <1>2
  <2>2. contradiction => contradiction'
        BY Zenon, <2>1 DEF SubmitStructural
  <2>3. UNCHANGED <<revisionVars, publishable, accepted, reviewing>> /\ checkedClean' = None
        BY Zenon, <2>1 DEF SubmitStructural
  <2> QED BY Zenon, <2>2, <2>3
<1>3. CASE \E sig \in CopySigs : SubmitCopy(s, sig)
  <2>1. UNCHANGED <<revisionVars, publishable, accepted, contradiction, reviewing>> /\ checkedClean' = None
        BY Zenon, <1>3 DEF SubmitCopy
  <2> QED BY Zenon, <2>1
<1>4. CASE SubmitPause(s)
      BY Zenon, <1>4 DEF SubmitPause
<1>5. CASE SubmitUnsubstantiated(s)
      BY Zenon, <1>5 DEF SubmitUnsubstantiated
<1>6. CASE \E escalating \in BOOLEAN : SubmitAtOnce(s, escalating)
  <2>1. /\ UNCHANGED <<revisionVars, publishable, reviewing>>
        /\ accepted' = s /\ checkedClean' = None
        BY Zenon, <1>6 DEF SubmitAtOnce, Accept
  <2> QED BY Zenon, <1>0, <2>1
<1>7. CASE \E escalating \in BOOLEAN : SubmitToReferee(c, s, escalating)
  <2>1. PICK e \in BOOLEAN : SubmitToReferee(c, s, e)
        BY <1>7
  <2>2. /\ UNCHANGED <<revisionVars, publishable, accepted, contradiction, checkedClean>>
        /\ reviewing' = [reviewing EXCEPT ![c] = [submission |-> s, escalating |-> e]]
        BY Zenon, <2>1 DEF SubmitToReferee
  <2> QED BY Zenon, <2>2
<1> QED BY <1>1, <1>2, <1>3, <1>4, <1>5, <1>6, <1>7 DEF Submit

LEMMA CheckKeeps ==
    ASSUME NEW s \in Submissions, Check(s)
    PROVE  /\ CallKeeps
           /\ accepted' = accepted /\ checkedClean' \in {s, None} /\ reviewing' = reviewing
BY DEF Check, CheckClean, CheckHard, CheckStructural, CheckCopy, CallKeeps, acceptVars, refereeVars

LEMMA AnswerKeeps ==
    ASSUME DeskTypeOK, NEW c \in Calls, RefereeAnswers(c)
    PROVE  /\ CallKeeps
           /\ accepted' \in {accepted, reviewing[c].submission}
           /\ checkedClean' \in {checkedClean, None}
           /\ reviewing[c] # None /\ reviewing' = [reviewing EXCEPT ![c] = None]
<1>1. reviewing[c] # None /\ reviewing' = [reviewing EXCEPT ![c] = None]
      BY AnswerReviews
<1>2. reviewing[c].submission # None
      BY <1>1, SubmissionAssumption DEF DeskTypeOK, Review
<1>3. CASE \E needsReplan \in BOOLEAN : RefereeBlocks(c, needsReplan)
  <2>1. PICK needsReplan \in BOOLEAN : RefereeBlocks(c, needsReplan)
        BY <1>3
  <2>2. checkedClean' = None /\ UNCHANGED <<accepted, contradiction, revisionVars, publishable>>
        BY Zenon, <2>1 DEF RefereeBlocks, acceptVars
  <2> QED BY <1>1, <2>2 DEF CallKeeps
<1>4. CASE RefereeApproves(c) \/ RefereeUnavailable(c) \/ RefereeBlamesInfra(c) \/ RefereeOverruled(c)
  <2>1. Accept(reviewing[c].submission, reviewing[c].escalating)
        BY Zenon, <1>4 DEF RefereeApproves, RefereeUnavailable, RefereeBlamesInfra, RefereeOverruled
  <2>2. accepted' = reviewing[c].submission /\ checkedClean' = None /\ UNCHANGED <<revisionVars, publishable>>
        BY Zenon, <2>1 DEF Accept
  <2> QED BY <1>1, <1>2, <2>2 DEF CallKeeps
<1> QED BY <1>3, <1>4 DEF RefereeAnswers

\* A call that keeps to the store leaves the invariant, in whatever phase it ends,
\* if that phase is after the loop only when this one was.
LEMMA CallKeepsLoss ==
    ASSUME LossInv, CallKeeps, CitesStore', UNCHANGED <<fresh, ops, demand>>,
           AfterLoop' => AfterLoop
    PROVE  LossInv'
<1>1. FallbackHeld'
      BY DEF LossInv, FallbackHeld, CallKeeps, revisionVars, Publishable
<1>2. ReasonHeld'
      BY DEF LossInv, ReasonHeld, CallKeeps, revisionVars, Publishable
<1>3. DemandAddsNothing'
      BY DEF LossInv, DemandAddsNothing
<1> QED BY <1>1, <1>2, <1>3 DEF LossInv

\* A step of the runner that leaves the forecasts and what is active alone.
LEMMA StillKeepsLoss ==
    ASSUME LossInv, RunInv,
           UNCHANGED <<accepted, lastAccepted, counterfactual, revisions, contradiction,
                       checkedClean, publishable, store>>,
           \A c \in Calls : reviewing'[c] \in {reviewing[c], None},
           fresh' \in {fresh, None}, DemandAddsNothing', AfterLoop' => AfterLoop
    PROVE  LossInv'
<1>1. CitesStore'
      BY DEF LossInv, CitesStore, Stored
<1>2. FallbackHeld'
  <2>1. counterfactual # None => ArtifactOf[counterfactual] # None
        BY SubmissionAssumption, ForecastRunAssumption DEF RunInv, TypeOK, DeskTypeOK, MaybeSubmission
  <2> QED BY <2>1 DEF LossInv, FallbackHeld, Publishable
<1>3. ReasonHeld'
      BY Zenon DEF LossInv, ReasonHeld, Publishable
<1> QED BY <1>1, <1>2, <1>3 DEF LossInv

\* The desk's part of such a step.
LEMMA StillDesk ==
    ASSUME \/ UNCHANGED deskVars
           \/ ResetForecastCopyState
           \/ \E replanDone, repairDone : SettleWave(replanDone, repairDone)
           \/ \E outcome : GiveUp(outcome)
           \/ PublishOutcome
    PROVE  UNCHANGED <<accepted, lastAccepted, counterfactual, revisions, contradiction,
                       checkedClean, publishable, reviewing>>
BY DEF deskVars, acceptVars, revisionVars, cleanVars, refereeVars, ResetForecastCopyState, SettleWave,
       GiveUp, PublishOutcome

LEMMA PlanKeepsLoss == ASSUME RunInv, LossInv, Plan PROVE LossInv'
<1>1. phase = "plan" /\ ~demand
      BY DEF Plan, PlanEnds, PlanDropped, PlanRaises, PlanWave, RunInv, WavesLeft
<1>2. UNCHANGED <<accepted, lastAccepted, counterfactual, revisions, contradiction, checkedClean,
                  publishable, reviewing>>
      BY StillDesk DEF Plan, PlanEnds, PlanDropped, PlanRaises, PlanWave
<1>3. fresh' \in {fresh, None} /\ demand' = demand /\ store' = store
      BY DEF Plan, PlanEnds, PlanDropped, PlanRaises, PlanWave, StartNodes, LoopOn, LeaveLoop, ForgetWave
<1>4. phase' \in {"plan", "restore", "crashed", "wave"}
      BY DEF Plan, PlanEnds, PlanDropped, PlanRaises, PlanWave, StartNodes, LoopOn, LeaveLoop
<1> QED BY <1>1, <1>2, <1>3, <1>4, StillKeepsLoss DEF DemandAddsNothing, AfterLoop

LEMMA RegisterKeepsLoss ==
    ASSUME RunInv, LossInv, NEW m \in Mixtures, RegisterMixture(m)
    PROVE  LossInv'
<1>1. ~demand /\ demand' = demand /\ m \notin store /\ store' = store \cup {m} /\ fresh' = m
      BY DEF RegisterMixture, LossInv, DemandAddsNothing
<1>2. UNCHANGED <<accepted, lastAccepted, counterfactual, revisions, contradiction, checkedClean,
                  publishable, reviewing, phase>>
      BY StillDesk DEF RegisterMixture
<1> QED BY <1>1, <1>2 DEF LossInv, CitesStore, Stored, FallbackHeld, ReasonHeld, AfterLoop,
                          DemandAddsNothing, Publishable

\* A merge supersedes or adds; it never revives a superseded mixture.
LEMMA MergeKeepsLoss ==
    ASSUME RunInv, LossInv, NEW ok \in SUBSET ops, Merge(ok)
    PROVE  LossInv'
<1>1. /\ publishable' = ActiveAfter(ok) /\ lastAccepted' = Kept(lastAccepted, ActiveAfter(ok))
      /\ UNCHANGED <<accepted, counterfactual, revisions, contradiction, checkedClean, reviewing,
                     store, fresh, demand, ops>>
      BY DEF Merge, SyncPublishableArtifacts, acceptVars, waveVars
<1>2. phase = "wave" /\ phase' = "auto"
      BY DEF Merge
<1>3. CitesStore'
      BY <1>1 DEF LossInv, CitesStore, Stored, Kept
<1>4. FallbackHeld'
  <2>1. ASSUME counterfactual # None, ~Publishable(counterfactual)
        PROVE  ~Publishable(counterfactual)'
        BY <1>1, <2>1 DEF LossInv, FallbackHeld, Publishable, ActiveAfter
  <2> QED BY <1>1, <2>1 DEF LossInv, FallbackHeld, Kept, Publishable
<1>5. ReasonHeld'
  <2>1. demand => publishable' = publishable
    <3>1. demand => ActiveAfter(ok) = publishable
          BY DEF LossInv, DemandAddsNothing, ActiveAfter
    <3> QED BY <1>1, <3>1
  <2>2. AfterLoop' => AfterLoop /\ demand
        BY <1>1, <1>2 DEF AfterLoop
  <2>3. UNCHANGED <<accepted, counterfactual, contradiction>>
        BY <1>1
  <2> QED BY Zenon, <2>1, <2>2, <2>3 DEF LossInv, ReasonHeld, Publishable
<1>6. DemandAddsNothing'
      BY <1>1 DEF LossInv, DemandAddsNothing
<1> QED BY <1>3, <1>4, <1>5, <1>6 DEF LossInv


\* The node's own calls cite a mixture of the store, the auto-submit a checked one.
LEMMA CallsKeepLoss ==
    ASSUME RunInv, LossInv,
           \/ \E c \in NodeCalls, s \in Submissions : NodeSubmits(c, s)
           \/ \E s \in Submissions : NodeChecks(s)
           \/ \E c \in NodeCalls : NodeAnswered(c)
           \/ AutoSubmits
           \/ AutoAnswered
    PROVE  LossInv'
<1> USE DEF Calls, CitesStore, Stored
<1>1. DeskTypeOK /\ reviewing \in [Calls -> Review \cup {None}] /\ CitesStore
      BY DEF RunInv, TypeOK, DeskTypeOK, LossInv
<1>2. ASSUME NEW c \in Calls, NEW s \in Submissions, Submit(c, s), Stored(s), store' = store
      PROVE  CallKeeps /\ CitesStore'
  <2>1. \A e : [submission |-> s, escalating |-> e].submission = s
        OBVIOUS
  <2> QED BY <1>1, <1>2, <2>1, SubmitKeeps DEF CallKeeps, revisionVars
<1>3. ASSUME NEW s \in Submissions, Check(s), Stored(s), store' = store
      PROVE  CallKeeps /\ CitesStore'
      BY <1>1, <1>3, CheckKeeps DEF CallKeeps, revisionVars
<1>4. ASSUME NEW c \in Calls, RefereeAnswers(c), store' = store
      PROVE  CallKeeps /\ CitesStore'
      BY <1>1, <1>4, AnswerKeeps DEF CallKeeps, revisionVars
<1>5. CallKeeps /\ CitesStore'
  <2>1. CASE \E c \in NodeCalls, s \in Submissions : NodeSubmits(c, s)
        BY <1>2, <2>1 DEF NodeSubmits, CallStep
  <2>2. CASE \E s \in Submissions : NodeChecks(s)
        BY <1>3, <2>2 DEF NodeChecks, CallStep
  <2>3. CASE \E c \in NodeCalls : NodeAnswered(c)
        BY <1>4, <2>3 DEF NodeAnswered
  <2>4. CASE AutoSubmits
    <3>1. checkedClean \in Submissions /\ Stored(checkedClean)
          BY <1>1, <2>4 DEF AutoSubmits, AutoWanted, DeskTypeOK, MaybeSubmission
    <3> QED BY <1>2, <2>4, <3>1 DEF AutoSubmits, autoUnchanged
  <2>5. CASE AutoAnswered
        BY <1>4, <2>5 DEF AutoAnswered, autoUnchanged
  <2> QED BY <2>1, <2>2, <2>3, <2>4, <2>5
<1>6. UNCHANGED <<fresh, ops, demand>>
      BY DEF NodeSubmits, NodeChecks, CallStep, NodeAnswered, AutoSubmits, AutoAnswered, autoUnchanged, waveVars
<1>7. AfterLoop' => AfterLoop
      BY <1>6 DEF NodeSubmits, NodeChecks, CallStep, NodeAnswered, AutoSubmits, AutoAnswered, AfterAuto, AfterLoop
<1> QED BY <1>5, <1>6, <1>7, CallKeepsLoss

\* Only the one revision withdraws an acceptance, and it keeps it for later.
LEMMA DecideKeepsLoss ==
    ASSUME MaxRevisions <= 1, RunInv, LossInv, Decide
    PROVE  LossInv'
<1>1. /\ phase = "decide" /\ ~demand /\ phase' \in {"plan", "restore"}
      /\ fresh' = None /\ UNCHANGED <<store, demand>>
      BY DEF Decide, DecideBlocked, DecideReplan, DecideRepair, DecideStop, DecideReopen, DecideAccepted,
             DecideUnaccepted, Settled, decideUnchanged, LoopOn, LeaveLoop, ForgetWave, RunInv, WavesLeft
<1>2. ~AfterLoop' /\ DemandAddsNothing'
      BY <1>1 DEF AfterLoop, DemandAddsNothing
<1>3. CASE DecideReopen
  <2>1. PICK replanDone, repairDone : Reopen(replanDone, repairDone)
        BY <1>3 DEF DecideReopen
  <2>2. counterfactual = None
        BY <2>1, SubmissionAssumption
           DEF Reopen, MayReopen, LossInv, FallbackHeld, RunInv, TypeOK, DeskTypeOK
  <2>3. /\ accepted # None /\ accepted' = None /\ checkedClean' = None
        /\ lastAccepted' = accepted /\ counterfactual' = accepted
        /\ revisions' = revisions + 1 /\ UNCHANGED reviewing
        BY <2>1, <2>2 DEF Reopen, MayReopen
  <2>4. CitesStore'
        BY <1>1, <2>3 DEF LossInv, CitesStore, Stored
  <2>5. FallbackHeld'
    <3>1. ArtifactOf[accepted] # None /\ revisions \in Nat
          BY <2>3, SubmissionAssumption, ForecastRunAssumption DEF RunInv, TypeOK, DeskTypeOK, MaybeSubmission
    <3> QED BY <1>1, <2>3, <3>1 DEF FallbackHeld
  <2> QED BY <1>2, <2>4, <2>5 DEF LossInv, ReasonHeld
<1>4. CASE ~DecideReopen
  <2>1. UNCHANGED <<accepted, lastAccepted, counterfactual, revisions, contradiction, checkedClean,
                    publishable, reviewing>>
        BY <1>4, StillDesk DEF Decide, DecideBlocked, DecideReplan, DecideRepair, DecideStop,
                               DecideAccepted, DecideUnaccepted
  <2> QED BY <1>1, <1>2, <2>1, StillKeepsLoss
<1> QED BY <1>3, <1>4

LEMMA EndKeepsLoss ==
    ASSUME RunInv, LossInv, Restore \/ DemandSubmit \/ NoDemand \/ Publish \/ PublishUnbuilt
    PROVE  LossInv'
<1>1. CASE Restore /\ RestorePriorAcceptance
  <2>1. /\ accepted' = lastAccepted /\ lastAccepted # None
        /\ UNCHANGED <<lastAccepted, counterfactual, revisions, contradiction, checkedClean, publishable,
                        reviewing, store, fresh, ops, demand>>
        BY <1>1 DEF Restore, RestorePriorAcceptance, CanRestorePriorAcceptance, revisionVars, cleanVars,
                    refereeVars, waveVars
  <2> QED BY <2>1 DEF LossInv, CitesStore, Stored, FallbackHeld, Publishable, ReasonHeld, DemandAddsNothing
<1>2. CASE Restore /\ ~CanRestorePriorAcceptance /\ UNCHANGED deskVars
  <2>1. UNCHANGED <<accepted, lastAccepted, counterfactual, revisions, contradiction, checkedClean,
                    publishable, reviewing, store, fresh, ops, demand>>
        BY <1>2, StillDesk DEF Restore, waveVars
  <2>2. ReasonHeld'
    <3>1. counterfactual # None /\ accepted = None => contradiction \/ ~Publishable(counterfactual)
          BY <1>2 DEF CanRestorePriorAcceptance, LossInv, FallbackHeld
    <3> QED BY Zenon, <2>1, <3>1 DEF ReasonHeld, Publishable
  <2> QED BY <2>1, <2>2 DEF LossInv, CitesStore, Stored, FallbackHeld, Publishable, DemandAddsNothing
<1>3. CASE DemandSubmit \/ NoDemand \/ Publish \/ PublishUnbuilt
  <2>1. UNCHANGED <<accepted, lastAccepted, counterfactual, revisions, contradiction, checkedClean,
                    publishable, reviewing>>
        BY <1>3, StillDesk DEF DemandSubmit, NoDemand, Publish, PublishUnbuilt
  <2>2. fresh' \in {fresh, None} /\ store' = store /\ AfterLoop /\ DemandAddsNothing'
        BY <1>3 DEF DemandSubmit, NoDemand, Publish, PublishUnbuilt, StartNodes, AfterLoop,
                    DemandAddsNothing, LossInv, waveVars
  <2> QED BY <2>1, <2>2, StillKeepsLoss
<1> QED BY <1>1, <1>2, <1>3 DEF Restore

LEMMA NextKeepsLoss ==
    ASSUME MaxRevisions <= 1, RunInv, LossInv, [Next]_vars
    PROVE  LossInv'
<1>1. CASE NodeReturns \/ NodeTimesOut
  <2>1. /\ UNCHANGED <<accepted, lastAccepted, counterfactual, revisions, contradiction, checkedClean,
                       publishable, store, fresh, ops, demand, phase>>
        /\ \A c \in Calls : reviewing'[c] \in {reviewing[c], None}
        BY <1>1, StillDesk DEF NodeReturns, NodeTimesOut, CancelReviews, acceptVars, revisionVars, cleanVars,
                               waveVars
  <2> QED BY <2>1, StillKeepsLoss DEF LossInv, DemandAddsNothing, AfterLoop
<1>2. CASE AutoSkipped
  <2>1. UNCHANGED <<accepted, lastAccepted, counterfactual, revisions, contradiction, checkedClean,
                    publishable, reviewing, store, fresh, ops, demand>>
        BY <1>2, StillDesk DEF AutoSkipped, autoUnchanged, waveVars
  <2>2. AfterLoop' => AfterLoop
        BY <1>2, <2>1 DEF AutoSkipped, AfterAuto, AfterLoop
  <2> QED BY <2>1, <2>2, StillKeepsLoss DEF LossInv, DemandAddsNothing
<1>3. CASE Over \/ UNCHANGED vars
      BY <1>3, StillDesk, StillKeepsLoss DEF Over, vars, runVars, waveVars, LossInv, DemandAddsNothing, AfterLoop
<1>4. CASE Wave
      BY <1>1, <1>4, RegisterKeepsLoss, MergeKeepsLoss, CallsKeepLoss DEF Wave
<1> QED BY <1>2, <1>3, <1>4, PlanKeepsLoss, CallsKeepLoss, DecideKeepsLoss, EndKeepsLoss DEF Next

\* A run that once accepted a forecast ends with one, but for a contradiction or a
\* superseded mixture, as long as the settings allow at most one revision.
THEOREM NoForecastLost == ASSUME MaxRevisions <= 1 PROVE Spec => []NoLostForecast
<1>1. Init => LossInv
      BY SubmissionAssumption DEF Init, DeskInit, LossInv, CitesStore, Stored, FallbackHeld, ReasonHeld,
                                  DemandAddsNothing, NoReviews
<1>2. RunInv /\ LossInv /\ [Next]_vars => LossInv'
      BY NextKeepsLoss
<1>3. LossInv => NoLostForecast
      BY Zenon DEF LossInv, ReasonHeld, AfterLoop, NoLostForecast
<1> QED BY <1>1, <1>2, <1>3, RunInvariant, PTL DEF Spec

=============================================================================
