----------------------------- MODULE Submission -----------------------------
(***************************************************************************)
(* The submission desk of one forecast run: the SubmissionState of         *)
(* agent/deps.py, shared by reference between the forecast node's tools    *)
(* check_forecast and submit_forecast, the referee, the runner's           *)
(* auto-submit and the runner's bookkeeping between waves.                  *)
(*                                                                         *)
(* A submission is an opaque value that cites one mixture (ArtifactOf).    *)
(* What the validator says of it is an input of the action: a report is    *)
(* clean (with or without an escalation), copy-only (with the signature of *)
(* its issues), hard (with or without the elimination-claim contradiction) *)
(* or structural (hard, and only a quant node can fix it).                 *)
(*                                                                         *)
(* submit_forecast awaits the referee.  Sibling tool calls of one model    *)
(* turn are tasks of one event loop, so other calls run while a review is  *)
(* out: "reviewing" holds the calls suspended there, and the code after    *)
(* the await is an action of its own.                                      *)
(***************************************************************************)
EXTENDS Integers, FiniteSets

CONSTANTS
    Submissions,         \* normalised submissions (after normalise_submission)
    Mixtures,            \* mixture artifacts a submission may cite
    ArtifactOf,          \* [Submissions -> Mixtures], submission.artifact_id
    NodeCalls,           \* tool calls of one forecast-node turn
    AutoCall,            \* the runner's own submit call
    CopySigs,            \* signatures of copy-only reports
    QuantCodes,          \* sets of quant-owned issue codes
    Fallback, Dark,      \* outcomes that publish no submission
    None,
    RefereeEnabled,      \* settings.graph_referee_enabled
    StructuralAttempts,  \* settings.agent_structural_repair_attempts
    MaxInterventions,    \* settings.graph_referee_max_interventions
    MaxRevisions         \* settings.graph_max_revisions

Calls == NodeCalls \cup {AutoCall}

ASSUME SubmissionAssumption ==
    /\ ArtifactOf \in [Submissions -> Mixtures]
    /\ None \notin Submissions \cup CopySigs \cup (Mixtures \X QuantCodes)
    /\ {Fallback, Dark} \cap (Submissions \cup {None}) = {}
    /\ Fallback # Dark
    /\ AutoCall \notin NodeCalls
    /\ RefereeEnabled \in BOOLEAN
    /\ {StructuralAttempts, MaxInterventions, MaxRevisions} \subseteq Nat

CopyRepeatLimit == 3

VARIABLES
    accepted, escalations, lastAccepted, counterfactual, revisions, premortemSeen,
    checkedClean, lastClean, escalated, failures, contradiction,
    copyRequired, copySig, copyRepeats, copyLoop,
    structural, structuralSig, structuralAttempts,
    blocked, replan, interventions, approved, status,
    publishable,
    unstated,            \* ghost: the latest acceptance came on a report that sets no status
    critique,            \* a critique artifact exists in the run's store
    reviewing,           \* Calls -> the review a suspended submit waits for
    published            \* None until the run has published or given up

acceptVars == <<accepted, escalations>>
revisionVars == <<lastAccepted, counterfactual, revisions, premortemSeen>>
copyVars == <<copyRequired, copySig, copyRepeats, copyLoop>>
structuralVars == <<structural, structuralSig, structuralAttempts>>
refereeVars == <<blocked, replan, interventions, approved, status, unstated, critique, reviewing>>
cleanVars == <<checkedClean, lastClean, escalated>>
deskVars == <<acceptVars, revisionVars, cleanVars, failures, contradiction,
              copyVars, structuralVars, refereeVars, publishable, published>>

Statuses == {"disabled", "approved", "bypassed_budget", "bypassed_infrastructure",
             "bypassed_interrupted", "intervention_cap"}

Review == [submission : Submissions, escalating : BOOLEAN]
MaybeSubmission == Submissions \cup {None}
NoReviews == [c \in Calls |-> None]

FlagsOK ==
    /\ escalations \in BOOLEAN /\ escalated \in BOOLEAN /\ contradiction \in BOOLEAN
    /\ copyRequired \in BOOLEAN /\ copyLoop \in BOOLEAN
    /\ structural \in BOOLEAN /\ blocked \in BOOLEAN /\ replan \in BOOLEAN
    /\ critique \in BOOLEAN /\ unstated \in BOOLEAN

DeskTypeOK ==
    /\ FlagsOK
    /\ {accepted, lastAccepted, counterfactual, checkedClean, lastClean} \subseteq MaybeSubmission
    /\ {revisions, failures, structuralAttempts, interventions} \subseteq Nat
    /\ premortemSeen \subseteq Mixtures /\ publishable \subseteq Mixtures
    /\ copySig \in CopySigs \cup {None} /\ copyRepeats \in 0..CopyRepeatLimit
    /\ structuralSig \in (Mixtures \X QuantCodes) \cup {None}
    /\ approved \subseteq Submissions /\ status \in Statuses
    /\ reviewing \in [Calls -> Review \cup {None}]
    /\ published \in Submissions \cup {None, Fallback, Dark}

DeskInit ==
    /\ accepted = None /\ escalations = FALSE
    /\ lastAccepted = None /\ counterfactual = None
    /\ revisions = 0 /\ premortemSeen = {}
    /\ checkedClean = None /\ lastClean = None
    /\ escalated = FALSE /\ failures = 0 /\ contradiction = FALSE
    /\ copyRequired = FALSE /\ copySig = None /\ copyRepeats = 0 /\ copyLoop = FALSE
    /\ structural = FALSE /\ structuralSig = None /\ structuralAttempts = 0
    /\ blocked = FALSE /\ replan = FALSE /\ interventions = 0
    /\ approved = {} /\ status = "disabled" /\ unstated = FALSE
    /\ publishable \in SUBSET Mixtures
    /\ critique = FALSE /\ reviewing = NoReviews
    /\ published = None

-----------------------------------------------------------------------------
(* Guards the tools and the runner share.                                  *)

\* The artifact_superseded early return: an empty set means "nothing to check".
Publishable(s) == publishable = {} \/ ArtifactOf[s] \in publishable

\* _forecast_post_check_refusal, for submit_forecast and for check_forecast.
SubmitAllowed ==
    /\ ~structural /\ ~copyLoop /\ ~replan
    /\ blocked => copyRequired

CheckAllowed == SubmitAllowed /\ checkedClean = None

\* note_copy_repair_state on a report that is clean or has a hard issue.
ForgetCopyIssues == copySig' = None /\ copyRepeats' = 0 /\ copyLoop' = FALSE

\* note_copy_repair_state on a copy-only report; only ">= 3" is ever asked.
NoteCopyIssues(sig) ==
    LET repeats == IF copySig = sig THEN copyRepeats + 1 ELSE 1
    IN  /\ copySig' = sig
        /\ copyRepeats' = IF repeats > CopyRepeatLimit THEN CopyRepeatLimit ELSE repeats
        /\ copyLoop' = (copyLoop \/ repeats >= CopyRepeatLimit)

\* structural_repair_result: does this report route to a quant repair?
RoutesToQuant(s, code) ==
    /\ structuralAttempts < StructuralAttempts
    /\ structuralSig # <<ArtifactOf[s], code>>

RouteToQuant(s, code) ==
    /\ structural' = TRUE
    /\ structuralSig' = <<ArtifactOf[s], code>>
    /\ structuralAttempts' = structuralAttempts + 1

\* _accept_forecast.
Accept(s, escalating) ==
    /\ accepted' = s /\ escalations' = escalating
    /\ checkedClean' = None /\ copyRequired' = FALSE
    /\ replan' = FALSE /\ blocked' = FALSE /\ contradiction' = FALSE
    /\ structural' = FALSE /\ structuralSig' = None
    /\ UNCHANGED <<revisionVars, lastClean, escalated, failures, structuralAttempts,
                   publishable>>

-----------------------------------------------------------------------------
(* submit_forecast, up to its return or to its await of the referee.        *)

\* A hard report, and a structural one that no longer routes: a retry is spent.
SubmitHard(s, contradicts) ==
    /\ Publishable(s)
    /\ ForgetCopyIssues /\ copyRequired' = FALSE
    /\ checkedClean' = None
    /\ contradiction' = (contradiction \/ contradicts)
    /\ failures' = failures + 1
    /\ UNCHANGED <<acceptVars, revisionVars, lastClean, escalated, structuralVars,
                   refereeVars, publishable>>

SubmitStructural(s, code, contradicts) ==
    /\ Publishable(s) /\ RoutesToQuant(s, code)
    /\ RouteToQuant(s, code)
    /\ ForgetCopyIssues /\ copyRequired' = FALSE
    /\ checkedClean' = None
    /\ contradiction' = (contradiction \/ contradicts)
    /\ UNCHANGED <<acceptVars, revisionVars, lastClean, escalated, failures,
                   refereeVars, publishable>>

SubmitCopy(s, sig) ==
    /\ Publishable(s)
    /\ NoteCopyIssues(sig) /\ copyRequired' = ~copyLoop'
    /\ checkedClean' = None
    /\ UNCHANGED <<acceptVars, revisionVars, lastClean, escalated, failures, contradiction,
                   structuralVars, refereeVars, publishable>>

\* The steelman pause: a clean report that escalates for the first time.
SubmitPause(s) ==
    /\ Publishable(s) /\ ~escalated
    /\ ForgetCopyIssues /\ copyRequired' = FALSE
    /\ checkedClean' = None /\ escalated' = TRUE /\ lastClean' = s
    /\ UNCHANGED <<acceptVars, revisionVars, failures, contradiction, structuralVars,
                   refereeVars, publishable>>

\* Past the pause, a clean report without the steelman; checked_clean survives.
SubmitUnsubstantiated(s) ==
    /\ Publishable(s) /\ escalated
    /\ ForgetCopyIssues /\ copyRequired' = FALSE
    /\ failures' = failures + 1
    /\ UNCHANGED <<acceptVars, revisionVars, cleanVars, contradiction, structuralVars,
                   refereeVars, publishable>>

\* Mutant of ReachesReferee: the steelman pause is not asked.
ReachesRefereeUnpaused(s, escalating) == Publishable(s) /\ escalating \in BOOLEAN

ReachesReferee(s, escalating) == Publishable(s) /\ (escalating => escalated)

\* referee_review answers without an await: disabled, or approved before.
SubmitAtOnce(s, escalating) ==
    /\ ReachesReferee(s, escalating)
    /\ \/ ~RefereeEnabled /\ status' = "disabled"
       \/ RefereeEnabled /\ s \in approved /\ status' = "approved"
    /\ unstated' = FALSE
    /\ ForgetCopyIssues
    /\ Accept(s, escalating)
    /\ UNCHANGED <<interventions, approved, critique, reviewing>>

SubmitToReferee(c, s, escalating) ==
    /\ ReachesReferee(s, escalating)
    /\ RefereeEnabled /\ s \notin approved
    /\ reviewing[c] = None
    /\ reviewing' = [reviewing EXCEPT ![c] = [submission |-> s, escalating |-> escalating]]
    /\ ForgetCopyIssues
    /\ UNCHANGED <<acceptVars, revisionVars, cleanVars, failures, contradiction, copyRequired,
                   structuralVars, blocked, replan, interventions, approved, status, unstated,
                   critique, publishable>>

\* submit_forecast as one call sees it, for every report the validator may give.
Submit(c, s) ==
    \/ \E contradicts \in BOOLEAN : SubmitHard(s, contradicts)
    \/ \E code \in QuantCodes, contradicts \in BOOLEAN : SubmitStructural(s, code, contradicts)
    \/ \E sig \in CopySigs : SubmitCopy(s, sig)
    \/ SubmitPause(s)
    \/ SubmitUnsubstantiated(s)
    \/ \E escalating \in BOOLEAN : SubmitAtOnce(s, escalating)
    \/ \E escalating \in BOOLEAN : SubmitToReferee(c, s, escalating)

-----------------------------------------------------------------------------
(* The rest of submit_forecast, after the referee answered call c.          *)

Answered(c) == reviewing' = [reviewing EXCEPT ![c] = None]

RefereeApproves(c) ==
    /\ reviewing[c] # None
    /\ status' = "approved" /\ unstated' = FALSE
    /\ approved' = approved \cup {reviewing[c].submission}
    /\ Accept(reviewing[c].submission, reviewing[c].escalating)
    /\ Answered(c)
    /\ UNCHANGED <<copySig, copyRepeats, copyLoop, interventions, critique>>

\* Mutant of RefereeUnavailable: the bypass is not recorded.
RefereeUnavailableSilently(c) ==
    /\ reviewing[c] # None
    /\ unstated' = FALSE /\ critique' = TRUE
    /\ Accept(reviewing[c].submission, reviewing[c].escalating)
    /\ Answered(c)
    /\ UNCHANGED <<copySig, copyRepeats, copyLoop, interventions, approved, status>>

\* No referee model, a cap or a failed call: accepted without approval.
RefereeUnavailable(c) ==
    /\ reviewing[c] # None
    /\ status' \in {"bypassed_budget", "bypassed_infrastructure"} /\ unstated' = FALSE
    /\ critique' = TRUE
    /\ Accept(reviewing[c].submission, reviewing[c].escalating)
    /\ Answered(c)
    /\ UNCHANGED <<copySig, copyRepeats, copyLoop, interventions, approved>>

\* The report came, with a blocker owned by "infra": the referee's prompt forbids
\* it, its schema does not, and the code takes it for an outage.  No status is set.
RefereeBlamesInfra(c) ==
    /\ reviewing[c] # None
    /\ unstated' = TRUE /\ critique' = TRUE
    /\ Accept(reviewing[c].submission, reviewing[c].escalating)
    /\ Answered(c)
    /\ UNCHANGED <<copySig, copyRepeats, copyLoop, interventions, approved, status>>

\* Mutant of RefereeBlocks: the preview that was checked clean stays.
RefereeBlocksKeepingPreview(c, needsReplan) ==
    /\ reviewing[c] # None
    /\ interventions < MaxInterventions
    /\ interventions' = interventions + 1
    /\ critique' = TRUE
    /\ blocked' = TRUE /\ replan' = needsReplan /\ copyRequired' = ~needsReplan
    /\ Answered(c)
    /\ UNCHANGED <<acceptVars, revisionVars, cleanVars, failures, contradiction, copySig,
                   copyRepeats, copyLoop, structuralVars, approved, status, unstated, publishable>>

RefereeBlocks(c, needsReplan) ==
    /\ reviewing[c] # None
    /\ interventions < MaxInterventions
    /\ interventions' = interventions + 1
    /\ critique' = TRUE
    /\ blocked' = TRUE /\ replan' = needsReplan /\ copyRequired' = ~needsReplan
    /\ checkedClean' = None
    /\ Answered(c)
    /\ UNCHANGED <<acceptVars, revisionVars, lastClean, escalated, failures, contradiction,
                   copySig, copyRepeats, copyLoop, structuralVars, approved, status,
                   unstated, publishable>>

\* A blocking report past the intervention cap is overruled.
RefereeOverruled(c) ==
    /\ reviewing[c] # None
    /\ interventions >= MaxInterventions
    /\ status' = "intervention_cap" /\ unstated' = FALSE
    /\ critique' = TRUE
    /\ Accept(reviewing[c].submission, reviewing[c].escalating)
    /\ Answered(c)
    /\ UNCHANGED <<copySig, copyRepeats, copyLoop, interventions, approved>>

RefereeAnswers(c) ==
    \/ RefereeApproves(c)
    \/ RefereeUnavailable(c)
    \/ RefereeBlamesInfra(c)
    \/ \E needsReplan \in BOOLEAN : RefereeBlocks(c, needsReplan)
    \/ RefereeOverruled(c)

-----------------------------------------------------------------------------
(* check_forecast.                                                          *)

CheckClean(s) ==
    /\ Publishable(s)
    /\ ForgetCopyIssues /\ copyRequired' = FALSE
    /\ checkedClean' = s
    /\ UNCHANGED <<acceptVars, revisionVars, lastClean, escalated, failures, contradiction,
                   structuralVars, refereeVars, publishable>>

CheckHard(s) ==
    /\ Publishable(s)
    /\ ForgetCopyIssues /\ copyRequired' = FALSE
    /\ checkedClean' = None
    /\ UNCHANGED <<acceptVars, revisionVars, lastClean, escalated, failures, contradiction,
                   structuralVars, refereeVars, publishable>>

CheckStructural(s, code) ==
    /\ Publishable(s) /\ RoutesToQuant(s, code)
    /\ RouteToQuant(s, code)
    /\ ForgetCopyIssues /\ copyRequired' = FALSE
    /\ checkedClean' = None
    /\ UNCHANGED <<acceptVars, revisionVars, lastClean, escalated, failures, contradiction,
                   refereeVars, publishable>>

CheckCopy(s, sig) ==
    /\ Publishable(s)
    /\ NoteCopyIssues(sig) /\ copyRequired' = TRUE
    /\ checkedClean' = None
    /\ UNCHANGED <<acceptVars, revisionVars, lastClean, escalated, failures, contradiction,
                   structuralVars, refereeVars, publishable>>

Check(s) ==
    \/ CheckClean(s)
    \/ CheckHard(s)
    \/ \E code \in QuantCodes : CheckStructural(s, code)
    \/ \E sig \in CopySigs : CheckCopy(s, sig)

-----------------------------------------------------------------------------
(* What the runner does to the desk between tool calls.                     *)

\* Mutant of CancelReviews: the shielded call is left running.
CancelReviewsLeaked ==
    /\ \E c \in NodeCalls : reviewing[c] # None
    /\ UNCHANGED <<acceptVars, revisionVars, cleanVars, failures, contradiction, copyVars,
                   structuralVars, refereeVars, publishable>>

\* _bounded cancels a node: its calls die at the await and write nothing.
CancelReviews ==
    /\ \E c \in NodeCalls : reviewing[c] # None
    /\ reviewing' = [c \in Calls |-> IF c \in NodeCalls THEN None ELSE reviewing[c]]
    /\ UNCHANGED <<acceptVars, revisionVars, cleanVars, failures, contradiction, copyVars,
                   structuralVars, blocked, replan, interventions, approved, status, unstated,
                   critique, publishable>>

\* _reset_forecast_copy_state, the part that writes.
ClearCopyState ==
    /\ copyRequired' = FALSE /\ copySig' = None /\ copyRepeats' = 0 /\ copyLoop' = FALSE
    /\ blocked' = FALSE

ResetForecastCopyState ==
    /\ ClearCopyState
    /\ UNCHANGED <<acceptVars, revisionVars, cleanVars, failures, contradiction, structuralVars,
                   replan, interventions, approved, status, unstated, critique, reviewing, publishable>>

\* An id survives the sync when no artifact is active or its own still is.
Kept(s, active) == IF s # None /\ active # {} /\ ArtifactOf[s] \notin active THEN None ELSE s

\* _sync_publishable_artifacts after a merge that may have added a critique.
SyncPublishableArtifacts(active, newCritique) ==
    /\ publishable' = active
    /\ lastClean' = Kept(lastClean, active)
    /\ lastAccepted' = Kept(lastAccepted, active)
    /\ critique' = (critique \/ newCritique)
    /\ UNCHANGED <<acceptVars, counterfactual, revisions, premortemSeen, checkedClean, escalated,
                   failures, contradiction, copyVars, structuralVars, blocked, replan,
                   interventions, approved, status, unstated, reviewing>>

\* The replan and repair flags a wave's outcomes cleared.
ClearRepairFlags(replanDone, repairDone) ==
    /\ replan' = (replan /\ ~replanDone)
    /\ structural' = (structural /\ ~repairDone)

SettleWave(replanDone, repairDone) ==
    /\ ClearRepairFlags(replanDone, repairDone)
    /\ UNCHANGED <<acceptVars, revisionVars, cleanVars, failures, contradiction, copyVars,
                   structuralSig, structuralAttempts, blocked, interventions, approved, status,
                   unstated, critique, reviewing, publishable>>

\* _should_continue_after_acceptance: the guard without the budget, then the writes.
MayReopen ==
    /\ accepted # None
    /\ revisions < MaxRevisions
    /\ critique
    /\ ArtifactOf[accepted] \notin premortemSeen

Reopen(replanDone, repairDone) ==
    /\ MayReopen
    /\ ClearRepairFlags(replanDone, repairDone)
    /\ ClearCopyState
    /\ counterfactual' = IF counterfactual = None THEN accepted ELSE counterfactual
    /\ lastAccepted' = accepted
    /\ premortemSeen' = premortemSeen \cup {ArtifactOf[accepted]}
    /\ accepted' = None /\ checkedClean' = None /\ escalated' = FALSE
    /\ revisions' = revisions + 1
    /\ UNCHANGED <<escalations, lastClean, failures, contradiction, structuralSig,
                   structuralAttempts, interventions, approved, status, unstated, critique, reviewing,
                   publishable>>

\* Mutant of CanRestorePriorAcceptance: a blocked revision loses its fallback.
CanRestoreUnlessBlocked ==
    /\ accepted = None /\ lastAccepted # None
    /\ ~contradiction /\ ~blocked
    /\ Publishable(lastAccepted)

\* _can_restore_prior_acceptance and the assignment it guards.
CanRestorePriorAcceptance ==
    /\ accepted = None /\ lastAccepted # None
    /\ ~contradiction
    /\ Publishable(lastAccepted)

RestorePriorAcceptance ==
    /\ CanRestorePriorAcceptance
    /\ accepted' = lastAccepted
    /\ UNCHANGED <<escalations, revisionVars, cleanVars, failures, contradiction, copyVars,
                   structuralVars, refereeVars, publishable>>

-----------------------------------------------------------------------------
(* The end of _run: what is published.                                      *)

\* _prefer_last_clean: the paused submission stands in for a missing one.
CanPreferLastClean == accepted = None /\ lastClean # None /\ ~blocked /\ ~replan

\* Mutant of LastCleanStatus: any earlier approval is taken to cover it.
LastCleanStatusAnyApproval ==
    IF ~RefereeEnabled THEN status
    ELSE IF approved # {} THEN "approved" ELSE "bypassed_interrupted"

\* The status _prefer_last_clean reports for it.
LastCleanStatus ==
    IF ~RefereeEnabled THEN status
    ELSE IF lastClean \in approved THEN "approved" ELSE "bypassed_interrupted"

\* _should_publish_fallback.
NothingClean == IF blocked THEN Dark ELSE Fallback

PublishOutcome ==
    /\ \/ /\ accepted # None /\ published' = accepted
          /\ UNCHANGED <<status, unstated>>
       \/ /\ CanPreferLastClean /\ published' = lastClean
          /\ status' = LastCleanStatus /\ unstated' = FALSE
       \/ /\ accepted = None /\ ~CanPreferLastClean /\ published' = NothingClean
          /\ UNCHANGED <<status, unstated>>
    /\ UNCHANGED <<acceptVars, revisionVars, cleanVars, failures, contradiction, copyVars,
                   structuralVars, blocked, replan, interventions, approved, critique, reviewing,
                   publishable>>

\* run_graph raised, or no snapshot could be built from the submission.
GiveUp(outcome) ==
    /\ published' = outcome
    /\ UNCHANGED <<acceptVars, revisionVars, cleanVars, failures, contradiction, copyVars,
                   structuralVars, refereeVars, publishable>>

-----------------------------------------------------------------------------
(* The desk on its own: tools in any order, the runner at any time no call  *)
(* is suspended.                                                            *)

ToolCall ==
    \/ \E c \in NodeCalls, s \in Submissions : SubmitAllowed /\ Submit(c, s)
    \/ \E s \in Submissions : CheckAllowed /\ Check(s)
    \/ checkedClean # None /\ accepted = None /\ Submit(AutoCall, checkedClean)
    \/ \E c \in Calls : RefereeAnswers(c)
    \/ CancelReviews

RunnerStep ==
    /\ reviewing = NoReviews
    /\ \/ ResetForecastCopyState
       \/ \E active \in SUBSET Mixtures, newCritique \in BOOLEAN :
             SyncPublishableArtifacts(active, newCritique)
       \/ \E replanDone, repairDone \in BOOLEAN : SettleWave(replanDone, repairDone)
       \/ \E replanDone, repairDone \in BOOLEAN : Reopen(replanDone, repairDone)
       \/ RestorePriorAcceptance

DeskNext ==
    /\ published = None
    /\ \/ (ToolCall \/ RunnerStep) /\ UNCHANGED published
       \/ reviewing = NoReviews /\ PublishOutcome
       \/ reviewing = NoReviews /\ \E outcome \in {Fallback, Dark} : GiveUp(outcome)

DeskSpec == DeskInit /\ [][DeskNext]_deskVars

-----------------------------------------------------------------------------
(* What the desk promises.                                                  *)

\* The submission the current referee status speaks of: the latest acceptance
\* that still counts.
LatestAcceptance == IF accepted # None THEN accepted ELSE lastAccepted

\* What a status claims about submission s must be so.
Earned(s) ==
    /\ status = "approved" => s \in approved
    /\ status = "intervention_cap" => interventions >= MaxInterventions
    /\ status = "disabled" <=> ~RefereeEnabled

\* The status the desk carries is true of the latest acceptance, however sibling
\* submits, a re-opening and a withdrawn revision interleave: submit_forecast.py
\* writes status and acceptance with no await between them.  Only a report of the
\* referee that blames infra lets a submission in and writes no status.
StatusEarned ==
    published = None /\ LatestAcceptance # None => Earned(LatestAcceptance) \/ unstated

\* The published forecast carries a referee status it earned, "approved" only if the
\* referee approved that very submission and not a re-opened predecessor or another
\* preview, unless the acceptance that is published came on a report that blames infra.
PublishedProvenance == published \in Submissions => Earned(published) \/ unstated

\* Each repair loop is bounded over the whole run, whatever siblings are in flight
\* between the referee's question and its answer.
RepairsBounded ==
    /\ interventions <= MaxInterventions
    /\ structuralAttempts <= StructuralAttempts
    /\ revisions <= MaxRevisions

\* While the master owes a replan or a quant repair, no clean preview is waiting:
\* the runner's auto-submit, which asks no refusal, cannot slip past the hold.
HeldDeskHasNoPreview == replan \/ structural => checkedClean = None

\* A forecast published without approval says which bypass let it through, unless
\* its acceptance came on a report that blames infra, which referee.py takes for an
\* outage and submit_forecast.py lets through under whatever status stood before.
BypassIsNamed ==
    RefereeEnabled /\ published \in Submissions \ approved
        => unstated \/ status \notin {"approved", "disabled"}

\* Publication is only ever withheld on a referee's verdict, and its critique is
\* in the store for the master to read.
BlockIsEvidenced == blocked \/ replan => interventions > 0 /\ critique

\* An escalating forecast is accepted only past the steelman pause, also when its
\* acceptance waited at the referee; a restored acceptance is no new one.
EscalationPaused ==
    [][accepted' # accepted /\ accepted' \notin {None, lastAccepted} /\ escalations' => escalated]_deskVars

\* A submission is only ever accepted while its mixture is publishable: nothing
\* supersedes it between the check at submit and the referee's answer.
AcceptsPublishable ==
    [][accepted' # accepted /\ accepted' # None => Publishable(accepted')]_deskVars

=============================================================================
