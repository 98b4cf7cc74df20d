----------------------------- MODULE ForecastRun -----------------------------
(***************************************************************************)
(* One run of the forecast graph: run_graph's wave loop around the         *)
(* submission desk, from the first planning turn to what _run publishes.   *)
(*                                                                         *)
(* Each wave: the master plans, admit keeps some operations, the nodes run *)
(* concurrently, the outcomes are merged, the publishable mixtures are     *)
(* synced, a clean preview is auto-submitted, and a ladder of checks       *)
(* decides whether to go on.  After the loop a prior acceptance may be     *)
(* restored, and failing that one last forecast node is demanded.          *)
(*                                                                         *)
(* Which operations a patch may hold is the Admission module's subject;    *)
(* here a wave is the set of node kinds that run.  What the budget allows  *)
(* is the Budget module's subject; here it is a free choice.               *)
(***************************************************************************)
EXTENDS Submission

CONSTANTS
    Seeds,          \* mixtures the runtime seeds: active, never superseded
    MaxWaves,       \* settings.graph_max_waves
    SubmitRetries,  \* settings.agent_submit_retries
    CallLimit       \* tool calls of one forecast node (bound: graph_forecast_request_limit)

ASSUME ForecastRunAssumption ==
    /\ Seeds \subseteq Mixtures /\ None \notin Mixtures
    /\ {MaxWaves, SubmitRetries, CallLimit} \subseteq Nat

Kinds == {"research", "quant", "forecast", "critic"}

VARIABLES
    phase,
    wave,            \* waves the loop has begun
    ops, stop,       \* the admitted patch
    retires,         \* the mixture a quant node of this wave replaces, or None
    fresh,           \* the mixture a quant node registered this wave, or None
    store,           \* every mixture registered so far
    hadReplan, hadStructural,
    okKinds,         \* kinds with an ok outcome this wave
    working,         \* the wave's forecast node is running
    calls,           \* tool calls it has left
    turnClosed,      \* a sibling was answered: no new call until all return
    demand           \* this is the runner-demand-submit node

waveVars == <<ops, stop, retires, hadReplan, hadStructural>>
nodeVars == <<working, calls, turnClosed>>
runVars == <<phase, wave, waveVars, fresh, store, okKinds, nodeVars, demand>>
vars == <<deskVars, runVars>>

Phases == {"plan", "wave", "auto", "autoReview", "decide", "restore", "lastChance", "publish",
           "done", "unbuilt", "crashed"}
Ended == {"done", "unbuilt", "crashed"}

RunFlagsOK ==
    /\ stop \in BOOLEAN /\ hadReplan \in BOOLEAN /\ hadStructural \in BOOLEAN
    /\ working \in BOOLEAN /\ turnClosed \in BOOLEAN /\ demand \in BOOLEAN

TypeOK ==
    /\ DeskTypeOK /\ RunFlagsOK
    /\ phase \in Phases /\ wave \in 0..MaxWaves
    /\ ops \subseteq Kinds /\ okKinds \subseteq Kinds
    /\ {retires, fresh} \subseteq Mixtures \cup {None}
    /\ store \subseteq Mixtures
    /\ calls \in 0..CallLimit

Init ==
    /\ DeskInit /\ publishable = Seeds
    /\ phase = IF MaxWaves = 0 THEN "restore" ELSE "plan"
    /\ wave = 0
    /\ ops = {} /\ stop = FALSE /\ retires = None /\ fresh = None
    /\ store = Seeds
    /\ hadReplan = FALSE /\ hadStructural = FALSE
    /\ okKinds = {}
    /\ working = FALSE /\ calls = 0 /\ turnClosed = FALSE
    /\ demand = FALSE

\* A wave's locals are dead once its iteration ends.
ForgetWave ==
    /\ ops' = {} /\ stop' = FALSE /\ retires' = None /\ fresh' = None
    /\ hadReplan' = FALSE /\ hadStructural' = FALSE /\ okKinds' = {}

\* Mutant of LoopOn: a re-planned wave is not counted.
LoopOnUncounted ==
    /\ wave' = wave
    /\ phase' = IF wave + 1 < MaxWaves THEN "plan" ELSE "restore"
    /\ ForgetWave

\* "continue" and "break" of the wave loop.
LoopOn ==
    /\ wave' = wave + 1
    /\ phase' = IF wave + 1 < MaxWaves THEN "plan" ELSE "restore"
    /\ ForgetWave

LeaveLoop == phase' = "restore" /\ UNCHANGED wave /\ ForgetWave

-----------------------------------------------------------------------------
(* Planning.                                                                *)

\* A cap, an empty patch or a stop with nothing to run.
PlanEnds ==
    /\ phase = "plan" /\ LeaveLoop
    /\ UNCHANGED <<deskVars, store, nodeVars, demand>>

\* Every operation dropped at admission.
PlanDropped ==
    /\ phase = "plan" /\ LoopOn
    /\ UNCHANGED <<deskVars, store, nodeVars, demand>>

\* plan_wave raised something that is no cap: _run records a failure and re-raises.
PlanRaises ==
    /\ phase = "plan" /\ phase' = "crashed"
    /\ GiveUp(Dark)
    /\ UNCHANGED <<wave, waveVars, fresh, store, okKinds, nodeVars, demand>>

\* The state a wave's nodes start from.
StartNodes(newOps) ==
    /\ phase' = "wave" /\ ops' = newOps
    /\ fresh' = None /\ okKinds' = {}
    /\ working' = ("forecast" \in newOps)
    /\ calls' = IF "forecast" \in newOps THEN CallLimit ELSE 0
    /\ turnClosed' = FALSE

PlanWave(newOps, newStop, replaced) ==
    /\ phase = "plan"
    /\ StartNodes(newOps)
    /\ stop' = newStop /\ retires' = replaced
    /\ hadReplan' = replan /\ hadStructural' = structural
    /\ IF "forecast" \in newOps
       THEN ResetForecastCopyState /\ UNCHANGED published
       ELSE UNCHANGED deskVars
    /\ UNCHANGED <<wave, store, demand>>

\* A seed's creator is no node, so no operation can replace it.
Plan ==
    \/ PlanEnds
    \/ PlanDropped
    \/ PlanRaises
    \/ \E newOps \in SUBSET Kinds \ {{}}, newStop \in BOOLEAN :
         \E replaced \in {None} \cup (IF "quant" \in newOps THEN publishable \ Seeds ELSE {}) :
            PlanWave(newOps, newStop, replaced)

-----------------------------------------------------------------------------
(* The wave's nodes.                                                        *)

\* A quant node registers a mixture through run_python.
RegisterMixture(m) ==
    /\ phase = "wave" /\ "quant" \in ops /\ fresh = None
    /\ m \notin store
    /\ store' = store \cup {m} /\ fresh' = m
    /\ UNCHANGED <<deskVars, phase, wave, waveVars, okKinds, nodeVars, demand>>

\* One tool call of the forecast node.
CallStep ==
    /\ phase = "wave" /\ working /\ calls > 0 /\ ~turnClosed
    /\ calls' = calls - 1
    /\ UNCHANGED <<published, phase, wave, waveVars, fresh, store, okKinds, working, turnClosed,
                   demand>>

NodeSubmits(c, s) == SubmitAllowed /\ ArtifactOf[s] \in store /\ Submit(c, s) /\ CallStep

NodeChecks(s) == CheckAllowed /\ ArtifactOf[s] \in store /\ Check(s) /\ CallStep

\* The referee answers one of the node's calls.
NodeAnswered(c) ==
    /\ phase = "wave" /\ RefereeAnswers(c)
    /\ turnClosed' = (\E d \in NodeCalls \ {c} : reviewing[d] # None)
    /\ UNCHANGED <<published, phase, wave, waveVars, fresh, store, okKinds, working, calls, demand>>

\* Mutant of NodeReturns: the node's output is taken while a call is suspended.
NodeReturnsEarly ==
    /\ phase = "wave" /\ working
    /\ working' = FALSE
    /\ UNCHANGED <<deskVars, phase, wave, waveVars, fresh, store, okKinds, calls, turnClosed, demand>>

NodeReturns ==
    /\ phase = "wave" /\ working
    /\ reviewing = NoReviews
    /\ working' = FALSE
    /\ UNCHANGED <<deskVars, phase, wave, waveVars, fresh, store, okKinds, calls, turnClosed, demand>>

\* _bounded: the wall clock, after any grace window, cancels the node mid-review.
NodeTimesOut ==
    /\ phase = "wave" /\ working
    /\ CancelReviews
    /\ working' = FALSE /\ turnClosed' = FALSE
    /\ UNCHANGED <<published, phase, wave, waveVars, fresh, store, okKinds, calls, demand>>

\* The mixtures active_artifact_ids returns once the outcomes are merged.
ActiveAfter(ok) ==
    LET added == IF fresh = None THEN {} ELSE {fresh}
        retired == IF "quant" \in ok /\ fresh # None THEN {retires} ELSE {}
    IN  (publishable \ retired) \cup added

\* board.merge and _sync_publishable_artifacts, once every node has returned.
Merge(ok) ==
    /\ phase = "wave" /\ ~working
    /\ SyncPublishableArtifacts(ActiveAfter(ok), "critic" \in ok)
    /\ okKinds' = ok /\ calls' = 0
    /\ phase' = "auto"
    /\ UNCHANGED <<published, wave, waveVars, fresh, store, working, turnClosed, demand>>

Wave ==
    \/ \E m \in Mixtures : RegisterMixture(m)
    \/ \E c \in NodeCalls, s \in Submissions : NodeSubmits(c, s)
    \/ \E s \in Submissions : NodeChecks(s)
    \/ \E c \in NodeCalls : NodeAnswered(c)
    \/ NodeReturns
    \/ NodeTimesOut
    \/ \E ok \in SUBSET ops : Merge(ok)

-----------------------------------------------------------------------------
(* _submit_clean_preview.                                                   *)

AfterAuto == IF demand THEN "publish" ELSE "decide"
autoUnchanged == <<published, wave, waveVars, fresh, store, okKinds, nodeVars, demand>>

AutoWanted == checkedClean # None /\ accepted = None

AutoSkipped ==
    /\ phase = "auto"
    /\ AutoWanted => ~Publishable(checkedClean)
    /\ phase' = AfterAuto
    /\ UNCHANGED <<deskVars, autoUnchanged>>

AutoSubmits ==
    /\ phase = "auto" /\ AutoWanted
    /\ Submit(AutoCall, checkedClean)
    /\ phase' = IF reviewing'[AutoCall] # None THEN "autoReview" ELSE AfterAuto
    /\ UNCHANGED autoUnchanged

AutoAnswered ==
    /\ phase = "autoReview" /\ RefereeAnswers(AutoCall)
    /\ phase' = AfterAuto
    /\ UNCHANGED autoUnchanged

-----------------------------------------------------------------------------
(* The ladder after a wave.                                                 *)

FollowUpRan == hadReplan /\ okKinds \cap {"research", "quant"} # {}
RepairRegistered == hadStructural /\ "quant" \in okKinds /\ fresh # None

BlockedForGood == blocked /\ ~replan
ReplanPending == replan /\ ~FollowUpRan
RepairPending == structural /\ ~RepairRegistered

decideUnchanged == <<published, store, nodeVars, demand>>

\* Past the block, the replan and the repair checks, with their flags cleared.
Settled == phase = "decide" /\ ~BlockedForGood /\ ~ReplanPending /\ ~RepairPending

DecideBlocked ==
    /\ phase = "decide" /\ BlockedForGood
    /\ LeaveLoop /\ UNCHANGED <<deskVars, decideUnchanged>>

DecideReplan ==
    /\ phase = "decide" /\ ReplanPending
    /\ LoopOn /\ UNCHANGED <<deskVars, decideUnchanged>>

DecideRepair ==
    /\ phase = "decide" /\ ~BlockedForGood /\ ~ReplanPending /\ RepairPending
    /\ SettleWave(FollowUpRan, FALSE)
    /\ LoopOn /\ UNCHANGED decideUnchanged

DecideStop ==
    /\ Settled /\ stop
    /\ SettleWave(FollowUpRan, RepairRegistered)
    /\ LeaveLoop /\ UNCHANGED decideUnchanged

\* The accepted forecast is re-opened, if the budget allows one more turn.
DecideReopen ==
    /\ Settled /\ ~stop
    /\ Reopen(FollowUpRan, RepairRegistered)
    /\ LoopOn /\ UNCHANGED decideUnchanged

DecideAccepted ==
    /\ Settled /\ ~stop /\ accepted # None
    /\ SettleWave(FollowUpRan, RepairRegistered)
    /\ LeaveLoop /\ UNCHANGED decideUnchanged

\* No acceptance: retries exhausted or no budget leaves, otherwise plan again.
DecideUnaccepted ==
    /\ Settled /\ ~stop /\ accepted = None
    /\ SettleWave(FollowUpRan, RepairRegistered)
    /\ \/ LeaveLoop
       \/ failures <= SubmitRetries /\ LoopOn
    /\ UNCHANGED decideUnchanged

Decide ==
    \/ DecideBlocked
    \/ DecideReplan
    \/ DecideRepair
    \/ DecideStop
    \/ DecideReopen
    \/ DecideAccepted
    \/ DecideUnaccepted

-----------------------------------------------------------------------------
(* After the loop.                                                          *)

Restore ==
    /\ phase = "restore" /\ phase' = "lastChance"
    /\ \/ RestorePriorAcceptance
       \/ ~CanRestorePriorAcceptance /\ UNCHANGED deskVars
    /\ UNCHANGED <<published, wave, waveVars, fresh, store, okKinds, nodeVars, demand>>

\* The guard of the final-chance block.
DemandsSubmit == accepted = None /\ ~blocked /\ ~replan /\ ~contradiction

\* The runner-demand-submit node.
DemandSubmit ==
    /\ phase = "lastChance" /\ DemandsSubmit
    /\ ResetForecastCopyState
    /\ StartNodes({"forecast"})
    /\ retires' = None /\ demand' = TRUE
    /\ UNCHANGED <<published, wave, stop, store, hadReplan, hadStructural>>

NoDemand ==
    /\ phase = "lastChance" /\ ~DemandsSubmit
    /\ phase' = "publish"
    /\ UNCHANGED <<deskVars, wave, waveVars, fresh, store, okKinds, nodeVars, demand>>

Publish ==
    /\ phase = "publish" /\ phase' = "done"
    /\ PublishOutcome
    /\ UNCHANGED <<wave, waveVars, fresh, store, okKinds, nodeVars, demand>>

\* _build_snapshot returned None for the submission that was to be published.
PublishUnbuilt ==
    /\ phase = "publish" /\ phase' = "unbuilt"
    /\ accepted # None \/ CanPreferLastClean
    /\ GiveUp(NothingClean)
    /\ UNCHANGED <<wave, waveVars, fresh, store, okKinds, nodeVars, demand>>

Over == phase \in Ended /\ UNCHANGED vars

Next ==
    \/ Plan
    \/ Wave
    \/ AutoSkipped \/ AutoSubmits \/ AutoAnswered
    \/ Decide
    \/ Restore \/ DemandSubmit \/ NoDemand
    \/ Publish \/ PublishUnbuilt
    \/ Over

Spec == Init /\ [][Next]_vars

\* Every await has a deadline or a request limit, so the event loop never
\* leaves an enabled step of the run waiting for ever.
FairSpec == Spec /\ WF_vars(Next)

-----------------------------------------------------------------------------
(* What a run promises.                                                     *)

\* A run that once accepted a forecast still holds one at the end, although the
\* re-opened revision was blocked, ran out of budget or was never submitted; only
\* an elimination contradiction or a superseded mixture takes it away.
NoLostForecast ==
    phase \in {"publish", "done"} /\ counterfactual # None /\ accepted = None
        => contradiction \/ ~Publishable(counterfactual)

\* Every run ends: waves, tool calls and reviews are all bounded.
Termination == <>(phase \in Ended)

=============================================================================
