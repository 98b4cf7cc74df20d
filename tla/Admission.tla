------------------------------ MODULE Admission ------------------------------
(***************************************************************************)
(* Admission of the master's graph patches and the blackboard they land    *)
(* on: admit of graph/master.py, merge and active_artifact_ids of          *)
(* graph/blackboard.py.                                                    *)
(*                                                                         *)
(* admit walks the operations of a patch in order; what it does to one     *)
(* depends only on those before it, so a patch is chosen one operation at  *)
(* a time.  An operation that is dropped and leaves no trace but its       *)
(* message is not a step.  What coverage and the pre-mortem gate ask for   *)
(* depends on texts and prices and is chosen when the patch is opened.     *)
(***************************************************************************)
EXTENDS Integers, FiniteSets, Sequences

CONSTANTS
    Ids,                \* node ids the master may write
    CoverageId,         \* "coverage-research", the one id the caps leave out
    Runtime,            \* creator of the seeded mixtures
    SeedCreators,       \* {Runtime} if the run seeds a mixture, {} if not
    None,
    KindCap,            \* settings.graph_max_<kind>_nodes
    MaxNodes,           \* settings.graph_max_nodes
    MaxWorkers,         \* settings.graph_max_wave_workers
    MaxCoverageNudges,  \* settings.graph_max_coverage_nudges
    PremortemEnabled    \* settings.graph_premortem_enabled

Kinds == {"research", "quant", "forecast", "critic"}

ASSUME AdmissionAssumption ==
    /\ CoverageId \in Ids /\ Runtime \notin Ids /\ None \notin Ids
    /\ SeedCreators \subseteq {Runtime}
    /\ KindCap \in [Kinds -> Nat] /\ {MaxNodes, MaxWorkers, MaxCoverageNudges} \subseteq Nat
    /\ PremortemEnabled \in BOOLEAN

VARIABLES
    phase,
    nodes,             \* Blackboard.nodes by id: kind, replaced_by and position
    mixtures,          \* creators of a mixture artifact in the run's store
    critiques,         \* the store holds a critique
    admitted,          \* operations admitted so far, then the wave's
    wants,             \* which gates ask a follow-up of this patch
    nudged,            \* gates that dropped a forecast operation of this patch
    coverageNudges, premortemNudges

admissionVars == <<phase, nodes, mixtures, critiques, admitted, wants, nudged, coverageNudges,
                   premortemNudges>>

Gates == {"coverage", "premortem"}
Op == [id : Ids, kind : Kinds, replaces : Ids \cup {None}]
Record == [kind : Kinds, replacedBy : Ids \cup {None}, at : Nat]

WaveIds == {admitted[i].id : i \in DOMAIN admitted}

AdmissionTypeOK ==
    /\ phase \in {"plan", "admit", "wave"}
    /\ DOMAIN nodes \subseteq Ids /\ nodes \in [DOMAIN nodes -> Record]
    /\ mixtures \subseteq Ids \cup SeedCreators /\ critiques \in BOOLEAN
    /\ admitted \in Seq(Op)
    /\ wants \subseteq Gates /\ nudged \subseteq Gates
    /\ coverageNudges \in 0..MaxCoverageNudges /\ premortemNudges \in 0..1

\* The coverage scan may have been seeded before the first wave.
AdmissionInit ==
    /\ phase = "plan"
    /\ nodes \in {<<>>, [i \in {CoverageId} |-> [kind |-> "research", replacedBy |-> None, at |-> 1]]}
    /\ mixtures = SeedCreators /\ critiques = FALSE
    /\ admitted = <<>> /\ wants = {} /\ nudged = {}
    /\ coverageNudges = 0 /\ premortemNudges = 0

-----------------------------------------------------------------------------
(* admit, operation by operation.                                           *)

Seen == DOMAIN nodes \cup WaveIds

Replaced ==
    {n \in DOMAIN nodes : nodes[n].replacedBy # None} \cup {admitted[i].replaces : i \in DOMAIN admitted}

PlannedCount == Cardinality(DOMAIN nodes \ {CoverageId})

KindCount(k) ==
    Cardinality({n \in DOMAIN nodes \ {CoverageId} : nodes[n].kind = k})
      + Cardinality({i \in DOMAIN admitted : admitted[i].kind = k})

\* Neither a duplicate, nor a replacement of an unknown or a superseded node.
WellFormed(op) ==
    /\ op.id \notin Seen
    /\ op.replaces # None => op.replaces \in Seen \ Replaced

ForecastAdmitted == \E i \in DOMAIN admitted : admitted[i].kind = "forecast"

\* branch_follow_up_reason, premortem_follow_up_reason: each gives up after its nudges.
WantsCoverage == "coverage" \in wants /\ coverageNudges < MaxCoverageNudges
WantsPremortem == "premortem" \in wants /\ premortemNudges = 0

MayWant ==
    {"coverage"} \cup (IF PremortemEnabled /\ ~critiques /\ mixtures # {} THEN {"premortem"} ELSE {})

OpenPatch ==
    /\ phase = "plan" /\ phase' = "admit"
    /\ admitted' = <<>> /\ nudged' = {}
    /\ wants' \in SUBSET MayWant
    /\ UNCHANGED <<nodes, mixtures, critiques, coverageNudges, premortemNudges>>

\* A forecast operation is dropped so that a follow-up runs first.
NudgeForecast ==
    /\ phase = "admit" /\ Ids \ Seen # {} /\ ~ForecastAdmitted
    /\ \/ /\ WantsCoverage
          /\ nudged' = nudged \cup {"coverage"} /\ coverageNudges' = coverageNudges + 1
          /\ UNCHANGED premortemNudges
       \/ /\ ~WantsCoverage /\ WantsPremortem
          /\ nudged' = nudged \cup {"premortem"} /\ premortemNudges' = premortemNudges + 1
          /\ UNCHANGED coverageNudges
    /\ UNCHANGED <<phase, nodes, mixtures, critiques, admitted, wants>>

AdmitOp(op) ==
    /\ phase = "admit" /\ WellFormed(op)
    /\ op.kind = "forecast" => ~ForecastAdmitted /\ ~WantsCoverage /\ ~WantsPremortem
    /\ KindCount(op.kind) < KindCap[op.kind]
    /\ admitted' = Append(admitted, op)
    /\ UNCHANGED <<phase, nodes, mixtures, critiques, wants, nudged, coverageNudges, premortemNudges>>

WaveCap ==
    LET remaining == IF PlannedCount < MaxNodes THEN MaxNodes - PlannedCount ELSE 0
    IN  IF remaining < MaxWorkers THEN remaining ELSE MaxWorkers

\* The overflow is cut off; a patch with nothing left is planned again.
CloseAdmission ==
    /\ phase = "admit"
    /\ admitted' = SubSeq(admitted, 1, IF Len(admitted) < WaveCap THEN Len(admitted) ELSE WaveCap)
    /\ phase' = IF admitted' = <<>> THEN "plan" ELSE "wave"
    /\ UNCHANGED <<nodes, mixtures, critiques, wants, nudged, coverageNudges, premortemNudges>>

-----------------------------------------------------------------------------
(* The wave and its merge.                                                  *)

\* run_python of a quant node registers a mixture, before the node's outcome is known.
RegisterMixture(n) ==
    /\ phase = "wave"
    /\ \E i \in DOMAIN admitted : admitted[i].id = n /\ admitted[i].kind = "quant"
    /\ mixtures' = mixtures \cup {n}
    /\ UNCHANGED <<phase, nodes, critiques, admitted, wants, nudged, coverageNudges, premortemNudges>>

\* The referee files a critique while the wave's forecast node waits for it.
FileCritique ==
    /\ phase = "wave" /\ ForecastAdmitted
    /\ critiques' = TRUE
    /\ UNCHANGED <<phase, nodes, mixtures, admitted, wants, nudged, coverageNudges, premortemNudges>>

\* The ok nodes of the wave that re-brief n.
Heirs(n, ok) ==
    {admitted[i].id : i \in {j \in DOMAIN admitted : admitted[j].id \in ok /\ admitted[j].replaces = n}}

ReplacedBy(n, ok) ==
    IF Heirs(n, ok) # {} THEN CHOOSE h \in Heirs(n, ok) : TRUE
    ELSE IF n \in DOMAIN nodes THEN nodes[n].replacedBy ELSE None

\* Blackboard.merge: every outcome is appended, an ok one takes over what it replaces.
Merge(ok) ==
    /\ phase = "wave" /\ phase' = "plan"
    /\ nodes' = [n \in Seen |->
           LET i == CHOOSE j \in DOMAIN admitted : admitted[j].id = n
           IN  IF n \in DOMAIN nodes
               THEN [nodes[n] EXCEPT !.replacedBy = ReplacedBy(n, ok)]
               ELSE [kind |-> admitted[i].kind, replacedBy |-> ReplacedBy(n, ok),
                     at |-> Cardinality(DOMAIN nodes) + i]]
    /\ critiques' = (critiques \/ \E i \in DOMAIN admitted : admitted[i].kind = "critic" /\ admitted[i].id \in ok)
    /\ admitted' = <<>> /\ wants' = {} /\ nudged' = {}
    /\ UNCHANGED <<mixtures, coverageNudges, premortemNudges>>

AdmissionNext ==
    \/ OpenPatch
    \/ NudgeForecast
    \/ \E op \in Op : AdmitOp(op)
    \/ CloseAdmission
    \/ \E n \in Ids : RegisterMixture(n)
    \/ FileCritique
    \/ \E ok \in SUBSET WaveIds : Merge(ok)

AdmissionSpec == AdmissionInit /\ [][AdmissionNext]_admissionVars

-----------------------------------------------------------------------------
(* active_artifact_ids.                                                     *)

\* The nodes the chain of replaced_by visits after n: what every set that holds
\* its next node and is closed under replaced_by must hold.
Successors(n) ==
    {m \in DOMAIN nodes : \A S \in SUBSET DOMAIN nodes :
        /\ nodes[n].replacedBy \in S
        /\ \A s \in S : nodes[s].replacedBy \in S \cup {None}
        => m \in S}

\* Mutant of Superseded: a replacement supersedes whether or not it has a mixture.
SupersededByAny(n) == n \in DOMAIN nodes /\ nodes[n].replacedBy # None

Superseded(n) ==
    n \in DOMAIN nodes /\ nodes[n].replacedBy # None /\ Successors(n) \cap mixtures # {}

MergedMixtures == mixtures \cap (DOMAIN nodes \cup SeedCreators)

ActiveMixtures == {n \in MergedMixtures : ~Superseded(n)}

Lineage == INSTANCE Supersession WITH
    Mixtures <- Ids \cup SeedCreators, Seeds <- SeedCreators,
    active <- ActiveMixtures, merged <- MergedMixtures

-----------------------------------------------------------------------------
(* What admission and the blackboard promise.                               *)

\* Whatever the master replaces, and whichever replacements fail, a merge only ever
\* exchanges active mixtures for new ones (active_artifact_ids walks the chains).
LineageIsSupersession == Lineage!SupersessionSpec

\* A node is replaced at most once and its heir came later, so the lineage is a set
\* of chains and the walk along replaced_by ends; an heir is never withdrawn.
HeirsAreFinal ==
    [][\A n \in DOMAIN nodes :
          /\ nodes'[n].replacedBy # nodes[n].replacedBy => nodes[n].replacedBy = None
          /\ nodes'[n].replacedBy # None => nodes'[nodes'[n].replacedBy].at > nodes[n].at]_admissionVars

\* The run's caps hold over all waves, the coverage node apart.
CapsHold ==
    /\ PlannedCount <= MaxNodes
    /\ \A k \in Kinds : Cardinality({n \in DOMAIN nodes \ {CoverageId} : nodes[n].kind = k}) <= KindCap[k]

=============================================================================
