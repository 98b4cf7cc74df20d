----------------------------- MODULE AuditPolicy -----------------------------
(* What a mixture owes: the audit policy of agent/audit_policy.py, which the *)
(* guard of run_python asks when a mixture is registered and the validator   *)
(* when a submission cites it, and the validator's issues only a quant node  *)
(* can clear.  Weights are percentages.                                      *)
(*                                                                           *)
(* A payload has the weights of its worlds, the worlds that were built from  *)
(* precomputed probabilities, whether it prices ledger items, its branch     *)
(* audit (a set of rows, empty when there is none), and a factor audit: none *)
(* at all, one without a list of checks, or a row for every key.             *)
(* A citation is what else the validator is told: a market justification,    *)
(* the teams of market_gaps, news impacts, and a previous forecast.          *)
EXTENDS Integers, FiniteSetsExt

CONSTANTS BaseWorlds,     \* BASE_WORLDS
          model_base, market_base,
          Teams

ASSUME PolicyAssumption == {model_base, market_base} \subseteq BaseWorlds

LargeNonBase == 15

AuditKeys == {"mixture_spread", "previous_continuity", "bases", "market_gap", "ledger_pricing"}
\* "unknown" is any word out of the vocabulary; "absent" is no row at all.
RowStatuses == {"checked", "not_material", "not_applicable", "missing", "unknown", "absent"}

AuditForms == {"none", "malformed", "rows"}
Row == [status : RowStatuses, teams : SUBSET Teams]
Citation == [stance : BOOLEAN, gaps : SUBSET Teams, news : BOOLEAN, previous : BOOLEAN]

-----------------------------------------------------------------------------
(* What the payload alone shows.                                             *)

NonBaseMass(p) ==
    MapThenSumSet(LAMBDA w : p.weights[w], DOMAIN p.weights \ BaseWorlds)

IsLargeNonBase(p) == NonBaseMass(p) >= LargeNonBase

BothBases(p) == {model_base, market_base} \subseteq DOMAIN p.weights

\* audit_check_status: a missing or a malformed audit has no row.
Status(p, key) ==
    IF p.audited # "rows" THEN "absent" ELSE p.audit[key].status

RequiredKeys(p, large, stance, previous, priced) ==
    IF ~large /\ ~stance THEN {}
    ELSE {key \in AuditKeys :
            \/ key = "mixture_spread" /\ large
            \/ key = "previous_continuity" /\ previous
            \/ key = "bases" /\ BothBases(p)
            \/ key = "market_gap" /\ stance
            \/ key = "ledger_pricing" /\ priced}

\* Mutant of IntrinsicMissing: a row that says "missing" counts as a row.
IntrinsicAbsent(p) ==
    {key \in RequiredKeys(p, IsLargeNonBase(p), FALSE, FALSE, FALSE) : Status(p, key) = "absent"}

IntrinsicMissing(p) ==
    {key \in RequiredKeys(p, IsLargeNonBase(p), FALSE, FALSE, FALSE) :
        Status(p, key) \in {"absent", "missing"}}

AdvisoryMissing(p) ==
    {key \in {"market_gap"} :
        IsLargeNonBase(p) /\ Status(p, key) \notin {"checked", "not_material"}}

BranchStatuses == {"priced", "collapsed", "below_floor", "rejected", "carried_forward",
                   "merged_into_base"}
KilledStatuses == {"below_floor", "collapsed", "rejected", "merged_into_base"}

\* branch_audit_contradictions: a branch the audit killed still has a weighted world.
Contradicts(p) ==
    \E check \in p.branches :
        /\ check.status \in KilledStatuses
        /\ \E w \in (check.worlds \cap DOMAIN p.weights) \ BaseWorlds : p.weights[w] > 0

\* What run_python warns of when it registers p.
Unwarned(p) == IntrinsicMissing(p) \cup AdvisoryMissing(p) = {}

-----------------------------------------------------------------------------
(* What the validator says of a submission that cites it.                    *)

HasStance(s) == s.stance \/ s.gaps # {}

Owed(p, s) ==
    RequiredKeys(p, IsLargeNonBase(p), HasStance(s), s.previous, p.priced \/ s.news)

Uncovered(p, s) ==
    IF p.audited # "rows" THEN {}
    ELSE {key \in Owed(p, s) : Status(p, key) \in {"absent", "missing"}}

CoveredTeams(p) ==
    IF Status(p, "market_gap") \in {"checked", "not_material"}
    THEN p.audit["market_gap"].teams ELSE {}

FactorAuditIssues(p, s) ==
    IF p.audited = "none"
    THEN {code \in {"factor_audit_missing"} : IsLargeNonBase(p) \/ HasStance(s)}
    ELSE IF p.audited = "malformed" THEN {"factor_audit_malformed"}
    ELSE {code \in {"factor_audit_malformed"} :
                \E key \in AuditKeys : Status(p, key) = "unknown"}
         \cup {code \in {"factor_audit_missing_coverage"} : Uncovered(p, s) # {}}
         \cup {code \in {"market_audit_missing"} :
                HasStance(s) /\ Status(p, "market_gap") \notin {"checked", "not_material"}}
         \cup {code \in {"market_audit_missing_team"} : ~(s.gaps \subseteq CoveredTeams(p))}

\* worlds_from_payload stops at a world with fixed probabilities.
Buildable(p) == p.fixed = {}

QuantIssues(p, s) ==
    IF ~Buildable(p) THEN {"artifact_unpublishable"}
    ELSE FactorAuditIssues(p, s)
         \cup {code \in {"branch_audit_self_inconsistent"} : Contradicts(p)}

-----------------------------------------------------------------------------
(* Where the two part.  "The two can never disagree about what a large       *)
(* mixture owes" (audit_policy.py): they do, in what the payload shows and   *)
(* the guard never asks for, and the validator goes on to what the           *)
(* submission adds.                                                          *)

NoRow == {"absent", "missing"}

\* In the payload when it is registered, and left to the validator.
Overlooked(p) ==
    \/ ~Buildable(p)
    \/ \E key \in AuditKeys : Status(p, key) = "unknown"
    \/ p.priced /\ Status(p, "ledger_pricing") \in NoRow

\* Owed only because of what the submission says or follows.
AsksMore(p, s) ==
    \/ s.previous /\ Status(p, "previous_continuity") \in NoRow
    \/ s.news /\ Status(p, "ledger_pricing") \in NoRow
    \/ ~(s.gaps \subseteq CoveredTeams(p))

=============================================================================
