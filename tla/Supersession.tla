---------------------------- MODULE Supersession ----------------------------
(* What the rest of the system relies on when it asks which mixtures a run  *)
(* may publish, whatever graph of nodes stands behind the answer.           *)
(*                                                                          *)
(* A merge brings in mixtures the run has not seen, activates some of them  *)
(* and may retire active ones, but only in exchange: the reader of          *)
(* SubmissionState.publishable_artifact_ids takes an empty set for "nothing *)
(* to check", so a run that emptied it would switch the check off.          *)
CONSTANTS Mixtures, Seeds

VARIABLES
    active,   \* what active_artifact_ids returns
    merged    \* every mixture a merge has brought in

supersessionVars == <<active, merged>>

SupersessionInit == active = Seeds /\ merged = Seeds

Exchange(arrived, added, retired) ==
    /\ retired # {} => added # {}
    /\ active' = (active \ retired) \cup added
    /\ merged' = merged \cup arrived

SupersessionNext ==
    \E arrived \in SUBSET (Mixtures \ merged) :
        \E added \in SUBSET arrived, retired \in SUBSET (active \ Seeds) :
            Exchange(arrived, added, retired)

SupersessionSpec == SupersessionInit /\ [][SupersessionNext]_supersessionVars

-----------------------------------------------------------------------------

\* Seeds stay publishable, and only merged mixtures ever are.
ActiveWithinMerged == Seeds \subseteq active /\ active \subseteq merged

\* Once there is something to check against, there always is.
NeverEmptied == [][active # {} => active' # {}]_supersessionVars

\* A superseded mixture never becomes publishable again.
NeverRevived == [][\A m \in merged : m \notin active => m \notin active']_supersessionVars

=============================================================================
