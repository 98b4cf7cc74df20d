------------------------ MODULE AdmissionBudgetProofs -------------------------
(* Theorems of Admission, then of Budget.                                  *)
(*                                                                          *)
(* Admission and the blackboard, for any ids, caps and number of waves: the *)
(* run's caps hold, a node is replaced once, by one that came later, and    *)
(* what the desk may publish changes as Supersession says.                  *)
(*                                                                          *)
(* The ledger is exact and the ceiling and the reserves hold, for any       *)
(* number of agents and whatever calls are estimated at and turn out to     *)
(* cost.  A sum of reservations is the cardinality of a set of tokens, so   *)
(* that the library's facts on finite sets do the arithmetic.               *)
EXTENDS Admission, Budget, FunctionTheorems, ListsProofs

\* The types, one by one, and that a run's nodes are finitely many.
Typed ==
    /\ phase \in {"plan", "admit", "wave"}
    /\ DOMAIN nodes \subseteq Ids /\ nodes \in [DOMAIN nodes -> Record]
    /\ IsFiniteSet(DOMAIN nodes)
    /\ mixtures \subseteq Ids \cup SeedCreators /\ critiques \in BOOLEAN
    /\ admitted \in Seq(Op)
    /\ wants \subseteq Gates /\ nudged \subseteq Gates
    /\ coverageNudges \in 0..MaxCoverageNudges /\ premortemNudges \in 0..1

LEMMA AdmittedType ==
    ASSUME admitted \in Seq(Op)
    PROVE  /\ DOMAIN admitted = 1..Len(admitted) /\ Len(admitted) \in Nat
           /\ \A i \in DOMAIN admitted : admitted[i] \in Op
           /\ \A i \in DOMAIN admitted :
                 /\ admitted[i].id \in Ids /\ admitted[i].kind \in Kinds
                 /\ admitted[i].replaces \in Ids \cup {None}
           /\ WaveIds \subseteq Ids
           /\ IsFiniteSet(DOMAIN admitted) /\ Cardinality(DOMAIN admitted) = Len(admitted)
<1>1. DOMAIN admitted = 1..Len(admitted) /\ Len(admitted) \in Nat
      OBVIOUS
<1>2. \A i \in DOMAIN admitted : admitted[i] \in Op
      OBVIOUS
<1>3. \A i \in DOMAIN admitted :
          /\ admitted[i].id \in Ids /\ admitted[i].kind \in Kinds
          /\ admitted[i].replaces \in Ids \cup {None}
      BY <1>2 DEF Op
<1>4. WaveIds \subseteq Ids
      BY <1>3 DEF WaveIds
<1>5. IsFiniteSet(1..Len(admitted)) /\ Cardinality(1..Len(admitted)) = Len(admitted)
  <2>1. IsFiniteSet(1..Len(admitted))
        /\ Cardinality(1..Len(admitted)) =
               IF 1 > Len(admitted) THEN 0 ELSE Len(admitted) - 1 + 1
        BY <1>1, FS_Interval
  <2> QED BY <1>1, <2>1
<1> QED BY <1>1, <1>2, <1>3, <1>4, <1>5

\* The ids of a set of operations are at most as many as they.
LEMMA IdsOfOperations ==
    ASSUME admitted \in Seq(Op), NEW I \in SUBSET DOMAIN admitted
    PROVE  /\ IsFiniteSet(I)
           /\ IsFiniteSet({admitted[i].id : i \in I})
           /\ Cardinality({admitted[i].id : i \in I}) <= Cardinality(I)
<1> DEFINE T == {admitted[i].id : i \in I}
           f == [i \in I |-> admitted[i].id]
<1>1. IsFiniteSet(I)
      BY AdmittedType, FS_Subset
<1>2. f \in Surjection(I, T)
      BY DEF Surjection
<1> QED BY <1>1, <1>2, FS_Surjection

LEMMA WaveIdsFinite ==
    ASSUME admitted \in Seq(Op)
    PROVE  IsFiniteSet(WaveIds) /\ Cardinality(WaveIds) <= Len(admitted)
<1>1. WaveIds = {admitted[i].id : i \in DOMAIN admitted}
      BY DEF WaveIds
<1> QED BY <1>1, AdmittedType, IdsOfOperations

\* Operations with ids of their own are as many as their ids.
LEMMA WaveIdsCounted ==
    ASSUME admitted \in Seq(Op),
           \A i, j \in DOMAIN admitted : admitted[i].id = admitted[j].id => i = j
    PROVE  Cardinality(WaveIds) = Len(admitted)
<1> DEFINE f == [i \in DOMAIN admitted |-> admitted[i].id]
<1>1. f \in Surjection(DOMAIN admitted, WaveIds)
      BY DEF Surjection, WaveIds
<1>2. f \in Injection(DOMAIN admitted, WaveIds)
      BY <1>1 DEF Surjection, Injection, IsInjective
<1>3. Cardinality(WaveIds) = Cardinality(DOMAIN admitted)
      BY <1>1, <1>2, AdmittedType, FS_Surjection
<1> QED BY <1>3, AdmittedType

-----------------------------------------------------------------------------
(* Types.                                                                   *)

\* The index at which a merge finds a new node's operation.
IndexOf(n) == CHOOSE j \in DOMAIN admitted : admitted[j].id = n

LEMMA IndexOfFacts ==
    ASSUME NEW n \in WaveIds
    PROVE  IndexOf(n) \in DOMAIN admitted /\ admitted[IndexOf(n)].id = n
BY DEF WaveIds, IndexOf

LEMMA ReplacedByType ==
    ASSUME Typed, NEW n, NEW ok \in SUBSET WaveIds
    PROVE  ReplacedBy(n, ok) \in Ids \cup {None}
<1>1. CASE Heirs(n, ok) # {}
  <2>1. Heirs(n, ok) \subseteq Ids
        BY AdmittedType DEF Heirs, Typed
  <2> QED BY <1>1, <2>1 DEF ReplacedBy
<1>2. CASE Heirs(n, ok) = {}
      BY <1>2 DEF ReplacedBy, Typed, Record
<1> QED BY <1>1, <1>2

\* What a merge does to each node.
LEMMA MergeWrites ==
    ASSUME Typed, NEW ok \in SUBSET WaveIds, Merge(ok)
    PROVE  /\ DOMAIN nodes' = DOMAIN nodes \cup WaveIds
           /\ \A n \in DOMAIN nodes :
                 /\ nodes'[n].kind = nodes[n].kind /\ nodes'[n].at = nodes[n].at
                 /\ nodes'[n].replacedBy = ReplacedBy(n, ok)
           /\ \A n \in WaveIds \ DOMAIN nodes :
                 /\ nodes'[n].kind = admitted[IndexOf(n)].kind
                 /\ nodes'[n].at = Cardinality(DOMAIN nodes) + IndexOf(n)
                 /\ nodes'[n].replacedBy = ReplacedBy(n, ok)
           /\ nodes' \in [DOMAIN nodes' -> Record]
<1>1. nodes' = [n \in Seen |->
           IF n \in DOMAIN nodes
           THEN [nodes[n] EXCEPT !.replacedBy = ReplacedBy(n, ok)]
           ELSE [kind |-> admitted[IndexOf(n)].kind, replacedBy |-> ReplacedBy(n, ok),
                 at |-> Cardinality(DOMAIN nodes) + IndexOf(n)]]
      BY DEF Merge, IndexOf
<1>2. Seen = DOMAIN nodes \cup WaveIds
      BY DEF Seen
<1>3. \A n \in DOMAIN nodes :
          nodes'[n] = [nodes[n] EXCEPT !.replacedBy = ReplacedBy(n, ok)] /\ nodes[n] \in Record
      BY <1>1, <1>2 DEF Typed
<1>4. \A n \in WaveIds \ DOMAIN nodes :
          nodes'[n] = [kind |-> admitted[IndexOf(n)].kind, replacedBy |-> ReplacedBy(n, ok),
                       at |-> Cardinality(DOMAIN nodes) + IndexOf(n)]
      BY <1>1, <1>2
<1>5. \A n \in DOMAIN nodes :
          /\ nodes'[n].kind = nodes[n].kind /\ nodes'[n].at = nodes[n].at
          /\ nodes'[n].replacedBy = ReplacedBy(n, ok) /\ nodes'[n] \in Record
  <2> SUFFICES ASSUME NEW n \in DOMAIN nodes
               PROVE  /\ nodes'[n].kind = nodes[n].kind /\ nodes'[n].at = nodes[n].at
                      /\ nodes'[n].replacedBy = ReplacedBy(n, ok) /\ nodes'[n] \in Record
        OBVIOUS
  <2> DEFINE b == ReplacedBy(n, ok)
  <2>1. b \in Ids \cup {None}
        BY ReplacedByType
  <2>2. nodes'[n] = [nodes[n] EXCEPT !.replacedBy = b] /\ nodes[n] \in Record
        BY <1>3
  <2> HIDE DEF b
  <2>3. /\ nodes'[n].kind = nodes[n].kind /\ nodes'[n].at = nodes[n].at
        /\ nodes'[n].replacedBy = b /\ nodes'[n] \in Record
        BY <2>1, <2>2 DEF Record
  <2> QED BY <2>3 DEF b
<1>6. \A n \in WaveIds \ DOMAIN nodes : nodes'[n] \in Record
  <2> SUFFICES ASSUME NEW n \in WaveIds \ DOMAIN nodes PROVE nodes'[n] \in Record
        OBVIOUS
  <2>1. IndexOf(n) \in Nat /\ admitted[IndexOf(n)].kind \in Kinds
        BY IndexOfFacts, AdmittedType DEF Typed
  <2>2. Cardinality(DOMAIN nodes) \in Nat
        BY FS_CardinalityType DEF Typed
  <2>3. ReplacedBy(n, ok) \in Ids \cup {None}
        BY ReplacedByType
  <2>4. Cardinality(DOMAIN nodes) + IndexOf(n) \in Nat
        BY <2>1, <2>2
  <2> HIDE DEF Typed
  <2>5. [kind |-> admitted[IndexOf(n)].kind, replacedBy |-> ReplacedBy(n, ok),
         at |-> Cardinality(DOMAIN nodes) + IndexOf(n)] \in Record
        BY <2>1, <2>3, <2>4 DEF Record
  <2> QED BY <1>4, <2>5
<1>7. DOMAIN nodes' = DOMAIN nodes \cup WaveIds /\ nodes' = [n \in DOMAIN nodes' |-> nodes'[n]]
      BY <1>1, <1>2
<1>8. nodes' \in [DOMAIN nodes' -> Record]
      BY <1>5, <1>6, <1>7
<1> QED BY <1>4, <1>5, <1>7, <1>8

LEMMA TypedNext ==
    ASSUME Typed, [AdmissionNext]_admissionVars
    PROVE  Typed'
<1> USE AdmissionAssumption DEF Typed
<1>1. CASE OpenPatch
  <2>1. wants' \subseteq Gates
        BY <1>1 DEF OpenPatch, MayWant, Gates
  <2>2. admitted' \in Seq(Op)
        BY <1>1 DEF OpenPatch
  <2> QED BY <1>1, <2>1, <2>2 DEF OpenPatch
<1>2. CASE NudgeForecast
  <2>1. nudged' \subseteq Gates
        BY <1>2 DEF NudgeForecast, Gates
  <2>2. coverageNudges' \in 0..MaxCoverageNudges
        BY <1>2 DEF NudgeForecast, WantsCoverage
  <2>3. premortemNudges' \in 0..1
        BY <1>2 DEF NudgeForecast, WantsPremortem
  <2> QED BY <1>2, <2>1, <2>2, <2>3 DEF NudgeForecast
<1>3. ASSUME NEW op \in Op, AdmitOp(op) PROVE Typed'
  <2>1. admitted' \in Seq(Op)
        BY <1>3 DEF AdmitOp
  <2> QED BY <1>3, <2>1 DEF AdmitOp
<1>4. CASE CloseAdmission
  <2>1. PICK k \in Nat : admitted' = SubSeq(admitted, 1, k) /\ k <= Len(admitted)
    <3>1. WaveCap \in Nat
      <4>1. PlannedCount \in Nat
            BY FS_Difference, FS_CardinalityType DEF PlannedCount
      <4> QED BY <4>1 DEF WaveCap
    <3>2. Len(admitted) \in Nat
          OBVIOUS
    <3> QED BY <1>4, <3>1, <3>2 DEF CloseAdmission
  <2>2. admitted' \in Seq(Op)
        BY <2>1
  <2> QED BY <1>4, <2>2 DEF CloseAdmission
<1>5. ASSUME NEW n \in Ids, RegisterMixture(n) PROVE Typed'
      BY <1>5 DEF RegisterMixture
<1>6. CASE FileCritique
      BY <1>6 DEF FileCritique
<1>7. ASSUME NEW ok \in SUBSET WaveIds, Merge(ok) PROVE Typed'
  <2>1. DOMAIN nodes' \subseteq Ids /\ nodes' \in [DOMAIN nodes' -> Record]
        BY <1>7, MergeWrites, AdmittedType
  <2>2. IsFiniteSet(DOMAIN nodes')
    <3>1. IsFiniteSet(DOMAIN nodes \cup WaveIds)
          BY WaveIdsFinite, FS_Union
    <3> QED BY <1>7, <3>1, MergeWrites
  <2>3. admitted' \in Seq(Op) /\ critiques' \in BOOLEAN
        BY <1>7 DEF Merge
  <2> QED BY <1>7, <2>1, <2>2, <2>3 DEF Merge
<1>8. CASE UNCHANGED admissionVars
      BY <1>8 DEF admissionVars
<1> QED BY <1>1, <1>2, <1>3, <1>4, <1>5, <1>6, <1>7, <1>8 DEF AdmissionNext

LEMMA TypedInit == AdmissionInit => Typed
<1> SUFFICES ASSUME AdmissionInit PROVE Typed
      OBVIOUS
<1>1. DOMAIN nodes \subseteq Ids /\ nodes \in [DOMAIN nodes -> Record] /\ IsFiniteSet(DOMAIN nodes)
  <2>1. CASE nodes = <<>>
        BY <2>1, FS_EmptySet
  <2>2. CASE nodes = [i \in {CoverageId} |-> [kind |-> "research", replacedBy |-> None, at |-> 1]]
    <3>1. IsFiniteSet({CoverageId})
          BY FS_Singleton
    <3> QED BY <2>2, <3>1, AdmissionAssumption DEF Record, Kinds
  <2> QED BY <2>1, <2>2 DEF AdmissionInit
<1>2. admitted \in Seq(Op)
  <2>1. admitted = <<>>
        BY DEF AdmissionInit
  <2> QED BY <2>1
<1>6. critiques \in BOOLEAN
      BY DEF AdmissionInit
<1>3. mixtures \subseteq Ids \cup SeedCreators /\ wants \subseteq Gates /\ nudged \subseteq Gates
      BY DEF AdmissionInit
<1>4. coverageNudges \in 0..MaxCoverageNudges /\ premortemNudges \in 0..1
      BY AdmissionAssumption DEF AdmissionInit
<1>5. phase \in {"plan", "admit", "wave"}
      BY DEF AdmissionInit
<1> QED BY <1>1, <1>2, <1>3, <1>4, <1>5, <1>6 DEF Typed

LEMMA TypesKept == AdmissionSpec => []Typed
BY TypedInit, TypedNext, PTL DEF AdmissionSpec

\* Admission and merge keep the types of the blackboard (admit, Blackboard.merge).
THEOREM AdmissionTypeCorrect == AdmissionSpec => []AdmissionTypeOK
<1>1. Typed => AdmissionTypeOK
      BY DEF Typed, AdmissionTypeOK
<1> QED BY <1>1, TypesKept, PTL

-----------------------------------------------------------------------------
(* The caps.                                                                *)

Planned == DOMAIN nodes \ {CoverageId}
PlannedOf(k) == {n \in Planned : nodes[n].kind = k}
OperationsOf(k) == {i \in DOMAIN admitted : admitted[i].kind = k}

\* A kind's nodes and operations together stay within its cap, and from the close of
\* admission on the run's nodes and the wave's operations together within the run's.
OperationsCounted ==
    /\ \A k \in Kinds :
          Cardinality(PlannedOf(k)) + Cardinality(OperationsOf(k)) <= KindCap[k]
    /\ PlannedCount <= MaxNodes
    /\ phase = "wave" => PlannedCount + Len(admitted) <= MaxNodes
    /\ phase = "plan" => admitted = <<>>

Counted ==
    /\ IsFiniteSet(Planned) /\ Cardinality(Planned) \in Nat /\ PlannedCount = Cardinality(Planned)
    /\ \A k : /\ IsFiniteSet(PlannedOf(k)) /\ Cardinality(PlannedOf(k)) \in Nat
              /\ IsFiniteSet(OperationsOf(k)) /\ Cardinality(OperationsOf(k)) \in Nat
    /\ \A k : KindCount(k) = Cardinality(PlannedOf(k)) + Cardinality(OperationsOf(k))

LEMMA Counts == Typed => Counted
<1> SUFFICES ASSUME Typed PROVE Counted
      OBVIOUS
<1>1. IsFiniteSet(Planned)
      BY FS_Difference DEF Typed, Planned
<1>2. ASSUME NEW k
      PROVE  /\ IsFiniteSet(PlannedOf(k)) /\ Cardinality(PlannedOf(k)) \in Nat
             /\ IsFiniteSet(OperationsOf(k)) /\ Cardinality(OperationsOf(k)) \in Nat
  <2>1. PlannedOf(k) \subseteq Planned /\ OperationsOf(k) \subseteq DOMAIN admitted
        BY DEF PlannedOf, OperationsOf
  <2>2. IsFiniteSet(DOMAIN admitted)
        BY AdmittedType DEF Typed
  <2>3. IsFiniteSet(PlannedOf(k)) /\ IsFiniteSet(OperationsOf(k))
        BY <1>1, <2>1, <2>2, FS_Subset
  <2> QED BY <2>3, FS_CardinalityType
<1>3. \A k : KindCount(k) = Cardinality(PlannedOf(k)) + Cardinality(OperationsOf(k))
      BY DEF KindCount, PlannedOf, OperationsOf, Planned
<1>4. PlannedCount = Cardinality(Planned) /\ Cardinality(Planned) \in Nat
      BY <1>1, FS_CardinalityType DEF PlannedCount, Planned
<1> QED BY <1>1, <1>2, <1>3, <1>4 DEF Counted

LEMMA OperationsCountedNext ==
    ASSUME Typed, OperationsCounted, [AdmissionNext]_admissionVars
    PROVE  OperationsCounted'
<1>00. Counted
      BY Counts
<1>0. Counted'
  <2>1. Typed'
        BY TypedNext
  <2> QED BY <2>1, Counts, PTL
<1>1. ASSUME nodes' = nodes, admitted' = admitted, phase' = phase \/ (phase = "plan" /\ phase' = "admit")
      PROVE  OperationsCounted'
      BY <1>1 DEF OperationsCounted, PlannedOf, OperationsOf, Planned, PlannedCount
<1>2. CASE OpenPatch
  <2>1. admitted' = admitted /\ nodes' = nodes /\ phase = "plan" /\ phase' = "admit"
        BY <1>2 DEF OpenPatch, OperationsCounted
  <2> QED BY <1>1, <2>1
<1>3. ASSUME NEW op \in Op, AdmitOp(op) PROVE OperationsCounted'
  <2>1. /\ admitted' = Append(admitted, op) /\ nodes' = nodes /\ phase = "admit" /\ phase' = "admit"
        /\ KindCount(op.kind) < KindCap[op.kind] /\ op.kind \in Kinds
        BY <1>3 DEF AdmitOp, Op
  <2>2. \A k : PlannedOf(k)' = PlannedOf(k)
        BY <2>1 DEF PlannedOf, Planned
  <2>3. /\ OperationsOf(op.kind)' = OperationsOf(op.kind) \cup {Len(admitted) + 1}
        /\ \A k : k # op.kind => OperationsOf(k)' = OperationsOf(k)
    <3>1. DOMAIN admitted' = DOMAIN admitted \cup {Len(admitted) + 1}
          /\ \A i \in DOMAIN admitted : admitted'[i] = admitted[i]
          /\ admitted'[Len(admitted) + 1] = op
          BY <2>1 DEF Typed
    <3>2. Len(admitted) + 1 \notin DOMAIN admitted
          BY AdmittedType DEF Typed
    <3>3. ASSUME NEW k
          PROVE  OperationsOf(k)' = IF op.kind = k THEN OperationsOf(k) \cup {Len(admitted) + 1}
                                    ELSE OperationsOf(k)
      <4>0. PICK x \in Nat : x = Len(admitted) + 1 /\ admitted'[x] = op
            BY <2>1, AdmittedType DEF Typed
      <4>1. DOMAIN admitted' = DOMAIN admitted \cup {x}
            BY <3>1, <4>0
      <4>7. x \notin DOMAIN admitted
            BY <3>2, <4>0
      <4>2. \A i : i \in OperationsOf(k)' <=>
                    i \in DOMAIN admitted' /\ admitted'[i].kind = k
            BY DEF OperationsOf
      <4>3. \A i : i \in OperationsOf(k)' <=>
                    \/ i \in OperationsOf(k)
                    \/ i = x /\ op.kind = k
            BY <3>1, <4>0, <4>1, <4>2, <4>7 DEF OperationsOf
      <4>4. CASE op.kind = k
            BY <4>0, <4>3, <4>4
      <4>5. CASE op.kind # k
            BY <4>3, <4>5
      <4> QED BY <4>4, <4>5
    <3> QED BY <3>3
  <2>4. Cardinality(OperationsOf(op.kind)') <= Cardinality(OperationsOf(op.kind)) + 1
    <3>1. IsFiniteSet(OperationsOf(op.kind)) /\ Cardinality(OperationsOf(op.kind)) \in Nat
          BY <1>00 DEF Counted
    <3> DEFINE S == OperationsOf(op.kind)
               x == Len(admitted) + 1
    <3>2. Cardinality(S \cup {x}) = IF x \in S THEN Cardinality(S) ELSE Cardinality(S) + 1
          BY <3>1, FS_AddElement
    <3> HIDE DEF x
    <3>3. OperationsOf(op.kind)' = S \cup {x}
          BY <2>3 DEF x
    <3> HIDE DEF S
    <3>4. Cardinality(S) \in Nat
          BY <3>1 DEF S
    <3>5. Cardinality(OperationsOf(op.kind)') <= Cardinality(S) + 1
          BY <3>2, <3>3, <3>4
    <3> QED BY <3>5 DEF S
  <2>5. \A k \in Kinds :
            Cardinality(PlannedOf(k)') + Cardinality(OperationsOf(k)') <= KindCap[k]
    <3> SUFFICES ASSUME NEW k \in Kinds
                 PROVE  Cardinality(PlannedOf(k)') + Cardinality(OperationsOf(k)') <= KindCap[k]
          OBVIOUS
    <3>1. CASE k # op.kind
          BY <2>2, <2>3, <3>1 DEF OperationsCounted
    <3>2. CASE k = op.kind
      <4>1. Cardinality(PlannedOf(k)) + Cardinality(OperationsOf(k)) < KindCap[k]
            BY <1>00, <2>1, <3>2 DEF Counted
      <4>2. Cardinality(PlannedOf(k)) \in Nat /\ Cardinality(OperationsOf(k)) \in Nat
            /\ Cardinality(OperationsOf(k)') \in Nat /\ KindCap[k] \in Nat
            BY <1>0, <1>00, AdmissionAssumption DEF Counted
      <4>3. Cardinality(OperationsOf(k)') <= Cardinality(OperationsOf(k)) + 1
            BY <2>4, <3>2
      <4> QED BY <2>2, <4>1, <4>2, <4>3
    <3> QED BY <3>1, <3>2
  <2> QED BY <2>1, <2>5 DEF OperationsCounted, PlannedCount
<1>4. CASE CloseAdmission
  <2>1. WaveCap \in Nat /\ WaveCap <= MaxNodes - PlannedCount
    <3>1. PlannedCount \in Nat /\ PlannedCount <= MaxNodes /\ MaxNodes \in Nat /\ MaxWorkers \in Nat
          BY <1>00, AdmissionAssumption DEF OperationsCounted, Counted
    <3> QED BY <3>1 DEF WaveCap
  <2> DEFINE k == IF Len(admitted) < WaveCap THEN Len(admitted) ELSE WaveCap
  <2>2. k \in Nat /\ k <= Len(admitted) /\ k <= WaveCap
        BY <2>1 DEF Typed
  <2>3. admitted' = SubSeq(admitted, 1, k) /\ nodes' = nodes
        BY <1>4 DEF CloseAdmission
  <2> HIDE DEF k
  <2>4. /\ Len(admitted') = k /\ DOMAIN admitted' \subseteq DOMAIN admitted
        /\ \A i \in DOMAIN admitted' : admitted'[i] = admitted[i]
        BY <2>2, <2>3 DEF Typed
  <2>5. \A q : Cardinality(OperationsOf(q)') <= Cardinality(OperationsOf(q))
        /\ PlannedOf(q)' = PlannedOf(q)
    <3> TAKE q
    <3>1. OperationsOf(q)' \subseteq OperationsOf(q)
          BY <2>4 DEF OperationsOf
    <3>2. IsFiniteSet(OperationsOf(q))
          BY <1>00 DEF Counted
    <3> QED BY <2>3, <3>1, <3>2, FS_Subset DEF PlannedOf, Planned
  <2>6. \A q \in Kinds :
            Cardinality(PlannedOf(q)') + Cardinality(OperationsOf(q)') <= KindCap[q]
    <3> SUFFICES ASSUME NEW q \in Kinds
                 PROVE  Cardinality(PlannedOf(q)') + Cardinality(OperationsOf(q)') <= KindCap[q]
          OBVIOUS
    <3>1. Cardinality(PlannedOf(q)) \in Nat /\ Cardinality(OperationsOf(q)) \in Nat
          /\ KindCap[q] \in Nat
          BY <1>00, AdmissionAssumption DEF Counted
    <3>2. Cardinality(OperationsOf(q)') \in Nat
          BY <1>0, <1>00 DEF Counted
    <3>3. Cardinality(PlannedOf(q)) + Cardinality(OperationsOf(q)) <= KindCap[q]
          BY DEF OperationsCounted
    <3> QED BY <2>5, <3>1, <3>2, <3>3
  <2>7. PlannedCount' = PlannedCount /\ PlannedCount + Len(admitted') <= MaxNodes
    <3>1. PlannedCount \in Nat /\ MaxNodes \in Nat
          BY <1>00, AdmissionAssumption DEF Counted
    <3> QED BY <2>1, <2>2, <2>3, <2>4, <3>1 DEF PlannedCount
  <2>8. phase' = "plan" => admitted' = <<>>
        BY <1>4 DEF CloseAdmission
  <2> QED BY <2>6, <2>7, <2>8 DEF OperationsCounted
<1>5. ASSUME NEW ok \in SUBSET WaveIds, Merge(ok) PROVE OperationsCounted'
  <2>1. phase = "wave" /\ phase' = "plan" /\ admitted' = <<>>
        BY <1>5 DEF Merge
  <2>2. Planned' \subseteq Planned \cup WaveIds
        BY <1>5, MergeWrites DEF Planned
  <2>3. Cardinality(Planned') <= Cardinality(Planned) + Len(admitted)
    <3>1. IsFiniteSet(WaveIds) /\ Cardinality(WaveIds) <= Len(admitted) /\ Len(admitted) \in Nat
          BY WaveIdsFinite, AdmittedType DEF Typed
    <3>2. IsFiniteSet(Planned) /\ Cardinality(Planned) \in Nat /\ Cardinality(Planned') \in Nat
          BY <1>0, <1>00 DEF Counted
    <3>3. /\ IsFiniteSet(Planned \cup WaveIds)
          /\ Cardinality(Planned \cup WaveIds) =
                 Cardinality(Planned) + Cardinality(WaveIds) - Cardinality(Planned \cap WaveIds)
          BY <3>1, <3>2, FS_Union
    <3>4. Cardinality(Planned \cap WaveIds) \in Nat /\ Cardinality(WaveIds) \in Nat
          BY <3>1, <3>2, FS_Intersection, FS_CardinalityType
    <3>5. Cardinality(Planned') <= Cardinality(Planned \cup WaveIds)
          BY <2>2, <3>3, FS_Subset
    <3>6. Cardinality(Planned \cup WaveIds) \in Nat
          BY <3>3, FS_CardinalityType
    <3> QED BY <3>1, <3>2, <3>3, <3>4, <3>5, <3>6
  <2>4. PlannedCount' <= MaxNodes
    <3>1. PlannedCount = Cardinality(Planned) /\ PlannedCount' = Cardinality(Planned')
          BY DEF PlannedCount, Planned
    <3>2. PlannedCount \in Nat /\ Len(admitted) \in Nat /\ Cardinality(Planned') \in Nat
          BY <1>0, <1>00, AdmittedType DEF Counted, Typed
    <3>3. PlannedCount + Len(admitted) <= MaxNodes /\ MaxNodes \in Nat
          BY <2>1, AdmissionAssumption DEF OperationsCounted
    <3> QED BY <2>3, <3>1, <3>2, <3>3
  <2>5. ASSUME NEW k \in Kinds
        PROVE  Cardinality(PlannedOf(k)') + Cardinality(OperationsOf(k)') <= KindCap[k]
    <3> DEFINE T == {admitted[i].id : i \in OperationsOf(k)}
    <3>1. PlannedOf(k)' \subseteq PlannedOf(k) \cup T
      <4> SUFFICES ASSUME NEW n \in PlannedOf(k)', n \notin PlannedOf(k)
                   PROVE  n \in T
            OBVIOUS
      <4>1. n \in WaveIds \ DOMAIN nodes /\ nodes'[n].kind = k
            BY <1>5, MergeWrites DEF PlannedOf, Planned
      <4>2. admitted[IndexOf(n)].kind = k
            BY <1>5, <4>1, MergeWrites
      <4>3. IndexOf(n) \in OperationsOf(k) /\ admitted[IndexOf(n)].id = n
            BY <4>1, <4>2, IndexOfFacts DEF OperationsOf
      <4> QED BY <4>3
    <3>2. IsFiniteSet(T) /\ Cardinality(T) <= Cardinality(OperationsOf(k))
      <4>1. OperationsOf(k) \in SUBSET DOMAIN admitted
            BY DEF OperationsOf
      <4> QED BY <4>1, IdsOfOperations DEF Typed
    <3> HIDE DEF T
    <3>3. IsFiniteSet(PlannedOf(k)) /\ Cardinality(PlannedOf(k)) \in Nat
          /\ Cardinality(OperationsOf(k)) \in Nat
          BY <1>00 DEF Counted
    <3>4. Cardinality(PlannedOf(k)') \in Nat
          BY <1>0, <1>00 DEF Counted
    <3>5. /\ IsFiniteSet(PlannedOf(k) \cup T)
          /\ Cardinality(PlannedOf(k) \cup T) =
                 Cardinality(PlannedOf(k)) + Cardinality(T) - Cardinality(PlannedOf(k) \cap T)
          BY <3>2, <3>3, FS_Union
    <3>6. Cardinality(PlannedOf(k) \cap T) \in Nat /\ Cardinality(T) \in Nat
          BY <3>2, <3>3, FS_Intersection, FS_CardinalityType
    <3>7. Cardinality(PlannedOf(k)') <= Cardinality(PlannedOf(k) \cup T)
          BY <3>1, <3>5, FS_Subset
    <3>8. Cardinality(OperationsOf(k)') = 0
      <4>1. OperationsOf(k)' = {}
            BY <2>1 DEF OperationsOf
      <4> QED BY <4>1, FS_EmptySet
    <3>9. Cardinality(PlannedOf(k)) + Cardinality(OperationsOf(k)) <= KindCap[k] /\ KindCap[k] \in Nat
          BY AdmissionAssumption DEF OperationsCounted
    <3> QED BY <3>2, <3>3, <3>4, <3>5, <3>6, <3>7, <3>8, <3>9
  <2> QED BY <2>1, <2>4, <2>5 DEF OperationsCounted
<1>6. CASE NudgeForecast \/ (\E n \in Ids : RegisterMixture(n)) \/ FileCritique \/ UNCHANGED admissionVars
  <2>1. nodes' = nodes /\ admitted' = admitted /\ phase' = phase
        BY <1>6 DEF NudgeForecast, RegisterMixture, FileCritique, admissionVars
  <2> QED BY <1>1, <2>1
<1> QED BY <1>2, <1>3, <1>4, <1>5, <1>6 DEF AdmissionNext

LEMMA OperationsCountedInit == AdmissionInit => OperationsCounted
<1> SUFFICES ASSUME AdmissionInit PROVE OperationsCounted
      OBVIOUS
<1>1. admitted = <<>> /\ phase = "plan"
      BY DEF AdmissionInit
<1>2. Planned = {}
      BY DEF AdmissionInit, Planned
<1>3. \A k : PlannedOf(k) = {} /\ OperationsOf(k) = {}
      BY <1>1, <1>2 DEF PlannedOf, OperationsOf
<1>4. Cardinality({}) = 0
      BY FS_EmptySet
<1>5. PlannedCount = 0
      BY <1>2, <1>4 DEF PlannedCount, Planned
<1>6. \A k \in Kinds : Cardinality(PlannedOf(k)) + Cardinality(OperationsOf(k)) <= KindCap[k]
      BY <1>3, <1>4, AdmissionAssumption
<1> QED BY <1>1, <1>5, <1>6, AdmissionAssumption DEF OperationsCounted

\* Over all waves, whichever operations the overflow cuts off and whichever nodes fail,
\* the run's caps on nodes hold, the coverage node apart (admit).
THEOREM AdmissionCapsHeld == AdmissionSpec => []CapsHold
<1>1. Typed /\ OperationsCounted => CapsHold
  <2> SUFFICES ASSUME Typed, OperationsCounted PROVE CapsHold
        OBVIOUS
  <2>1. ASSUME NEW k \in Kinds
        PROVE  Cardinality({n \in DOMAIN nodes \ {CoverageId} : nodes[n].kind = k}) <= KindCap[k]
    <3>1. Cardinality(PlannedOf(k)) + Cardinality(OperationsOf(k)) <= KindCap[k]
          BY DEF OperationsCounted
    <3>2. Cardinality(PlannedOf(k)) \in Nat /\ Cardinality(OperationsOf(k)) \in Nat /\ KindCap[k] \in Nat
          BY Counts, AdmissionAssumption DEF Counted
    <3>3. Cardinality(PlannedOf(k)) <= KindCap[k]
          BY <3>1, <3>2
    <3> QED BY <3>3 DEF PlannedOf, Planned
  <2> QED BY <2>1 DEF CapsHold, OperationsCounted
<1> QED BY <1>1, OperationsCountedInit, OperationsCountedNext, TypesKept, PTL DEF AdmissionSpec

-----------------------------------------------------------------------------
(* The lineage.                                                             *)

\* Positions are at most the number of nodes and an heir comes after the node it
\* replaces; an operation's id is new, what it replaces is not replaced yet and is a
\* node or an earlier operation of the patch.
Ordered ==
    /\ \A n \in DOMAIN nodes :
          /\ nodes[n].at <= Cardinality(DOMAIN nodes)
          /\ nodes[n].replacedBy # None =>
                /\ nodes[n].replacedBy \in DOMAIN nodes
                /\ nodes[nodes[n].replacedBy].at > nodes[n].at
    /\ \A i \in DOMAIN admitted :
          /\ admitted[i].id \notin DOMAIN nodes
          /\ admitted[i].replaces \in DOMAIN nodes => nodes[admitted[i].replaces].replacedBy = None
          /\ admitted[i].replaces # None =>
                \/ admitted[i].replaces \in DOMAIN nodes
                \/ \E j \in DOMAIN admitted : j < i /\ admitted[j].id = admitted[i].replaces
    /\ \A i, j \in DOMAIN admitted : admitted[i].id = admitted[j].id => i = j

\* Where a merge puts the heir of a node, old or new.
LEMMA MergedHeirs ==
    ASSUME Typed, Ordered, NEW ok \in SUBSET WaveIds, Merge(ok),
           NEW n \in DOMAIN nodes', nodes'[n].replacedBy # None
    PROVE  /\ nodes'[n].replacedBy \in DOMAIN nodes'
           /\ nodes'[nodes'[n].replacedBy].at > nodes'[n].at
           /\ n \in DOMAIN nodes /\ nodes'[n].replacedBy # nodes[n].replacedBy =>
                 nodes[n].replacedBy = None
<1> DEFINE c == Cardinality(DOMAIN nodes)
           h == nodes'[n].replacedBy
<1>0. c \in Nat
      BY FS_CardinalityType DEF Typed
<1>1. /\ DOMAIN nodes' = DOMAIN nodes \cup WaveIds
      /\ \A m \in DOMAIN nodes : nodes'[m].at = nodes[m].at /\ nodes'[m].replacedBy = ReplacedBy(m, ok)
      /\ \A m \in WaveIds \ DOMAIN nodes :
            nodes'[m].at = c + IndexOf(m) /\ nodes'[m].replacedBy = ReplacedBy(m, ok)
      BY MergeWrites
<1>2. h = ReplacedBy(n, ok)
      BY <1>1
<1>3. \A m \in WaveIds : m \notin DOMAIN nodes
      BY DEF Ordered, WaveIds
<1>4. \A m \in DOMAIN nodes : nodes[m].at \in Nat /\ nodes[m].at <= c
      BY DEF Ordered, Typed, Record
<1> HIDE DEF c, h
<1>5. CASE Heirs(n, ok) # {}
  <2>1. h \in Heirs(n, ok)
        BY <1>2, <1>5 DEF ReplacedBy
  <2>2. PICK i \in DOMAIN admitted : h = admitted[i].id /\ admitted[i].replaces = n
        BY <2>1 DEF Heirs
  <2>3. h \in WaveIds
        BY <2>2 DEF WaveIds
  <2>4. IndexOf(h) = i /\ i \in Nat /\ i > 0
    <3>1. IndexOf(h) \in DOMAIN admitted /\ admitted[IndexOf(h)].id = h
          BY <2>3, IndexOfFacts
    <3>2. IndexOf(h) = i
          BY <2>2, <3>1 DEF Ordered
    <3> QED BY <2>2, <3>2, AdmittedType DEF Typed
  <2>5. nodes'[h].at = c + i
        BY <1>1, <1>3, <2>3, <2>4
  <2>6. CASE n \in DOMAIN nodes
    <3>1. nodes[n].replacedBy = None
          BY <2>2, <2>6 DEF Ordered
    <3>2. nodes'[h].at > nodes'[n].at
      <4>1. nodes'[n].at = nodes[n].at
            BY <1>1, <2>6
      <4>2. nodes[n].at \in Nat /\ nodes[n].at <= c
            BY <1>4, <2>6
      <4> QED BY <1>0, <2>4, <2>5, <4>1, <4>2
    <3> QED BY <1>1, <2>3, <3>1, <3>2 DEF h
  <2>7. CASE n \notin DOMAIN nodes
    <3>1. n \in WaveIds
          BY <1>1, <2>7
    <3>2. n # None
      <4>1. WaveIds \subseteq Ids
            BY AdmittedType DEF Typed
      <4> QED BY <3>1, <4>1, AdmissionAssumption
    <3>3. PICK j \in DOMAIN admitted : j < i /\ admitted[j].id = n
          BY <2>2, <2>7, <3>2 DEF Ordered
    <3>4. IndexOf(n) = j /\ j \in Nat
      <4>1. IndexOf(n) \in DOMAIN admitted /\ admitted[IndexOf(n)].id = n
            BY <3>1, IndexOfFacts
      <4>2. IndexOf(n) = j
            BY <3>3, <4>1 DEF Ordered
      <4> QED BY <3>3, <4>2, AdmittedType DEF Typed
    <3>5. nodes'[n].at = c + j
          BY <1>1, <2>7, <3>1, <3>4
    <3>6. nodes'[h].at > nodes'[n].at
          BY <1>0, <2>4, <2>5, <3>3, <3>4, <3>5
    <3> QED BY <1>1, <2>3, <2>7, <3>6 DEF h
  <2> QED BY <2>6, <2>7
<1>6. CASE Heirs(n, ok) = {}
  <2>1. n \in DOMAIN nodes /\ h = nodes[n].replacedBy
        BY <1>2, <1>6 DEF ReplacedBy, h
  <2>2. h \in DOMAIN nodes /\ nodes[h].at > nodes[n].at
        BY <2>1 DEF Ordered, h
  <2>3. nodes'[h].at = nodes[h].at /\ nodes'[n].at = nodes[n].at
        BY <1>1, <2>1, <2>2
  <2> QED BY <1>1, <2>1, <2>2, <2>3 DEF h
<1> QED BY <1>5, <1>6

LEMMA OrderedNext ==
    ASSUME Typed, Ordered, [AdmissionNext]_admissionVars
    PROVE  Ordered'
<1>1. ASSUME nodes' = nodes, admitted' = admitted \/ admitted' = <<>> PROVE Ordered'
      BY <1>1 DEF Ordered
<1>2. CASE OpenPatch
      BY <1>1, <1>2 DEF OpenPatch
<1>3. ASSUME NEW op \in Op, AdmitOp(op) PROVE Ordered'
  <2>1. /\ admitted' = Append(admitted, op) /\ nodes' = nodes
        /\ op.id \notin DOMAIN nodes /\ op.id \notin WaveIds
        /\ op.replaces # None => op.replaces \in Seen \ Replaced
        BY <1>3 DEF AdmitOp, WellFormed, Seen
  <2>2. PICK x \in Nat :
            /\ x = Len(admitted) + 1 /\ admitted'[x] = op
            /\ DOMAIN admitted' = DOMAIN admitted \cup {x}
            /\ \A i \in DOMAIN admitted : i \in Nat /\ i < x /\ admitted'[i] = admitted[i]
    <3>1. DOMAIN admitted = 1..Len(admitted) /\ Len(admitted) \in Nat
          BY AdmittedType DEF Typed
    <3>2. DOMAIN admitted' = 1..(Len(admitted) + 1)
          BY <2>1 DEF Typed
    <3>3. admitted'[Len(admitted) + 1] = op
          BY <2>1, <3>1 DEF Typed
    <3>4. \A i \in DOMAIN admitted : i \in Nat /\ i < Len(admitted) + 1 /\ admitted'[i] = admitted[i]
          BY <2>1, <3>1 DEF Typed
    <3>5. DOMAIN admitted' = DOMAIN admitted \cup {Len(admitted) + 1}
          BY <3>1, <3>2
    <3> QED BY <3>1, <3>3, <3>4, <3>5
  <2>3. \A i \in DOMAIN admitted : admitted[i].id # op.id
        BY <2>1 DEF WaveIds
  <2>4. /\ op.replaces \in DOMAIN nodes => nodes[op.replaces].replacedBy = None
        /\ op.replaces # None =>
              \/ op.replaces \in DOMAIN nodes
              \/ \E j \in DOMAIN admitted : admitted[j].id = op.replaces
    <3>1. None \notin DOMAIN nodes
          BY AdmissionAssumption DEF Typed
    <3> QED BY <2>1, <3>1 DEF Seen, Replaced, WaveIds
  <2>5. \A i \in DOMAIN admitted' :
          /\ admitted'[i].id \notin DOMAIN nodes
          /\ admitted'[i].replaces \in DOMAIN nodes => nodes[admitted'[i].replaces].replacedBy = None
          /\ admitted'[i].replaces # None =>
                \/ admitted'[i].replaces \in DOMAIN nodes
                \/ \E j \in DOMAIN admitted' : j < i /\ admitted'[j].id = admitted'[i].replaces
    <3> SUFFICES ASSUME NEW i \in DOMAIN admitted'
                 PROVE  /\ admitted'[i].id \notin DOMAIN nodes
                        /\ admitted'[i].replaces \in DOMAIN nodes =>
                              nodes[admitted'[i].replaces].replacedBy = None
                        /\ admitted'[i].replaces # None =>
                              \/ admitted'[i].replaces \in DOMAIN nodes
                              \/ \E j \in DOMAIN admitted' :
                                    j < i /\ admitted'[j].id = admitted'[i].replaces
          OBVIOUS
    <3>1. CASE i = x
          BY <2>1, <2>2, <2>4, <3>1
    <3>2. CASE i \in DOMAIN admitted
          BY <2>2, <3>2 DEF Ordered
    <3> QED BY <2>2, <3>1, <3>2
  <2>6. \A i, j \in DOMAIN admitted' : admitted'[i].id = admitted'[j].id => i = j
        BY <2>2, <2>3 DEF Ordered
  <2> QED BY <2>1, <2>5, <2>6 DEF Ordered
<1>4. CASE CloseAdmission
  <2>1. PICK k \in Nat : admitted' = SubSeq(admitted, 1, k) /\ k <= Len(admitted)
    <3>1. PlannedCount \in Nat
          BY Counts DEF Counted
    <3>2. WaveCap \in Nat
          BY <3>1, AdmissionAssumption DEF WaveCap
    <3>3. Len(admitted) \in Nat
          BY AdmittedType DEF Typed
    <3> QED BY <1>4, <3>2, <3>3 DEF CloseAdmission
  <2>2. /\ DOMAIN admitted' \subseteq DOMAIN admitted
        /\ \A i \in DOMAIN admitted' : admitted'[i] = admitted[i]
        /\ \A i \in DOMAIN admitted', j \in DOMAIN admitted : j < i => j \in DOMAIN admitted'
        BY <2>1 DEF Typed
  <2>3. nodes' = nodes
        BY <1>4 DEF CloseAdmission
  <2> QED BY <2>2, <2>3 DEF Ordered
<1>5. ASSUME NEW ok \in SUBSET WaveIds, Merge(ok) PROVE Ordered'
  <2>1. admitted' = <<>>
        BY <1>5 DEF Merge
  <2>2. \A n \in DOMAIN nodes' :
            nodes'[n].replacedBy # None =>
                /\ nodes'[n].replacedBy \in DOMAIN nodes'
                /\ nodes'[nodes'[n].replacedBy].at > nodes'[n].at
        BY <1>5, MergedHeirs
  <2>3. DOMAIN nodes' = DOMAIN nodes \cup WaveIds
        BY <1>5, MergeWrites
  <2>4. Cardinality(DOMAIN nodes') = Cardinality(DOMAIN nodes) + Len(admitted)
    <3>1. DOMAIN nodes \cap WaveIds = {}
          BY DEF Ordered, WaveIds
    <3>2. IsFiniteSet(DOMAIN nodes) /\ IsFiniteSet(WaveIds)
          BY WaveIdsFinite DEF Typed
    <3>3. Cardinality(DOMAIN nodes \cup WaveIds) =
              Cardinality(DOMAIN nodes) + Cardinality(WaveIds) - Cardinality(DOMAIN nodes \cap WaveIds)
          BY <3>2, FS_Union
    <3>4. Cardinality(DOMAIN nodes \cap WaveIds) = 0
          BY <3>1, FS_EmptySet
    <3>5. Cardinality(WaveIds) = Len(admitted)
          BY WaveIdsCounted DEF Typed, Ordered
    <3>6. Cardinality(DOMAIN nodes) \in Nat /\ Len(admitted) \in Nat
          BY <3>2, FS_CardinalityType, AdmittedType DEF Typed
    <3> QED BY <2>3, <3>3, <3>4, <3>5, <3>6
  <2>5. ASSUME NEW n \in DOMAIN nodes' PROVE nodes'[n].at <= Cardinality(DOMAIN nodes')
    <3>1. Cardinality(DOMAIN nodes) \in Nat /\ Len(admitted) \in Nat
          BY FS_CardinalityType, AdmittedType DEF Typed
    <3>2. CASE n \in DOMAIN nodes
      <4>1. nodes'[n].at = nodes[n].at
            BY <1>5, <3>2, MergeWrites
      <4>2. nodes[n].at \in Nat /\ nodes[n].at <= Cardinality(DOMAIN nodes)
            BY <3>2 DEF Ordered, Typed, Record
      <4> QED BY <2>4, <3>1, <4>1, <4>2
    <3>3. CASE n \in WaveIds \ DOMAIN nodes
      <4>1. nodes'[n].at = Cardinality(DOMAIN nodes) + IndexOf(n)
            BY <1>5, <3>3, MergeWrites
      <4>2. IndexOf(n) \in DOMAIN admitted
            BY <3>3, IndexOfFacts
      <4>3. IndexOf(n) \in Nat /\ IndexOf(n) <= Len(admitted)
            BY <4>2, AdmittedType DEF Typed
      <4> QED BY <2>4, <3>1, <4>1, <4>3
    <3> QED BY <2>3, <3>2, <3>3
  <2> QED BY <2>1, <2>2, <2>5 DEF Ordered
<1>6. CASE NudgeForecast \/ (\E n \in Ids : RegisterMixture(n)) \/ FileCritique \/ UNCHANGED admissionVars
      BY <1>1, <1>6 DEF NudgeForecast, RegisterMixture, FileCritique, admissionVars
<1> QED BY <1>2, <1>3, <1>4, <1>5, <1>6 DEF AdmissionNext

LEMMA OrderedInit == AdmissionInit => Ordered
<1> SUFFICES ASSUME AdmissionInit PROVE Ordered
      OBVIOUS
<1>1. admitted = <<>>
      BY DEF AdmissionInit
<1>2. CASE nodes = <<>>
      BY <1>1, <1>2 DEF Ordered
<1>3. CASE nodes = [i \in {CoverageId} |-> [kind |-> "research", replacedBy |-> None, at |-> 1]]
  <2>1. DOMAIN nodes = {CoverageId} /\ nodes[CoverageId].at = 1 /\ nodes[CoverageId].replacedBy = None
        BY <1>3
  <2>2. Cardinality(DOMAIN nodes) = 1
        BY <2>1, FS_Singleton
  <2> QED BY <1>1, <2>1, <2>2 DEF Ordered
<1> QED BY <1>2, <1>3 DEF AdmissionInit

\* A node is replaced at most once, by one that came later: no wave, whatever fails in
\* it, withdraws an heir or closes a chain of replacements into a cycle (merge).
THEOREM AdmissionHeirsFinal == AdmissionSpec => HeirsAreFinal
<1> DEFINE HeirsStep ==
        \A n \in DOMAIN nodes :
          /\ nodes'[n].replacedBy # nodes[n].replacedBy => nodes[n].replacedBy = None
          /\ nodes'[n].replacedBy # None => nodes'[nodes'[n].replacedBy].at > nodes[n].at
<1>1. Typed /\ Ordered /\ [AdmissionNext]_admissionVars => [HeirsStep]_admissionVars
  <2> SUFFICES ASSUME Typed, Ordered, [AdmissionNext]_admissionVars PROVE HeirsStep
        OBVIOUS
  <2>1. ASSUME nodes' = nodes PROVE HeirsStep
        BY <2>1 DEF Ordered
  <2>2. ASSUME NEW ok \in SUBSET WaveIds, Merge(ok) PROVE HeirsStep
    <3> SUFFICES ASSUME NEW n \in DOMAIN nodes
                 PROVE  /\ nodes'[n].replacedBy # nodes[n].replacedBy => nodes[n].replacedBy = None
                        /\ nodes'[n].replacedBy # None => nodes'[nodes'[n].replacedBy].at > nodes[n].at
          OBVIOUS
    <3>1. n \in DOMAIN nodes' /\ nodes'[n].at = nodes[n].at
          BY <2>2, MergeWrites
    <3>2. CASE nodes'[n].replacedBy # None
          BY <2>2, <3>1, <3>2, MergedHeirs
    <3>3. CASE nodes'[n].replacedBy = None
      <4>1. nodes'[n].replacedBy = ReplacedBy(n, ok)
            BY <2>2, MergeWrites
      <4>2. \A m \in Heirs(n, ok) : m # None
        <5>1. Heirs(n, ok) \subseteq WaveIds /\ WaveIds \subseteq Ids
              BY AdmittedType DEF Heirs, WaveIds, Typed
        <5> QED BY <5>1, AdmissionAssumption
      <4>3. Heirs(n, ok) = {}
            BY <3>3, <4>1, <4>2 DEF ReplacedBy
      <4> QED BY <3>3, <4>1, <4>3 DEF ReplacedBy
    <3> QED BY <3>2, <3>3
  <2>3. CASE \A ok \in SUBSET WaveIds : ~Merge(ok)
    <3>1. nodes' = nodes
          BY <2>3 DEF AdmissionNext, OpenPatch, NudgeForecast, AdmitOp, CloseAdmission,
                      RegisterMixture, FileCritique, admissionVars
    <3> QED BY <2>1, <3>1
  <2> QED BY <2>2, <2>3
<1>2. AdmissionSpec => [][HeirsStep]_admissionVars
      BY <1>1, OrderedInit, OrderedNext, TypesKept, PTL DEF AdmissionSpec
<1> QED BY <1>2 DEF HeirsAreFinal

-----------------------------------------------------------------------------
(* The refinement of Supersession.                                          *)

\* A merge gives heirs from the wave to nodes that have none, and to none else.
LEMMA MergedLineage ==
    ASSUME Typed, Ordered, NEW ok \in SUBSET WaveIds, Merge(ok)
    PROVE  /\ DOMAIN nodes' = DOMAIN nodes \cup WaveIds
           /\ \A w \in WaveIds : w \notin DOMAIN nodes /\ nodes'[w].replacedBy \in WaveIds \cup {None}
           /\ \A n \in DOMAIN nodes :
                 /\ nodes'[n].replacedBy \in WaveIds \/ nodes'[n].replacedBy = nodes[n].replacedBy
                 /\ nodes[n].replacedBy # None => nodes'[n].replacedBy = nodes[n].replacedBy
                 /\ nodes[n].replacedBy \in DOMAIN nodes \cup {None}
           /\ None \notin DOMAIN nodes'
<1>1. /\ DOMAIN nodes' = DOMAIN nodes \cup WaveIds
      /\ \A n \in DOMAIN nodes \cup WaveIds : nodes'[n].replacedBy = ReplacedBy(n, ok)
      BY MergeWrites
<1>2. \A w \in WaveIds : w \notin DOMAIN nodes
      BY DEF Ordered, WaveIds
<1>3. \A n : Heirs(n, ok) \subseteq WaveIds
      BY DEF Heirs, WaveIds
<1>4. \A n : \/ ReplacedBy(n, ok) \in WaveIds
             \/ /\ Heirs(n, ok) = {}
                /\ ReplacedBy(n, ok) = IF n \in DOMAIN nodes THEN nodes[n].replacedBy ELSE None
  <2> TAKE n
  <2>1. CASE Heirs(n, ok) = {}
        BY <2>1 DEF ReplacedBy
  <2>2. CASE Heirs(n, ok) # {}
    <3>1. ReplacedBy(n, ok) = CHOOSE h \in Heirs(n, ok) : TRUE
          BY <2>2 DEF ReplacedBy
    <3>2. ReplacedBy(n, ok) \in Heirs(n, ok)
          BY <2>2, <3>1
    <3>3. ReplacedBy(n, ok) \in WaveIds
          BY <1>3, <3>2
    <3> QED BY <3>3
  <2> QED BY <2>1, <2>2
<1>5. None \notin WaveIds /\ None \notin DOMAIN nodes
      BY AdmittedType, AdmissionAssumption DEF Typed
<1>6. ASSUME NEW n \in DOMAIN nodes, nodes[n].replacedBy # None
      PROVE  nodes'[n].replacedBy = nodes[n].replacedBy
  <2>1. CASE nodes'[n].replacedBy # None
        BY <1>1, <1>6, <2>1, MergedHeirs
  <2>2. CASE nodes'[n].replacedBy = None
        BY <1>1, <1>4, <1>5, <2>2
  <2> QED BY <2>1, <2>2
<1>7. \A n \in DOMAIN nodes : nodes[n].replacedBy \in DOMAIN nodes \cup {None}
      BY DEF Ordered
<1> QED BY <1>1, <1>2, <1>4, <1>5, <1>6, <1>7

\* What the walk along replaced_by visited once, it visits for good.
LEMMA SuccessorsKept ==
    ASSUME Typed, Ordered, NEW ok \in SUBSET WaveIds, Merge(ok), NEW n \in DOMAIN nodes,
           nodes[n].replacedBy # None
    PROVE  Successors(n) \subseteq Successors(n)'
<1> SUFFICES ASSUME NEW m \in Successors(n) PROVE m \in Successors(n)'
      OBVIOUS
<1>1. m \in DOMAIN nodes'
      BY MergedLineage DEF Successors
<1>2. ASSUME NEW S \in SUBSET DOMAIN nodes', nodes'[n].replacedBy \in S,
             \A s \in S : nodes'[s].replacedBy \in S \cup {None}
      PROVE  m \in S
  <2> DEFINE Old == S \cap DOMAIN nodes
  <2>1. nodes[n].replacedBy \in Old
        BY <1>2, MergedLineage
  <2>2. \A s \in Old : nodes[s].replacedBy \in Old \cup {None}
        BY <1>2, MergedLineage
  <2>3. Old \in SUBSET DOMAIN nodes
        OBVIOUS
  <2> HIDE DEF Old
  <2>4. m \in Old
        BY <2>1, <2>2, <2>3 DEF Successors
  <2> QED BY <2>4 DEF Old
<1> QED BY <1>1, <1>2 DEF Successors

\* What it comes to visit after a merge is of the wave.
LEMMA SuccessorsArrive ==
    ASSUME Typed, Ordered, NEW ok \in SUBSET WaveIds, Merge(ok), NEW n \in DOMAIN nodes',
           nodes'[n].replacedBy # None, NEW m \in Successors(n)'
    PROVE  m \in WaveIds \/ (n \in DOMAIN nodes /\ nodes[n].replacedBy # None /\ m \in Successors(n))
<1>0. /\ m \in DOMAIN nodes'
      /\ \A S \in SUBSET DOMAIN nodes' :
            /\ nodes'[n].replacedBy \in S
            /\ \A s \in S : nodes'[s].replacedBy \in S \cup {None}
            => m \in S
      BY DEF Successors
<1>1. CASE nodes'[n].replacedBy \in WaveIds
  <2>1. PICK W : W = WaveIds
        OBVIOUS
  <2>2. W \in SUBSET DOMAIN nodes' /\ \A w \in W : nodes'[w].replacedBy \in W \cup {None}
        BY <2>1, MergedLineage
  <2>3. nodes'[n].replacedBy \in W
        BY <1>1, <2>1
  <2>4. m \in W
        BY <1>0, <2>2, <2>3
  <2> QED BY <2>1, <2>4
<1>2. CASE nodes'[n].replacedBy \notin WaveIds
  <2>1. n \in DOMAIN nodes /\ nodes'[n].replacedBy = nodes[n].replacedBy
        BY <1>2, MergedLineage
  <2>2. ASSUME m \notin WaveIds PROVE m \in Successors(n)
    <3>1. m \in DOMAIN nodes
          BY <1>0, <2>2, MergedLineage
    <3>2. ASSUME NEW S \in SUBSET DOMAIN nodes, nodes[n].replacedBy \in S,
                 \A s \in S : nodes[s].replacedBy \in S \cup {None}
          PROVE  m \in S
      <4> DEFINE New == S \cup WaveIds
      <4>1. New \in SUBSET DOMAIN nodes' /\ nodes'[n].replacedBy \in New
            BY <2>1, <3>2, MergedLineage
      <4>2. \A s \in New : nodes'[s].replacedBy \in New \cup {None}
            BY <3>2, MergedLineage
      <4> HIDE DEF New
      <4>3. m \in New
            BY <1>0, <4>1, <4>2
      <4> QED BY <2>2, <4>3 DEF New
    <3> QED BY <3>1, <3>2 DEF Successors
  <2> QED BY <2>1, <2>2
<1> QED BY <1>1, <1>2

\* The walk only goes forward.
LEMMA SuccessorsLater ==
    ASSUME Typed, Ordered, NEW n \in DOMAIN nodes, nodes[n].replacedBy # None, NEW m \in Successors(n)
    PROVE  m \in DOMAIN nodes /\ nodes[m].at > nodes[n].at
<1> DEFINE S == {s \in DOMAIN nodes : nodes[s].at > nodes[n].at}
<1>1. \A s \in DOMAIN nodes : nodes[s].at \in Nat
      BY DEF Typed, Record
<1>2. nodes[n].replacedBy \in S
      BY DEF Ordered
<1>3. ASSUME NEW s \in S PROVE nodes[s].replacedBy \in S \cup {None}
  <2>1. CASE nodes[s].replacedBy # None
    <3>1. /\ nodes[s].replacedBy \in DOMAIN nodes /\ s \in DOMAIN nodes
          /\ nodes[nodes[s].replacedBy].at > nodes[s].at /\ nodes[s].at > nodes[n].at
          BY <2>1 DEF Ordered
    <3> QED BY <1>1, <3>1
  <2> QED BY <2>1
<1>4. S \in SUBSET DOMAIN nodes
      OBVIOUS
<1> HIDE DEF S
<1>5. m \in S
      BY <1>2, <1>3, <1>4 DEF Successors
<1> QED BY <1>5 DEF S

\* Of nodes, one at least, there is one whose walk meets none of them.
FinalOnes ==
    \A M \in SUBSET DOMAIN nodes :
        M # {} => \E n \in M : nodes[n].replacedBy # None => Successors(n) \cap M = {}

LEMMA FinalOneExists == Typed /\ Ordered => FinalOnes
<1> SUFFICES ASSUME Typed, Ordered, NEW M \in SUBSET DOMAIN nodes, M # {}
             PROVE  \E n \in M : nodes[n].replacedBy # None => Successors(n) \cap M = {}
      BY DEF FinalOnes
<1> DEFINE c == Cardinality(DOMAIN nodes)
           T == {c - nodes[n].at : n \in M}
<1>1. c \in Nat
      BY FS_CardinalityType DEF Typed
<1>2. \A n \in DOMAIN nodes : nodes[n].at \in Nat /\ nodes[n].at <= c
      BY DEF Typed, Ordered, Record
<1> HIDE DEF c
<1>3. T \in SUBSET Nat /\ T # {}
      BY <1>1, <1>2
<1>4. PICK x \in T : \A y \in T : x <= y
  <2> HIDE DEF T
  <2> QED BY <1>3, LeastNatural
<1>5. PICK n \in M : x = c - nodes[n].at
      OBVIOUS
<1>6. ASSUME NEW m \in M PROVE nodes[m].at <= nodes[n].at
  <2>1. c - nodes[m].at \in T
        OBVIOUS
  <2>2. x <= c - nodes[m].at
        BY <1>4, <2>1
  <2>3. nodes[m].at \in Nat /\ nodes[n].at \in Nat
        BY <1>2
  <2> QED BY <1>1, <1>5, <2>2, <2>3
<1>7. ASSUME nodes[n].replacedBy # None, NEW m \in Successors(n) PROVE m \notin M
  <2>1. m \in DOMAIN nodes /\ nodes[m].at > nodes[n].at
        BY <1>7, SuccessorsLater
  <2> QED BY <1>2, <1>6, <2>1
<1> QED BY <1>7


\* A merge exchanges active mixtures for those of the wave.
LEMMA MergeExchanges ==
    ASSUME Typed, Ordered, FinalOnes', NEW ok \in SUBSET WaveIds, Merge(ok)
    PROVE  Lineage!SupersessionNext
<1> DEFINE arrived == mixtures \cap WaveIds
           added == ActiveMixtures' \ ActiveMixtures
           retired == ActiveMixtures \ ActiveMixtures'
<1>1. mixtures' = mixtures
      BY DEF Merge
<1>2. /\ DOMAIN nodes' = DOMAIN nodes \cup WaveIds
      /\ WaveIds \cap DOMAIN nodes = {} /\ WaveIds \cap SeedCreators = {}
      /\ SeedCreators \cap DOMAIN nodes' = {}
  <2>1. WaveIds \subseteq Ids /\ DOMAIN nodes \subseteq Ids /\ SeedCreators \cap Ids = {}
        BY AdmittedType, AdmissionAssumption DEF Typed
  <2>2. DOMAIN nodes' = DOMAIN nodes \cup WaveIds /\ \A w \in WaveIds : w \notin DOMAIN nodes
        BY MergedLineage
  <2> QED BY <2>1, <2>2
<1>3. MergedMixtures' = MergedMixtures \cup arrived /\ arrived \cap MergedMixtures = {}
      BY <1>1, <1>2 DEF MergedMixtures
<1>4. arrived \subseteq Ids \cup SeedCreators
      BY DEF Typed
<1>5. \A m : m \in ActiveMixtures <=> m \in MergedMixtures /\ ~Superseded(m)
      BY DEF ActiveMixtures
<1>6. \A m : m \in ActiveMixtures' <=> m \in MergedMixtures' /\ ~Superseded(m)'
      BY DEF ActiveMixtures
<1>7. \A m : Superseded(m)' <=> /\ m \in DOMAIN nodes' /\ nodes'[m].replacedBy # None
                               /\ Successors(m)' \cap mixtures # {}
      BY <1>1 DEF Superseded
<1>8. ASSUME NEW m, Superseded(m) PROVE Superseded(m)'
  <2>1. m \in DOMAIN nodes /\ nodes[m].replacedBy # None /\ Successors(m) \cap mixtures # {}
        BY <1>8 DEF Superseded
  <2>2. Successors(m) \subseteq Successors(m)'
        BY <2>1, SuccessorsKept
  <2>3. m \in DOMAIN nodes' /\ nodes'[m].replacedBy # None
        BY <2>1, MergedLineage
  <2> QED BY <1>7, <2>1, <2>2, <2>3
<1>9. added \subseteq arrived
      BY <1>3, <1>5, <1>6, <1>8
<1>10. retired \subseteq ActiveMixtures \ SeedCreators
      BY <1>2, <1>3, <1>5, <1>6, <1>7
<1>11. ASSUME NEW n, n \notin DOMAIN nodes \/ ~Superseded(n), n \in DOMAIN nodes',
              nodes'[n].replacedBy # None, NEW s \in Successors(n)', s \in mixtures
       PROVE  s \in arrived
  <2>1. s \in WaveIds \/ (n \in DOMAIN nodes /\ nodes[n].replacedBy # None /\ s \in Successors(n))
        BY <1>11, SuccessorsArrive
  <2> QED BY <1>11, <2>1 DEF Superseded
<1>12. ASSUME retired # {} PROVE added # {}
  <2>1. PICK m : m \in ActiveMixtures /\ m \notin ActiveMixtures'
        BY <1>12
  <2>2. ~Superseded(m) /\ Superseded(m)'
        BY <1>3, <1>5, <1>6, <2>1
  <2>3. PICK s \in Successors(m)' : s \in mixtures
        BY <1>7, <2>2
  <2>4. s \in arrived
        BY <1>7, <1>11, <2>2, <2>3
  <2>5. arrived \in SUBSET DOMAIN nodes' /\ arrived # {}
        BY <1>2, <2>4
  <2> HIDE DEF arrived
  <2>6. PICK n \in arrived : nodes'[n].replacedBy # None => Successors(n)' \cap arrived = {}
        BY <2>5 DEF FinalOnes
  <2> USE DEF arrived
  <2>7. n \in DOMAIN nodes' /\ n \notin DOMAIN nodes
        BY <1>2
  <2>8. ~Superseded(n)'
    <3> SUFFICES ASSUME Superseded(n)' PROVE FALSE
          OBVIOUS
    <3>1. nodes'[n].replacedBy # None /\ Successors(n)' \cap mixtures # {}
          BY <1>7
    <3>2. PICK t \in Successors(n)' : t \in mixtures
          BY <3>1
    <3>3. t \in arrived
          BY <1>11, <2>7, <3>1, <3>2
    <3> QED BY <2>6, <3>1, <3>2, <3>3
  <2>9. n \in ActiveMixtures' /\ n \notin ActiveMixtures
        BY <1>3, <1>5, <1>6, <2>8
  <2> QED BY <2>9
<1>13. /\ ActiveMixtures' = (ActiveMixtures \ retired) \cup added
       /\ arrived \in SUBSET ((Ids \cup SeedCreators) \ MergedMixtures)
       /\ added \in SUBSET arrived /\ retired \in SUBSET (ActiveMixtures \ SeedCreators)
      BY <1>3, <1>4, <1>9, <1>10
<1>14. MergedMixtures' = MergedMixtures \cup arrived
      BY <1>3
<1>15. Lineage!Exchange(arrived, added, retired)
  <2> HIDE DEF arrived, added, retired
  <2> QED BY <1>12, <1>13, <1>14 DEF Lineage!Exchange
<1> HIDE DEF arrived, added, retired
<1> QED BY <1>13, <1>15 DEF Lineage!SupersessionNext

\* Between merges nothing the desk may publish changes, whatever a quant registers.
LEMMA OtherwiseSame ==
    ASSUME Typed, Ordered, [AdmissionNext]_admissionVars, nodes' = nodes
    PROVE  ActiveMixtures' = ActiveMixtures /\ MergedMixtures' = MergedMixtures
<1>1. mixtures' \cap (DOMAIN nodes \cup SeedCreators) = mixtures \cap (DOMAIN nodes \cup SeedCreators)
  <2>1. ASSUME NEW n \in Ids, RegisterMixture(n)
        PROVE  n \notin DOMAIN nodes /\ n \notin SeedCreators /\ mixtures' = mixtures \cup {n}
        BY <2>1, AdmissionAssumption DEF RegisterMixture, Ordered
  <2>2. mixtures' = mixtures \/ \E n \in Ids : RegisterMixture(n)
        BY DEF AdmissionNext, OpenPatch, NudgeForecast, AdmitOp, CloseAdmission, FileCritique, Merge,
               admissionVars
  <2> QED BY <2>1, <2>2
<1>2. MergedMixtures' = MergedMixtures
      BY <1>1 DEF MergedMixtures
<1>3. \A n : Successors(n)' = Successors(n) /\ Successors(n) \subseteq DOMAIN nodes
      BY DEF Successors
<1>4. \A n : Superseded(n)' <=> Superseded(n)
      BY <1>1, <1>3 DEF Superseded
<1> QED BY <1>2, <1>4 DEF ActiveMixtures

\* Whatever the master replaces and whichever replacements fail, in any number of waves,
\* a merge retires publishable mixtures only in exchange for new ones, seeds stay, and
\* nothing superseded comes back (active_artifact_ids and merge).
THEOREM AdmissionRefinesSupersession == AdmissionSpec => LineageIsSupersession
<1>1. AdmissionInit => Lineage!SupersessionInit
  <2> SUFFICES ASSUME AdmissionInit PROVE ActiveMixtures = SeedCreators /\ MergedMixtures = SeedCreators
        BY DEF Lineage!SupersessionInit
  <2>1. mixtures = SeedCreators /\ MergedMixtures = SeedCreators
        BY DEF AdmissionInit, MergedMixtures
  <2>2. DOMAIN nodes \subseteq Ids /\ SeedCreators \cap Ids = {}
        BY TypedInit, AdmissionAssumption DEF Typed
  <2>3. \A n \in SeedCreators : ~Superseded(n)
        BY <2>2 DEF Superseded
  <2> QED BY <2>1, <2>3 DEF ActiveMixtures
<1>2. Typed /\ Ordered /\ FinalOnes' /\ [AdmissionNext]_admissionVars
        => [Lineage!SupersessionNext]_<<ActiveMixtures, MergedMixtures>>
  <2> SUFFICES ASSUME Typed, Ordered, FinalOnes', [AdmissionNext]_admissionVars
               PROVE  \/ Lineage!SupersessionNext
                      \/ ActiveMixtures' = ActiveMixtures /\ MergedMixtures' = MergedMixtures
        OBVIOUS
  <2>1. CASE \E ok \in SUBSET WaveIds : Merge(ok)
        BY <2>1, MergeExchanges
  <2>2. CASE ~ \E ok \in SUBSET WaveIds : Merge(ok)
    <3>1. nodes' = nodes
          BY <2>2 DEF AdmissionNext, OpenPatch, NudgeForecast, AdmitOp, CloseAdmission,
                      RegisterMixture, FileCritique, admissionVars
    <3> QED BY <3>1, OtherwiseSame
  <2> QED BY <2>1, <2>2
<1>3. Typed /\ Ordered /\ FinalOnes' /\ [AdmissionNext]_admissionVars
        => [Lineage!SupersessionNext]_(Lineage!supersessionVars)
      BY <1>2 DEF Lineage!supersessionVars
<1> QED BY <1>1, <1>3, OrderedInit, OrderedNext, TypesKept, FinalOneExists, PTL
        DEF AdmissionSpec, LineageIsSupersession, Lineage!SupersessionSpec

-----------------------------------------------------------------------------
(* Budget.                                                                  *)

-----------------------------------------------------------------------------
(* Sums of reservations.                                                    *)

LEMMA TokensFinite ==
    ASSUME NEW T \in SUBSET Tasks, NEW r \in [Tasks -> Nat]
    PROVE  IsFiniteSet(Tokens(r, T)) /\ Cardinality(Tokens(r, T)) \in Nat
<1> DEFINE block(t) == {t} \X (1 .. r[t])
           blocks == {block(t) : t \in T}
           f == [t \in T |-> block(t)]
<1>1. IsFiniteSet(T)
      BY FS_Subset, BudgetAssumption
<1>2. f \in Surjection(T, blocks)
      BY DEF Surjection
<1>3. IsFiniteSet(blocks)
      BY <1>1, <1>2, FS_Surjection
<1>4. \A b \in blocks : IsFiniteSet(b)
  <2> SUFFICES ASSUME NEW t \in T PROVE IsFiniteSet(block(t))
        OBVIOUS
  <2>1. r[t] \in Int
        OBVIOUS
  <2>2. IsFiniteSet({t})
        BY FS_Singleton
  <2>3. IsFiniteSet(1 .. r[t])
        BY <2>1, FS_Interval
  <2> QED BY <2>2, <2>3, FS_Product
<1>5. IsFiniteSet(UNION blocks)
      BY <1>3, <1>4, FS_UNION
<1> QED BY <1>5, FS_CardinalityType DEF Tokens

\* The reservation of one task, taken out of a sum.
LEMMA HeldSplits ==
    ASSUME NEW T \in SUBSET Tasks, NEW r \in [Tasks -> Nat], NEW t \in T
    PROVE  Cardinality(Tokens(r, T)) = Cardinality(Tokens(r, T \ {t})) + r[t]
<1> DEFINE rest == Tokens(r, T \ {t})
           own == {t} \X (1 .. r[t])
<1>1. Tokens(r, T) = rest \cup own /\ rest \cap own = {}
      BY DEF Tokens
<1>2. IsFiniteSet(rest) /\ Cardinality(rest) \in Nat
      BY TokensFinite
<1>3. IsFiniteSet(own) /\ Cardinality(own) = r[t]
  <2>1. IsFiniteSet({t}) /\ Cardinality({t}) = 1
        BY FS_Singleton
  <2>2. IsFiniteSet(1 .. r[t]) /\ Cardinality(1 .. r[t]) = r[t]
        BY FS_Interval
  <2>3. IsFiniteSet(own) /\ Cardinality(own) = Cardinality({t}) * Cardinality(1 .. r[t])
        BY <2>1, <2>2, FS_Product
  <2> QED BY <2>1, <2>2, <2>3
<1>4. Cardinality(rest \cap own) = 0
      BY <1>1, FS_EmptySet
<1> HIDE DEF rest, own
<1>5. Cardinality(rest \cup own) = Cardinality(rest) + Cardinality(own) - Cardinality(rest \cap own)
      BY <1>2, <1>3, FS_Union
<1> QED BY <1>1, <1>2, <1>3, <1>4, <1>5 DEF rest

\* When one task's reservation changes, a sum changes by as much, or not at all.
LEMMA HeldChanges ==
    ASSUME NEW T \in SUBSET Tasks, NEW r \in [Tasks -> Nat], NEW q \in [Tasks -> Nat],
           NEW t \in Tasks, \A u \in Tasks \ {t} : q[u] = r[u]
    PROVE  Cardinality(Tokens(q, T)) = Cardinality(Tokens(r, T)) + (IF t \in T THEN q[t] - r[t] ELSE 0)
<1>1. Cardinality(Tokens(r, T)) \in Nat /\ Cardinality(Tokens(r, T \ {t})) \in Nat
      BY TokensFinite
<1>2. CASE t \in T
  <2>1. Tokens(q, T \ {t}) = Tokens(r, T \ {t})
        BY DEF Tokens
  <2>2. /\ Cardinality(Tokens(q, T)) = Cardinality(Tokens(q, T \ {t})) + q[t]
        /\ Cardinality(Tokens(r, T)) = Cardinality(Tokens(r, T \ {t})) + r[t]
        BY <1>2, HeldSplits
  <2> QED BY <1>1, <1>2, <2>1, <2>2
<1>3. CASE t \notin T
  <2>1. Tokens(q, T) = Tokens(r, T)
        BY <1>3 DEF Tokens
  <2> QED BY <1>1, <1>3, <2>1
<1> QED BY <1>2, <1>3

\* A task's reservation is part of every sum it enters, and a part is no more than
\* the whole.
LEMMA HeldBounds ==
    ASSUME NEW T \in SUBSET Tasks, NEW r \in [Tasks -> Nat]
    PROVE  /\ \A t \in T : r[t] <= Cardinality(Tokens(r, T))
           /\ Cardinality(Tokens(r, T)) <= Cardinality(Tokens(r, Tasks))
<1>1. ASSUME NEW t \in T
      PROVE  r[t] <= Cardinality(Tokens(r, T))
  <2>1. Cardinality(Tokens(r, T \ {t})) \in Nat
        BY TokensFinite
  <2>2. Cardinality(Tokens(r, T)) = Cardinality(Tokens(r, T \ {t})) + r[t]
        BY HeldSplits
  <2> QED BY <2>1, <2>2
<1>2. Tokens(r, T) \subseteq Tokens(r, Tasks) /\ IsFiniteSet(Tokens(r, Tasks))
      BY TokensFinite DEF Tokens
<1> QED BY <1>1, <1>2, FS_Subset

-----------------------------------------------------------------------------
(* The slices.                                                              *)

LEMMA SplitFits ==
    ASSUME NEW a \in Nat, NEW b \in Nat, NEW budget \in Nat
    PROVE  /\ Split(a, b, budget).forecast \in Nat /\ Split(a, b, budget).referee \in Nat
           /\ Split(a, b, budget).forecast + Split(a, b, budget).referee <= budget
BY DEF Split, Lesser

LEMMA SlicesFit ==
    /\ Slices.forecast \in Nat /\ Slices.referee \in Nat
    /\ MaxCost # 0 => Slices.forecast + Slices.referee <= MaxCost
    /\ CallSlices.forecast \in Nat /\ CallSlices.referee \in Nat
    /\ CallSlices.forecast + CallSlices.referee <= MaxCalls
<1>1. MaxCost \in Nat /\ MaxCalls \in Nat /\ MaxCost \div 2 \in Nat /\ MaxCalls \div 2 \in Nat
      /\ MaxCost \div 2 <= MaxCost /\ MaxCalls \div 2 <= MaxCalls
      BY BudgetAssumption
<1>2. MaxCost # 0 => Slices = Split(ForecastReserve, RefereeReserve, MaxCost \div 2)
      BY DEF Slices
<1>3. MaxCost = 0 => Slices.forecast \in Nat /\ Slices.referee \in Nat
      BY BudgetAssumption DEF Slices
<1>4. /\ Split(ForecastReserve, RefereeReserve, MaxCost \div 2).forecast \in Nat
      /\ Split(ForecastReserve, RefereeReserve, MaxCost \div 2).referee \in Nat
      /\ Split(ForecastReserve, RefereeReserve, MaxCost \div 2).forecast
           + Split(ForecastReserve, RefereeReserve, MaxCost \div 2).referee <= MaxCost \div 2
      BY <1>1, SplitFits, BudgetAssumption
<1>5. /\ CallSlices.forecast \in Nat /\ CallSlices.referee \in Nat
      /\ CallSlices.forecast + CallSlices.referee <= MaxCalls \div 2
      BY <1>1, SplitFits, BudgetAssumption DEF CallSlices
<1> QED BY <1>1, <1>2, <1>3, <1>4, <1>5

-----------------------------------------------------------------------------
(* The inductive invariant.                                                 *)

\* What the open calls of a role's agents hold.
HeldBy(role) == Held(Playing({role}))

\* Only an open call holds a reservation.
ReservationsOwned == \A t \in Tasks : status[t] # "calling" => reserved[t] = 0

\* The totals are the sums of the roles' shares.
SharesAddUp ==
    /\ costMicros = spent["ordinary"] + spent["repair"] + spent["forecast"] + spent["referee"]
    /\ llmCalls = charged["ordinary"] + charged["repair"] + charged["forecast"] + charged["referee"]

BudgetInv ==
    /\ BudgetTypeOK
    /\ ReservationsOwned /\ SharesAddUp
    /\ LedgerExact /\ CeilingHeld /\ SlicesKept /\ CallsKept

LEMMA BudgetInitInv == BudgetInit => BudgetInv
<1> SUFFICES ASSUME BudgetInit PROVE BudgetInv
      OBVIOUS
<1>1. BudgetTypeOK
      BY BudgetAssumption DEF BudgetInit, BudgetTypeOK
<1>2. \A T \in SUBSET Tasks : Held(T) = 0
  <2>1. \A T \in SUBSET Tasks : Tokens(reserved, T) = {}
        BY DEF BudgetInit, Tokens
  <2> QED BY <2>1, FS_EmptySet DEF Held
<1>3. Held(Tasks) = 0 /\ \A role \in Roles : HeldBy(role) = 0
      BY <1>2 DEF HeldBy, Playing
<1>4. ReservationsOwned /\ SharesAddUp
      BY DEF BudgetInit, ReservationsOwned, SharesAddUp, Roles
<1>5. LedgerExact
      BY <1>3 DEF LedgerExact, BudgetInit
<1>6. CeilingHeld /\ SlicesKept /\ CallsKept
      BY <1>3, SlicesFit, BudgetAssumption
         DEF BudgetInit, CeilingHeld, SlicesKept, CallsKept, Used, HeldBy, Roles
<1> QED BY <1>1, <1>4, <1>5, <1>6 DEF BudgetInv

\* What the sums become when the reservation of t does.
LEMMA SumsStep ==
    ASSUME BudgetTypeOK, NEW t \in Tasks, NEW x \in Nat, reserved' = [reserved EXCEPT ![t] = x]
    PROVE  /\ Held(Tasks)' = Held(Tasks) + x - reserved[t]
           /\ \A role \in Roles :
                HeldBy(role)' = HeldBy(role) + (IF Role[t] = role THEN x - reserved[t] ELSE 0)
<1>1. /\ reserved \in [Tasks -> Nat] /\ reserved' \in [Tasks -> Nat] /\ reserved'[t] = x
      /\ \A u \in Tasks \ {t} : reserved'[u] = reserved[u]
      BY DEF BudgetTypeOK
<1>2. \A T \in SUBSET Tasks :
          Cardinality(Tokens(reserved', T)) = Held(T) + (IF t \in T THEN x - reserved[t] ELSE 0)
      BY <1>1, HeldChanges DEF Held
<1>3. /\ Held(Tasks)' = Cardinality(Tokens(reserved', Tasks))
      /\ \A role : HeldBy(role)' = Cardinality(Tokens(reserved', Playing({role})))
      BY DEF Held, HeldBy, Tokens, Playing
<1>4. Held(Tasks) \in Nat
      BY <1>1, TokensFinite DEF Held
<1>5. Held(Tasks)' = Held(Tasks) + x - reserved[t]
      BY <1>1, <1>2, <1>3, <1>4
<1>6. ASSUME NEW role \in Roles
      PROVE  HeldBy(role)' = HeldBy(role) + (IF Role[t] = role THEN x - reserved[t] ELSE 0)
  <2>1. Playing({role}) \in SUBSET Tasks /\ (t \in Playing({role}) <=> Role[t] = role)
        BY DEF Playing
  <2> QED BY <1>2, <1>3, <2>1 DEF HeldBy
<1> QED BY <1>5, <1>6

\* Tasks of different roles hold different tokens.
LEMMA HeldApart ==
    ASSUME NEW S \in SUBSET Tasks, NEW T \in SUBSET Tasks, S \cap T = {}, reserved \in [Tasks -> Nat]
    PROVE  Held(S \cup T) = Held(S) + Held(T)
<1> DEFINE left == Tokens(reserved, S)
           right == Tokens(reserved, T)
<1>1. Tokens(reserved, S \cup T) = left \cup right /\ left \cap right = {}
      BY DEF Tokens
<1>2. IsFiniteSet(left) /\ IsFiniteSet(right) /\ Cardinality(left) \in Nat /\ Cardinality(right) \in Nat
      BY TokensFinite
<1>3. Cardinality(left \cap right) = 0
      BY <1>1, FS_EmptySet
<1>4. /\ Held(S) = Cardinality(left) /\ Held(T) = Cardinality(right)
      /\ Held(S \cup T) = Cardinality(left \cup right)
      BY <1>1 DEF Held
<1> HIDE DEF left, right
<1>5. Cardinality(left \cup right) = Cardinality(left) + Cardinality(right) - Cardinality(left \cap right)
      BY <1>2, FS_Union
<1> QED BY <1>2, <1>3, <1>4, <1>5

\* Everything held is held by the agents of one of the four roles.
LEMMA HeldByRoles ==
    ASSUME BudgetTypeOK
    PROVE  /\ Held(Tasks) = HeldBy("ordinary") + HeldBy("repair") + HeldBy("forecast") + HeldBy("referee")
           /\ \A role \in Roles : HeldBy(role) \in Nat
           /\ \A t \in Tasks : reserved[t] \in Nat /\ reserved[t] <= Held(Tasks)
<1>1. reserved \in [Tasks -> Nat]
      BY DEF BudgetTypeOK
<1> DEFINE early == Playing({"ordinary", "repair"})
           late == Playing({"forecast", "referee"})
<1>2. /\ Tasks = early \cup late /\ early \cap late = {}
      /\ early \in SUBSET Tasks /\ late \in SUBSET Tasks
      BY BudgetAssumption DEF Playing, Roles
<1>3. /\ early = Playing({"ordinary"}) \cup Playing({"repair"})
      /\ Playing({"ordinary"}) \cap Playing({"repair"}) = {}
      /\ late = Playing({"forecast"}) \cup Playing({"referee"})
      /\ Playing({"forecast"}) \cap Playing({"referee"}) = {}
      /\ \A role : Playing({role}) \in SUBSET Tasks
      BY DEF Playing
<1> HIDE DEF early, late
<1>4. Held(Tasks) = Held(early) + Held(late)
      BY <1>1, <1>2, HeldApart
<1>5. /\ Held(early) = HeldBy("ordinary") + HeldBy("repair")
      /\ Held(late) = HeldBy("forecast") + HeldBy("referee")
      BY <1>1, <1>3, HeldApart DEF HeldBy
<1>6. \A T \in SUBSET Tasks : Held(T) \in Nat
      BY <1>1, TokensFinite DEF Held
<1>7. \A role \in Roles : HeldBy(role) \in Nat
      BY <1>3, <1>6 DEF HeldBy
<1>8. \A t \in Tasks : reserved[t] \in Nat /\ reserved[t] <= Held(Tasks)
      BY <1>1, HeldBounds DEF Held
<1> QED BY <1>4, <1>5, <1>7, <1>8 DEF Roles

LEMMA ReservationIsNat ==
    ASSUME BudgetTypeOK, NEW role \in Roles, NEW estimate \in Estimates
    PROVE  Reservation(role, estimate) \in Nat
<1>1. CallEstimate \in Nat
      BY BudgetAssumption DEF BudgetTypeOK, CallEstimate
<1>2. Floor(role) \in Nat /\ estimate \in Nat
      BY SlicesFit, BudgetAssumption DEF Floor
<1> QED BY <1>1, <1>2 DEF Reservation, Greater

-----------------------------------------------------------------------------
(* Charging.                                                                *)

\* What admission says of the money, without the definitions.
LEMMA AdmittedFits ==
    ASSUME BudgetInv, NEW role \in Roles, NEW estimate \in Estimates, Admits(role, estimate), MaxCost # 0
    PROVE  LET after == costMicros + inFlight + Reservation(role, estimate)
           IN  /\ after <= MaxCost + Headroom
               /\ role = "ordinary" => after <= MaxCost - Slices.forecast - Slices.referee
               /\ role # "referee" => after <= MaxCost + Headroom - Slices.referee
<1>1. /\ MaxCost \in Nat /\ Headroom \in Nat /\ Slices.forecast \in Nat /\ Slices.referee \in Nat
      /\ costMicros \in Nat /\ inFlight \in Nat /\ Reservation(role, estimate) \in Nat
      BY SlicesFit, BudgetAssumption, ReservationIsNat DEF BudgetInv, BudgetTypeOK
<1>2. Reservation(role, estimate) <= Ceiling(role) - HeldBack(role, Slices) - costMicros - inFlight
      BY DEF Admits, Affordable
<1>3. CASE role = "ordinary"
  <2>1. Ceiling(role) = MaxCost /\ HeldBack(role, Slices) = Slices.forecast + Slices.referee
        BY <1>1, <1>3 DEF Ceiling, HeldBack
  <2> QED BY <1>1, <1>2, <1>3, <2>1
<1>4. CASE role \in {"repair", "forecast"}
  <2>1. Ceiling(role) = MaxCost + Headroom /\ HeldBack(role, Slices) = Slices.referee
        BY <1>4 DEF Ceiling, HeldBack
  <2> QED BY <1>1, <1>2, <1>4, <2>1
<1>5. CASE role = "referee"
  <2>1. Ceiling(role) = MaxCost + Headroom /\ HeldBack(role, Slices) = 0
        BY <1>5 DEF Ceiling, HeldBack
  <2> QED BY <1>1, <1>2, <1>5, <2>1
<1> QED BY <1>3, <1>4, <1>5 DEF Roles

LEMMA ChargeKeepsInv ==
    ASSUME BudgetInv, NEW t \in Tasks, NEW estimate \in Estimates, Charge(t, estimate)
    PROVE  BudgetInv'
<1> DEFINE role == Role[t]
           r == Reservation(role, estimate)
<1>1. role \in Roles /\ r \in Nat /\ BudgetTypeOK
      BY ReservationIsNat, BudgetAssumption DEF BudgetInv
<1>2. /\ inFlight' = inFlight + r /\ reserved' = [reserved EXCEPT ![t] = r]
      /\ llmCalls' = llmCalls + 1 /\ charged' = [charged EXCEPT ![role] = @ + 1]
      /\ status' = [status EXCEPT ![t] = "calling"]
      /\ UNCHANGED <<costMicros, settledCalls, attempt, spent, overrun>>
      /\ Admits(role, estimate) /\ status[t] # "calling"
      BY DEF Charge
<1>3. reserved[t] = 0
      BY <1>2 DEF BudgetInv, ReservationsOwned
<1> HIDE DEF role, r
<1>4. BudgetTypeOK'
      BY <1>1, <1>2 DEF BudgetTypeOK
<1>5. ReservationsOwned'
      BY <1>1, <1>2 DEF BudgetInv, ReservationsOwned, BudgetTypeOK
<1>6. SharesAddUp'
      BY <1>1, <1>2 DEF BudgetInv, SharesAddUp, BudgetTypeOK, Roles
<1>7. /\ Held(Tasks)' = Held(Tasks) + r
      /\ \A q \in Roles : HeldBy(q)' = HeldBy(q) + (IF q = role THEN r ELSE 0)
  <2>1. /\ Held(Tasks)' = Held(Tasks) + r - reserved[t]
        /\ \A q \in Roles : HeldBy(q)' = HeldBy(q) + (IF Role[t] = q THEN r - reserved[t] ELSE 0)
        BY <1>1, <1>2, SumsStep
  <2>2. Held(Tasks) \in Nat
        BY <1>1, HeldByRoles DEF Roles
  <2> QED BY <1>1, <1>3, <2>1, <2>2 DEF role
<1>8. LedgerExact'
      BY <1>2, <1>7 DEF BudgetInv, LedgerExact
<1>9. ASSUME MaxCost # 0
      PROVE  /\ costMicros + inFlight + r <= MaxCost + Headroom
             /\ role = "ordinary"
                  => costMicros + inFlight + r <= MaxCost - Slices.forecast - Slices.referee
             /\ role # "referee" => costMicros + inFlight + r <= MaxCost + Headroom - Slices.referee
      BY <1>1, <1>2, <1>9, AdmittedFits DEF r
<1>10. /\ \A q \in Roles : overrun[q] \in Nat /\ spent[q] \in Nat /\ HeldBy(q) \in Nat
       /\ costMicros \in Nat /\ inFlight \in Nat /\ MaxCost \in Nat /\ Headroom \in Nat
       /\ Slices.forecast \in Nat /\ Slices.referee \in Nat
       BY <1>1, SlicesFit, HeldByRoles, BudgetAssumption DEF BudgetTypeOK
<1>11. CeilingHeld'
       BY <1>1, <1>2, <1>9, <1>10 DEF CeilingHeld, Roles
<1>12. SlicesKept'
  <2> SUFFICES ASSUME MaxCost # 0
               PROVE  /\ spent["ordinary"] + HeldBy("ordinary")'
                           <= MaxCost - Slices.forecast - Slices.referee + overrun["ordinary"]
                      /\ spent["ordinary"] + HeldBy("ordinary")' + (spent["repair"] + HeldBy("repair")')
                           + (spent["forecast"] + HeldBy("forecast")')
                           <= MaxCost + Headroom - Slices.referee
                                + overrun["ordinary"] + overrun["repair"] + overrun["forecast"]
        BY <1>2 DEF SlicesKept, Used, HeldBy
  <2>1. /\ spent["ordinary"] + HeldBy("ordinary")
             <= MaxCost - Slices.forecast - Slices.referee + overrun["ordinary"]
        /\ spent["ordinary"] + HeldBy("ordinary") + (spent["repair"] + HeldBy("repair"))
             + (spent["forecast"] + HeldBy("forecast"))
             <= MaxCost + Headroom - Slices.referee
                  + overrun["ordinary"] + overrun["repair"] + overrun["forecast"]
        BY DEF BudgetInv, SlicesKept, Used, HeldBy
  <2>2. /\ inFlight = HeldBy("ordinary") + HeldBy("repair") + HeldBy("forecast") + HeldBy("referee")
        /\ costMicros = spent["ordinary"] + spent["repair"] + spent["forecast"] + spent["referee"]
        BY <1>1, HeldByRoles DEF BudgetInv, LedgerExact, SharesAddUp
  <2> QED BY <1>1, <1>7, <1>9, <1>10, <2>1, <2>2 DEF Roles
<1>13. CallsKept'
  <2>1. /\ llmCalls < MaxCalls
        /\ role = "ordinary" => llmCalls < MaxCalls - CallSlices.forecast - CallSlices.referee
        /\ role # "referee" => llmCalls < MaxCalls - CallSlices.referee
    <3>1. llmCalls < MaxCalls - HeldBack(role, CallSlices)
          BY <1>2 DEF Admits, CallLeft
    <3>2. CallSlices.forecast \in Nat /\ CallSlices.referee \in Nat /\ MaxCalls \in Nat /\ llmCalls \in Nat
          BY <1>1, SlicesFit, BudgetAssumption DEF BudgetTypeOK
    <3>3. /\ role = "ordinary" => HeldBack(role, CallSlices) = CallSlices.forecast + CallSlices.referee
          /\ role \in {"repair", "forecast"} => HeldBack(role, CallSlices) = CallSlices.referee
          /\ role = "referee" => HeldBack(role, CallSlices) = 0
          BY DEF HeldBack
    <3> QED BY <1>1, <3>1, <3>2, <3>3 DEF Roles
  <2>2. /\ charged \in [Roles -> Nat] /\ llmCalls \in Nat
        /\ llmCalls = charged["ordinary"] + charged["repair"] + charged["forecast"] + charged["referee"]
        BY <1>1 DEF BudgetInv, SharesAddUp, BudgetTypeOK
  <2>3. CallSlices.forecast \in Nat /\ CallSlices.referee \in Nat /\ MaxCalls \in Nat
        BY SlicesFit, BudgetAssumption
  <2>4. CallsKept
        BY DEF BudgetInv
  <2> QED BY <1>1, <1>2, <2>1, <2>2, <2>3, <2>4 DEF CallsKept, Roles
<1> QED BY <1>4, <1>5, <1>6, <1>8, <1>11, <1>12, <1>13 DEF BudgetInv

-----------------------------------------------------------------------------
(* Releasing and settling.                                                  *)

\* Every reservation handed back is in the ledger, so the clamp never bites.
LEMMA ReleaseSteps ==
    ASSUME BudgetInv, NEW t \in Tasks, Release(t)
    PROVE  /\ inFlight' = inFlight - reserved[t] /\ inFlight' \in Nat
           /\ reserved[t] \in Nat /\ reserved' \in [Tasks -> Nat]
           /\ Held(Tasks)' = Held(Tasks) - reserved[t]
           /\ \A q \in Roles : HeldBy(q)' = HeldBy(q) - (IF Role[t] = q THEN reserved[t] ELSE 0)
<1>1. BudgetTypeOK /\ reserved \in [Tasks -> Nat] /\ inFlight \in Nat /\ inFlight = Held(Tasks)
      BY DEF BudgetInv, BudgetTypeOK, LedgerExact
<1>2. inFlight' = Greater(0, inFlight - reserved[t]) /\ reserved' = [reserved EXCEPT ![t] = 0]
      BY DEF Release
<1>3. reserved[t] <= Held(Tasks) /\ \A q \in Roles : HeldBy(q) \in Nat
      BY <1>1, HeldByRoles
<1>4. /\ Held(Tasks)' = Held(Tasks) + 0 - reserved[t]
      /\ \A q \in Roles : HeldBy(q)' = HeldBy(q) + (IF Role[t] = q THEN 0 - reserved[t] ELSE 0)
      BY <1>1, <1>2, SumsStep
<1> QED BY <1>1, <1>2, <1>3, <1>4 DEF Greater

\* A call that ends without a cost.
LEMMA AbandonKeepsInv ==
    ASSUME BudgetInv, NEW t \in Tasks, Release(t), BudgetTypeOK',
           \A u \in Tasks : status'[u] # "calling" <=> u = t \/ status[u] # "calling",
           UNCHANGED <<llmCalls, costMicros, settledCalls, roleVars>>
    PROVE  BudgetInv'
<1>1. /\ inFlight' = inFlight - reserved[t] /\ reserved[t] \in Nat
      /\ Held(Tasks)' = Held(Tasks) - reserved[t]
      /\ \A q \in Roles : HeldBy(q)' = HeldBy(q) - (IF Role[t] = q THEN reserved[t] ELSE 0)
      BY ReleaseSteps
<1>2. \A q \in Roles : HeldBy(q) \in Nat
      BY HeldByRoles DEF BudgetInv
<1>3. /\ \A r \in Roles : overrun[r] \in Nat /\ spent[r] \in Nat
      /\ costMicros \in Nat /\ inFlight \in Nat /\ MaxCost \in Nat /\ Headroom \in Nat
      /\ Slices.forecast \in Nat /\ Slices.referee \in Nat
      BY SlicesFit, BudgetAssumption DEF BudgetInv, BudgetTypeOK
<1>4. ReservationsOwned'
      BY DEF BudgetInv, BudgetTypeOK, ReservationsOwned, Release, roleVars
<1>5. SharesAddUp' /\ CallsKept'
      BY DEF BudgetInv, SharesAddUp, CallsKept, roleVars
<1>6. LedgerExact'
      BY <1>1 DEF BudgetInv, LedgerExact
<1>7. CeilingHeld'
      BY <1>1, <1>3 DEF BudgetInv, CeilingHeld, roleVars, Roles
<1>8. SlicesKept'
      BY <1>1, <1>2, <1>3 DEF BudgetInv, SlicesKept, Used, HeldBy, roleVars, Roles
<1> QED BY <1>4, <1>5, <1>6, <1>7, <1>8 DEF BudgetInv

LEMMA SettleKeepsInv ==
    ASSUME BudgetInv, NEW t \in Tasks, NEW cost \in Costs, Settle(t, cost)
    PROVE  BudgetInv'
<1> DEFINE role == Role[t]
           over == Greater(0, cost - reserved[t])
<1>1. /\ inFlight' = inFlight - reserved[t] /\ inFlight' \in Nat /\ reserved[t] \in Nat
      /\ reserved' \in [Tasks -> Nat]
      /\ Held(Tasks)' = Held(Tasks) - reserved[t]
      /\ \A q \in Roles : HeldBy(q)' = HeldBy(q) - (IF role = q THEN reserved[t] ELSE 0)
      BY ReleaseSteps DEF Settle
<1>2. /\ costMicros' = costMicros + cost /\ settledCalls' = settledCalls + 1
      /\ spent' = [spent EXCEPT ![role] = @ + cost]
      /\ overrun' = [overrun EXCEPT ![role] = @ + over]
      /\ status' = [status EXCEPT ![t] = "idle"] /\ attempt' = [attempt EXCEPT ![t] = 0]
      /\ reserved' = [reserved EXCEPT ![t] = 0]
      /\ UNCHANGED <<llmCalls, charged>> /\ status[t] = "calling"
      BY DEF Settle, AddCost, Close, Release
<1>3. role \in Roles /\ cost \in Nat /\ over \in Nat /\ cost <= reserved[t] + over
      BY <1>1, BudgetAssumption DEF Greater
<1> HIDE DEF role, over
<1>4. BudgetTypeOK'
      BY <1>1, <1>2, <1>3, BudgetAssumption DEF BudgetInv, BudgetTypeOK
<1>5. ReservationsOwned'
      BY <1>2 DEF BudgetInv, BudgetTypeOK, ReservationsOwned
<1>6. /\ spent \in [Roles -> Nat] /\ overrun \in [Roles -> Nat]
      /\ costMicros \in Nat /\ inFlight \in Nat /\ MaxCost \in Nat /\ Headroom \in Nat
      /\ Slices.forecast \in Nat /\ Slices.referee \in Nat
      /\ \A q \in Roles : HeldBy(q) \in Nat
      BY SlicesFit, HeldByRoles, BudgetAssumption DEF BudgetInv, BudgetTypeOK
<1>7. SharesAddUp'
      BY <1>2, <1>3, <1>6 DEF BudgetInv, SharesAddUp, Roles
<1>8. LedgerExact'
      BY <1>1 DEF BudgetInv, LedgerExact
<1>9. CeilingHeld'
      BY <1>1, <1>2, <1>3, <1>6 DEF BudgetInv, CeilingHeld, Roles
<1>10. SlicesKept'
  <2>1. CASE role = "ordinary"
        BY <1>1, <1>2, <1>3, <1>6, <2>1 DEF BudgetInv, SlicesKept, Used, HeldBy, Roles
  <2>2. CASE role = "repair"
        BY <1>1, <1>2, <1>3, <1>6, <2>2 DEF BudgetInv, SlicesKept, Used, HeldBy, Roles
  <2>3. CASE role = "forecast"
        BY <1>1, <1>2, <1>3, <1>6, <2>3 DEF BudgetInv, SlicesKept, Used, HeldBy, Roles
  <2>4. CASE role = "referee"
        BY <1>1, <1>2, <1>3, <1>6, <2>4 DEF BudgetInv, SlicesKept, Used, HeldBy, Roles
  <2> QED BY <1>3, <2>1, <2>2, <2>3, <2>4 DEF Roles
<1>11. CallsKept'
      BY <1>2 DEF BudgetInv, CallsKept
<1> QED BY <1>4, <1>5, <1>7, <1>8, <1>9, <1>10, <1>11 DEF BudgetInv

-----------------------------------------------------------------------------
(* Every step.                                                              *)

\* A step that only moves a request that is not open leaves the ledger alone.
LEMMA WaitingKeepsInv ==
    ASSUME BudgetInv, BudgetTypeOK', UNCHANGED <<ledgerVars, reserved, roleVars>>,
           \A u \in Tasks : status'[u] = "calling" <=> status[u] = "calling"
    PROVE  BudgetInv'
<1>1. ReservationsOwned'
      BY DEF BudgetInv, ReservationsOwned, ledgerVars, roleVars
<1>2. SharesAddUp' /\ CallsKept'
      BY DEF BudgetInv, SharesAddUp, CallsKept, ledgerVars, roleVars
<1>3. LedgerExact' /\ CeilingHeld' /\ SlicesKept'
      BY DEF BudgetInv, LedgerExact, CeilingHeld, SlicesKept, Used, Held, Tokens, Playing, ledgerVars,
             roleVars
<1> QED BY <1>1, <1>2, <1>3 DEF BudgetInv

LEMMA BudgetNextInv == BudgetInv /\ [BudgetNext]_budgetVars => BudgetInv'
<1> SUFFICES ASSUME BudgetInv, [BudgetNext]_budgetVars PROVE BudgetInv'
      OBVIOUS
<1>1. BudgetTypeOK /\ MaxRetries \in Nat
      BY BudgetAssumption DEF BudgetInv
<1>2. ASSUME NEW t \in Tasks, NEW estimate \in Estimates, Charge(t, estimate)
      PROVE  BudgetInv'
      BY <1>2, ChargeKeepsInv
<1>3. ASSUME NEW t \in Tasks, status[t] # "calling", Close(t),
             UNCHANGED <<ledgerVars, reserved, roleVars>>
      PROVE  BudgetInv'
  <2>1. BudgetTypeOK'
        BY <1>1, <1>3 DEF BudgetTypeOK, Close, ledgerVars, roleVars
  <2>2. \A u \in Tasks : status'[u] = "calling" <=> status[u] = "calling"
        BY <1>1, <1>3 DEF BudgetTypeOK, Close
  <2> QED BY <1>3, <2>1, <2>2, WaitingKeepsInv
<1>4. ASSUME NEW t \in Tasks, NEW estimate \in Estimates, Refuse(t, estimate)
      PROVE  BudgetInv'
      BY <1>3, <1>4 DEF Refuse
<1>5. ASSUME NEW t \in Tasks, CancelBackoff(t)
      PROVE  BudgetInv'
      BY <1>3, <1>5 DEF CancelBackoff
<1>6. ASSUME NEW t \in Tasks, NEW cost \in Costs, Settle(t, cost)
      PROVE  BudgetInv'
      BY <1>6, SettleKeepsInv
<1>7. ASSUME NEW t \in Tasks, RetryLater(t)
      PROVE  BudgetInv'
  <2>1. inFlight' \in Nat /\ reserved' \in [Tasks -> Nat]
        BY <1>7, ReleaseSteps DEF RetryLater
  <2>2. attempt' \in [Tasks -> 0..MaxRetries] /\ status' \in [Tasks -> {"idle", "backoff", "calling"}]
        BY <1>1, <1>7 DEF RetryLater, BudgetTypeOK
  <2>3. BudgetTypeOK'
        BY <1>1, <1>7, <2>1, <2>2 DEF RetryLater, BudgetTypeOK, roleVars
  <2>4. \A u \in Tasks : status'[u] # "calling" <=> u = t \/ status[u] # "calling"
        BY <1>1, <1>7 DEF RetryLater, BudgetTypeOK
  <2> QED BY <1>7, <2>3, <2>4, AbandonKeepsInv DEF RetryLater
<1>8. ASSUME NEW t \in Tasks, Fail(t)
      PROVE  BudgetInv'
  <2>1. inFlight' \in Nat /\ reserved' \in [Tasks -> Nat]
        BY <1>8, ReleaseSteps DEF Fail
  <2>2. attempt' \in [Tasks -> 0..MaxRetries] /\ status' \in [Tasks -> {"idle", "backoff", "calling"}]
        BY <1>1, <1>8 DEF Fail, Close, BudgetTypeOK
  <2>3. BudgetTypeOK'
        BY <1>1, <1>8, <2>1, <2>2 DEF Fail, BudgetTypeOK, roleVars
  <2>4. \A u \in Tasks : status'[u] # "calling" <=> u = t \/ status[u] # "calling"
        BY <1>1, <1>8 DEF Fail, Close, BudgetTypeOK
  <2> QED BY <1>8, <2>3, <2>4, AbandonKeepsInv DEF Fail
<1>9. CASE UNCHANGED budgetVars
  <2>1. UNCHANGED <<ledgerVars, reserved, roleVars>> /\ UNCHANGED <<status, attempt>>
        BY <1>9 DEF budgetVars, requestVars
  <2>2. BudgetTypeOK'
        BY <1>1, <2>1 DEF BudgetTypeOK, ledgerVars, roleVars
  <2> QED BY <2>1, <2>2, WaitingKeepsInv
<1> QED BY <1>2, <1>4, <1>5, <1>6, <1>7, <1>8, <1>9 DEF BudgetNext

-----------------------------------------------------------------------------
(* The theorems.                                                            *)

\* The inductive invariant holds in every state of every run of the budget.
THEOREM BudgetInvariant == BudgetSpec => []BudgetInv
BY BudgetInitInv, BudgetNextInv, PTL DEF BudgetSpec

\* The counters, reservations and roles' shares keep their types.
THEOREM BudgetTypeCorrect == BudgetSpec => []BudgetTypeOK
<1>1. BudgetInv => BudgetTypeOK
      BY DEF BudgetInv
<1> QED BY <1>1, BudgetInvariant, PTL

\* _in_flight_micros is at every moment the sum of what the open calls reserved:
\* no way for a call to end loses a reservation or returns it twice.
THEOREM BudgetLedgerExact == BudgetSpec => []LedgerExact
<1>1. BudgetInv => LedgerExact
      BY DEF BudgetInv
<1> QED BY <1>1, BudgetInvariant, PTL

\* Whatever number of agents calls at once, cost and reservations pass the ceiling
\* by no more than single calls have cost beyond what was reserved for them.
THEOREM BudgetCeilingHeld == BudgetSpec => []CeilingHeld
<1>1. BudgetInv => CeilingHeld
      BY DEF BudgetInv
<1> QED BY <1>1, BudgetInvariant, PTL

\* The money held back for the last forecast and the referee is not spent by others.
THEOREM BudgetSlicesKept == BudgetSpec => []SlicesKept
<1>1. BudgetInv => SlicesKept
      BY DEF BudgetInv
<1> QED BY <1>1, BudgetInvariant, PTL

\* The calls held back for the last forecast and the referee are not spent by others.
THEOREM BudgetCallsKept == BudgetSpec => []CallsKept
<1>1. BudgetInv => CallsKept
      BY DEF BudgetInv
<1> QED BY <1>1, BudgetInvariant, PTL

-----------------------------------------------------------------------------
(* What the slices are for: the calls they are kept for are admitted.       *)

LEMMA FundReserved == BudgetInv => ReservesFund
<1> SUFFICES ASSUME BudgetInv, NEW estimate \in Estimates
             PROVE  /\ /\ charged["repair"] + charged["forecast"] + charged["referee"] < CallSlices.forecast
                       /\ Reservation("forecast", estimate)
                            \in 1 .. (Slices.forecast + Headroom - overrun["ordinary"]
                                        - Used("repair") - Used("forecast") - Used("referee"))
                       => Admits("forecast", estimate)
                    /\ /\ charged["referee"] < CallSlices.referee
                       /\ Reservation("referee", estimate)
                            \in 1 .. (Slices.referee - Used("referee")
                                        - overrun["ordinary"] - overrun["repair"] - overrun["forecast"])
                       => Admits("referee", estimate)
      BY DEF ReservesFund
<1>1. /\ MaxCost \in Nat /\ Headroom \in Nat /\ MaxCalls \in Nat
      /\ Slices.forecast \in Nat /\ Slices.referee \in Nat
      /\ CallSlices.forecast \in Nat /\ CallSlices.referee \in Nat
      BY SlicesFit, BudgetAssumption
<1>2. /\ \A q \in Roles : spent[q] \in Nat /\ charged[q] \in Nat /\ overrun[q] \in Nat /\ HeldBy(q) \in Nat
      /\ costMicros \in Nat /\ inFlight \in Nat /\ llmCalls \in Nat
      /\ Reservation("forecast", estimate) \in Nat /\ Reservation("referee", estimate) \in Nat
      BY HeldByRoles, ReservationIsNat DEF BudgetInv, BudgetTypeOK, Roles
<1>3. /\ llmCalls = charged["ordinary"] + charged["repair"] + charged["forecast"] + charged["referee"]
      /\ costMicros + inFlight = Used("ordinary") + Used("repair") + Used("forecast") + Used("referee")
      /\ \A q \in Roles : Used(q) \in Nat
      BY <1>2, HeldByRoles DEF BudgetInv, SharesAddUp, LedgerExact, Used, HeldBy, Roles
<1>4. MaxCost # 0 =>
        /\ Used("ordinary") <= MaxCost - Slices.forecast - Slices.referee + overrun["ordinary"]
        /\ Used("ordinary") + Used("repair") + Used("forecast")
             <= MaxCost + Headroom - Slices.referee
                  + overrun["ordinary"] + overrun["repair"] + overrun["forecast"]
      BY DEF BudgetInv, SlicesKept
<1>5. /\ charged["ordinary"] <= MaxCalls - CallSlices.forecast - CallSlices.referee
      /\ charged["ordinary"] + charged["repair"] + charged["forecast"] <= MaxCalls - CallSlices.referee
      BY DEF BudgetInv, CallsKept
<1>6. ASSUME charged["repair"] + charged["forecast"] + charged["referee"] < CallSlices.forecast,
             Reservation("forecast", estimate)
               \in 1 .. (Slices.forecast + Headroom - overrun["ordinary"]
                           - Used("repair") - Used("forecast") - Used("referee"))
      PROVE  Admits("forecast", estimate)
  <2>1. /\ Ceiling("forecast") = MaxCost + Headroom
        /\ HeldBack("forecast", Slices) = Slices.referee
        /\ HeldBack("forecast", CallSlices) = CallSlices.referee
        BY DEF Ceiling, HeldBack
  <2>2. CallLeft("forecast")
        BY <1>1, <1>2, <1>3, <1>5, <1>6, <2>1 DEF CallLeft, Roles
  <2>3. Affordable("forecast", estimate)
        BY <1>1, <1>2, <1>3, <1>4, <1>6, <2>1 DEF Affordable, Roles
  <2> QED BY <2>2, <2>3 DEF Admits
<1>7. ASSUME charged["referee"] < CallSlices.referee,
             Reservation("referee", estimate)
               \in 1 .. (Slices.referee - Used("referee")
                           - overrun["ordinary"] - overrun["repair"] - overrun["forecast"])
      PROVE  Admits("referee", estimate)
  <2>1. /\ Ceiling("referee") = MaxCost + Headroom
        /\ HeldBack("referee", Slices) = 0
        /\ HeldBack("referee", CallSlices) = 0
        BY DEF Ceiling, HeldBack
  <2>2. CallLeft("referee")
        BY <1>1, <1>2, <1>3, <1>5, <1>7, <2>1 DEF CallLeft, Roles
  <2>3. Affordable("referee", estimate)
        BY <1>1, <1>2, <1>3, <1>4, <1>7, <2>1 DEF Affordable, Roles
  <2> QED BY <2>2, <2>3 DEF Admits
<1> QED BY <1>6, <1>7

\* After any run of calls, retries, failures and cancellations, and beside any that are
\* open, a forecast's call is admitted while what repairs, forecasts and the referee
\* left of the forecast's slice and the headroom covers it, and a referee's while its
\* own slice does; what others cost beyond their reservations comes off the slices.
THEOREM BudgetReservesFund == BudgetSpec => []ReservesFund
BY FundReserved, BudgetInvariant, PTL

===============================================================================
