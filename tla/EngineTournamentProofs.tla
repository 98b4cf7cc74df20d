------------------------ MODULE EngineTournamentProofs ------------------------
(* Theorems of Engine, then of Tournament.                                   *)
(*                                                                           *)
(* The engine service for any clients, any size of the cache and any number  *)
(* of runs: lookups that are coalesced have one leader each, and answers     *)
(* are those of the fit that was asked with.                                 *)
(*                                                                           *)
(* A column of the tournament for any groups, schedule and bracket of the    *)
(* form that is assumed of them.                                             *)
EXTENDS Engine, Tournament, FiniteSetTheorems, TLAPS

Entries == [key : Keys, value : Runs]
AskStates == [pc : {"idle", "computing", "following", "answered", "failed"},
              key : Keys, fit : Fits, value : Runs]
RefreshStates == [pc : {"idle", "loaded"}, base : Fits, id : Runs]

Waits(q) == ask[q].pc \in {"computing", "following"}

\* The types; and who asks has a fit to ask with.
StoreTyped == snapshots \in Runs /\ pointer \in 0..snapshots
FitTyped == fit \in Fits /\ refresh \in [Refreshers -> RefreshStates] /\ overwritten \in BOOLEAN
CacheTyped == cache \in Seq(Entries) /\ Len(cache) <= SIM_CACHE_SIZE
AskTyped ==
    /\ inflight \subseteq Keys /\ ask \in [Askers -> AskStates]
    /\ \A q \in Askers : ask[q].pc # "idle" => ask[q].fit # NoFit
LoopTyped ==
    /\ loop \in LoopSteps /\ building \in 0..snapshots /\ report \in 0..snapshots
    /\ loop \in {"anchor", "results"} => ready
    /\ loop \notin {"results", "legs", "then", "now"} => ask[Loop].pc = "idle"
    /\ refresh[Loop].pc = "loaded" => loop = "refreshing"
Typed == StoreTyped /\ FitTyped /\ CacheTyped /\ AskTyped /\ LoopTyped

LEMMA Elements ==
    ASSUME NEW S, NEW s \in Seq(S), NEW i \in DOMAIN s
    PROVE  RemoveAt(s, i) \in Seq(S) /\ Len(RemoveAt(s, i)) = Len(s) - 1
<1>1. Len(s) \in Nat /\ i \in 1..Len(s)
      OBVIOUS
<1>2. SubSeq(s, 1, i - 1) \in Seq(S) /\ Len(SubSeq(s, 1, i - 1)) = i - 1
      BY <1>1
<1>3. SubSeq(s, i + 1, Len(s)) \in Seq(S) /\ Len(SubSeq(s, i + 1, Len(s))) = Len(s) - i
      BY <1>1
<1>4. PICK a \in Seq(S), b \in Seq(S) :
          /\ a = SubSeq(s, 1, i - 1) /\ b = SubSeq(s, i + 1, Len(s))
          /\ Len(a) = i - 1 /\ Len(b) = Len(s) - i
      BY <1>2, <1>3
<1>5. RemoveAt(s, i) = a \o b
      BY <1>4 DEF RemoveAt
<1>6. a \o b \in Seq(S) /\ Len(a \o b) = Len(a) + Len(b)
      OBVIOUS
<1>7. RemoveAt(s, i) \in Seq(S)
      BY <1>5, <1>6
<1>8. Len(a) + Len(b) = Len(s) - 1
  <2>1. PICK n \in Nat, j \in Nat : n = Len(s) /\ j = i
        BY <1>1
  <2>2. Len(a) = j - 1 /\ Len(b) = n - j
        BY <1>4, <2>1
  <2>3. Len(a) + Len(b) = n - 1
        BY <2>2
  <2> QED BY <2>1, <2>3
<1>9. Len(a \o b) = Len(s) - 1
      BY <1>6, <1>8
<1> QED BY <1>5, <1>7, <1>9

\* Looked at through any set its entries belong to, the cache keeps to it.
LEMMA CacheKept ==
    ASSUME NEW S, cache \in Seq(S), NEW key
    PROVE  /\ Without(key) \in Seq(S) /\ Len(Without(key)) <= Len(cache)
           /\ Cached(key) # {} => /\ Position(key) \in DOMAIN cache
                                  /\ cache[Position(key)] \in S /\ cache[Position(key)].key = key
                                  /\ Len(Without(key)) = Len(cache) - 1
<1>1. ASSUME Cached(key) # {}
      PROVE  Position(key) \in DOMAIN cache /\ cache[Position(key)].key = key
      BY <1>1 DEF Cached, Position
<1>2. Len(cache) \in Nat
      OBVIOUS
<1>3. CASE Cached(key) = {}
      BY <1>2, <1>3 DEF Without
<1>4. CASE Cached(key) # {}
  <2>1. Without(key) = RemoveAt(cache, Position(key))
        BY <1>4 DEF Without
  <2>2. RemoveAt(cache, Position(key)) \in Seq(S)
        /\ Len(RemoveAt(cache, Position(key))) = Len(cache) - 1
        BY <1>1, <1>4, Elements
  <2> QED BY <1>1, <1>2, <1>4, <2>1, <2>2
<1> QED BY <1>3, <1>4

LEMMA StoredKeeps ==
    ASSUME NEW S, cache \in Seq(S), NEW key, NEW value, [key |-> key, value |-> value] \in S
    PROVE  /\ Stored(key, value) \in Seq(S)
           /\ Len(cache) <= SIM_CACHE_SIZE => Len(Stored(key, value)) <= SIM_CACHE_SIZE
<1> DEFINE e == [key |-> key, value |-> value]
           longer == Append(Without(key), e)
<1>1. Stored(key, value) = IF Len(longer) > SIM_CACHE_SIZE THEN Tail(longer) ELSE longer
      BY DEF Stored
<1>2. Without(key) \in Seq(S) /\ Len(Without(key)) <= Len(cache) /\ Len(cache) \in Nat
      BY CacheKept
<1> HIDE DEF e
<1>3. longer \in Seq(S) /\ Len(longer) = Len(Without(key)) + 1 /\ Len(Without(key)) \in Nat
      BY <1>2 DEF e
<1> HIDE DEF longer
<1>4. Tail(longer) \in Seq(S) /\ Len(Tail(longer)) = Len(longer) - 1
  <2>1. longer # <<>>
        BY <1>3
  <2> QED BY <1>3, <2>1
<1>5. Stored(key, value) \in Seq(S)
      BY <1>1, <1>3, <1>4
<1>6. ASSUME Len(cache) <= SIM_CACHE_SIZE PROVE Len(Stored(key, value)) <= SIM_CACHE_SIZE
      BY <1>1, <1>2, <1>3, <1>4, <1>6, EngineAssumption
<1> QED BY <1>5, <1>6

-----------------------------------------------------------------------------
(* Lookups and their end.                                                   *)

Leaders(key) == {q \in Askers : ask[q].key = key /\ ask[q].pc = "computing"}

\* Who waits waits for a registered key, and each of those has one leader.
Led ==
    /\ \A q \in Askers : Waits(q) => ask[q].key \in inflight
    /\ \A key \in inflight : \E q \in Askers : Leaders(key) = {q}

LEMMA KeyTypes ==
    /\ NoKey \in Keys /\ NoAsk \in AskStates
    /\ \A f \in Fits \ {NoFit} : f \in [id : Runs, revision : Nat] /\ ResultsKey(f) \in Keys
    /\ \A f \in Fits \ {NoFit}, run \in Runs : RunFitKey(run) \in Keys /\ ReachKey(f, run) \in Keys
<1>1. 0 \in Runs
      BY EngineAssumption DEF Runs
<1>2. \A run \in Runs : RunFitKey(run) \in Keys
      BY DEF RunFitKey, Keys
<1>3. NoKey \in Keys
      BY <1>1, <1>2 DEF NoKey
<1>4. NoFit \in Fits
      BY DEF Fits
<1>5. NoAsk \in AskStates
      BY <1>1, <1>3, <1>4 DEF NoAsk, AskStates
<1>6. \A f \in Fits \ {NoFit} : f \in [id : Runs, revision : Nat]
      BY DEF Fits
<1>7. \A f \in Fits \ {NoFit}, run \in Runs : ReachKey(f, run) \in Keys /\ ResultsKey(f) \in Keys
      BY <1>1, <1>6 DEF ReachKey, ResultsKey, Keys
<1> QED BY <1>2, <1>3, <1>5, <1>6, <1>7

LEMMA AnswerType ==
    ASSUME NEW q, NEW pc \in {"answered", "failed"}, NEW key \in Keys, NEW f \in Fits \ {NoFit},
           NEW value \in Runs
    PROVE  /\ Answer(q, pc, key, f, value) \in AskStates
           /\ Answer(q, pc, key, f, value).pc \in {"idle", pc}
           /\ Answer(q, pc, key, f, value).pc # "idle" => Answer(q, pc, key, f, value).fit = f
           /\ Answer(q, pc, key, f, value).fit \in {f, NoFit}
<1>1. CASE q = Loop
      BY <1>1 DEF Answer, AskStates
<1>2. CASE q # Loop
      BY <1>2, KeyTypes DEF Answer, NoAsk
<1> QED BY <1>1, <1>2

LEMMA LookupKeeps ==
    ASSUME CacheTyped, AskTyped, NEW q \in Askers, NEW key \in Keys, NEW f \in Fits \ {NoFit},
           ~Waits(q), Lookup(q, key, f)
    PROVE  /\ CacheTyped' /\ AskTyped'
           /\ Led => Led'
           /\ \A p \in Askers \ {q} : ask'[p] = ask[p]
           /\ ask'[q].fit \in {f, NoFit}
           /\ Waits(q)' => ask'[q].key = key /\ ask'[q].fit = f
           /\ \A S : cache \in Seq(S) => cache' \in Seq(S)
<1>0. 0 \in Runs
      BY EngineAssumption DEF Runs
<1>1. CASE Hit(q, key, f)
  <2> DEFINE e == cache[Position(key)]
             a == Answer(q, "answered", key, f, e.value)
  <2>1. /\ Cached(key) # {} /\ inflight' = inflight
        /\ cache' = Append(Without(key), e) /\ ask' = [ask EXCEPT ![q] = a]
        BY <1>1 DEF Hit
  <2>2. e \in Entries /\ Without(key) \in Seq(Entries) /\ Len(Without(key)) = Len(cache) - 1
        BY <2>1, CacheKept DEF CacheTyped
  <2>3. ASSUME NEW S, cache \in Seq(S) PROVE cache' \in Seq(S)
    <3>1. e \in S /\ Without(key) \in Seq(S)
          BY <2>1, <2>3, CacheKept
    <3> HIDE DEF e
    <3> QED BY <2>1, <3>1
  <2>4. CacheTyped'
    <3>1. cache' \in Seq(Entries)
          BY <2>3 DEF CacheTyped
    <3>2. Len(cache') = Len(cache)
      <4> HIDE DEF e
      <4>1. Len(cache) \in Nat
            BY DEF CacheTyped
      <4> QED BY <2>1, <2>2, <4>1
    <3> QED BY <3>1, <3>2 DEF CacheTyped
  <2>5. e.value \in Runs
        BY <2>2 DEF Entries
  <2> HIDE DEF e
  <2>6. /\ a \in AskStates /\ a.pc \in {"idle", "answered"} /\ a.fit \in {f, NoFit}
        /\ a.pc # "idle" => a.fit = f
        BY <2>5, AnswerType
  <2> HIDE DEF a
  <2>7. ask'[q] = a /\ \A p \in Askers \ {q} : ask'[p] = ask[p]
        BY <2>1 DEF AskTyped
  <2>8. AskTyped'
    <3>1. ask' \in [Askers -> AskStates]
          BY <2>1, <2>6 DEF AskTyped
    <3>2. \A p \in Askers : ask'[p].pc # "idle" => ask'[p].fit # NoFit
          BY <2>6, <2>7 DEF AskTyped
    <3> QED BY <2>1, <3>1, <3>2 DEF AskTyped
  <2>9. ~Waits(q)'
        BY <2>6, <2>7 DEF Waits
  <2>10. ASSUME Led PROVE Led'
    <3>1. \A p \in Askers : Waits(p)' => Waits(p) /\ ask'[p] = ask[p]
          BY <2>7, <2>9 DEF Waits
    <3>2. \A k : Leaders(k)' = Leaders(k)
      <4>1. ask[q].pc # "computing" /\ ask'[q].pc # "computing"
            BY <2>9 DEF Waits
      <4> QED BY <2>7, <4>1 DEF Leaders
    <3> QED BY <2>1, <2>10, <3>1, <3>2 DEF Led
  <2> QED BY <2>3, <2>4, <2>6, <2>7, <2>8, <2>9, <2>10
<1>2. CASE ~Hit(q, key, f)
  <2> DEFINE a == [pc |-> IF key \in inflight THEN "following" ELSE "computing",
                   key |-> key, fit |-> f, value |-> 0]
  <2>1. /\ ask' = [ask EXCEPT ![q] = a] /\ inflight' = inflight \cup {key} /\ cache' = cache
        BY <1>2 DEF Lookup
  <2>2. /\ a \in AskStates /\ a.key = key /\ a.fit = f
        /\ a.pc = IF key \in inflight THEN "following" ELSE "computing"
        BY <1>0 DEF AskStates
  <2> HIDE DEF a
  <2>3. ask'[q] = a /\ \A p \in Askers \ {q} : ask'[p] = ask[p]
        BY <2>1 DEF AskTyped
  <2>4. CacheTyped'
        BY <2>1 DEF CacheTyped
  <2>5. AskTyped'
    <3>1. ask' \in [Askers -> AskStates]
          BY <2>1, <2>2 DEF AskTyped
    <3>2. inflight' \subseteq Keys
          BY <2>1 DEF AskTyped
    <3>3. \A p \in Askers : ask'[p].pc # "idle" => ask'[p].fit # NoFit
          BY <2>2, <2>3 DEF AskTyped
    <3> QED BY <3>1, <3>2, <3>3 DEF AskTyped
  <2>6. ASSUME Led PROVE Led'
    <3>1. \A p \in Askers : Waits(p)' => ask'[p].key \in inflight'
          BY <2>1, <2>2, <2>3, <2>6 DEF Led, Waits
    <3>2. ask[q].pc # "computing"
          BY DEF Waits
    <3>3. ASSUME NEW k \in inflight PROVE \E p \in Askers : Leaders(k)' = {p}
      <4>1. ask'[q].key # k \/ ask'[q].pc # "computing"
            BY <2>2, <2>3
      <4>2. Leaders(k)' = Leaders(k)
            BY <2>3, <3>2, <4>1 DEF Leaders
      <4> QED BY <2>6, <4>2 DEF Led
    <3>4. ASSUME key \notin inflight PROVE Leaders(key)' = {q}
      <4>1. \A p \in Askers : ~(ask[p].key = key /\ ask[p].pc = "computing")
            BY <2>6, <3>4 DEF Led, Waits
      <4>2. ask'[q].key = key /\ ask'[q].pc = "computing"
            BY <2>2, <2>3, <3>4
      <4> QED BY <2>3, <4>1, <4>2 DEF Leaders
    <3> QED BY <2>1, <3>1, <3>3, <3>4 DEF Led
  <2> QED BY <2>1, <2>2, <2>3, <2>4, <2>5, <2>6
<1> QED BY <1>1, <1>2

\* All who wait for a leader are told when it ends.
LEMMA ServedKeeps ==
    ASSUME AskTyped, NEW q \in Askers, ask[q].pc = "computing",
           NEW pc \in {"answered", "failed"}, NEW value \in Runs,
           inflight' = inflight \ {ask[q].key}, ask' = Served(ask[q].key, pc, value)
    PROVE  /\ AskTyped'
           /\ Led => Led'
           /\ \A p \in Askers : /\ ask'[p].fit \in {ask[p].fit, NoFit}
                                /\ Waits(p)' => ask'[p] = ask[p]
                                /\ ask[p].pc = "idle" => ask'[p] = ask[p]
<1> DEFINE key == ask[q].key
           a(p) == Answer(p, pc, key, ask[p].fit, value)
<1>1. key \in Keys
      BY DEF AskTyped, AskStates
<1> HIDE DEF key
<1>2. \A p \in Askers :
          /\ ask[p].key = key /\ Waits(p) => ask'[p] = a(p)
          /\ ~(ask[p].key = key /\ Waits(p)) => ask'[p] = ask[p]
      BY DEF Served, Waits, key
<1>3. ASSUME NEW p \in Askers, Waits(p)
      PROVE  /\ a(p) \in AskStates /\ a(p).pc \in {"idle", pc} /\ a(p).fit \in {ask[p].fit, NoFit}
             /\ a(p).pc # "idle" => a(p).fit # NoFit
  <2>1. ask[p].fit \in Fits \ {NoFit}
        BY <1>3 DEF Waits, AskTyped, AskStates
  <2> QED BY <1>1, <2>1, AnswerType
<1> HIDE DEF a
<1>4. ask' \in [Askers -> AskStates]
  <2>1. ask' = [p \in Askers |-> ask'[p]]
        BY DEF Served
  <2>2. \A p \in Askers : ask'[p] \in AskStates
        BY <1>2, <1>3 DEF AskTyped
  <2> QED BY <2>1, <2>2
<1>5. \A p \in Askers : ask'[p].pc # "idle" => ask'[p].fit # NoFit
      BY <1>2, <1>3 DEF AskTyped
<1>6. AskTyped'
      BY <1>4, <1>5 DEF AskTyped
<1>7. \A p \in Askers : /\ ask'[p].fit \in {ask[p].fit, NoFit}
                        /\ Waits(p)' => ask'[p] = ask[p] /\ ask[p].key # key
                        /\ ask[p].pc = "idle" => ask'[p] = ask[p]
  <2> TAKE p \in Askers
  <2>1. CASE ask[p].key = key /\ Waits(p)
        BY <1>2, <1>3, <2>1 DEF Waits
  <2>2. CASE ~(ask[p].key = key /\ Waits(p))
        BY <1>2, <2>2 DEF Waits
  <2> QED BY <2>1, <2>2
<1>8. ASSUME Led PROVE Led'
  <2>1. \A p \in Askers : Waits(p)' => ask'[p].key \in inflight'
        BY <1>7, <1>8 DEF Led, Waits, key
  <2>2. ASSUME NEW k \in inflight' PROVE Leaders(k)' = Leaders(k)
    <3>1. k # key
          BY DEF key
    <3>2. \A p \in Askers : ask[p].key = k => ask'[p] = ask[p]
          BY <1>2, <3>1
    <3>3. \A p \in Askers : ask'[p].key = k /\ ask'[p].pc = "computing" => ask'[p] = ask[p]
          BY <1>7 DEF Waits
    <3> QED BY <3>2, <3>3 DEF Leaders
  <2>3. inflight' \subseteq inflight
        OBVIOUS
  <2> QED BY <1>8, <2>1, <2>2, <2>3 DEF Led
<1> QED BY <1>6, <1>7, <1>8

-----------------------------------------------------------------------------
(* Types.                                                                   *)

LEMMA ReadStoreKeeps ==
    ASSUME StoreTyped, FitTyped, NEW r \in Refreshers, ReadStore(r), fit' = fit,
           overwritten' = overwritten
    PROVE  FitTyped'
<1>1. pointer \in Runs
      BY EngineAssumption DEF StoreTyped, Runs
<1>2. [pc |-> "loaded", base |-> fit, id |-> pointer] \in RefreshStates
      BY <1>1 DEF FitTyped, RefreshStates
<1>3. refresh' \in [Refreshers -> RefreshStates]
      BY <1>2 DEF ReadStore, FitTyped
<1> QED BY <1>3 DEF FitTyped

\* Every write counts on from the fit it read, a boot from the one there is.
LEMMA WriteFitKeeps ==
    ASSUME FitTyped, NEW r \in Refreshers, WriteFit(r)
    PROVE  /\ FitTyped' /\ fit' # NoFit
           /\ overwritten' \/ (~overwritten /\ fit'.revision = fit.revision + 1)
<1>1. refresh[r] \in RefreshStates /\ refresh[r].base \in Fits /\ refresh[r].id \in Runs
      BY DEF FitTyped, RefreshStates
<1>2. \A f \in Fits \ {NoFit} : f.revision \in Nat
      BY KeyTypes
<1>3. Revision(r) \in Nat
      BY <1>1, <1>2 DEF Revision, ready, FitTyped
<1>4. fit' = [id |-> refresh[r].id, revision |-> Revision(r)]
      BY DEF WriteFit
<1>5. fit' \in Fits /\ fit'.revision = Revision(r)
      BY <1>1, <1>3, <1>4 DEF Fits
<1>6. fit' # NoFit
  <2>1. NoFit.revision = -1
        BY DEF NoFit
  <2> QED BY <1>3, <1>5, <2>1
<1>7. refresh' \in [Refreshers -> RefreshStates]
  <2>1. NoRefresh \in RefreshStates
    <3>1. 0 \in Runs /\ NoFit \in Fits
          BY EngineAssumption DEF Runs, Fits
    <3> QED BY <3>1 DEF NoRefresh, RefreshStates
  <2> QED BY <2>1 DEF WriteFit, FitTyped
<1>8. overwritten' \in BOOLEAN
      BY DEF WriteFit
<1>9. ASSUME ~overwritten' PROVE ~overwritten /\ fit'.revision = fit.revision + 1
  <2>1. ~overwritten /\ refresh[r].base \in {fit, NoFit}
        BY <1>9 DEF WriteFit
  <2>2. NoFit.revision + 1 = 0
        BY DEF NoFit
  <2>3. Revision(r) = fit.revision + 1
        BY <2>1, <2>2 DEF Revision, ready
  <2> QED BY <1>5, <2>1, <2>3
<1> QED BY <1>5, <1>6, <1>7, <1>8, <1>9 DEF FitTyped

\* What a lookup of the loop leaves at its next step.
LEMMA LoopLooksUp ==
    ASSUME Typed, Led, NEW key \in Keys, NEW f \in Fits \ {NoFit}, Lookup(Loop, key, f),
           ~Waits(Loop), loop # "refreshing", loop' \in {"results", "legs", "then", "now"},
           loop' = "results" => ready, building' \in 0..snapshots, report' = report,
           UNCHANGED <<storeVars, fitVars>>
    PROVE  Typed' /\ Led'
<1>1. CacheTyped' /\ AskTyped' /\ Led'
      BY LookupKeeps DEF Typed, Askers
<1>2. StoreTyped' /\ FitTyped'
      BY DEF Typed, StoreTyped, FitTyped, storeVars, fitVars
<1>3. LoopTyped'
      BY DEF Typed, LoopTyped, LoopSteps, storeVars, fitVars, ready
<1> QED BY <1>1, <1>2, <1>3 DEF Typed

\* The loop gives up its answer.
LEMMA LoopLetsGo ==
    ASSUME Typed, Led, ~Waits(Loop), loop # "refreshing", ask' = [ask EXCEPT ![Loop] = NoAsk], loop' = "pass",
           building' = 0, report' \in {report, building},
           UNCHANGED <<storeVars, fitVars, cache, inflight>>
    PROVE  Typed' /\ Led'
<1>1. /\ ask'[Loop] = NoAsk /\ \A p \in Askers \ {Loop} : ask'[p] = ask[p]
      /\ ask' \in [Askers -> AskStates]
      BY KeyTypes DEF Typed, AskTyped, Askers
<1>2. NoAsk.pc = "idle"
      BY DEF NoAsk
<1>3. AskTyped'
      BY <1>1, <1>2 DEF Typed, AskTyped
<1>4. CacheTyped' /\ StoreTyped' /\ FitTyped'
      BY DEF Typed, CacheTyped, StoreTyped, FitTyped, storeVars, fitVars
<1>5. LoopTyped'
  <2>1. building' \in 0..snapshots' /\ report' \in 0..snapshots'
        BY EngineAssumption DEF Typed, LoopTyped, StoreTyped, Runs, storeVars
  <2> QED BY <1>1, <1>2, <2>1 DEF Typed, LoopTyped, LoopSteps, Askers, fitVars
<1>6. Led'
  <2>1. \A k : Leaders(k)' = Leaders(k)
        BY <1>1, <1>2 DEF Leaders, Waits
  <2>2. \A p \in Askers : Waits(p)' => Waits(p) /\ ask'[p] = ask[p]
        BY <1>1, <1>2 DEF Waits
  <2> QED BY <2>1, <2>2 DEF Led
<1> QED BY <1>3, <1>4, <1>5, <1>6 DEF Typed

LEMMA LedSame ==
    ASSUME Led, ask' = ask, inflight' = inflight
    PROVE  Led'
BY DEF Led, Leaders, Waits

LEMMA TypedNext ==
    ASSUME Typed, Led, [EngineNext]_engineVars
    PROVE  Typed' /\ Led'
<1> USE DEF Typed
<1>0. Loop \in Askers /\ Loop \in Refreshers /\ Timer \in Refreshers
      /\ \A c \in Clients : c \in Askers /\ c # Loop
      BY EngineAssumption DEF Askers, Refreshers
<1>1. CASE PublishSnapshot
  <2>1. StoreTyped' /\ LoopTyped'
        BY <1>1, EngineAssumption DEF PublishSnapshot, StoreTyped, LoopTyped, Runs, lookupVars, loopVars,
           reportVars, fitVars, ready
  <2>2. FitTyped' /\ CacheTyped' /\ AskTyped' /\ Led'
        BY <1>1, LedSame DEF PublishSnapshot, FitTyped, CacheTyped, AskTyped, fitVars, lookupVars
  <2> QED BY <2>1, <2>2
<1>2. CASE PublishFit
  <2>1. StoreTyped' /\ LoopTyped'
        BY <1>2, EngineAssumption DEF PublishFit, StoreTyped, LoopTyped, Runs, lookupVars, loopVars,
           reportVars, fitVars, ready
  <2>2. FitTyped' /\ CacheTyped' /\ AskTyped' /\ Led'
        BY <1>2, LedSame DEF PublishFit, FitTyped, CacheTyped, AskTyped, fitVars, lookupVars
  <2> QED BY <2>1, <2>2
<1>3. CASE TimerStep
  <2>1. FitTyped' /\ (ready => ready') /\ refresh'[Loop] = refresh[Loop]
    <3>1. CASE TimerReads
          BY <1>0, <3>1, ReadStoreKeeps, EngineAssumption DEF TimerReads, ReadStore, FitTyped, ready
    <3>2. CASE TimerWrites
          BY <1>0, <3>2, WriteFitKeeps, EngineAssumption DEF TimerWrites, WriteFit, FitTyped, ready
    <3> QED BY <1>3, <3>1, <3>2 DEF TimerStep
  <2>2. UNCHANGED <<storeVars, lookupVars, loopVars>>
        BY <1>3 DEF TimerStep, TimerReads, TimerWrites
  <2>3. StoreTyped' /\ CacheTyped' /\ AskTyped' /\ Led'
        BY <2>2, LedSame DEF StoreTyped, CacheTyped, AskTyped, storeVars, lookupVars
  <2>4. LoopTyped'
        BY <2>1, <2>2 DEF LoopTyped, storeVars, lookupVars, loopVars, reportVars
  <2> QED BY <2>1, <2>3, <2>4
<1>4. ASSUME NEW q \in Askers, Finish(q) \/ Fails(q) PROVE Typed' /\ Led'
  <2>1. UNCHANGED <<storeVars, fitVars, loopVars>> /\ ask[q].pc = "computing"
        /\ inflight' = inflight \ {ask[q].key}
        BY <1>4 DEF Finish, Fails
  <2>2. ask[q].key \in Keys /\ ask[q].fit \in Fits \ {NoFit}
        BY <2>1 DEF AskTyped, AskStates
  <2>3. Compute(ask[q].key, ask[q].fit) \in Runs /\ 0 \in Runs
    <3>1. ask[q].key.run \in Runs /\ ask[q].fit.id \in Runs
          BY <2>2, KeyTypes DEF Keys
    <3>2. 0 \in Runs
          BY EngineAssumption DEF Runs
    <3> QED BY <3>1, <3>2 DEF Compute
  <2>4. PICK pc \in {"answered", "failed"}, value \in Runs : ask' = Served(ask[q].key, pc, value)
        BY <1>4, <2>3 DEF Finish, Fails
  <2>5. AskTyped' /\ Led' /\ \A p \in Askers : ask[p].pc = "idle" => ask'[p] = ask[p]
        BY <2>1, <2>4, ServedKeeps
  <2>6. CacheTyped'
    <3>1. CASE Fails(q)
          BY <3>1 DEF Fails, CacheTyped
    <3>2. CASE Finish(q)
      <4> DEFINE e == [key |-> ask[q].key, value |-> Compute(ask[q].key, ask[q].fit)]
      <4>1. e \in Entries
            BY <2>2, <2>3 DEF Entries
      <4> QED BY <3>2, <4>1, StoredKeeps DEF Finish, CacheTyped
    <3> QED BY <1>4, <3>1, <3>2
  <2>7. StoreTyped' /\ FitTyped'
        BY <2>1 DEF StoreTyped, FitTyped, storeVars, fitVars
  <2>8. LoopTyped'
        BY <1>0, <2>1, <2>5 DEF LoopTyped, storeVars, fitVars, loopVars, reportVars, ready
  <2> QED BY <2>5, <2>6, <2>7, <2>8
<1>5. ASSUME NEW c \in Clients, Request(c) PROVE Typed' /\ Led'
  <2>1. /\ ask[c].pc = "idle" /\ fit \in Fits \ {NoFit} /\ Lookup(c, ReachKey(fit, 0), fit)
        /\ UNCHANGED <<storeVars, fitVars, loopVars>>
        BY <1>5 DEF Request, ready, FitTyped
  <2>2. 0 \in Runs
        BY EngineAssumption DEF Runs
  <2>3. ~Waits(c) /\ ReachKey(fit, 0) \in Keys
        BY <2>1, <2>2, KeyTypes DEF Waits
  <2>4. CacheTyped' /\ AskTyped' /\ Led' /\ ask'[Loop] = ask[Loop]
        BY <1>0, <2>1, <2>3, LookupKeeps
  <2>5. StoreTyped' /\ FitTyped' /\ LoopTyped'
        BY <2>1, <2>4 DEF StoreTyped, FitTyped, LoopTyped, storeVars, fitVars, loopVars, reportVars, ready
  <2> QED BY <2>4, <2>5
<1>6. CASE \/ \E published \in BOOLEAN : EndPass(published)
           \/ LoopRefreshes \/ LoopWrites \/ LoopRefreshFails
  <2>1. UNCHANGED <<storeVars, lookupVars, reportVars>>
        BY <1>6 DEF EndPass, LoopRefreshes, LoopWrites, LoopRefreshFails
  <2>2. StoreTyped' /\ CacheTyped' /\ AskTyped' /\ Led'
        BY <2>1, LedSame DEF StoreTyped, CacheTyped, AskTyped, storeVars, lookupVars
  <2>3. FitTyped' /\ loop' \in LoopSteps /\ ask[Loop].pc = "idle"
        /\ loop' \notin {"results", "legs", "then", "now"}
        /\ (loop' = "anchor" => ready')
        /\ (refresh'[Loop].pc = "loaded" => loop' = "refreshing")
    <3>1. CASE \E published \in BOOLEAN : EndPass(published)
          BY <3>1 DEF EndPass, LoopTyped, LoopSteps, FitTyped, fitVars, ready
    <3>2. CASE LoopRefreshes
      <4>1. CASE ReadStore(Loop) /\ loop' = "refreshing"
        <5>1. FitTyped'
              BY <1>0, <3>2, <4>1, ReadStoreKeeps DEF LoopRefreshes
        <5> QED BY <3>2, <4>1, <5>1 DEF LoopRefreshes, LoopTyped, LoopSteps
      <4>2. CASE ~Outdated /\ loop' = "anchor" /\ UNCHANGED refresh
            BY <3>2, <4>2 DEF LoopRefreshes, LoopTyped, LoopSteps, FitTyped, Outdated, ready
      <4> QED BY <3>2, <4>1, <4>2 DEF LoopRefreshes
    <3>3. CASE LoopWrites
      <4>1. FitTyped' /\ ready'
            BY <1>0, <3>3, WriteFitKeeps DEF LoopWrites, ready
      <4>2. loop = "refreshing" /\ loop' = "anchor" /\ refresh'[Loop] = NoRefresh
            BY <1>0, <3>3 DEF LoopWrites, WriteFit, LoopTyped, FitTyped
      <4>3. NoRefresh.pc = "idle"
            BY DEF NoRefresh
      <4> QED BY <4>1, <4>2, <4>3 DEF LoopTyped, LoopSteps
    <3>4. CASE LoopRefreshFails
          BY <3>4 DEF LoopRefreshFails, LoopTyped, LoopSteps, FitTyped, fitVars
    <3> QED BY <1>6, <3>1, <3>2, <3>3, <3>4
  <2>4. LoopTyped'
        BY <2>1, <2>3 DEF LoopTyped, storeVars, lookupVars, reportVars
  <2> QED BY <2>2, <2>3, <2>4
<1>7. CASE Anchor
  <2>1. loop = "anchor" /\ fit \in Fits \ {NoFit} /\ ask[Loop].pc = "idle"
        BY <1>7 DEF Anchor, LoopTyped, FitTyped, ready
  <2>2. CASE snapshots = 0
    <3>1. loop' = "pass" /\ UNCHANGED <<building, lookupVars, storeVars, fitVars, report>>
          BY <1>7, <2>2 DEF Anchor
    <3>2. StoreTyped' /\ FitTyped' /\ CacheTyped' /\ AskTyped' /\ Led'
          BY <3>1, LedSame DEF StoreTyped, FitTyped, CacheTyped, AskTyped, storeVars, fitVars, lookupVars
    <3>3. LoopTyped'
          BY <2>1, <3>1 DEF LoopTyped, LoopSteps, storeVars, fitVars, lookupVars
    <3> QED BY <3>2, <3>3
  <2>3. CASE snapshots # 0
    <3>1. loop' = "results" /\ building' = snapshots /\ Lookup(Loop, ResultsKey(fit), fit)
          /\ UNCHANGED <<storeVars, fitVars, report>>
          BY <1>7, <2>3 DEF Anchor
    <3>2. ~Waits(Loop) /\ ResultsKey(fit) \in Keys /\ building' \in 0..snapshots
          BY <2>1, <3>1, KeyTypes, EngineAssumption DEF Waits, StoreTyped, Runs
    <3> QED BY <2>1, <3>1, <3>2, LoopLooksUp DEF ready
  <2> QED BY <2>2, <2>3
<1>8. ASSUME ask[Loop].pc = "answered"
      PROVE  ask[Loop].fit \in Fits \ {NoFit} /\ ask[Loop].value \in Runs /\ ~Waits(Loop)
      BY <1>0, <1>8 DEF AskTyped, AskStates, Waits
<1>9. CASE AskLegs \/ AskThen \/ AskNow
  <2>1. PICK f \in Fits \ {NoFit}, key \in Keys : Lookup(Loop, key, f)
    <3>1. CASE AskLegs
      <4>1. building \in Runs
            BY EngineAssumption DEF LoopTyped, StoreTyped, Runs
      <4>2. fit \in Fits \ {NoFit} /\ RunFitKey(building) \in Keys
            BY <3>1, <4>1, KeyTypes DEF AskLegs, LoopIs, LoopTyped, FitTyped, ready
      <4> QED BY <3>1, <4>2 DEF AskLegs
    <3>2. CASE AskThen
          BY <1>8, <3>2, KeyTypes DEF AskThen, LoopIs
    <3>3. CASE AskNow
      <4>1. 0 \in Runs
            BY EngineAssumption DEF Runs
      <4> QED BY <1>8, <3>3, <4>1, KeyTypes DEF AskNow, LoopIs
    <3> QED BY <1>9, <3>1, <3>2, <3>3
  <2>2. ~Waits(Loop) /\ loop # "refreshing" /\ loop' \in {"legs", "then", "now"}
        /\ building' \in 0..snapshots /\ report' = report /\ UNCHANGED <<storeVars, fitVars>>
        BY <1>8, <1>9 DEF AskLegs, AskThen, AskNow, LoopIs, LoopTyped, reportVars
  <2> QED BY <2>1, <2>2, LoopLooksUp
<1>10. CASE PublishReport \/ ReportFails
  <2>1. ~Waits(Loop) /\ loop # "refreshing" /\ ask' = [ask EXCEPT ![Loop] = NoAsk] /\ loop' = "pass"
        /\ building' = 0 /\ report' \in {report, building}
        /\ UNCHANGED <<storeVars, fitVars, cache, inflight>>
        BY <1>10 DEF PublishReport, ReportFails, LoopIs, Waits
  <2> QED BY <2>1, LoopLetsGo
<1>11. CASE UNCHANGED engineVars
  <2>1. UNCHANGED <<storeVars, fitVars, lookupVars, loopVars>>
        BY <1>11 DEF engineVars
  <2>2. StoreTyped' /\ FitTyped' /\ CacheTyped' /\ AskTyped' /\ Led'
        BY <2>1, LedSame DEF StoreTyped, FitTyped, CacheTyped, AskTyped, storeVars, fitVars, lookupVars
  <2>3. LoopTyped'
        BY <2>1 DEF LoopTyped, storeVars, fitVars, lookupVars, loopVars, reportVars, ready
  <2> QED BY <2>2, <2>3
<1> QED BY <1>1, <1>2, <1>3, <1>4, <1>5, <1>6, <1>7, <1>9, <1>10, <1>11 DEF EngineNext, LoopStep

LEMMA TypedInit == EngineInit => Typed /\ Led
<1> SUFFICES ASSUME EngineInit PROVE Typed /\ Led
      OBVIOUS
<1> USE DEF EngineInit
<1>1. 0 \in Runs /\ NoFit \in Fits /\ NoAsk.pc = "idle" /\ NoRefresh \in RefreshStates
      /\ NoRefresh.pc = "idle"
      BY EngineAssumption DEF Runs, Fits, NoAsk, NoRefresh, RefreshStates
<1>2. StoreTyped
      BY <1>1 DEF StoreTyped
<1>3. FitTyped
      BY <1>1 DEF FitTyped
<1>4. CacheTyped
      BY EngineAssumption DEF CacheTyped
<1>5. ask \in [Askers -> AskStates] /\ \A q \in Askers : ask[q].pc = "idle"
      BY <1>1, KeyTypes
<1>6. AskTyped
      BY <1>5 DEF AskTyped
<1>7. LoopTyped
      BY <1>1, <1>5 DEF LoopTyped, LoopSteps, Askers, Refreshers
<1>8. Led
      BY <1>5 DEF Led, Waits
<1> QED BY <1>2, <1>3, <1>4, <1>6, <1>7, <1>8 DEF Typed

LEMMA TypesKept == EngineSpec => [](Typed /\ Led)
BY TypedInit, TypedNext, PTL DEF EngineSpec

\* The engine's variables keep their types, and the cache its size, through refreshes and
\* lookups (EngineService).
THEOREM EngineTypeCorrect == EngineSpec => []EngineTypeOK
<1>1. Typed => EngineTypeOK
  <2> SUFFICES ASSUME Typed PROVE EngineTypeOK
        OBVIOUS
  <2>1. \A i \in DOMAIN cache : cache[i] \in [key : Keys, value : Runs]
    <3>1. cache \in Seq(Entries)
          BY DEF Typed, CacheTyped
    <3>2. \A i \in DOMAIN cache : cache[i] \in Entries
          BY <3>1
    <3> QED BY <3>2 DEF Entries
  <2> QED BY <2>1 DEF Typed, StoreTyped, FitTyped, CacheTyped, AskTyped, LoopTyped, EngineTypeOK,
               RefreshStates, AskStates
<1> QED BY <1>1, TypesKept, PTL

\* No value is computed twice at once, and nobody waits for a computation that is over,
\* for any number of clients (_cached).
THEOREM EngineOneLeader == EngineSpec => []OneLeaderPerKey
<1>1. Led => OneLeaderPerKey
  <2> SUFFICES ASSUME Led,
                      NEW key \in inflight \cup {ask[q].key : q \in {p \in Askers :
                                                     ask[p].pc \in {"computing", "following"}}}
               PROVE  /\ key \in inflight
                      /\ Cardinality({q \in Askers : ask[q].key = key /\ ask[q].pc = "computing"}) = 1
        BY DEF OneLeaderPerKey
  <2>1. key \in inflight
        BY DEF Led, Waits
  <2>2. PICK q \in Askers : Leaders(key) = {q}
        BY <2>1 DEF Led
  <2>3. Cardinality({q}) = 1
        BY FS_Singleton
  <2> QED BY <2>1, <2>2, <2>3 DEF Leaders
<1> QED BY <1>1, TypesKept, PTL

-----------------------------------------------------------------------------
(* Answers and fits.                                                        *)

AllHeld == Held \cup {NoFit}

\* Keys whose value is that of the fit they name.
OwnKey(key) == key.tag = "result-set" \/ (key.tag = "reach" /\ key.run = 0)

Fitting(e) ==
    OwnKey(e.key) =>
        /\ e.key.revision <= fit.revision
        /\ \A f \in AllHeld : f.revision = e.key.revision => e.value = f.id
FittingEntries == {e \in Entries : Fitting(e)}

\* A revision names one fit among those anybody holds, none is ahead of the current
\* one's, and who waits asks with the fit its key names.
Agree ==
    /\ \A f, g \in AllHeld : SameFit(f, g)
    /\ \A f \in AllHeld : f.revision <= fit.revision
    /\ \A q \in Askers : Waits(q) /\ ask[q].key.tag # "run-fit" =>
                            ask[q].key.revision = ask[q].fit.revision
    /\ cache \in Seq(FittingEntries)

LEMMA HeldType ==
    ASSUME Typed
    PROVE  /\ \A f \in AllHeld : f \in Fits /\ f.revision \in Int /\ f.id \in Int
                                /\ (f # NoFit => f.revision \in Nat) /\ f.revision >= -1
           /\ fit \in AllHeld /\ NoFit \in AllHeld /\ \A q \in Askers : ask[q].fit \in AllHeld
<1>1. \A f \in AllHeld : f \in Fits
  <2>1. NoFit \in Fits
        BY DEF Fits
  <2> QED BY <2>1 DEF Typed, FitTyped, AskTyped, AskStates, AllHeld, Held
<1>2. NoFit.revision = -1 /\ NoFit.id = -1
      BY DEF NoFit
<1>3. \A f \in Fits \ {NoFit} : f.revision \in Nat /\ f.id \in Nat
  <2>1. Runs \subseteq Nat
        BY EngineAssumption DEF Runs
  <2> QED BY <2>1, KeyTypes
<1> QED BY <1>1, <1>2, <1>3 DEF AllHeld, Held

\* A step that leaves the fit alone, hands out held fits and stores fitting entries.
LEMMA AgreeKept ==
    ASSUME Typed, Agree, fit' = fit, \A q \in Askers : ask'[q].fit \in AllHeld,
           \A q \in Askers : Waits(q)' /\ ask'[q].key.tag # "run-fit" =>
                                ask'[q].key.revision = ask'[q].fit.revision,
           cache' \in Seq(FittingEntries)
    PROVE  Agree'
<1>1. AllHeld' \subseteq AllHeld
      BY DEF AllHeld, Held
<1>2. FittingEntries \subseteq FittingEntries'
      BY <1>1 DEF FittingEntries, Fitting
<1>3. cache' \in Seq(FittingEntries')
      BY <1>2
<1> QED BY <1>1, <1>3 DEF Agree, SameFit

LEMMA AgreeLookup ==
    ASSUME Typed, Led, Agree, NEW q \in Askers, NEW key \in Keys, NEW f \in Fits \ {NoFit},
           f \in AllHeld, key.tag # "run-fit" => key.revision = f.revision,
           ~Waits(q), Lookup(q, key, f), fit' = fit
    PROVE  Agree'
<1>1. /\ \A p \in Askers \ {q} : ask'[p] = ask[p]
      /\ ask'[q].fit \in {f, NoFit}
      /\ Waits(q)' => ask'[q].key = key /\ ask'[q].fit = f
      /\ cache \in Seq(FittingEntries) => cache' \in Seq(FittingEntries)
      BY LookupKeeps DEF Typed
<1>2. \A p \in Askers : ask'[p].fit \in AllHeld
      BY <1>1, HeldType
<1>3. \A p \in Askers : Waits(p)' /\ ask'[p].key.tag # "run-fit" =>
                            ask'[p].key.revision = ask'[p].fit.revision
      BY <1>1 DEF Agree, Waits
<1>4. cache' \in Seq(FittingEntries)
      BY <1>1 DEF Agree
<1> QED BY <1>2, <1>3, <1>4, AgreeKept

LEMMA AgreeNext ==
    ASSUME Typed, Led, Agree, ~overwritten', [EngineNext]_engineVars
    PROVE  Agree'
<1>0. Loop \in Askers /\ Loop \in Refreshers /\ Timer \in Refreshers /\ \A c \in Clients : c \in Askers
      BY DEF Askers, Refreshers
<1>1. ASSUME fit' = fit, cache' = cache, ask' = ask PROVE Agree'
  <2>1. \A q \in Askers : ask'[q].fit \in AllHeld
        BY <1>1, HeldType
  <2>2. cache' \in Seq(FittingEntries)
        /\ \A q \in Askers : Waits(q)' /\ ask'[q].key.tag # "run-fit" =>
                                ask'[q].key.revision = ask'[q].fit.revision
        BY <1>1 DEF Agree, Waits
  <2> QED BY <1>1, <2>1, <2>2, AgreeKept
<1>2. ASSUME NEW r \in Refreshers, WriteFit(r), UNCHANGED lookupVars PROVE Agree'
  <2>1. fit'.revision = fit.revision + 1
        BY <1>2, WriteFitKeeps DEF Typed
  <2>2. cache' = cache /\ ask' = ask
        BY <1>2 DEF lookupVars
  <2>3. AllHeld' \subseteq AllHeld \cup {fit'}
        BY <2>2 DEF AllHeld, Held
  <2>4. \A f \in AllHeld : f.revision \in Int /\ f.revision <= fit.revision /\ fit.revision \in Int
        BY HeldType DEF Agree
  <2>5. \A f \in AllHeld' : f.revision <= fit'.revision
        BY <2>1, <2>3, <2>4, HeldType
  <2>6. \A f \in AllHeld : f.revision # fit'.revision
        BY <2>1, <2>4
  <2>7. \A f, g \in AllHeld' : SameFit(f, g)
        BY <2>3, <2>6 DEF Agree, SameFit
  <2>8. FittingEntries \subseteq FittingEntries'
    <3> SUFFICES ASSUME NEW e \in FittingEntries, OwnKey(e.key)
                 PROVE  /\ e.key.revision <= fit'.revision
                        /\ \A f \in AllHeld' : f.revision = e.key.revision => e.value = f.id
          BY DEF FittingEntries, Fitting
    <3>1. e.key.revision \in Nat
          BY DEF FittingEntries, Entries, Keys
    <3>2. e.key.revision <= fit.revision
          BY DEF FittingEntries, Fitting
    <3>3. fit.revision \in Int
          BY HeldType
    <3>4. e.key.revision <= fit'.revision /\ e.key.revision # fit'.revision
          BY <2>1, <3>1, <3>2, <3>3
    <3>5. \A f \in AllHeld : f.revision = e.key.revision => e.value = f.id
          BY DEF FittingEntries, Fitting
    <3> QED BY <2>3, <3>4, <3>5
  <2>9. cache' \in Seq(FittingEntries')
        BY <2>2, <2>8 DEF Agree
  <2>10. \A q \in Askers : Waits(q)' /\ ask'[q].key.tag # "run-fit" =>
                              ask'[q].key.revision = ask'[q].fit.revision
        BY <2>2 DEF Agree, Waits
  <2> QED BY <2>5, <2>7, <2>9, <2>10 DEF Agree
<1>3. CASE TimerWrites
      BY <1>0, <1>2, <1>3 DEF TimerWrites
<1>4. CASE LoopWrites
      BY <1>0, <1>2, <1>4 DEF LoopWrites
<1>5. CASE \/ PublishSnapshot \/ PublishFit \/ TimerReads
           \/ \E published \in BOOLEAN : EndPass(published)
           \/ LoopRefreshes \/ LoopRefreshFails \/ UNCHANGED engineVars
  <2>1. fit' = fit /\ UNCHANGED lookupVars
        BY <1>5 DEF PublishSnapshot, PublishFit, TimerReads, EndPass, LoopRefreshes, LoopRefreshFails,
                    engineVars, fitVars
  <2> QED BY <1>1, <2>1 DEF lookupVars
<1>6. ASSUME NEW q \in Askers, Finish(q) \/ Fails(q) PROVE Agree'
  <2>1. fit' = fit /\ ask[q].pc = "computing" /\ inflight' = inflight \ {ask[q].key}
        BY <1>6 DEF Finish, Fails, fitVars
  <2> DEFINE key == ask[q].key
             g == ask[q].fit
  <2>2. key \in Keys /\ g \in Fits \ {NoFit} /\ g \in AllHeld /\ Waits(q)
        BY <2>1, HeldType DEF Typed, AskTyped, AskStates, Waits
  <2>3. Compute(key, g) \in Runs /\ 0 \in Runs
    <3>1. key.run \in Runs /\ g.id \in Runs
          BY <2>2, KeyTypes DEF Keys
    <3>2. 0 \in Runs
          BY EngineAssumption DEF Runs
    <3> QED BY <3>1, <3>2 DEF Compute
  <2>4. PICK pc \in {"answered", "failed"}, value \in Runs : ask' = Served(key, pc, value)
        BY <1>6, <2>3 DEF Finish, Fails
  <2>5. \A p \in Askers : ask'[p].fit \in {ask[p].fit, NoFit} /\ (Waits(p)' => ask'[p] = ask[p])
        BY <2>1, <2>4, ServedKeeps DEF Typed
  <2>6. key.tag # "run-fit" => key.revision = g.revision
        BY <2>2 DEF Agree
  <2> HIDE DEF key, g
  <2>7. cache' \in Seq(FittingEntries)
    <3>1. CASE Fails(q)
          BY <3>1 DEF Fails, Agree
    <3>2. CASE Finish(q)
      <4> DEFINE e == [key |-> key, value |-> Compute(key, g)]
      <4>1. cache' = Stored(key, Compute(key, g))
            BY <3>2 DEF Finish, key, g
      <4>2. e \in Entries /\ e.key = key /\ e.value = Compute(key, g)
            BY <2>2, <2>3 DEF Entries
      <4>3. ASSUME OwnKey(key)
            PROVE  /\ key.revision <= fit.revision
                   /\ \A f \in AllHeld : f.revision = key.revision => Compute(key, g) = f.id
        <5>1. key.revision = g.revision /\ Compute(key, g) = g.id
              BY <2>6, <4>3 DEF OwnKey, Compute
        <5>2. g.revision <= fit.revision
              BY <2>2 DEF Agree
        <5>3. \A f \in AllHeld : f.revision = g.revision => f.id = g.id
              BY <2>2 DEF Agree, SameFit
        <5> QED BY <5>1, <5>2, <5>3
      <4>4. Fitting(e)
            BY <4>2, <4>3 DEF Fitting
      <4>5. e \in FittingEntries
            BY <4>2, <4>4 DEF FittingEntries
      <4> QED BY <4>1, <4>5, StoredKeeps DEF Agree
    <3> QED BY <1>6, <3>1, <3>2
  <2>8. \A p \in Askers : ask'[p].fit \in AllHeld
        BY <2>5, HeldType
  <2>9. \A p \in Askers : Waits(p)' /\ ask'[p].key.tag # "run-fit" =>
                              ask'[p].key.revision = ask'[p].fit.revision
        BY <2>5 DEF Agree, Waits
  <2> QED BY <2>1, <2>7, <2>8, <2>9, AgreeKept
<1>7. \A f \in Fits \ {NoFit}, run \in Runs :
          /\ ReachKey(f, run) \in Keys /\ ReachKey(f, run).revision = f.revision
          /\ ResultsKey(f) \in Keys /\ ResultsKey(f).revision = f.revision
          /\ RunFitKey(run) \in Keys /\ RunFitKey(run).tag = "run-fit"
      BY KeyTypes DEF ReachKey, ResultsKey, RunFitKey
<1>8. 0 \in Runs /\ building \in Runs
      BY EngineAssumption DEF Typed, LoopTyped, StoreTyped, Runs
<1>9. ready => fit \in Fits \ {NoFit} /\ fit \in AllHeld
      BY HeldType DEF ready, Typed, FitTyped
<1>10. ASSUME NEW c \in Clients, Request(c) PROVE Agree'
  <2>1. ready /\ ~Waits(c) /\ Lookup(c, ReachKey(fit, 0), fit) /\ fit' = fit
        BY <1>10 DEF Request, Waits, fitVars
  <2> QED BY <1>0, <1>7, <1>8, <1>9, <2>1, AgreeLookup
<1>11. CASE Anchor
  <2>1. CASE snapshots = 0
        BY <1>1, <1>11, <2>1 DEF Anchor, lookupVars, fitVars
  <2>2. CASE snapshots # 0
    <3>1. ready /\ ~Waits(Loop) /\ Lookup(Loop, ResultsKey(fit), fit) /\ fit' = fit
          BY <1>11, <2>2 DEF Anchor, Typed, LoopTyped, Waits, fitVars
    <3> QED BY <1>0, <1>7, <1>8, <1>9, <3>1, AgreeLookup
  <2> QED BY <2>1, <2>2
<1>12. ASSUME ask[Loop].pc = "answered"
       PROVE  /\ ask[Loop].fit \in Fits \ {NoFit} /\ ask[Loop].fit \in AllHeld
              /\ ask[Loop].value \in Runs /\ ~Waits(Loop)
       BY <1>0, <1>12, HeldType DEF Typed, AskTyped, AskStates, Waits
<1>13. CASE AskLegs
  <2>1. ready /\ ~Waits(Loop) /\ Lookup(Loop, RunFitKey(building), fit) /\ fit' = fit
        BY <1>12, <1>13 DEF AskLegs, LoopIs, Typed, LoopTyped, fitVars
  <2> QED BY <1>0, <1>7, <1>8, <1>9, <2>1, AgreeLookup
<1>14. CASE AskThen \/ AskNow
  <2>1. PICK run \in Runs :
            ask[Loop].pc = "answered" /\ Lookup(Loop, ReachKey(ask[Loop].fit, run), ask[Loop].fit)
            /\ fit' = fit
        BY <1>8, <1>12, <1>14 DEF AskThen, AskNow, LoopIs, fitVars
  <2> QED BY <1>0, <1>7, <1>12, <2>1, AgreeLookup
<1>15. CASE PublishReport \/ ReportFails
  <2>1. ask' = [ask EXCEPT ![Loop] = NoAsk] /\ fit' = fit /\ cache' = cache
        BY <1>15 DEF PublishReport, ReportFails, fitVars
  <2>2. ask'[Loop] = NoAsk /\ \A p \in Askers \ {Loop} : ask'[p] = ask[p]
        BY <1>0, <2>1 DEF Typed, AskTyped
  <2>3. NoAsk.pc = "idle" /\ NoAsk.fit = NoFit
        BY DEF NoAsk
  <2>4. \A p \in Askers : ask'[p].fit \in AllHeld
        BY <2>2, <2>3, HeldType
  <2>5. \A p \in Askers : Waits(p)' /\ ask'[p].key.tag # "run-fit" =>
                              ask'[p].key.revision = ask'[p].fit.revision
        BY <2>2, <2>3 DEF Agree, Waits
  <2>6. cache' \in Seq(FittingEntries)
        BY <2>1 DEF Agree
  <2> QED BY <2>1, <2>4, <2>5, <2>6, AgreeKept
<1> QED BY <1>3, <1>4, <1>5, <1>6, <1>10, <1>11, <1>13, <1>14, <1>15 DEF EngineNext, LoopStep, TimerStep

LEMMA OverwrittenStays ==
    ASSUME overwritten, [EngineNext]_engineVars
    PROVE  overwritten'
BY DEF EngineNext, LoopStep, TimerStep, PublishSnapshot, PublishFit, TimerReads, TimerWrites, WriteFit,
       Finish, Fails, Request, EndPass, LoopRefreshes, LoopWrites, LoopRefreshFails, Anchor, AskLegs,
       AskThen, AskNow, PublishReport, ReportFails, engineVars, fitVars

\* Whoever looks up with a fit, the current one or one that was taken before a refresh,
\* is answered with what that fit yields, for any clients, any size of the cache and any
\* number of runs, unless a refresh has written over a fit it had not read (_Fit, _cached).
THEOREM EngineAnswersOwnFit == EngineSpec => []AnswersOwnFit
<1> DEFINE Inv == overwritten \/ Agree
<1>1. EngineInit => Agree
  <2> SUFFICES ASSUME EngineInit PROVE Agree
        OBVIOUS
  <2>1. \A f \in AllHeld : f = NoFit
        BY DEF EngineInit, AllHeld, Held, NoAsk
  <2>2. \A q \in Askers : ~Waits(q)
        BY DEF EngineInit, Waits, NoAsk
  <2>3. cache \in Seq(FittingEntries)
        BY DEF EngineInit
  <2>4. fit = NoFit /\ NoFit.revision = -1
        BY DEF EngineInit, NoFit
  <2> QED BY <2>1, <2>2, <2>3, <2>4 DEF Agree, SameFit
<1>2. Typed /\ Led /\ Inv /\ [EngineNext]_engineVars => Inv'
      BY AgreeNext, OverwrittenStays
<1>3. Typed /\ Inv => AnswersOwnFit
  <2> SUFFICES ASSUME Typed, Agree, NEW f \in Held \ {NoFit}
               PROVE  /\ \A i \in DOMAIN cache :
                             cache[i].key \in {ResultsKey(f), ReachKey(f, 0)} => cache[i].value = f.id
                      /\ \A q \in Askers : ask[q].pc \in {"computing", "following"} =>
                             SameFit(f, ask[q].fit)
        BY DEF AnswersOwnFit
  <2>1. f \in AllHeld
        BY DEF AllHeld
  <2>2. \A q \in Askers : SameFit(f, ask[q].fit)
        BY <2>1, HeldType DEF Agree
  <2>3. \A key \in {ResultsKey(f), ReachKey(f, 0)} : OwnKey(key) /\ key.revision = f.revision
        BY DEF ResultsKey, ReachKey, OwnKey
  <2>4. \A i \in DOMAIN cache : cache[i] \in FittingEntries
        BY DEF Agree
  <2>5. \A i \in DOMAIN cache : Fitting(cache[i])
        BY <2>4 DEF FittingEntries
  <2> QED BY <2>1, <2>2, <2>3, <2>5 DEF Fitting
<1> HIDE DEF Inv
<1>4. EngineInit => Inv
      BY <1>1 DEF Inv
<1> QED BY <1>2, <1>3, <1>4, TypesKept, PTL DEF EngineSpec

-----------------------------------------------------------------------------
(* Tournament.                                                              *)

-----------------------------------------------------------------------------
(* Where a column is.                                                        *)

\* The group matches that have been played.
Scored == IF phase = "groups" THEN next - 1 ELSE Len(GroupMatches)

ColumnTyped ==
    /\ phase \in {"groups", "ranking", "thirds", "knockout", "done"}
    /\ next \in Nat
    /\ phase = "groups" => next \in 1..Len(GroupMatches)
    /\ phase = "ranking" => next \in 1..Len(Groups)
    /\ phase = "thirds" => next = 1
    /\ phase = "knockout" => next \in 1..Len(Knockout)
    /\ phase = "done" => next = Len(Knockout) + 1
    /\ pts \in [Teams -> Nat]

LEMMA LengthFacts ==
    /\ Len(GroupMatches) \in Nat \ {0} /\ DOMAIN GroupMatches = 1..Len(GroupMatches)
    /\ Len(Groups) \in Nat \ {0} /\ DOMAIN Groups = 1..Len(Groups)
    /\ Len(Knockout) \in Nat \ {0} /\ DOMAIN Knockout = 1..Len(Knockout)
<1>1. ASSUME NEW S, NEW q \in Seq(S) \ {<<>>} PROVE Len(q) \in Nat \ {0} /\ DOMAIN q = 1..Len(q)
      OBVIOUS
<1>2. GroupMatches \in Seq(Meetings) \ {<<>>}
      BY ScheduleAssumption
<1>3. Groups \in Seq(Range(Groups)) \ {<<>>}
      BY TournamentAssumption
<1>4. Knockout \in Seq(Ties) \ {<<>>}
      BY BracketAssumption
<1> QED BY <1>1, <1>2, <1>3, <1>4

LEMMA MatchFacts ==
    ASSUME NEW i \in 1..Len(GroupMatches)
    PROVE  LET m == GroupMatches[i]
           IN  /\ m \in Meetings /\ m.group \in Range(Groups) /\ m.home # m.away
               /\ m.home \in Teams /\ m.away \in Teams
               /\ GroupOf[m.home] = m.group /\ GroupOf[m.away] = m.group
<1>1. GroupMatches[i] \in Meetings
      BY LengthFacts DEF Meetings
<1> QED BY <1>1, ScheduleAssumption DEF Members

LEMMA WonFacts == \A for, against : Won(for, against) \in 0..3
BY DEF Won

\* What a group match does to the points.
LEMMA PointsFacts ==
    ASSUME ColumnTyped, PlayGroupMatch
    PROVE  LET m == GroupMatches[next]
           IN  /\ phase = "groups" /\ next \in 1..Len(GroupMatches)
               /\ pts' \in [Teams -> Nat]
               /\ \A t \in Teams : pts[t] <= pts'[t] /\ pts'[t] <= pts[t] + 3
               /\ \A t \in Teams \ {m.home, m.away} : pts'[t] = pts[t]
<1> DEFINE m == GroupMatches[next]
<1>1. phase = "groups" /\ next \in 1..Len(GroupMatches) /\ pts \in [Teams -> Nat]
      BY DEF ColumnTyped, PlayGroupMatch
<1>2. m.home \in Teams /\ m.away \in Teams /\ m.home # m.away
      BY <1>1, MatchFacts
<1>3. PICK s : pts' = [pts EXCEPT ![m.home] = @ + Won(s.home, s.away),
                                  ![m.away] = @ + Won(s.away, s.home)]
      BY Zenon DEF PlayGroupMatch
<1> DEFINE won == Won(s.home, s.away)
           lost == Won(s.away, s.home)
           first == [pts EXCEPT ![m.home] = pts[m.home] + won]
<1>4. won \in 0..3 /\ lost \in 0..3
      BY WonFacts
<1>5. pts' = [first EXCEPT ![m.away] = pts[m.away] + lost]
      BY <1>3, Zenon
<1> HIDE DEF m, won, lost
<1>6. /\ first \in [Teams -> Nat] /\ first[m.home] = pts[m.home] + won
      /\ \A t \in Teams \ {m.home} : first[t] = pts[t]
      BY <1>1, <1>2, <1>4
<1> HIDE DEF first
<1>7. /\ pts' \in [Teams -> Nat] /\ pts'[m.away] = pts[m.away] + lost
      /\ \A t \in Teams \ {m.away} : pts'[t] = first[t]
      BY <1>1, <1>2, <1>4, <1>5, <1>6
<1>8. \A t \in Teams \ {m.home, m.away} : pts'[t] = pts[t]
      BY <1>6, <1>7
<1>9. ASSUME NEW t \in Teams PROVE pts[t] <= pts'[t] /\ pts'[t] <= pts[t] + 3
  <2>1. pts[t] \in Nat /\ won \in Nat /\ lost \in Nat /\ won <= 3 /\ lost <= 3
        BY <1>1, <1>4
  <2>2. CASE t = m.away
        BY <1>2, <1>7, <2>1, <2>2
  <2>3. CASE t = m.home
        BY <1>2, <1>6, <1>7, <2>1, <2>3
  <2>4. CASE t \notin {m.home, m.away}
        BY <1>8, <2>1, <2>4
  <2> QED BY <2>2, <2>3, <2>4
<1> QED BY <1>1, <1>7, <1>8, <1>9 DEF m

LEMMA ColumnInit == TournamentInit => ColumnTyped
BY LengthFacts DEF TournamentInit, ColumnTyped, Zero

LEMMA ColumnNext == ColumnTyped /\ [TournamentNext]_tournamentVars => ColumnTyped'
<1> SUFFICES ASSUME ColumnTyped, [TournamentNext]_tournamentVars PROVE ColumnTyped'
    OBVIOUS
<1>0. /\ next \in Nat /\ pts \in [Teams -> Nat]
      /\ Len(GroupMatches) \in Nat \ {0} /\ Len(Groups) \in Nat \ {0} /\ Len(Knockout) \in Nat \ {0}
      BY LengthFacts DEF ColumnTyped
<1>1. CASE PlayGroupMatch
  <2>1. /\ phase' = IF next = Len(GroupMatches) THEN "ranking" ELSE "groups"
        /\ next' = IF next = Len(GroupMatches) THEN 1 ELSE next + 1
        BY <1>1 DEF PlayGroupMatch
  <2>2. next \in 1..Len(GroupMatches) /\ pts' \in [Teams -> Nat]
        BY <1>1, PointsFacts
  <2>3. CASE next = Len(GroupMatches)
        BY <1>0, <2>1, <2>2, <2>3 DEF ColumnTyped
  <2>4. CASE next # Len(GroupMatches)
        BY <1>0, <2>1, <2>2, <2>4 DEF ColumnTyped
  <2> QED BY <2>3, <2>4
<1>2. CASE RankGroup
  <2>1. /\ phase = "ranking" /\ UNCHANGED pts
        /\ phase' = IF next = Len(Groups) THEN "thirds" ELSE "ranking"
        /\ next' = IF next = Len(Groups) THEN 1 ELSE next + 1
        BY <1>2 DEF RankGroup, tableVars
  <2>2. next \in 1..Len(Groups)
        BY <2>1 DEF ColumnTyped
  <2>3. CASE next = Len(Groups)
        BY <1>0, <2>1, <2>2, <2>3 DEF ColumnTyped
  <2>4. CASE next # Len(Groups)
        BY <1>0, <2>1, <2>2, <2>4 DEF ColumnTyped
  <2> QED BY <2>3, <2>4
<1>3. CASE RankThirds
      BY <1>0, <1>3 DEF RankThirds, ColumnTyped, tableVars
<1>4. CASE PlayTie
  <2>1. /\ phase = "knockout" /\ UNCHANGED pts /\ next' = next + 1
        /\ phase' = IF next = Len(Knockout) THEN "done" ELSE "knockout"
        BY <1>4 DEF PlayTie, tableVars
  <2>2. next \in 1..Len(Knockout)
        BY <2>1 DEF ColumnTyped
  <2>3. CASE next = Len(Knockout)
        BY <1>0, <2>1, <2>2, <2>3 DEF ColumnTyped
  <2>4. CASE next # Len(Knockout)
        BY <1>0, <2>1, <2>2, <2>4 DEF ColumnTyped
  <2> QED BY <2>3, <2>4
<1>5. CASE UNCHANGED tournamentVars
      BY <1>5 DEF tournamentVars, tableVars, ColumnTyped
<1> QED BY <1>1, <1>2, <1>3, <1>4, <1>5 DEF TournamentNext

-----------------------------------------------------------------------------
(* Games and rounds.                                                         *)

LEMMA GamesFacts ==
    ASSUME NEW t \in Teams, NEW n \in 0..Len(GroupMatches)
    PROVE  IsFiniteSet(Games(n, t)) /\ Cardinality(Games(n, t)) \in Nat
<1>1. IsFiniteSet(1..n)
      BY FS_Interval, LengthFacts
<1>2. Games(n, t) \in SUBSET (1..n)
      BY DEF Games
<1> QED BY <1>1, <1>2, FS_Subset, FS_CardinalityType

\* One more match is one more game for the two that play it.
LEMMA OneMoreGame ==
    ASSUME NEW t \in Teams, NEW n \in 1..Len(GroupMatches)
    PROVE  /\ t \in {GroupMatches[n].home, GroupMatches[n].away} =>
                  Cardinality(Games(n, t)) = Cardinality(Games(n - 1, t)) + 1
           /\ t \notin {GroupMatches[n].home, GroupMatches[n].away} =>
                  Cardinality(Games(n, t)) = Cardinality(Games(n - 1, t))
<1>1. n - 1 \in 0..Len(GroupMatches) /\ n \in Nat /\ n - 1 \in Nat
      BY LengthFacts
<1>2. IsFiniteSet(Games(n - 1, t)) /\ Cardinality(Games(n - 1, t)) \in Nat
      BY <1>1, GamesFacts
<1>3. n \notin Games(n - 1, t)
      BY <1>1 DEF Games
<1>4. \A i : i \in 1..n <=> i \in 1..(n - 1) \/ i = n
      BY <1>1
<1>5. CASE t \in {GroupMatches[n].home, GroupMatches[n].away}
  <2>1. Games(n, t) = Games(n - 1, t) \cup {n}
        BY <1>4, <1>5 DEF Games
  <2> QED BY <1>2, <1>3, <1>5, <2>1, FS_AddElement
<1>6. CASE t \notin {GroupMatches[n].home, GroupMatches[n].away}
  <2>1. Games(n, t) = Games(n - 1, t)
        BY <1>4, <1>6 DEF Games
  <2> QED BY <1>6, <2>1
<1> QED BY <1>5, <1>6

\* The meetings of a group that have goals are the rounds it has played.
LEMMA RoundsCount ==
    ASSUME NEW n \in 0..Len(GroupMatches), NEW g, NEW score,
           DOMAIN score = {GroupMatches[i].match : i \in 1..n}
    PROVE  Cardinality({m \in Meetings : m.group = g /\ m.match \in DOMAIN score}) =
               Cardinality(Rounds(n, g))
<1> DEFINE met == {m \in Meetings : m.group = g /\ m.match \in DOMAIN score}
           rounds == Rounds(n, g)
           f == [i \in rounds |-> GroupMatches[i]]
<1>1. n \in Nat /\ 1..n \subseteq DOMAIN GroupMatches
      BY LengthFacts
<1>2. IsFiniteSet(rounds)
  <2>1. IsFiniteSet(1..n)
        BY <1>1, FS_Interval
  <2>2. rounds \in SUBSET (1..n)
        BY DEF Rounds
  <2> QED BY <2>1, <2>2, FS_Subset
<1>3. \A i, j \in DOMAIN GroupMatches : GroupMatches[i].match = GroupMatches[j].match => i = j
      BY ScheduleAssumption
<1>4. ASSUME NEW m \in met PROVE \E i \in rounds : m = GroupMatches[i]
  <2>1. PICK j \in DOMAIN GroupMatches : m = GroupMatches[j]
        BY DEF Meetings
  <2>2. PICK i \in 1..n : m.match = GroupMatches[i].match
        OBVIOUS
  <2>3. i = j
        BY <1>1, <1>3, <2>1, <2>2
  <2> QED BY <2>1, <2>2, <2>3 DEF Rounds
<1>5. ASSUME NEW i \in rounds PROVE GroupMatches[i] \in met
      BY <1>1 DEF Rounds, Meetings
<1> HIDE DEF met
<1>6. f \in Surjection(rounds, met)
      BY <1>4, <1>5 DEF Surjection
<1>7. f \in Injection(rounds, met)
  <2>1. \A i \in rounds : i \in DOMAIN GroupMatches
        BY <1>1 DEF Rounds
  <2> QED BY <1>3, <1>5, <2>1 DEF Injection, IsInjective
<1> HIDE DEF f, rounds
<1>8. Cardinality(met) = Cardinality(rounds)
      BY <1>2, <1>6, <1>7, FS_Surjection
<1> QED BY <1>8 DEF met, rounds

-----------------------------------------------------------------------------
(* Locks.                                                                    *)

\* What team o can still reach stays below a team that is locked.
OutOfReach ==
    /\ DOMAIN goals = {GroupMatches[i].match : i \in 1..Scored}
    /\ locked \subseteq Teams
    /\ \A t \in locked : \A o \in Members(GroupOf[t]) \ {t} :
          pts[o] + 3 * (GAMES_PER_TEAM - Cardinality(Games(Scored, o))) < pts[t]

\* The groups that have been ranked, and the places of their teams.
Ranked ==
    CASE phase = "groups" -> 0 [] phase = "ranking" -> next - 1
      [] phase \notin {"groups", "ranking"} -> Len(Groups)

Placed ==
    /\ DOMAIN place = {t \in Teams : \E i \in 1..Ranked : GroupOf[t] = Groups[i]}
    /\ \A i \in 1..Ranked :
          [t \in Members(Groups[i]) |-> place[t]] \in Bijection(Members(Groups[i]), 0..3)
    /\ \A t \in locked \cap DOMAIN place : place[t] = 0

LEMMA ScoredFacts ==
    ASSUME ColumnTyped
    PROVE  /\ Scored \in 0..Len(GroupMatches)
           /\ PlayGroupMatch => Scored = next - 1 /\ Scored' = next
           /\ RankGroup \/ RankThirds \/ PlayTie \/ UNCHANGED tournamentVars => Scored' = Scored
           /\ phase # "groups" => Scored = Len(GroupMatches)
<1>0. Len(GroupMatches) \in Nat \ {0}
      BY LengthFacts
<1>1. Scored \in 0..Len(GroupMatches) /\ (phase # "groups" => Scored = Len(GroupMatches))
  <2>1. CASE phase = "groups"
        BY <1>0, <2>1 DEF Scored, ColumnTyped
  <2>2. CASE phase # "groups"
        BY <1>0, <2>2 DEF Scored
  <2> QED BY <2>1, <2>2
<1>2. ASSUME PlayGroupMatch PROVE Scored = next - 1 /\ Scored' = next
  <2>1. /\ phase = "groups"
        /\ phase' = IF next = Len(GroupMatches) THEN "ranking" ELSE "groups"
        /\ next' = IF next = Len(GroupMatches) THEN 1 ELSE next + 1
        BY <1>2 DEF PlayGroupMatch
  <2>2. next \in 1..Len(GroupMatches)
        BY <2>1 DEF ColumnTyped
  <2>3. CASE next = Len(GroupMatches)
        BY <1>0, <2>1, <2>2, <2>3 DEF Scored
  <2>4. CASE next # Len(GroupMatches)
        BY <1>0, <2>1, <2>2, <2>4 DEF Scored
  <2> QED BY <2>3, <2>4
<1>3. ASSUME RankGroup \/ RankThirds \/ PlayTie PROVE Scored' = Scored
  <2>1. phase # "groups" /\ phase' # "groups"
    <3>1. CASE RankGroup
      <4>1. phase = "ranking" /\ phase' = IF next = Len(Groups) THEN "thirds" ELSE "ranking"
            BY <3>1 DEF RankGroup
      <4> QED BY <4>1
    <3>2. CASE RankThirds
          BY <3>2 DEF RankThirds
    <3>3. CASE PlayTie
      <4>1. phase = "knockout" /\ phase' = IF next = Len(Knockout) THEN "done" ELSE "knockout"
            BY <3>3 DEF PlayTie
      <4> QED BY <4>1
    <3> QED BY <1>3, <3>1, <3>2, <3>3
  <2> QED BY <2>1 DEF Scored
<1>4. ASSUME UNCHANGED tournamentVars PROVE Scored' = Scored
      BY <1>4 DEF Scored, tournamentVars
<1> QED BY <1>1, <1>2, <1>3, <1>4

LEMMA JoinedFacts ==
    ASSUME NEW f, NEW g
    PROVE  /\ DOMAIN Joined(f, g) = DOMAIN f \cup DOMAIN g
           /\ \A x \in DOMAIN f : Joined(f, g)[x] = f[x]
           /\ \A x \in DOMAIN g : x \notin DOMAIN f => Joined(f, g)[x] = g[x]
BY DEF Joined

\* A matchday's lock is out of reach of the rest of its group.
LEMMA LockedAfter ==
    ASSUME NEW n \in 1..Len(GroupMatches), NEW score, NEW points, NEW g \in Range(Groups),
           DOMAIN score = {GroupMatches[i].match : i \in 1..n},
           NEW t \in LocksAfter(g, score, points)
    PROVE  /\ t \in Teams /\ GroupOf[t] = g
           /\ \A o \in Members(g) \ {t} :
                  points[o] + 3 * (GAMES_PER_TEAM - Cardinality(Games(n, o))) < points[t]
<1> DEFINE rounds == Cardinality({m \in Meetings : m.group = g /\ m.match \in DOMAIN score})
<1>1. n \in 0..Len(GroupMatches)
      BY LengthFacts
<1>2. rounds = Cardinality(Rounds(n, g))
      BY <1>1, RoundsCount
<1>3. /\ rounds % MATCHES_PER_MATCHDAY = 0
      /\ t \in Members(g)
      /\ Certain(t, points, GAMES_PER_TEAM - (rounds \div MATCHES_PER_MATCHDAY))
      BY Zenon DEF LocksAfter
<1>4. t \in Teams /\ GroupOf[t] = g
      BY <1>3 DEF Members
<1> HIDE DEF rounds
<1>5. ASSUME NEW o \in Members(g) \ {t}
      PROVE  points[o] + 3 * (GAMES_PER_TEAM - Cardinality(Games(n, o))) < points[t]
  <2>1. o \in Teams /\ GroupOf[o] = g
        BY DEF Members
  <2>2. Cardinality(Games(n, o)) = rounds \div MATCHES_PER_MATCHDAY
    <3>1. LET r == Cardinality(Rounds(n, GroupOf[o]))
          IN  r % MATCHES_PER_MATCHDAY = 0 => Cardinality(Games(n, o)) = r \div MATCHES_PER_MATCHDAY
          BY <1>1, <2>1, ScheduleAssumption
    <3> QED BY <1>2, <1>3, <2>1, <3>1
  <2>3. points[o] + 3 * (GAMES_PER_TEAM - (rounds \div MATCHES_PER_MATCHDAY)) < points[t]
        BY <1>3, <1>4 DEF Certain
  <2> QED BY <2>2, <2>3
<1> QED BY <1>4, <1>5

LEMMA OutOfReachInit == TournamentInit => OutOfReach
<1> SUFFICES ASSUME TournamentInit PROVE OutOfReach
    OBVIOUS
<1>1. Scored = 0 /\ goals = <<>> /\ locked = {}
      BY DEF TournamentInit, Scored
<1>2. DOMAIN goals = {} /\ 1..Scored = {}
      BY <1>1
<1> QED BY <1>1, <1>2 DEF OutOfReach

\* One game more brings three points at most, and takes three from what remains.
LEMMA StillOutOfReach ==
    ASSUME ColumnTyped, OutOfReach, PlayGroupMatch,
           NEW t \in locked, NEW o \in Members(GroupOf[t]) \ {t}
    PROVE  pts'[o] + 3 * (GAMES_PER_TEAM - Cardinality(Games(next, o))) < pts'[t]
<1> DEFINE before == Cardinality(Games(next - 1, o))
           after == Cardinality(Games(next, o))
<1>1. o \in Teams /\ t \in Teams /\ next \in 1..Len(GroupMatches) /\ next - 1 \in 0..Len(GroupMatches)
      BY PointsFacts, LengthFacts DEF Members, OutOfReach
<1>2. pts[o] + 3 * (GAMES_PER_TEAM - before) < pts[t]
      BY ScoredFacts DEF OutOfReach
<1>3. /\ before \in Nat /\ after \in Nat
      /\ pts[o] \in Nat /\ pts[t] \in Nat /\ pts'[o] \in Nat /\ pts'[t] \in Nat
  <2>1. before \in Nat
        BY <1>1, GamesFacts
  <2>2. next \in 0..Len(GroupMatches)
        BY <1>1
  <2>3. after \in Nat
        BY <1>1, <2>2, GamesFacts
  <2>4. pts \in [Teams -> Nat] /\ pts' \in [Teams -> Nat]
        BY PointsFacts DEF ColumnTyped
  <2> QED BY <1>1, <2>1, <2>3, <2>4
<1>4. pts[t] <= pts'[t] /\ pts'[o] <= pts[o] + 3
      BY <1>1, PointsFacts
<1>5. CASE o \in {GroupMatches[next].home, GroupMatches[next].away}
  <2>1. after = before + 1
        BY <1>1, <1>5, OneMoreGame
  <2> HIDE DEF before, after
  <2>2. pts'[o] + 3 * (3 - after) < pts'[t]
        BY <1>2, <1>3, <1>4, <2>1 DEF GAMES_PER_TEAM
  <2> QED BY <2>2 DEF after, GAMES_PER_TEAM
<1>6. CASE o \notin {GroupMatches[next].home, GroupMatches[next].away}
  <2>1. after = before
        BY <1>1, <1>6, OneMoreGame
  <2>2. pts'[o] = pts[o]
        BY <1>1, <1>6, PointsFacts
  <2> HIDE DEF before, after
  <2>3. pts'[o] + 3 * (3 - after) < pts'[t]
        BY <1>2, <1>3, <1>4, <2>1, <2>2 DEF GAMES_PER_TEAM
  <2> QED BY <2>3 DEF after, GAMES_PER_TEAM
<1> QED BY <1>5, <1>6

LEMMA OutOfReachNext ==
    ColumnTyped /\ OutOfReach /\ [TournamentNext]_tournamentVars => OutOfReach'
<1> SUFFICES ASSUME ColumnTyped, OutOfReach, [TournamentNext]_tournamentVars PROVE OutOfReach'
    OBVIOUS
<1>1. CASE PlayGroupMatch
  <2> DEFINE m == GroupMatches[next]
  <2>1. next \in 1..Len(GroupMatches) /\ Scored = next - 1 /\ Scored' = next
        BY <1>1, PointsFacts, ScoredFacts
  <2>2. PICK s : /\ goals' = Joined(goals, [n \in {m.match} |-> s])
                 /\ locked' = locked \cup LocksAfter(m.group, goals', pts')
        BY <1>1, Zenon DEF PlayGroupMatch
  <2>3. DOMAIN goals' = {GroupMatches[i].match : i \in 1..next}
    <3>1. DOMAIN goals' = DOMAIN goals \cup {m.match}
          BY <2>2, JoinedFacts, Zenon
    <3>2. DOMAIN goals = {GroupMatches[i].match : i \in 1..(next - 1)}
          BY <2>1 DEF OutOfReach
    <3>3. \A i : i \in 1..next <=> i \in 1..(next - 1) \/ i = next
          BY <2>1, LengthFacts
    <3> QED BY <3>1, <3>2, <3>3
  <2>4. m.group \in Range(Groups)
        BY <2>1, MatchFacts
  <2>5. ASSUME NEW t \in locked'
        PROVE  /\ t \in Teams
               /\ \A o \in Members(GroupOf[t]) \ {t} :
                      pts'[o] + 3 * (GAMES_PER_TEAM - Cardinality(Games(next, o))) < pts'[t]
    <3>1. CASE t \in locked
          BY <1>1, <3>1, StillOutOfReach DEF OutOfReach
    <3>2. CASE t \in LocksAfter(m.group, goals', pts')
      <4> HIDE DEF m
      <4> QED BY <2>1, <2>3, <2>4, <3>2, LockedAfter
    <3> QED BY <2>2, <3>1, <3>2
  <2> QED BY <2>1, <2>3, <2>5 DEF OutOfReach, Games
<1>2. CASE RankGroup \/ RankThirds \/ PlayTie
  <2>1. UNCHANGED tableVars
        BY <1>2 DEF RankGroup, RankThirds, PlayTie
  <2>2. Scored' = Scored
        BY <1>2, ScoredFacts
  <2> QED BY <2>1, <2>2 DEF OutOfReach, tableVars, Games
<1>3. CASE UNCHANGED tournamentVars
      BY <1>3, ScoredFacts DEF OutOfReach, tournamentVars, tableVars, Games
<1> QED BY <1>1, <1>2, <1>3 DEF TournamentNext

\* A team that is out of reach at the end of the group is ranked first in every ranking.
LEMMA LockedIsFirst ==
    ASSUME ColumnTyped, OutOfReach, phase = "ranking",
           NEW g \in Range(Groups), NEW r \in Rankings(g), NEW t \in locked, t \in Members(g)
    PROVE  r[t] = 0
<1>1. /\ r \in Bijection(Members(g), 0..3)
      /\ \A o, p \in Members(g) : r[o] > r[p] => ~RanksAbove(o, p)
      BY DEF Rankings
<1>2. PICK o \in Members(g) : r[o] = 0
      BY <1>1 DEF Bijection, Surjection
<1>3. GroupOf[t] = g /\ t \in Teams /\ o \in Teams
      BY DEF Members
<1>4. CASE o = t
      BY <1>2, <1>4
<1>5. CASE o # t
  <2>1. pts[o] + 3 * (GAMES_PER_TEAM - Cardinality(Games(Scored, o))) < pts[t]
        BY <1>3, <1>5 DEF OutOfReach
  <2>2. Cardinality(Games(Scored, o)) = GAMES_PER_TEAM
        BY <1>3, ScoredFacts, ScheduleAssumption
  <2>3. pts[o] < pts[t]
    <3>1. pts[o] \in Nat /\ pts[t] \in Nat
          BY <1>3 DEF ColumnTyped
    <3> QED BY <2>1, <2>2, <3>1 DEF GAMES_PER_TEAM
  <2>4. Above(Table(t), Table(o))
    <3>1. 1 \in DOMAIN Table(t) /\ Table(t)[1] = pts[t] /\ Table(o)[1] = pts[o] /\ 1..0 = {}
          BY DEF Table
    <3>2. pts[t] \in Nat /\ pts[o] \in Nat
          BY <1>3 DEF ColumnTyped
    <3> QED BY <2>3, <3>1, <3>2 DEF Above
  <2>5. ~(r[t] > r[o])
        BY <1>1, <2>4 DEF RanksAbove
  <2>6. r[t] \in 0..3
        BY <1>1 DEF Bijection, Injection
  <2> QED BY <1>2, <2>5, <2>6
<1> QED BY <1>4, <1>5

\* Before any group is ranked no team has a place.
LEMMA PlacedInit == TournamentInit => Placed
<1> SUFFICES ASSUME TournamentInit PROVE Placed
    OBVIOUS
<1>1. Ranked = 0 /\ place = <<>>
      BY DEF TournamentInit, Ranked
<1>2. DOMAIN place = {} /\ 1..Ranked = {}
      BY <1>1
<1> QED BY <1>2 DEF Placed

LEMMA RankedFacts ==
    ASSUME ColumnTyped
    PROVE  /\ Ranked \in 0..Len(Groups)
           /\ phase = "groups" => Ranked = 0
           /\ PlayGroupMatch => Ranked = 0 /\ Ranked' = 0
           /\ RankGroup => Ranked = next - 1 /\ Ranked' = next
           /\ RankThirds \/ PlayTie \/ UNCHANGED tournamentVars => Ranked' = Ranked
           /\ phase \notin {"groups", "ranking"} => Ranked = Len(Groups)
<1>0. Len(Groups) \in Nat \ {0}
      BY LengthFacts
<1>1. /\ Ranked \in 0..Len(Groups) /\ (phase = "groups" => Ranked = 0)
      /\ phase \notin {"groups", "ranking"} => Ranked = Len(Groups)
  <2>1. CASE phase = "groups"
        BY <1>0, <2>1 DEF Ranked
  <2>2. CASE phase = "ranking"
        BY <1>0, <2>2 DEF Ranked, ColumnTyped
  <2>3. CASE phase \notin {"groups", "ranking"}
        BY <1>0, <2>3 DEF Ranked
  <2> QED BY <2>1, <2>2, <2>3
<1>2. ASSUME PlayGroupMatch PROVE Ranked = 0 /\ Ranked' = 0
  <2>1. /\ phase = "groups"
        /\ phase' = IF next = Len(GroupMatches) THEN "ranking" ELSE "groups"
        /\ next' = IF next = Len(GroupMatches) THEN 1 ELSE next + 1
        BY <1>2 DEF PlayGroupMatch
  <2>2. CASE next = Len(GroupMatches)
        BY <2>1, <2>2 DEF Ranked
  <2>3. CASE next # Len(GroupMatches)
        BY <2>1, <2>3 DEF Ranked
  <2> QED BY <2>2, <2>3
<1>3. ASSUME RankGroup PROVE Ranked = next - 1 /\ Ranked' = next
  <2>1. /\ phase = "ranking"
        /\ phase' = IF next = Len(Groups) THEN "thirds" ELSE "ranking"
        /\ next' = IF next = Len(Groups) THEN 1 ELSE next + 1
        BY <1>3 DEF RankGroup
  <2>2. next \in 1..Len(Groups)
        BY <2>1 DEF ColumnTyped
  <2>3. CASE next = Len(Groups)
        BY <1>0, <2>1, <2>2, <2>3 DEF Ranked
  <2>4. CASE next # Len(Groups)
        BY <1>0, <2>1, <2>2, <2>4 DEF Ranked
  <2> QED BY <2>3, <2>4
<1>4. ASSUME RankThirds PROVE Ranked' = Ranked
      BY <1>4 DEF RankThirds, Ranked
<1>5. ASSUME PlayTie PROVE Ranked' = Ranked
  <2>1. phase = "knockout" /\ phase' = IF next = Len(Knockout) THEN "done" ELSE "knockout"
        BY <1>5 DEF PlayTie
  <2> QED BY <2>1 DEF Ranked
<1>6. ASSUME UNCHANGED tournamentVars PROVE Ranked' = Ranked
      BY <1>6 DEF Ranked, tournamentVars
<1> QED BY <1>1, <1>2, <1>3, <1>4, <1>5, <1>6

LEMMA PlacedNext ==
    ColumnTyped /\ OutOfReach /\ Placed /\ [TournamentNext]_tournamentVars => Placed'
<1> SUFFICES ASSUME ColumnTyped, OutOfReach, Placed, [TournamentNext]_tournamentVars PROVE Placed'
    OBVIOUS
<1>1. CASE PlayGroupMatch
  <2>1. Ranked = 0 /\ Ranked' = 0 /\ place' = place
        BY <1>1, RankedFacts DEF PlayGroupMatch
  <2>2. 1..Ranked = {} /\ 1..Ranked' = {}
        BY <2>1
  <2>3. DOMAIN place = {} /\ DOMAIN place' = {}
        BY <2>1, <2>2 DEF Placed
  <2> QED BY <2>2, <2>3 DEF Placed
<1>2. CASE RankGroup
  <2> DEFINE g == Groups[next]
  <2>1. /\ phase = "ranking" /\ next \in 1..Len(Groups)
        /\ Ranked = next - 1 /\ Ranked' = next /\ locked' = locked
        BY <1>2, RankedFacts DEF RankGroup, ColumnTyped, tableVars
  <2>2. PICK r \in Rankings(g) : place' = Joined(place, r)
        BY <1>2, Zenon DEF RankGroup
  <2>3. r \in Bijection(Members(g), 0..3) /\ DOMAIN r = Members(g)
        BY <2>2 DEF Rankings, Bijection, Injection
  <2>4. g \in Range(Groups) /\ next \in DOMAIN Groups
        BY <2>1, LengthFacts DEF Range
  <2>5. \A i : i \in 1..next <=> i \in 1..(next - 1) \/ i = next
        BY <2>1, LengthFacts
  <2>6. \A i \in 1..(next - 1) : Groups[i] # g
    <3>1. IsInjective(Groups)
          BY TournamentAssumption
    <3>2. \A i \in 1..(next - 1) : i \in DOMAIN Groups /\ i # next
          BY <2>1, LengthFacts
    <3> QED BY <2>4, <3>1, <3>2 DEF IsInjective
  <2>7. DOMAIN place = {t \in Teams : \E i \in 1..(next - 1) : GroupOf[t] = Groups[i]}
        BY <2>1 DEF Placed
  <2>8. Members(g) \cap DOMAIN place = {}
        BY <2>6, <2>7 DEF Members
  <2>9. /\ DOMAIN place' = DOMAIN place \cup Members(g)
        /\ \A t \in DOMAIN place : place'[t] = place[t]
        /\ \A t \in Members(g) : place'[t] = r[t]
    <3>1. DOMAIN place' = DOMAIN place \cup Members(g)
          BY <2>2, <2>3, JoinedFacts, Zenon
    <3>2. /\ \A t \in DOMAIN place : Joined(place, r)[t] = place[t]
          /\ \A t \in DOMAIN r : t \notin DOMAIN place => Joined(place, r)[t] = r[t]
          BY JoinedFacts
    <3>3. /\ \A t \in DOMAIN place : place'[t] = place[t]
          /\ \A t \in DOMAIN r : t \notin DOMAIN place => place'[t] = r[t]
          BY <2>2, <3>2
    <3>4. \A t \in Members(g) : place'[t] = r[t]
          BY <2>3, <2>8, <3>3
    <3> QED BY <3>1, <3>3, <3>4
  <2>10. DOMAIN place' = {t \in Teams : \E i \in 1..next : GroupOf[t] = Groups[i]}
    <3>1. \A t : t \in Members(g) <=> t \in Teams /\ GroupOf[t] = Groups[next]
          BY DEF Members
    <3> HIDE DEF g
    <3> QED BY <2>5, <2>7, <2>9, <3>1
  <2>11. ASSUME NEW i \in 1..next
         PROVE  [t \in Members(Groups[i]) |-> place'[t]] \in Bijection(Members(Groups[i]), 0..3)
    <3>1. CASE i = next
      <4>1. [t \in Members(g) |-> place'[t]] = r
            BY <2>3, <2>9 DEF Bijection, Injection
      <4> QED BY <2>3, <3>1, <4>1
    <3>2. CASE i \in 1..(next - 1)
      <4>1. Members(Groups[i]) \subseteq DOMAIN place
            BY <2>7, <3>2 DEF Members
      <4>2. [t \in Members(Groups[i]) |-> place'[t]] = [t \in Members(Groups[i]) |-> place[t]]
            BY <2>9, <4>1
      <4>3. [t \in Members(Groups[i]) |-> place[t]] \in Bijection(Members(Groups[i]), 0..3)
            BY <2>1, <3>2 DEF Placed
      <4> QED BY <4>2, <4>3
    <3> QED BY <2>5, <3>1, <3>2
  <2>12. ASSUME NEW t \in locked \cap DOMAIN place' PROVE place'[t] = 0
    <3>1. CASE t \in DOMAIN place
          BY <2>9, <3>1 DEF Placed
    <3>2. CASE t \in Members(g)
      <4> HIDE DEF g
      <4>1. r[t] = 0
            BY <2>1, <2>2, <2>4, <3>2, LockedIsFirst
      <4> QED BY <2>9, <3>2, <4>1
    <3> QED BY <2>9, <3>1, <3>2
  <2> QED BY <2>1, <2>10, <2>11, <2>12 DEF Placed, Members
<1>3. CASE RankThirds \/ PlayTie
  <2>1. Ranked' = Ranked /\ place' = place /\ locked' = locked
        BY <1>3, RankedFacts DEF RankThirds, PlayTie, tableVars
  <2> QED BY <2>1 DEF Placed, Members
<1>4. CASE UNCHANGED tournamentVars
  <2>1. Ranked' = Ranked /\ place' = place /\ locked' = locked
        BY <1>4, RankedFacts DEF tournamentVars, tableVars
  <2> QED BY <2>1 DEF Placed, Members
<1> QED BY <1>1, <1>2, <1>3, <1>4 DEF TournamentNext

LockInv == ColumnTyped /\ OutOfReach /\ Placed

\* lock.py: a team whose first place was certain after a matchday wins its group in every
\* continuation of the group matches, whatever the tiebreaks and the lots.
THEOREM LockedWinItsGroup == TournamentSpec => []LocksHold
<1>1. TournamentInit => LockInv
      BY ColumnInit, OutOfReachInit, PlacedInit DEF LockInv
<1>2. LockInv /\ [TournamentNext]_tournamentVars => LockInv'
      BY ColumnNext, OutOfReachNext, PlacedNext DEF LockInv
<1>3. LockInv => LocksHold
      BY DEF LockInv, Placed, LocksHold
<1> QED BY <1>1, <1>2, <1>3, PTL DEF TournamentSpec

-----------------------------------------------------------------------------
(* Fixtures.                                                                 *)

LEMMA TiesFinite == IsFiniteSet(Ties)
<1> DEFINE S == 1..Len(Knockout)
           f == [i \in S |-> Knockout[i]]
<1>1. IsFiniteSet(S)
      BY LengthFacts, FS_Interval
<1>2. f \in Surjection(S, Ties)
      BY LengthFacts DEF Ties, Surjection
<1> HIDE DEF S, f
<1> QED BY <1>1, <1>2, FS_Surjection

\* The one tie of a set is the tie that is in it.
LEMMA OnlyTie ==
    ASSUME NEW S \in SUBSET Ties, Cardinality(S) = 1, NEW k \in S
    PROVE  (CHOOSE l \in S : TRUE) = k
<1>1. IsFiniteSet(S)
      BY TiesFinite, FS_Subset
<1>2. PICK x : S = {x}
      BY <1>1, FS_Singleton
<1> QED BY <1>2

LEMMA TieIsFound ==
    ASSUME NEW k \in Ties, NEW f, f.kickoff \in {k.kickoff, 0}, f.date = k.date,
           f.city \in {k.city, NoCity}
    PROVE  /\ KnockoutMatch(f) \in {k.match, NoMatch}
           /\ f.city # NoCity => KnockoutMatch(f) = k.match
<1> DEFINE exact == {l \in Ties : l.kickoff = f.kickoff}
           day == {l \in Ties : l.date = f.date}
           there == {l \in day : l.city = f.city}
<1>1. exact \in SUBSET Ties /\ day \in SUBSET Ties /\ there \in SUBSET Ties /\ k \in day
      OBVIOUS
<1>2. Cardinality(exact) = 1 => (CHOOSE l \in exact : TRUE) = k
  <2> SUFFICES ASSUME Cardinality(exact) = 1 PROVE (CHOOSE l \in exact : TRUE) = k
      OBVIOUS
  <2>1. f.kickoff # 0
    <3> SUFFICES ASSUME f.kickoff = 0 PROVE FALSE
        OBVIOUS
    <3>1. exact = {}
          BY CalendarAssumption
    <3> HIDE DEF exact
    <3> QED BY <3>1, FS_EmptySet
  <2>2. k \in exact
        BY <2>1
  <2> HIDE DEF exact
  <2> QED BY <1>1, <2>2, OnlyTie
<1>3. Cardinality(day) = 1 => (CHOOSE l \in day : TRUE) = k
  <2> HIDE DEF day
  <2> QED BY <1>1, OnlyTie
<1>4. ASSUME f.city # NoCity
      PROVE  Cardinality(there) = 1 /\ (CHOOSE l \in there : TRUE) = k
  <2>1. there = {k}
        BY <1>4, CalendarAssumption
  <2> HIDE DEF there
  <2>2. Cardinality(there) = 1
        BY <2>1, FS_Singleton
  <2> QED BY <2>1, <2>2
<1>5. KnockoutMatch(f) =
        CASE Cardinality(exact) = 1 -> (CHOOSE l \in exact : TRUE).match
          [] Cardinality(exact) # 1 /\ Cardinality(day) = 1 -> (CHOOSE l \in day : TRUE).match
          [] Cardinality(exact) # 1 /\ Cardinality(day) # 1 /\ f.city # NoCity
                /\ Cardinality(there) = 1 -> (CHOOSE l \in there : TRUE).match
          [] OTHER -> NoMatch
      BY DEF KnockoutMatch
<1> HIDE DEF exact, day, there
<1> QED BY <1>2, <1>3, <1>4, <1>5, Zenon

LEMMA FixtureOfTie ==
    ASSUME NEW k \in Ties, NEW f \in Fixtures(k), f.home # f.away
    PROVE  LET met == Met(tie[k.match].home, tie[k.match].away)
           IN  /\ ResolveFixture(f) \in IF met = {} THEN {k.match, NoMatch} ELSE met
               /\ met = {} /\ f.city # NoCity => ResolveFixture(f) = k.match
<1> DEFINE met == Met(tie[k.match].home, tie[k.match].away)
<1>1. /\ f.home \in {tie[k.match].home, tie[k.match].away}
      /\ f.away \in {tie[k.match].home, tie[k.match].away}
      /\ f.kickoff \in {k.kickoff, 0} /\ f.date = k.date /\ f.city \in {k.city, NoCity}
      BY DEF Fixtures
<1>2. {f.home, f.away} = {tie[k.match].home, tie[k.match].away}
      BY <1>1
<1>3. met = {m.match : m \in GroupMatch(f)}
      BY <1>2, Zenon DEF GroupMatch, Met
<1>4. CASE met = {}
  <2>1. GroupMatch(f) = {}
        BY <1>3, <1>4
  <2>2. ResolveFixture(f) = KnockoutMatch(f)
        BY <2>1 DEF ResolveFixture
  <2>3. /\ KnockoutMatch(f) \in {k.match, NoMatch}
        /\ f.city # NoCity => KnockoutMatch(f) = k.match
        BY <1>1, TieIsFound
  <2> QED BY <1>4, <2>2, <2>3
<1>5. CASE met # {}
  <2>1. GroupMatch(f) # {}
        BY <1>3, <1>5
  <2>2. (CHOOSE m \in GroupMatch(f) : TRUE) \in GroupMatch(f)
        BY <2>1
  <2>3. ResolveFixture(f) = (CHOOSE m \in GroupMatch(f) : TRUE).match
        BY <2>1 DEF ResolveFixture
  <2>4. ResolveFixture(f) \in met
        BY <1>3, <2>2, <2>3, Zenon
  <2> QED BY <1>5, <2>4
<1> QED BY <1>4, <1>5

\* overlay.py: "Map a provider fixture onto the tournament match id": a fixture of a tie is taken
\* for that tie or for none, and with its city always for that tie, unless the two teams met in
\* their group; then it is always taken for that match.
THEOREM FixtureIsItsTie == TournamentSpec => []FixturesFound
<1>1. FixturesFound
      BY FixtureOfTie, Zenon DEF FixturesFound
<1> QED BY <1>1, PTL

-----------------------------------------------------------------------------
(* The bracket.                                                              *)

\* The ties that have been played, in their order.
Drawn ==
    CASE phase = "knockout" -> next - 1 [] phase = "done" -> Len(Knockout)
      [] phase \notin {"knockout", "done"} -> 0

Sides(k) == {tie[k.match].home, tie[k.match].away}

\* A tie's sides are what its slots stand for, and one of them won.
Sided(k) ==
    /\ tie[k.match].home = Resolve(k.home, k.match)
    /\ tie[k.match].away = Resolve(k.away, k.match)
    /\ tie[k.match].home # tie[k.match].away
    /\ tie[k.match].winner \in Sides(k)
    /\ Sides(k) \subseteq Teams

\* Nobody plays twice in a stage.
Bracketed ==
    /\ phase \in {"knockout", "done"} => qualified \in DOMAIN Allocation
    /\ DOMAIN tie = {Knockout[i].match : i \in 1..Drawn}
    /\ \A i \in 1..Drawn : Sided(Knockout[i])
    /\ \A i, j \in 1..Drawn :
          i # j /\ Knockout[i].stage = Knockout[j].stage => Sides(Knockout[i]) \cap Sides(Knockout[j]) = {}

LEMMA SlotFacts ==
    /\ \A pos, g : /\ FinishOf(pos, g).kind = "finish"
                   /\ FinishOf(pos, g).pos = pos /\ FinishOf(pos, g).group = g
    /\ Third.kind = "third"
    /\ \A match : WinnerOf(match).kind = "winner" /\ WinnerOf(match).of = match
    /\ \A match : LoserOf(match).kind = "loser" /\ LoserOf(match).of = match
BY DEF FinishOf, Third, WinnerOf, LoserOf

LEMMA ResolveFacts ==
    /\ \A pos, g, n : Resolve(FinishOf(pos, g), n) = At(pos, g)
    /\ \A n : Resolve(Third, n) = ThirdIn(n)
    /\ \A match, n : Resolve(WinnerOf(match), n) = tie[match].winner
    /\ \A match, n : Resolve(LoserOf(match), n) =
          IF tie[match].winner = tie[match].home THEN tie[match].away ELSE tie[match].home
<1>1. ASSUME NEW pos, NEW g, NEW n PROVE Resolve(FinishOf(pos, g), n) = At(pos, g)
      BY SlotFacts DEF Resolve
<1>2. ASSUME NEW n PROVE Resolve(Third, n) = ThirdIn(n)
      BY SlotFacts DEF Resolve
<1>3. ASSUME NEW match, NEW n PROVE Resolve(WinnerOf(match), n) = tie[match].winner
      BY SlotFacts DEF Resolve
<1>4. ASSUME NEW match, NEW n
      PROVE  Resolve(LoserOf(match), n) =
                 IF tie[match].winner = tie[match].home THEN tie[match].away ELSE tie[match].home
      BY SlotFacts DEF Resolve
<1> QED BY <1>1, <1>2, <1>3, <1>4

\* The slots of a tie of the first stage, of a later one, and of the third-place match.
IsOpening(slot) == slot = Third \/ \E pos \in 1..2, g \in Range(Groups) : slot = FinishOf(pos, g)

LEMMA OpeningSlots ==
    ASSUME NEW k \in TiesOf(Stages[1]), NEW slot \in Slots(k)
    PROVE  IsOpening(slot)
BY BracketAssumption DEF IsOpening

LEMMA LaterSlots ==
    ASSUME NEW i \in 1..(Len(Stages) - 1), NEW k \in TiesOf(Stages[i + 1]), NEW slot \in Slots(k)
    PROVE  \E a \in TiesOf(Stages[i]) : slot = WinnerOf(a.match)
<1>1. slot \in UNION {Slots(l) : l \in TiesOf(Stages[i + 1])}
      OBVIOUS
<1>2. slot \in {WinnerOf(a.match) : a \in TiesOf(Stages[i])}
      BY <1>1, BracketAssumption
<1> QED BY <1>2

LEMMA StageOfTie ==
    ASSUME NEW k \in Ties
    PROVE  \/ k \in TiesOf(Stages[1])
           \/ \E i \in 1..(Len(Stages) - 1) : k \in TiesOf(Stages[i + 1])
           \/ k.stage \notin Range(Stages)
<1>1. Len(Stages) \in Nat \ {0} /\ DOMAIN Stages = 1..Len(Stages)
      BY BracketAssumption
<1>2. CASE k.stage \in Range(Stages)
  <2>1. PICK j \in 1..Len(Stages) : k.stage = Stages[j]
        BY <1>1, <1>2 DEF Range
  <2>2. CASE j = 1
        BY <2>1, <2>2 DEF TiesOf
  <2>3. CASE j # 1
    <3>1. j - 1 \in 1..(Len(Stages) - 1) /\ (j - 1) + 1 = j
          BY <1>1, <2>3
    <3> QED BY <2>1, <3>1 DEF TiesOf
  <2> QED BY <2>2, <2>3
<1> QED BY <1>2

\* The match of the third-place match's kind: the losers of two ties of one stage.
LEMMA LoserSlots ==
    ASSUME NEW k \in Ties, k.stage \notin Range(Stages)
    PROVE  /\ TiesOf(k.stage) = {k}
           /\ \E a, b \in Ties : /\ a.stage = b.stage /\ a # b
                                 /\ k.home = LoserOf(a.match) /\ k.away = LoserOf(b.match)
<1>1. \A l \in Ties : l.stage \notin Range(Stages) =>
          /\ TiesOf(l.stage) = {l}
          /\ \E a, b \in Ties : /\ a.stage = b.stage /\ a # b
                               /\ l.home = LoserOf(a.match) /\ l.away = LoserOf(b.match)
      BY BracketAssumption
<1> QED BY <1>1

\* A third is a slot of the first stage only.
LEMMA ThirdIsOpening ==
    ASSUME NEW k \in Ties, Third \in Slots(k)
    PROVE  k \in TiesOf(Stages[1])
<1>1. ASSUME NEW i \in 1..(Len(Stages) - 1), k \in TiesOf(Stages[i + 1]) PROVE FALSE
  <2>1. PICK a \in TiesOf(Stages[i]) : Third = WinnerOf(a.match)
        BY <1>1, LaterSlots
  <2>2. Third.kind = "third" /\ WinnerOf(a.match).kind = "winner"
        BY SlotFacts
  <2> QED BY <2>1, <2>2
<1>2. ASSUME k.stage \notin Range(Stages) PROVE FALSE
  <2>1. PICK a, b \in Ties : k.home = LoserOf(a.match) /\ k.away = LoserOf(b.match)
        BY <1>2, LoserSlots
  <2>2. Third.kind = "third" /\ LoserOf(a.match).kind = "loser" /\ LoserOf(b.match).kind = "loser"
        BY SlotFacts
  <2>3. Third = k.home \/ Third = k.away
        BY DEF Slots
  <2> QED BY <2>1, <2>2, <2>3
<1> QED BY <1>1, <1>2, StageOfTie

\* Once the groups are ranked, every place of a group is one team's.
LEMMA AtFacts ==
    ASSUME Placed, Ranked = Len(Groups), NEW g \in Range(Groups)
    PROVE  /\ \A pos \in 1..4 : At(pos, g) \in Members(g) /\ place[At(pos, g)] = pos - 1
           /\ \A t \in Members(g) : place[t] \in 0..3 /\ t = At(place[t] + 1, g)
<1> DEFINE r == [t \in Members(g) |-> place[t]]
<1>1. r \in Bijection(Members(g), 0..3)
  <2>1. PICK i \in 1..Ranked : g = Groups[i]
        BY LengthFacts DEF Range
  <2> QED BY <2>1 DEF Placed
<1>2. \A t \in Members(g) : place[t] \in 0..3
      BY <1>1 DEF Bijection, Injection
<1>3. ASSUME NEW p \in 0..3 PROVE \E t \in Members(g) : place[t] = p
      BY <1>1 DEF Bijection, Surjection
<1>4. ASSUME NEW t \in Members(g), NEW o \in Members(g), place[t] = place[o] PROVE t = o
      BY <1>1, <1>4 DEF Bijection, Injection, IsInjective
<1>5. ASSUME NEW pos \in 1..4 PROVE At(pos, g) \in Members(g) /\ place[At(pos, g)] = pos - 1
  <2>1. pos - 1 \in 0..3
        OBVIOUS
  <2>2. \E t \in Members(g) : place[t] = pos - 1
        BY <1>3, <2>1
  <2> QED BY <2>2 DEF At
<1>6. ASSUME NEW t \in Members(g) PROVE t = At(place[t] + 1, g)
  <2>1. place[t] \in 0..3 /\ place[t] + 1 \in 1..4 /\ (place[t] + 1) - 1 = place[t]
        BY <1>2
  <2>2. At(place[t] + 1, g) \in Members(g) /\ place[At(place[t] + 1, g)] = place[t]
        BY <1>5, <2>1
  <2> QED BY <1>4, <2>2
<1> QED BY <1>2, <1>5, <1>6

\* FIFA's table puts the thirds that qualified in the ties that have a slot for one.
LEMMA ThirdFacts ==
    ASSUME Placed, Ranked = Len(Groups), qualified \in DOMAIN Allocation
    PROVE  /\ qualified \subseteq Range(Groups)
           /\ \A n \in ThirdTies : /\ Allocation[qualified][n] \in qualified
                                   /\ ThirdIn(n) \in Members(Allocation[qualified][n])
                                   /\ place[ThirdIn(n)] = 2
           /\ \A n, o \in ThirdTies : n # o => ThirdIn(n) # ThirdIn(o)
           /\ \A g \in qualified : \E n \in ThirdTies : Allocation[qualified][n] = g
<1> DEFINE table == Allocation[qualified]
<1>1. table \in Bijection(ThirdTies, qualified)
      BY BracketAssumption
<1>2. qualified \subseteq Range(Groups)
  <2>1. qualified \in kSubset(ThirdsQualifying, Range(Groups))
        BY BracketAssumption
  <2> QED BY <2>1 DEF kSubset
<1>3. /\ \A n \in ThirdTies : table[n] \in qualified
      /\ \A n, o \in ThirdTies : table[n] = table[o] => n = o
      /\ \A g \in qualified : \E n \in ThirdTies : table[n] = g
  <2> HIDE DEF table
  <2> QED BY <1>1 DEF Bijection, Injection, Surjection, IsInjective
<1>4. ASSUME NEW n \in ThirdTies
      PROVE  ThirdIn(n) \in Members(table[n]) /\ place[ThirdIn(n)] = 2
  <2>1. table[n] \in Range(Groups)
        BY <1>2, <1>3
  <2>2. ThirdIn(n) = At(3, table[n])
        BY DEF ThirdIn
  <2> HIDE DEF table
  <2>3. 3 \in 1..4 /\ 3 - 1 = 2
        OBVIOUS
  <2>4. At(3, table[n]) \in Members(table[n]) /\ place[At(3, table[n])] = 3 - 1
        BY <2>1, <2>3, AtFacts
  <2> QED BY <2>2, <2>3, <2>4
<1>5. ASSUME NEW n \in ThirdTies, NEW o \in ThirdTies, n # o PROVE ThirdIn(n) # ThirdIn(o)
  <2>1. table[n] # table[o]
        BY <1>3, <1>5
  <2>2. GroupOf[ThirdIn(n)] = table[n] /\ GroupOf[ThirdIn(o)] = table[o]
        BY <1>4 DEF Members
  <2> QED BY <2>1, <2>2
<1> QED BY <1>2, <1>3, <1>4, <1>5

\* Who an opening slot stands for: one of the two best of a group, or a third that qualified.
LEMMA OpeningFacts ==
    ASSUME Placed, Ranked = Len(Groups), qualified \in DOMAIN Allocation,
           NEW k \in Ties, NEW slot \in Slots(k), IsOpening(slot)
    PROVE  LET t == Resolve(slot, k.match)
           IN  /\ t \in Teams
               /\ slot = Third => /\ k.match \in ThirdTies /\ t = ThirdIn(k.match)
                                  /\ place[t] = 2 /\ GroupOf[t] \in qualified
               /\ \A pos \in 1..2, g \in Range(Groups) : slot = FinishOf(pos, g) =>
                      t \in Members(g) /\ place[t] = pos - 1
<1> DEFINE t == Resolve(slot, k.match)
<1>1. CASE slot = Third
  <2>1. k.match \in ThirdTies /\ t = ThirdIn(k.match)
        BY <1>1, ResolveFacts DEF ThirdTies
  <2>2. ThirdIn(k.match) \in Members(Allocation[qualified][k.match]) /\ place[ThirdIn(k.match)] = 2
        BY <2>1, ThirdFacts
  <2>3. Allocation[qualified][k.match] \in qualified
        BY <2>1, ThirdFacts
  <2>4. \A pos \in 1..2, g \in Range(Groups) : slot # FinishOf(pos, g)
    <3>1. \A pos, g : FinishOf(pos, g).kind = "finish" /\ Third.kind = "third"
          BY SlotFacts
    <3> QED BY <1>1, <3>1
  <2> HIDE DEF t
  <2>5. /\ t \in Teams /\ place[t] = 2 /\ GroupOf[t] \in qualified
        BY <2>1, <2>2, <2>3 DEF Members
  <2> QED BY <2>1, <2>4, <2>5 DEF t
<1>2. CASE slot # Third
  <2>1. ASSUME NEW pos \in 1..2, NEW g \in Range(Groups), slot = FinishOf(pos, g)
        PROVE  t \in Members(g) /\ place[t] = pos - 1
    <3>1. t = At(pos, g) /\ pos \in 1..4
          BY <2>1, ResolveFacts
    <3> HIDE DEF t
    <3> QED BY <3>1, AtFacts
  <2>2. \E pos \in 1..2, g \in Range(Groups) : slot = FinishOf(pos, g)
        BY <1>2 DEF IsOpening
  <2> HIDE DEF t
  <2>3. t \in Teams
        BY <2>1, <2>2 DEF Members
  <2> QED BY <1>2, <2>1, <2>3 DEF t
<1> QED BY <1>1, <1>2

\* A tie is known by its number.
LEMMA NumberFacts ==
    /\ \A i \in 1..Len(Knockout) : Knockout[i] \in Ties
    /\ \A k \in Ties : \E i \in 1..Len(Knockout) : k = Knockout[i]
    /\ \A k, l \in Ties : k.match = l.match => k = l
    /\ \A i, j \in 1..Len(Knockout) : Knockout[i].match = Knockout[j].match => i = j
<1>1. /\ \A i \in 1..Len(Knockout) : Knockout[i] \in Ties
      /\ \A k \in Ties : \E i \in 1..Len(Knockout) : k = Knockout[i]
      BY LengthFacts DEF Ties
<1>2. \A i, j \in 1..Len(Knockout) : Knockout[i].match = Knockout[j].match => i = j
      BY LengthFacts, BracketAssumption
<1> QED BY <1>1, <1>2

\* Two opening slots of different ties, or different slots, stand for different teams.
LEMMA OpeningDiffer ==
    ASSUME Placed, Ranked = Len(Groups), qualified \in DOMAIN Allocation,
           NEW k \in Ties, NEW l \in Ties, NEW s \in Slots(k), NEW z \in Slots(l),
           IsOpening(s), IsOpening(z), s # z \/ (s = Third /\ z = Third /\ k # l)
    PROVE  Resolve(s, k.match) # Resolve(z, l.match)
<1> DEFINE t == Resolve(s, k.match)
           o == Resolve(z, l.match)
<1>1. /\ s = Third => k.match \in ThirdTies /\ t = ThirdIn(k.match) /\ place[t] = 2
      /\ \A pos \in 1..2, g \in Range(Groups) : s = FinishOf(pos, g) => t \in Members(g) /\ place[t] = pos - 1
      BY OpeningFacts
<1>2. /\ z = Third => l.match \in ThirdTies /\ o = ThirdIn(l.match) /\ place[o] = 2
      /\ \A pos \in 1..2, g \in Range(Groups) : z = FinishOf(pos, g) => o \in Members(g) /\ place[o] = pos - 1
      BY OpeningFacts
<1>3. k # l => k.match # l.match
      BY NumberFacts
<1> HIDE DEF t, o
<1>4. CASE s = Third /\ z = Third
      BY <1>1, <1>2, <1>3, <1>4, ThirdFacts DEF t, o
<1>5. CASE s = Third /\ z # Third
  <2>1. PICK pos \in 1..2, g \in Range(Groups) : z = FinishOf(pos, g)
        BY <1>5 DEF IsOpening
  <2> QED BY <1>1, <1>2, <1>5, <2>1 DEF t, o
<1>6. CASE s # Third /\ z = Third
  <2>1. PICK pos \in 1..2, g \in Range(Groups) : s = FinishOf(pos, g)
        BY <1>6 DEF IsOpening
  <2> QED BY <1>1, <1>2, <1>6, <2>1 DEF t, o
<1>7. CASE s # Third /\ z # Third
  <2>1. PICK p \in 1..2, g \in Range(Groups) : s = FinishOf(p, g)
        BY <1>7 DEF IsOpening
  <2>2. PICK q \in 1..2, h \in Range(Groups) : z = FinishOf(q, h)
        BY <1>7 DEF IsOpening
  <2>3. p # q \/ g # h
        BY <1>7, <2>1, <2>2
  <2>4. GroupOf[t] = g /\ place[t] = p - 1 /\ GroupOf[o] = h /\ place[o] = q - 1
        BY <1>1, <1>2, <2>1, <2>2 DEF Members
  <2>5. t # o
        BY <2>3, <2>4
  <2> QED BY <2>5 DEF t, o
<1> QED BY <1>4, <1>5, <1>6, <1>7

\* A tie that feeds another comes before it.
LEMMA FeedsLater ==
    ASSUME NEW n \in 1..Len(Knockout), NEW slot \in Slots(Knockout[n]), NEW a \in Ties,
           slot = WinnerOf(a.match) \/ slot = LoserOf(a.match)
    PROVE  \E j \in 1..(n - 1) : a = Knockout[j]
<1>1. slot.kind \in {"winner", "loser"} /\ slot.of = a.match
      BY SlotFacts
<1>2. n \in DOMAIN Knockout /\ slot \in UNION {Slots(k) : k \in Ties} /\ Knockout[n] \in Ties
      BY LengthFacts, NumberFacts
<1>3. \A i \in DOMAIN Knockout, z \in UNION {Slots(k) : k \in Ties} :
          z \in Slots(Knockout[i]) /\ z.kind \in {"winner", "loser"} =>
              \E j \in 1..(i - 1) : z.of = Knockout[j].match
      BY BracketAssumption
<1>4. PICK j \in 1..(n - 1) : a.match = Knockout[j].match
      BY <1>1, <1>2, <1>3
<1>5. j \in 1..Len(Knockout) /\ Knockout[j] \in Ties
      BY LengthFacts, NumberFacts
<1> QED BY <1>4, <1>5, NumberFacts

\* The winner and the loser of a tie that was played are of its sides.
LEMMA FedFacts ==
    ASSUME Bracketed, NEW i \in 1..Drawn, NEW n
    PROVE  /\ Resolve(WinnerOf(Knockout[i].match), n) \in Sides(Knockout[i])
           /\ Resolve(LoserOf(Knockout[i].match), n) \in Sides(Knockout[i])
           /\ Sides(Knockout[i]) \subseteq Teams
<1>1. Sided(Knockout[i])
      BY DEF Bracketed
<1> QED BY <1>1, ResolveFacts DEF Sided, Sides

\* Two slots of a stage stand for different teams, and for teams at all, once the ties that
\* feed them are played.
LEMMA SlotsDiffer ==
    ASSUME ColumnTyped, Placed, Bracketed, phase \in {"knockout", "done"},
           NEW n \in 1..Len(Knockout), NEW j \in 1..n, n - 1 <= Drawn,
           Knockout[n].stage = Knockout[j].stage,
           NEW s \in Slots(Knockout[n]), NEW z \in Slots(Knockout[j]),
           s # z \/ (s = Third /\ z = Third /\ n # j)
    PROVE  /\ Resolve(s, Knockout[n].match) \in Teams
           /\ Resolve(s, Knockout[n].match) # Resolve(z, Knockout[j].match)
<1> DEFINE k == Knockout[n]
           l == Knockout[j]
<1>1. /\ k \in Ties /\ l \in Ties /\ n \in Nat /\ j \in Nat
      /\ j \in 1..Len(Knockout) /\ (n # j => k # l)
      BY NumberFacts, LengthFacts
<1>2. Ranked = Len(Groups) /\ qualified \in DOMAIN Allocation
      BY RankedFacts DEF Bracketed
<1>3. Drawn \in Nat
      BY LengthFacts DEF Drawn, ColumnTyped
<1>4. \A i : i \in 1..(n - 1) => i \in 1..Drawn
      BY <1>1, <1>3
<1>5. \A i : i \in 1..(j - 1) => i \in 1..Drawn
      BY <1>1, <1>3
<1>6. CASE k \in TiesOf(Stages[1])
  <2>1. l \in TiesOf(Stages[1])
        BY <1>1, <1>6 DEF TiesOf
  <2>2. IsOpening(s) /\ IsOpening(z)
        BY <1>6, <2>1, OpeningSlots
  <2>3. Resolve(s, k.match) \in Teams
        BY <1>1, <1>2, <2>2, OpeningFacts
  <2>4. s # z \/ (s = Third /\ z = Third /\ k # l)
        BY <1>1
  <2>5. Resolve(s, k.match) # Resolve(z, l.match)
    <3> HIDE DEF k, l
    <3> QED BY <1>1, <1>2, <2>2, <2>4, OpeningDiffer DEF k, l
  <2> QED BY <2>3, <2>5
<1>7. ASSUME NEW i \in 1..(Len(Stages) - 1), k \in TiesOf(Stages[i + 1])
      PROVE  /\ Resolve(s, k.match) \in Teams
             /\ Resolve(s, k.match) # Resolve(z, l.match)
  <2>1. l \in TiesOf(Stages[i + 1])
        BY <1>1, <1>7 DEF TiesOf
  <2>2. PICK a \in TiesOf(Stages[i]) : s = WinnerOf(a.match)
        BY <1>7, LaterSlots
  <2>3. PICK b \in TiesOf(Stages[i]) : z = WinnerOf(b.match)
        BY <2>1, LaterSlots
  <2>4. a \in Ties /\ b \in Ties /\ a.stage = b.stage
        BY DEF TiesOf
  <2>5. PICK p \in 1..(n - 1) : a = Knockout[p]
        BY <2>2, <2>4, FeedsLater
  <2>6. PICK q \in 1..(j - 1) : b = Knockout[q]
        BY <1>1, <2>3, <2>4, FeedsLater
  <2>7. p \in 1..Drawn /\ q \in 1..Drawn
        BY <1>4, <1>5, <2>5, <2>6
  <2>8. p # q
    <3>1. s # z
      <4>1. s # Third
            BY <2>2, SlotFacts
      <4> QED BY <4>1
    <3> QED BY <2>2, <2>3, <2>5, <2>6, <3>1
  <2>9. Sides(Knockout[p]) \cap Sides(Knockout[q]) = {}
        BY <2>4, <2>5, <2>6, <2>7, <2>8 DEF Bracketed
  <2>10. Resolve(s, k.match) \in Sides(Knockout[p]) /\ Sides(Knockout[p]) \subseteq Teams
        BY <2>2, <2>5, <2>7, FedFacts
  <2>11. Resolve(z, l.match) \in Sides(Knockout[q])
        BY <2>3, <2>6, <2>7, FedFacts
  <2> QED BY <2>9, <2>10, <2>11
<1>8. CASE k.stage \notin Range(Stages)
  <2>1. /\ TiesOf(k.stage) = {k}
        /\ \E a, b \in Ties : /\ a.stage = b.stage /\ a # b
                              /\ k.home = LoserOf(a.match) /\ k.away = LoserOf(b.match)
        BY <1>1, <1>8, LoserSlots
  <2>2. l = k
        BY <1>1, <2>1 DEF TiesOf
  <2>3. PICK a, b \in Ties : /\ a.stage = b.stage /\ a # b
                             /\ k.home = LoserOf(a.match) /\ k.away = LoserOf(b.match)
        BY <2>1
  <2>4. k.home \in Slots(k) /\ k.away \in Slots(k)
        BY DEF Slots
  <2>5. PICK p \in 1..(n - 1) : a = Knockout[p]
        BY <2>3, <2>4, FeedsLater
  <2>6. PICK q \in 1..(n - 1) : b = Knockout[q]
        BY <2>3, <2>4, FeedsLater
  <2>7. p \in 1..Drawn /\ q \in 1..Drawn /\ p # q
        BY <1>4, <2>3, <2>5, <2>6
  <2>8. Sides(Knockout[p]) \cap Sides(Knockout[q]) = {}
        BY <2>3, <2>5, <2>6, <2>7 DEF Bracketed
  <2>9. /\ Resolve(k.home, k.match) \in Sides(Knockout[p]) /\ Sides(Knockout[p]) \subseteq Teams
        /\ Resolve(k.away, k.match) \in Sides(Knockout[q]) /\ Sides(Knockout[q]) \subseteq Teams
        BY <2>3, <2>5, <2>6, <2>7, FedFacts
  <2>10. s # z
    <3>1. Third # k.home /\ Third # k.away
          BY <2>3, SlotFacts
    <3> QED BY <3>1 DEF Slots
  <2>11. (s = k.home /\ z = k.away) \/ (s = k.away /\ z = k.home)
        BY <2>2, <2>10 DEF Slots
  <2> HIDE DEF k, l
  <2>12. /\ Resolve(s, k.match) \in Teams
         /\ Resolve(s, k.match) # Resolve(z, k.match)
        BY <2>8, <2>9, <2>11
  <2> QED BY <2>2, <2>12 DEF k, l
<1> QED BY <1>1, <1>6, <1>7, <1>8, StageOfTie

\* What a slot stands for does not change when a tie is played that does not feed it.
LEMMA ResolveKept ==
    ASSUME place' = place, qualified' = qualified,
           NEW n \in 1..Len(Knockout), NEW slot \in Slots(Knockout[n]), NEW m,
           \A j \in 1..(n - 1) : tie'[Knockout[j].match] = tie[Knockout[j].match]
    PROVE  Resolve(slot, m)' = Resolve(slot, m)
<1> DEFINE k == Knockout[n]
<1>1. k \in Ties /\ n \in Nat
      BY NumberFacts
<1>2. \A pos, g : At(pos, g)' = At(pos, g)
      BY DEF At
<1>3. ThirdIn(m)' = ThirdIn(m)
      BY <1>2 DEF ThirdIn, At
<1>4. ASSUME NEW a \in Ties, slot = WinnerOf(a.match) \/ slot = LoserOf(a.match)
      PROVE  Resolve(slot, m)' = Resolve(slot, m)
  <2>1. PICK j \in 1..(n - 1) : a = Knockout[j]
        BY <1>4, FeedsLater
  <2>2. tie'[a.match] = tie[a.match]
        BY <2>1
  <2>3. slot.of = a.match /\ slot.kind \in {"winner", "loser"}
        BY <1>4, SlotFacts
  <2>4. CASE slot.kind = "winner"
        BY <2>2, <2>3, <2>4 DEF Resolve
  <2>5. CASE slot.kind = "loser"
        BY <2>2, <2>3, <2>5 DEF Resolve
  <2> QED BY <2>3, <2>4, <2>5
<1>5. CASE k \in TiesOf(Stages[1])
  <2>1. IsOpening(slot)
        BY <1>5, OpeningSlots
  <2>2. CASE slot = Third
        BY <1>3, <2>2, SlotFacts DEF Resolve
  <2>3. CASE slot # Third
    <3>1. slot.kind = "finish"
          BY <2>1, <2>3, SlotFacts DEF IsOpening
    <3> QED BY <1>2, <3>1 DEF Resolve
  <2> QED BY <2>2, <2>3
<1>6. ASSUME NEW i \in 1..(Len(Stages) - 1), k \in TiesOf(Stages[i + 1])
      PROVE  Resolve(slot, m)' = Resolve(slot, m)
  <2>1. PICK a \in TiesOf(Stages[i]) : slot = WinnerOf(a.match)
        BY <1>6, LaterSlots
  <2>2. a \in Ties
        BY DEF TiesOf
  <2> QED BY <1>4, <2>1, <2>2
<1>7. CASE k.stage \notin Range(Stages)
  <2>1. PICK a, b \in Ties : k.home = LoserOf(a.match) /\ k.away = LoserOf(b.match)
        BY <1>1, <1>7, LoserSlots
  <2> QED BY <1>4, <2>1 DEF Slots
<1> QED BY <1>1, <1>5, <1>6, <1>7, StageOfTie

LEMMA DrawnFacts ==
    ASSUME ColumnTyped
    PROVE  /\ Drawn \in 0..Len(Knockout)
           /\ PlayTie => Drawn = next - 1 /\ Drawn' = next /\ next \in 1..Len(Knockout)
           /\ PlayGroupMatch \/ RankGroup => /\ Drawn = 0 /\ Drawn' = 0
                                             /\ phase' \notin {"knockout", "done"}
           /\ RankThirds => Drawn = 0 /\ Drawn' = 0
           /\ UNCHANGED tournamentVars => Drawn' = Drawn
           /\ phase = "done" => Drawn = Len(Knockout)
<1>0. Len(Knockout) \in Nat \ {0}
      BY LengthFacts
<1>1. Drawn \in 0..Len(Knockout) /\ (phase = "done" => Drawn = Len(Knockout))
  <2>1. CASE phase = "knockout"
        BY <1>0, <2>1 DEF Drawn, ColumnTyped
  <2>2. CASE phase = "done"
        BY <1>0, <2>2 DEF Drawn
  <2>3. CASE phase \notin {"knockout", "done"}
        BY <1>0, <2>3 DEF Drawn
  <2> QED BY <2>1, <2>2, <2>3
<1>2. ASSUME PlayTie PROVE Drawn = next - 1 /\ Drawn' = next /\ next \in 1..Len(Knockout)
  <2>1. /\ phase = "knockout" /\ next' = next + 1
        /\ phase' = IF next = Len(Knockout) THEN "done" ELSE "knockout"
        BY <1>2 DEF PlayTie
  <2>2. next \in 1..Len(Knockout)
        BY <2>1 DEF ColumnTyped
  <2>3. CASE next = Len(Knockout)
        BY <1>0, <2>1, <2>2, <2>3 DEF Drawn
  <2>4. CASE next # Len(Knockout)
        BY <1>0, <2>1, <2>2, <2>4 DEF Drawn
  <2> QED BY <2>3, <2>4
<1>3. ASSUME PlayGroupMatch \/ RankGroup
      PROVE  Drawn = 0 /\ Drawn' = 0 /\ phase' \notin {"knockout", "done"}
  <2>1. phase \in {"groups", "ranking"} /\ phase' \in {"groups", "ranking", "thirds"}
    <3>1. CASE PlayGroupMatch
      <4>1. phase = "groups" /\ phase' = IF next = Len(GroupMatches) THEN "ranking" ELSE "groups"
            BY <3>1 DEF PlayGroupMatch
      <4> QED BY <4>1
    <3>2. CASE RankGroup
      <4>1. phase = "ranking" /\ phase' = IF next = Len(Groups) THEN "thirds" ELSE "ranking"
            BY <3>2 DEF RankGroup
      <4> QED BY <4>1
    <3> QED BY <1>3, <3>1, <3>2
  <2> QED BY <2>1 DEF Drawn
<1>4. ASSUME RankThirds PROVE Drawn = 0 /\ Drawn' = 0
  <2>1. phase = "thirds" /\ phase' = "knockout" /\ next = 1 /\ next' = 1
        BY <1>4 DEF RankThirds, ColumnTyped
  <2> QED BY <2>1 DEF Drawn
<1>5. ASSUME UNCHANGED tournamentVars PROVE Drawn' = Drawn
      BY <1>5 DEF Drawn, tournamentVars
<1> QED BY <1>1, <1>2, <1>3, <1>4, <1>5

LEMMA BracketedInit == TournamentInit => Bracketed
<1> SUFFICES ASSUME TournamentInit PROVE Bracketed
    OBVIOUS
<1>1. phase = "groups" /\ Drawn = 0 /\ tie = <<>>
      BY DEF TournamentInit, Drawn
<1>2. DOMAIN tie = {} /\ 1..Drawn = {}
      BY <1>1
<1> QED BY <1>1, <1>2 DEF Bracketed

\* The next tie: its sides, and those who played before in its stage.
LEMMA NextTie ==
    ASSUME ColumnTyped, Placed, Bracketed, phase = "knockout",
           NEW n \in 1..Len(Knockout), n = next
    PROVE  LET k == Knockout[n]
               h == Resolve(k.home, k.match)
               a == Resolve(k.away, k.match)
           IN  /\ h # a /\ {h, a} \subseteq Teams
               /\ \A j \in 1..(n - 1) :
                      k.stage = Knockout[j].stage => {h, a} \cap Sides(Knockout[j]) = {}
<1> DEFINE k == Knockout[n]
           h == Resolve(k.home, k.match)
           a == Resolve(k.away, k.match)
<1>1. Drawn = n - 1 /\ n \in Nat /\ n - 1 <= Drawn
      BY DEF Drawn
<1>2. k \in Ties /\ k.home \in Slots(k) /\ k.away \in Slots(k)
      BY NumberFacts DEF Slots
<1>3. k.home # k.away
      BY <1>2, BracketAssumption
<1>4. n \in 1..n
      BY <1>1
<1>5. h # a /\ h \in Teams
      BY <1>1, <1>2, <1>3, <1>4, SlotsDiffer
<1>6. a \in Teams
      BY <1>1, <1>2, <1>3, <1>4, SlotsDiffer
<1>7. ASSUME NEW j \in 1..(n - 1), k.stage = Knockout[j].stage
      PROVE  {h, a} \cap Sides(Knockout[j]) = {}
  <2> DEFINE l == Knockout[j]
  <2>1. j \in 1..n /\ n # j /\ j \in 1..Len(Knockout) /\ j \in 1..Drawn
        BY <1>1, LengthFacts
  <2>2. l \in Ties /\ k # l
        BY <2>1, NumberFacts
  <2>3. Sides(l) = {Resolve(l.home, l.match), Resolve(l.away, l.match)}
        BY <2>1 DEF Bracketed, Sided, Sides
  <2>4. ASSUME NEW s \in Slots(k), NEW z \in Slots(l)
        PROVE  Resolve(s, k.match) # Resolve(z, l.match)
    <3>1. Slots(k) \cap Slots(l) \subseteq {Third}
      <4>1. \A x, y \in Ties : x.stage = y.stage /\ x # y => Slots(x) \cap Slots(y) \subseteq {Third}
            BY BracketAssumption
      <4> HIDE DEF k, l
      <4> QED BY <1>2, <1>7, <2>2, <4>1 DEF k, l
    <3>2. s # z \/ (s = Third /\ z = Third /\ n # j)
          BY <2>1, <3>1
    <3> QED BY <1>1, <1>7, <2>1, <3>2, SlotsDiffer
  <2>5. l.home \in Slots(l) /\ l.away \in Slots(l)
        BY DEF Slots
  <2> HIDE DEF k, l, Slots
  <2> QED BY <1>2, <2>3, <2>4, <2>5 DEF l
<1> QED BY <1>5, <1>6, <1>7

LEMMA BracketedPlay ==
    ASSUME ColumnTyped, Placed, Bracketed, PlayTie, NEW n \in 1..Len(Knockout), n = next
    PROVE  Bracketed'
<1> DEFINE k == Knockout[n]
           h == Resolve(k.home, k.match)
           a == Resolve(k.away, k.match)
<1>1. /\ phase = "knockout" /\ place' = place /\ qualified' = qualified
      /\ Drawn = n - 1 /\ Drawn' = n /\ n \in Nat
  <2>1. phase = "knockout" /\ place' = place /\ qualified' = qualified
        BY DEF PlayTie
  <2>2. Drawn = next - 1 /\ Drawn' = next
        BY DrawnFacts
  <2> QED BY <2>1, <2>2
<1>2. PICK homeWins :
        tie' = Joined(tie, [x \in {k.match} |->
                   [home |-> h, away |-> a, winner |-> IF homeWins THEN h ELSE a]])
      BY Zenon DEF PlayTie
<1> DEFINE last == [home |-> h, away |-> a, winner |-> IF homeWins THEN h ELSE a]
           entry == [x \in {k.match} |-> last]
<1>3. last.home = h /\ last.away = a /\ last.winner \in {h, a}
      OBVIOUS
<1>4. /\ k \in Ties /\ k.home \in Slots(k) /\ k.away \in Slots(k)
      /\ \A i \in 1..n : i \in 1..Len(Knockout)
      /\ \A i : i \in 1..n <=> i \in 1..(n - 1) \/ i = n
      BY <1>1, NumberFacts DEF Slots
<1>5. DOMAIN tie = {Knockout[i].match : i \in 1..(n - 1)}
      BY <1>1 DEF Bracketed
<1>6. \A i \in 1..(n - 1) : Knockout[i].match # k.match
      BY <1>1, <1>4, NumberFacts
<1>7. h # a /\ {h, a} \subseteq Teams
      BY <1>1, NextTie
<1>8. \A j \in 1..(n - 1) : k.stage = Knockout[j].stage => {h, a} \cap Sides(Knockout[j]) = {}
      BY <1>1, NextTie
<1>9. /\ DOMAIN tie' = {Knockout[i].match : i \in 1..n}
      /\ \A i \in 1..(n - 1) : tie'[Knockout[i].match] = tie[Knockout[i].match]
      /\ tie'[k.match] = last
  <2> HIDE DEF k, last
  <2>1. DOMAIN entry = {k.match} /\ entry[k.match] = last
        OBVIOUS
  <2>2. tie' = Joined(tie, entry)
        BY <1>2, Zenon DEF last
  <2> HIDE DEF entry
  <2>3. /\ DOMAIN Joined(tie, entry) = DOMAIN tie \cup DOMAIN entry
        /\ \A x \in DOMAIN tie : Joined(tie, entry)[x] = tie[x]
        /\ \A x \in DOMAIN entry : x \notin DOMAIN tie => Joined(tie, entry)[x] = entry[x]
        BY JoinedFacts
  <2>4. k.match \notin DOMAIN tie
        BY <1>5, <1>6
  <2>5. k.match = Knockout[n].match
        BY DEF k
  <2>6. DOMAIN tie' = {Knockout[i].match : i \in 1..n}
        BY <1>4, <1>5, <2>1, <2>2, <2>3, <2>5
  <2>7. \A i \in 1..(n - 1) : tie'[Knockout[i].match] = tie[Knockout[i].match]
        BY <1>5, <2>2, <2>3
  <2>8. tie'[k.match] = last
        BY <2>1, <2>2, <2>3, <2>4
  <2> QED BY <2>6, <2>7, <2>8
<1> HIDE DEF last
<1>10. ASSUME NEW i \in 1..n, NEW slot \in Slots(Knockout[i]), NEW m
       PROVE  Resolve(slot, m)' = Resolve(slot, m)
  <2>1. i \in 1..Len(Knockout) /\ \A j \in 1..(i - 1) : j \in 1..(n - 1)
        BY <1>1, <1>4
  <2>2. \A j \in 1..(i - 1) : tie'[Knockout[j].match] = tie[Knockout[j].match]
        BY <1>9, <2>1
  <2> QED BY <1>1, <2>1, <2>2, ResolveKept
<1>11. \A i \in 1..(n - 1) : Sides(Knockout[i])' = Sides(Knockout[i])
       BY <1>9 DEF Sides
<1>12. Sides(k)' = {h, a}
       BY <1>3, <1>9 DEF Sides
<1>13. ASSUME NEW i \in 1..n PROVE Sided(Knockout[i])'
  <2>1. Resolve(Knockout[i].home, Knockout[i].match)' = Resolve(Knockout[i].home, Knockout[i].match)
        BY <1>10 DEF Slots
  <2>2. Resolve(Knockout[i].away, Knockout[i].match)' = Resolve(Knockout[i].away, Knockout[i].match)
        BY <1>10 DEF Slots
  <2>3. CASE i \in 1..(n - 1)
    <3>1. Sided(Knockout[i])
          BY <1>1, <2>3 DEF Bracketed
    <3>2. tie'[Knockout[i].match] = tie[Knockout[i].match] /\ Sides(Knockout[i])' = Sides(Knockout[i])
          BY <1>9, <1>11, <2>3
    <3> QED BY <2>1, <2>2, <3>1, <3>2 DEF Sided
  <2>4. CASE i = n
    <3>1. /\ tie'[k.match].home = Resolve(k.home, k.match)'
          /\ tie'[k.match].away = Resolve(k.away, k.match)'
          BY <1>3, <1>9, <2>1, <2>2, <2>4
    <3>2. /\ tie'[k.match].home = h /\ tie'[k.match].away = a /\ tie'[k.match].winner \in {h, a}
          BY <1>3, <1>9
    <3> HIDE DEF h, a
    <3>3. /\ tie'[k.match].home # tie'[k.match].away
          /\ tie'[k.match].winner \in Sides(k)' /\ Sides(k)' \subseteq Teams
          BY <1>7, <1>12, <3>2
    <3> QED BY <2>4, <3>1, <3>3 DEF Sided
  <2> QED BY <1>4, <2>3, <2>4
<1>14. ASSUME NEW i \in 1..n, NEW j \in 1..n, i # j, Knockout[i].stage = Knockout[j].stage
       PROVE  Sides(Knockout[i])' \cap Sides(Knockout[j])' = {}
  <2>1. CASE i \in 1..(n - 1) /\ j \in 1..(n - 1)
    <3>1. Sides(Knockout[i]) \cap Sides(Knockout[j]) = {}
          BY <1>1, <1>14, <2>1 DEF Bracketed
    <3> QED BY <1>11, <2>1, <3>1
  <2>2. CASE i = n /\ j \in 1..(n - 1)
    <3> HIDE DEF h, a
    <3> QED BY <1>8, <1>11, <1>12, <1>14, <2>2
  <2>3. CASE i \in 1..(n - 1) /\ j = n
    <3> HIDE DEF h, a
    <3> QED BY <1>8, <1>11, <1>12, <1>14, <2>3
  <2> QED BY <1>4, <1>14, <2>1, <2>2, <2>3
<1>15. qualified' \in DOMAIN Allocation
       BY <1>1 DEF Bracketed
<1> QED BY <1>1, <1>9, <1>13, <1>14, <1>15 DEF Bracketed

LEMMA BracketedNext ==
    ColumnTyped /\ Placed /\ Bracketed /\ [TournamentNext]_tournamentVars => Bracketed'
<1> SUFFICES ASSUME ColumnTyped, Placed, Bracketed, [TournamentNext]_tournamentVars PROVE Bracketed'
    OBVIOUS
<1>1. CASE PlayGroupMatch \/ RankGroup
  <2>1. Drawn = 0 /\ Drawn' = 0 /\ phase' \notin {"knockout", "done"} /\ tie' = tie
        BY <1>1, DrawnFacts DEF PlayGroupMatch, RankGroup
  <2>2. 1..Drawn = {} /\ 1..Drawn' = {}
        BY <2>1
  <2> QED BY <2>1, <2>2 DEF Bracketed
<1>2. CASE RankThirds
  <2>1. Drawn = 0 /\ Drawn' = 0 /\ tie' = tie
        BY <1>2, DrawnFacts DEF RankThirds
  <2>2. 1..Drawn = {} /\ 1..Drawn' = {}
        BY <2>1
  <2>3. qualified' \in DOMAIN Allocation
    <3>1. PICK Q \in kSubset(ThirdsQualifying, Range(Groups)) : qualified' = Q
          BY <1>2, Zenon DEF RankThirds
    <3>2. DOMAIN Allocation = kSubset(ThirdsQualifying, Range(Groups))
          BY BracketAssumption
    <3> QED BY <3>1, <3>2
  <2> QED BY <2>1, <2>2, <2>3 DEF Bracketed
<1>3. CASE PlayTie
  <2>1. next \in 1..Len(Knockout)
        BY <1>3, DrawnFacts
  <2>2. PICK n \in 1..Len(Knockout) : n = next
        BY <2>1
  <2> QED BY <1>3, <2>2, BracketedPlay
<1>4. CASE UNCHANGED tournamentVars
  <2>1. /\ Drawn' = Drawn /\ phase' = phase /\ qualified' = qualified
        /\ place' = place /\ tie' = tie
        BY <1>4, DrawnFacts DEF tournamentVars
  <2>2. \A slot, m : Resolve(slot, m)' = Resolve(slot, m)
        BY <2>1 DEF Resolve, ThirdIn, At
  <2>3. \A i \in 1..Drawn : Sided(Knockout[i])'
        BY <2>1, <2>2 DEF Bracketed, Sided, Sides
  <2> QED BY <2>1, <2>3 DEF Bracketed, Sides
<1> QED BY <1>1, <1>2, <1>3, <1>4 DEF TournamentNext

\* The sides of the first stage are the teams in the bracket.
LEMMA FirstRound ==
    ASSUME ColumnTyped, Placed, Bracketed, phase = "done"
    PROVE  SidesOf(Stages[1]) = {t \in Teams : InBracket(t)}
<1>1. Ranked = Len(Groups) /\ qualified \in DOMAIN Allocation /\ Drawn = Len(Knockout)
      BY RankedFacts, DrawnFacts DEF Bracketed
<1>2. ASSUME NEW k \in Ties
      PROVE  /\ k.match \in DOMAIN tie
             /\ tie[k.match].home = Resolve(k.home, k.match)
             /\ tie[k.match].away = Resolve(k.away, k.match)
  <2>1. PICK i \in 1..Drawn : k = Knockout[i]
        BY <1>1, NumberFacts
  <2> QED BY <2>1 DEF Bracketed, Sided
<1>3. ASSUME NEW t \in SidesOf(Stages[1]) PROVE t \in Teams /\ InBracket(t)
  <2>1. PICK k \in Ties : k.stage = Stages[1] /\ t \in {tie[k.match].home, tie[k.match].away}
        BY DEF SidesOf
  <2>2. PICK slot \in Slots(k) : t = Resolve(slot, k.match)
        BY <1>2, <2>1 DEF Slots
  <2>3. IsOpening(slot)
        BY <2>1, OpeningSlots DEF TiesOf
  <2>4. /\ t \in Teams
        /\ slot = Third => place[t] = 2 /\ GroupOf[t] \in qualified
        /\ \A pos \in 1..2, g \in Range(Groups) : slot = FinishOf(pos, g) => place[t] = pos - 1
        BY <1>1, <2>2, <2>3, OpeningFacts
  <2>5. CASE slot = Third
        BY <2>4, <2>5 DEF InBracket
  <2>6. CASE slot # Third
    <3>1. PICK pos \in 1..2, g \in Range(Groups) : slot = FinishOf(pos, g)
          BY <2>3, <2>6 DEF IsOpening
    <3>2. place[t] = pos - 1 /\ pos - 1 <= 1
          BY <2>4, <3>1
    <3> QED BY <2>4, <3>2 DEF InBracket
  <2> QED BY <2>5, <2>6
<1>4. ASSUME NEW t \in Teams, InBracket(t) PROVE t \in SidesOf(Stages[1])
  <2> DEFINE g == GroupOf[t]
  <2>1. g \in Range(Groups) /\ t \in Members(g)
        BY TournamentAssumption DEF Members
  <2>2. place[t] \in 0..3 /\ t = At(place[t] + 1, g)
        BY <1>1, <2>1, AtFacts
  <2> HIDE DEF g
  <2>3. CASE place[t] <= 1
    <3>1. place[t] + 1 \in 1..2
          BY <2>2, <2>3
    <3>2. PICK k \in TiesOf(Stages[1]) : FinishOf(place[t] + 1, g) \in Slots(k)
          BY <2>1, <3>1, BracketAssumption
    <3>3. k \in Ties /\ k.stage = Stages[1]
          BY DEF TiesOf
    <3>4. Resolve(FinishOf(place[t] + 1, g), k.match) = t
          BY <2>2, ResolveFacts
    <3>5. t \in {tie[k.match].home, tie[k.match].away}
          BY <1>2, <3>2, <3>3, <3>4 DEF Slots
    <3> QED BY <1>2, <3>3, <3>5 DEF SidesOf
  <2>4. CASE ~(place[t] <= 1)
    <3>1. place[t] = 2 /\ g \in qualified
          BY <1>4, <2>4 DEF InBracket, g
    <3>2. PICK n \in ThirdTies : Allocation[qualified][n] = g
          BY <1>1, <3>1, ThirdFacts
    <3>3. PICK k \in Ties : k.match = n /\ Third \in Slots(k)
          BY DEF ThirdTies
    <3>4. k.stage = Stages[1]
          BY <3>3, ThirdIsOpening DEF TiesOf
    <3>5. Resolve(Third, k.match) = t
      <4>1. Resolve(Third, k.match) = At(3, g)
            BY <3>2, <3>3, ResolveFacts DEF ThirdIn
      <4>2. place[t] + 1 = 3
            BY <3>1
      <4> QED BY <2>2, <4>1, <4>2
    <3>6. t \in {tie[k.match].home, tie[k.match].away}
          BY <1>2, <3>3, <3>5 DEF Slots
    <3> QED BY <1>2, <3>4, <3>6 DEF SidesOf
  <2> QED BY <2>3, <2>4
<1>5. SidesOf(Stages[1]) \subseteq {t \in Teams : InBracket(t)}
      BY <1>3
<1>6. {t \in Teams : InBracket(t)} \subseteq SidesOf(Stages[1])
      BY <1>4
<1> QED BY <1>5, <1>6

\* The sides of a later stage are the winners of the one before.
LEMMA LaterRound ==
    ASSUME ColumnTyped, Placed, Bracketed, phase = "done", NEW i \in 1..(Len(Stages) - 1)
    PROVE  SidesOf(Stages[i + 1]) = Past(Stages[i])
<1>1. Drawn = Len(Knockout)
      BY DrawnFacts
<1>2. ASSUME NEW k \in Ties
      PROVE  /\ k.match \in DOMAIN tie
             /\ tie[k.match].home = Resolve(k.home, k.match)
             /\ tie[k.match].away = Resolve(k.away, k.match)
             /\ {tie[k.match].home, tie[k.match].away} \subseteq Teams
  <2>1. PICK n \in 1..Drawn : k = Knockout[n]
        BY <1>1, NumberFacts
  <2> QED BY <2>1 DEF Bracketed, Sided, Sides
<1>3. ASSUME NEW t \in SidesOf(Stages[i + 1]) PROVE t \in Past(Stages[i])
  <2>1. PICK k \in Ties : k.stage = Stages[i + 1] /\ t \in {tie[k.match].home, tie[k.match].away}
        BY DEF SidesOf
  <2>2. PICK slot \in Slots(k) : t = Resolve(slot, k.match)
        BY <1>2, <2>1 DEF Slots
  <2>3. PICK a \in TiesOf(Stages[i]) : slot = WinnerOf(a.match)
        BY <2>1, LaterSlots DEF TiesOf
  <2>4. a \in Ties /\ a.stage = Stages[i]
        BY DEF TiesOf
  <2>5. t = tie[a.match].winner
        BY <2>2, <2>3, ResolveFacts
  <2>6. a \in {k1 \in Ties : k1.stage = Stages[i] /\ k1.match \in DOMAIN tie}
        BY <1>2, <2>4
  <2> QED BY <2>5, <2>6 DEF Past
<1>4. ASSUME NEW t \in Past(Stages[i]) PROVE t \in SidesOf(Stages[i + 1])
  <2>1. PICK a \in Ties : a.stage = Stages[i] /\ t = tie[a.match].winner
        BY DEF Past
  <2>2. a \in TiesOf(Stages[i])
        BY <2>1 DEF TiesOf
  <2>3. PICK k \in TiesOf(Stages[i + 1]) : WinnerOf(a.match) \in Slots(k)
    <3>1. UNION {Slots(k) : k \in TiesOf(Stages[i + 1])} =
              {WinnerOf(k.match) : k \in TiesOf(Stages[i])}
          BY BracketAssumption
    <3>2. WinnerOf(a.match) \in UNION {Slots(k) : k \in TiesOf(Stages[i + 1])}
          BY <2>2, <3>1
    <3> QED BY <3>2
  <2>4. k \in Ties /\ k.stage = Stages[i + 1]
        BY DEF TiesOf
  <2>5. Resolve(WinnerOf(a.match), k.match) = t
        BY <2>1, ResolveFacts
  <2>6. t \in {tie[k.match].home, tie[k.match].away}
        BY <1>2, <2>3, <2>4, <2>5 DEF Slots
  <2> QED BY <1>2, <2>4, <2>6 DEF SidesOf
<1>5. SidesOf(Stages[i + 1]) \subseteq Past(Stages[i])
      BY <1>3
<1>6. Past(Stages[i]) \subseteq SidesOf(Stages[i + 1])
      BY <1>4
<1> QED BY <1>5, <1>6

TournamentInv == LockInv /\ Bracketed

\* What the rounds of a column show when it is done follows from the bracket that was drawn.
LEMMA RoundsFromBracket == TournamentInv => RoundsNest
<1> SUFFICES ASSUME TournamentInv, phase = "done" PROVE RoundsNest
    BY DEF RoundsNest
<1>1. ColumnTyped /\ Placed /\ Bracketed
      BY DEF TournamentInv, LockInv
<1>2. SidesOf(Stages[1]) = {t \in Teams : InBracket(t)}
      BY <1>1, FirstRound
<1>3. \A i \in 1..(Len(Stages) - 1) : SidesOf(Stages[i + 1]) = Past(Stages[i])
      BY <1>1, LaterRound
<1>4. Drawn = Len(Knockout)
      BY <1>1, DrawnFacts
<1>5. ASSUME NEW k \in Ties PROVE tie[k.match].home # tie[k.match].away
  <2>1. PICK i \in 1..Drawn : k = Knockout[i]
        BY <1>4, NumberFacts
  <2> QED BY <1>1, <2>1 DEF Bracketed, Sided
<1>6. ASSUME NEW k \in Ties, NEW l \in Ties, k.stage = l.stage, k # l
      PROVE  {tie[k.match].home, tie[k.match].away} \cap {tie[l.match].home, tie[l.match].away} = {}
  <2>1. PICK i \in 1..Drawn : k = Knockout[i]
        BY <1>4, NumberFacts
  <2>2. PICK j \in 1..Drawn : l = Knockout[j]
        BY <1>4, NumberFacts
  <2>3. Sides(Knockout[i]) \cap Sides(Knockout[j]) = {}
        BY <1>1, <1>6, <2>1, <2>2 DEF Bracketed
  <2> QED BY <2>1, <2>2, <2>3 DEF Sides
<1> QED BY <1>2, <1>3, <1>5, <1>6 DEF RoundsNest

\* run_tournament, outputs.py: a column's first round holds the two best of every group and the
\* thirds that qualified, each later stage who came past the one before, and nobody twice.
THEOREM RoundsAgreeWithBracket == TournamentSpec => []RoundsNest
<1>1. TournamentInit => TournamentInv
      BY ColumnInit, OutOfReachInit, PlacedInit, BracketedInit DEF TournamentInv, LockInv
<1>2. TournamentInv /\ [TournamentNext]_tournamentVars => TournamentInv'
      BY ColumnNext, OutOfReachNext, PlacedNext, BracketedNext DEF TournamentInv, LockInv
<1> QED BY <1>1, <1>2, RoundsFromBracket, PTL DEF TournamentSpec

===============================================================================
