------------------------------- MODULE Engine -------------------------------
(***************************************************************************)
(* The backend's engine service (sim.py) and the match-day loop that lives *)
(* beside it (jobs.py, impact_report.py).                                  *)
(*                                                                         *)
(* EngineService serves from one fit: a forecaster restored from the       *)
(* published fitted state, and the results it plays.  Two refreshers       *)
(* replace it, the service's own timer and the loop after a pass that      *)
(* published; each reads the store in a thread of its own.  Requests take  *)
(* the fit once and look values up in a cache whose keys name the fit by   *)
(* its revision; equal lookups wait for one computation, and computations  *)
(* share a few slots with the loop's passes.                               *)
(*                                                                         *)
(* The store is written elsewhere: agent runs publish a snapshot and then  *)
(* its fitted state, and are numbered in that order.  Results arrive in    *)
(* between; here the results a fit plays are those of the run that         *)
(* published it, so that a fit is told by the number of its run.           *)
(***************************************************************************)
EXTENDS Integers, Sequences, SequencesExt, FiniteSets

CONSTANTS
    Clients,
    Loop, Timer,        \* the match-day loop, and EngineService.run
    SIM_CACHE_SIZE,
    MaxSnapshots        \* bound: agent runs

ASSUME EngineAssumption ==
    /\ IsFiniteSet(Clients) /\ Loop # Timer /\ {Loop, Timer} \cap Clients = {}
    /\ SIM_CACHE_SIZE \in Nat \ {0}
    /\ MaxSnapshots \in Nat

Refreshers == {Loop, Timer}
Askers == Clients \cup {Loop}

VARIABLES
    snapshots,      \* number of agent snapshots out
    pointer,        \* number of fitted states out: the last is FITTED_LATEST's, 0 is none
    fit,            \* EngineService._fit
    refresh,        \* what each refresher has read
    cache,          \* _cache, oldest use first
    inflight,       \* keys of _inflight
    ask,            \* each asker's lookup and the fit it took
    loop,           \* where LiveLoop.run is
    building,       \* the snapshot the impact report it builds is anchored to, 0 for none
    report,         \* the same of the report that is served
    overwritten     \* whether a refresh wrote over a fit it had not read

storeVars == <<snapshots, pointer>>
fitVars == <<fit, refresh, overwritten>>
lookupVars == <<cache, inflight, ask>>
reportVars == <<building, report>>
loopVars == <<loop, reportVars>>
engineVars == <<storeVars, fitVars, lookupVars, loopVars>>

-----------------------------------------------------------------------------
(* Fits, keys and values.                                                   *)

Runs == 0..MaxSnapshots      \* 0 is a fit of the dataset, made without any run's
NoFit == [id |-> -1, revision |-> -1]
Fits == [id : Runs, revision : Nat] \cup {NoFit}
ready == fit # NoFit

RunFitKey(run) == [tag |-> "run-fit", revision |-> 0, run |-> run]
ReachKey(f, run) == [tag |-> "reach", revision |-> f.revision, run |-> run]
ResultsKey(f) == [tag |-> "result-set", revision |-> f.revision, run |-> 0]

Keys == [tag : {"run-fit", "reach", "result-set"}, revision : Nat, run : Runs]
NoKey == RunFitKey(0)

\* What a computation under fit f yields: the state _restore finds of a run (0 is None), a
\* reach from the state of that run or of the fit, or the results of the fit.
Compute(key, f) ==
    IF key.tag = "run-fit" THEN IF key.run <= pointer THEN key.run ELSE 0
    ELSE IF key.tag = "reach" /\ key.run # 0 THEN key.run
    ELSE f.id

NoAsk == [pc |-> "idle", key |-> NoKey, fit |-> NoFit, value |-> 0]
NoRefresh == [pc |-> "idle", base |-> NoFit, id |-> 0]

LoopSteps == {"pass", "refresh", "refreshing", "anchor", "results", "legs", "then", "now",
              "dead"}

EngineTypeOK ==
    /\ snapshots \in Runs /\ pointer \in 0..snapshots /\ fit \in Fits
    /\ refresh \in [Refreshers -> [pc : {"idle", "loaded"}, base : Fits, id : Runs]]
    /\ Len(cache) <= SIM_CACHE_SIZE
    /\ \A i \in DOMAIN cache : cache[i] \in [key : Keys, value : Runs]
    /\ inflight \subseteq Keys
    /\ ask \in [Askers -> [pc : {"idle", "computing", "following", "answered", "failed"},
                           key : Keys, fit : Fits, value : Runs]]
    /\ loop \in LoopSteps
    /\ {building, report} \subseteq 0..snapshots
    /\ overwritten \in BOOLEAN

EngineInit ==
    /\ snapshots = 0 /\ pointer = 0
    /\ fit = NoFit /\ refresh = [r \in Refreshers |-> NoRefresh] /\ overwritten = FALSE
    /\ cache = <<>> /\ inflight = {} /\ ask = [q \in Askers |-> NoAsk]
    /\ loop = "pass" /\ building = 0 /\ report = 0

-----------------------------------------------------------------------------
(* The store: agent runs.                                                   *)

PublishSnapshot ==
    /\ snapshots < MaxSnapshots /\ pointer = snapshots
    /\ snapshots' = snapshots + 1
    /\ UNCHANGED <<pointer, fitVars, lookupVars, loopVars>>

PublishFit ==
    /\ pointer < snapshots /\ pointer' = pointer + 1
    /\ UNCHANGED <<snapshots, fitVars, lookupVars, loopVars>>

-----------------------------------------------------------------------------
(* _boot and _refresh.                                                      *)

\* Mutant of Outdated: only a boot.
OutdatedAtBoot == fit = NoFit

\* A boot always writes, a refresh only what differs from the fit it took.
Outdated == fit = NoFit \/ fit.id # pointer

\* A refresh takes the fit and then reads the store, in a thread; one that finds nothing
\* new is over.
ReadStore(r) ==
    /\ refresh[r].pc = "idle"
    /\ Outdated
    /\ refresh' = [refresh EXCEPT ![r] = [pc |-> "loaded", base |-> fit, id |-> pointer]]

\* Mutant of Revision: the revision of the fit that is replaced.
RevisionKept(r) ==
    IF refresh[r].base # NoFit THEN refresh[r].base.revision ELSE IF ready THEN fit.revision + 1 ELSE 0

\* A boot counts on from the fit there is, a refresh from the one it read.
Revision(r) ==
    IF refresh[r].base # NoFit THEN refresh[r].base.revision + 1
    ELSE IF ready THEN fit.revision + 1 ELSE 0

WriteFit(r) ==
    /\ refresh[r].pc = "loaded"
    /\ fit' = [id |-> refresh[r].id, revision |-> Revision(r)]
    /\ overwritten' = (overwritten \/ refresh[r].base \notin {fit, NoFit})
    /\ refresh' = [refresh EXCEPT ![r] = NoRefresh]

\* EngineService.run boots, then refreshes; it survives what either raises, and an
\* attempt that fails changes nothing.
TimerReads ==
    /\ ReadStore(Timer)
    /\ UNCHANGED <<storeVars, fit, overwritten, lookupVars, loopVars>>

TimerWrites ==
    /\ WriteFit(Timer)
    /\ UNCHANGED <<storeVars, lookupVars, loopVars>>

-----------------------------------------------------------------------------
(* _cached and run_blocking.                                                *)

Cached(key) == {i \in DOMAIN cache : cache[i].key = key}
Position(key) == CHOOSE i \in Cached(key) : TRUE

\* The cache without the entry of a key.
Without(key) == IF Cached(key) = {} THEN cache ELSE RemoveAt(cache, Position(key))

\* What an asker is left with: a client is served and leaves, the loop goes on from it.
Answer(q, pc, key, f, value) ==
    IF q = Loop THEN [pc |-> pc, key |-> key, fit |-> f, value |-> value] ELSE NoAsk

Hit(q, key, f) ==
    /\ Cached(key) # {}
    /\ cache' = Append(Without(key), cache[Position(key)])
    /\ ask' = [ask EXCEPT ![q] = Answer(q, "answered", key, f, cache[Position(key)].value)]
    /\ UNCHANGED inflight

\* Mutant of Lookup: nobody looks whether the key is registered.
LookupAlone(q, key, f) ==
    \/ Hit(q, key, f)
    \/ /\ Cached(key) = {}
       /\ ask' = [ask EXCEPT ![q] = [pc |-> "computing", key |-> key, fit |-> f, value |-> 0]]
       /\ inflight' = inflight \cup {key}
       /\ UNCHANGED cache

\* Up to its first await: answered from the cache, waiting for another's computation, or
\* leading one.
Lookup(q, key, f) ==
    \/ Hit(q, key, f)
    \/ /\ Cached(key) = {}
       /\ ask' = [ask EXCEPT ![q] = [pc |-> IF key \in inflight THEN "following" ELSE "computing",
                                     key |-> key, fit |-> f, value |-> 0]]
       /\ inflight' = inflight \cup {key}
       /\ UNCHANGED cache

\* All who waited for the key get what its leader got.
Served(key, pc, value) ==
    [p \in Askers |->
        IF ask[p].key = key /\ ask[p].pc \in {"computing", "following"}
        THEN Answer(p, pc, key, ask[p].fit, value) ELSE ask[p]]

\* The least recently used entry makes room.
Stored(key, value) ==
    LET longer == Append(Without(key), [key |-> key, value |-> value])
    IN  IF Len(longer) > SIM_CACHE_SIZE THEN Tail(longer) ELSE longer

Finish(q) ==
    /\ ask[q].pc = "computing"
    /\ LET key == ask[q].key
           value == Compute(key, ask[q].fit)
       IN  /\ cache' = Stored(key, value) /\ inflight' = inflight \ {key}
           /\ ask' = Served(key, "answered", value)
    /\ UNCHANGED <<storeVars, fitVars, loopVars>>

\* Mutant of Fails: its followers are not told.
FailsAlone(q) ==
    /\ ask[q].pc = "computing"
    /\ inflight' = inflight \ {ask[q].key}
    /\ ask' = [ask EXCEPT ![q] = Answer(q, "failed", ask[q].key, ask[q].fit, 0)]
    /\ UNCHANGED <<storeVars, fitVars, cache, loopVars>>

Fails(q) ==
    /\ ask[q].pc = "computing"
    /\ inflight' = inflight \ {ask[q].key}
    /\ ask' = Served(ask[q].key, "failed", 0)
    /\ UNCHANGED <<storeVars, fitVars, cache, loopVars>>

-----------------------------------------------------------------------------
(* A client's request: what simulate_pins looks up.                         *)

Request(c) ==
    /\ ask[c].pc = "idle" /\ ready
    /\ Lookup(c, ReachKey(fit, 0), fit)
    /\ UNCHANGED <<storeVars, fitVars, loopVars>>

-----------------------------------------------------------------------------
(* LiveLoop.run: a pass, a refresh if it published, and the impact report.  *)

EndPass(published) ==
    /\ loop = "pass"
    /\ loop' = IF published THEN "refresh" ELSE IF ready THEN "anchor" ELSE "pass"
    /\ UNCHANGED <<storeVars, fitVars, lookupVars, reportVars>>

LoopRefreshes ==
    /\ loop = "refresh"
    /\ \/ ReadStore(Loop) /\ loop' = "refreshing"
       \/ ~ Outdated /\ loop' = "anchor" /\ UNCHANGED refresh
    /\ UNCHANGED <<storeVars, fit, overwritten, lookupVars, reportVars>>

LoopWrites ==
    /\ WriteFit(Loop) /\ loop' = "anchor"
    /\ UNCHANGED <<storeVars, lookupVars, reportVars>>

\* Nothing catches what the refresh raises: the loop's task is over.
LoopRefreshFails ==
    /\ loop = "refresh" /\ loop' = "dead"
    /\ UNCHANGED <<storeVars, fitVars, lookupVars, reportVars>>

LoopIs(step) == loop = step /\ ask[Loop].pc = "answered"

\* build_impact finds the newest agent snapshot, if there is one, and asks for the
\* results of the day.
Anchor ==
    /\ loop = "anchor"
    /\ IF snapshots = 0
         THEN loop' = "pass" /\ UNCHANGED <<building, lookupVars>>
         ELSE /\ loop' = "results" /\ building' = snapshots
              /\ Lookup(Loop, ResultsKey(fit), fit)
    /\ UNCHANGED <<storeVars, fitVars, report>>

\* reach_legs takes the fit, and asks for the state of the run it is anchored to.
AskLegs ==
    /\ LoopIs("results") /\ loop' = "legs"
    /\ Lookup(Loop, RunFitKey(building), fit)
    /\ UNCHANGED <<storeVars, fitVars, reportVars>>

AskThen ==
    /\ LoopIs("legs") /\ loop' = "then"
    /\ Lookup(Loop, ReachKey(ask[Loop].fit, ask[Loop].value), ask[Loop].fit)
    /\ UNCHANGED <<storeVars, fitVars, reportVars>>

\* The legs that follow, "now" and "live", are asked of the current fit alike.
AskNow ==
    /\ LoopIs("then") /\ loop' = "now"
    /\ Lookup(Loop, ReachKey(ask[Loop].fit, 0), ask[Loop].fit)
    /\ UNCHANGED <<storeVars, fitVars, reportVars>>

PublishReport ==
    /\ LoopIs("now") /\ loop' = "pass"
    /\ report' = building
    /\ building' = 0 /\ ask' = [ask EXCEPT ![Loop] = NoAsk]
    /\ UNCHANGED <<storeVars, fitVars, cache, inflight>>

\* A report that cannot be built leaves the one before.
ReportFails ==
    /\ loop \in {"results", "legs", "then", "now"} /\ ask[Loop].pc = "failed" /\ loop' = "pass"
    /\ building' = 0 /\ ask' = [ask EXCEPT ![Loop] = NoAsk]
    /\ UNCHANGED <<storeVars, fitVars, cache, inflight, report>>

TimerStep == TimerReads \/ TimerWrites

LoopStep ==
    \/ \E published \in BOOLEAN : EndPass(published)
    \/ LoopRefreshes \/ LoopWrites
    \/ Anchor \/ AskLegs \/ AskThen \/ AskNow \/ PublishReport \/ ReportFails

EngineNext ==
    \/ PublishSnapshot \/ PublishFit
    \/ TimerStep
    \/ \E q \in Askers : Finish(q) \/ Fails(q)
    \/ \E c \in Clients : Request(c)
    \/ LoopStep \/ LoopRefreshFails

\* Threads end and sleeps are over some time; nothing is assumed of clients, of passes that
\* publish, or of the store's writers.
EngineFairness ==
    /\ WF_engineVars(TimerStep) /\ WF_engineVars(LoopStep)
    /\ \A q \in Askers : WF_engineVars(Finish(q))

EngineSpec == EngineInit /\ [][EngineNext]_engineVars /\ EngineFairness

-----------------------------------------------------------------------------
(* What those who ask may rely on.                                          *)

\* "Coalesce concurrent identical requests": no key is computed twice at once, and every
\* key that is registered has one leader, so nobody waits for a computation that is over.
OneLeaderPerKey ==
    \A key \in inflight \cup {ask[q].key : q \in {p \in Askers : ask[p].pc \in {"computing", "following"}}} :
        /\ key \in inflight
        /\ Cardinality({q \in Askers : ask[q].key = key /\ ask[q].pc = "computing"}) = 1

\* _Fit: "requests snapshot it so a refresh mid-sim cannot mix states": whoever looks up
\* with a fit, the current one or one that a request took before it was replaced, finds
\* in the cache or gets from another's computation what that fit yields; unless a refresh
\* has written over a fit it had not read, and so used a revision a second time.
Held == {fit} \cup {ask[q].fit : q \in Askers}
SameFit(f, g) == f.revision = g.revision => f.id = g.id
AnswersOwnFit ==
    overwritten \/
        \A f \in Held \ {NoFit} :
            /\ \A i \in DOMAIN cache :
                cache[i].key \in {ResultsKey(f), ReachKey(f, 0)} => cache[i].value = f.id
            /\ \A q \in Askers : ask[q].pc \in {"computing", "following"} => SameFit(f, ask[q].fit)

\* EngineService.run keeps "the fitted state aligned with the published pointer", however
\* the loop's refreshes interleave with its own and which of them fail.
FitConverges == []<>(ready /\ fit.id = pointer)

\* The report follows the newest agent snapshot, however a pass, a refresh, clients and
\* the loop wait for one another: a report that lags is replaced, unless a lookup of the
\* loop fails or its task is over.
ReportFollows ==
    report < snapshots ~> report = snapshots \/ ask[Loop].pc = "failed" \/ loop = "dead"

=============================================================================
