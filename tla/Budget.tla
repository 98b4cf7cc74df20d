------------------------------- MODULE Budget -------------------------------
(***************************************************************************)
(* The run's language-model budget: charge_llm, add_cost and               *)
(* release_reservation of observability/runtime.py, called by the          *)
(* ObservedModel of every agent of the run.                                *)
(*                                                                         *)
(* Agents run concurrently in one event loop.  A request charges a call    *)
(* and reserves its estimated cost in one step, waits for the provider,    *)
(* and then settles its real cost or, failed or cancelled, hands the       *)
(* reservation back; a transient failure is retried and charged anew.      *)
(* Ordinary agents hold back the slices kept for the last forecast and for *)
(* the referee; a quant node that repairs a structural rejection may spend *)
(* the forecast's.  Money is counted in a unit of the instance.            *)
(***************************************************************************)
EXTENDS Integers, FiniteSets

CONSTANTS
    Tasks,                \* agents that may have a request open
    Role,                 \* [Tasks -> Roles]
    MaxCost, Headroom,    \* caps.max_cost_micros (0: no ceiling), caps.headroom_micros
    MaxCalls,             \* caps.max_llm_calls
    ForecastReserve, RefereeReserve,            \* settings.graph_*_reserve_usd
    ForecastReserveCalls, RefereeReserveCalls,  \* settings.graph_*_reserve_llm_calls
    DefaultEstimate,      \* _DEFAULT_CALL_ESTIMATE_MICROS
    MaxRetries,           \* RetryPolicy.max_retries
    Estimates,            \* what _request_reservation_micros may say of a request
    Costs                 \* what a call may turn out to cost

\* Which slices an agent may spend (execute_brief and _run's observed()).
Roles == {"ordinary", "repair", "forecast", "referee"}

ASSUME BudgetAssumption ==
    /\ IsFiniteSet(Tasks) /\ Role \in [Tasks -> Roles]
    /\ {MaxCost, Headroom, MaxCalls, ForecastReserve, RefereeReserve, ForecastReserveCalls,
        RefereeReserveCalls, DefaultEstimate, MaxRetries} \subseteq Nat
    /\ Estimates \subseteq Nat /\ Costs \subseteq Nat

VARIABLES
    llmCalls, costMicros, inFlight,
    settledCalls,         \* its cost is costMicros: add_cost is the only writer of both
    status, attempt, reserved,    \* of each task's open request
    charged, spent,       \* calls and cost by role
    overrun               \* by role: what settled calls cost beyond their reservation

ledgerVars == <<llmCalls, costMicros, inFlight, settledCalls>>
requestVars == <<status, attempt, reserved>>
roleVars == <<charged, spent, overrun>>
budgetVars == <<ledgerVars, requestVars, roleVars>>

BudgetTypeOK ==
    /\ {llmCalls, costMicros, inFlight, settledCalls} \subseteq Nat
    /\ status \in [Tasks -> {"idle", "backoff", "calling"}]
    /\ attempt \in [Tasks -> 0..MaxRetries]
    /\ reserved \in [Tasks -> Nat]
    /\ {charged, spent, overrun} \subseteq [Roles -> Nat]

BudgetInit ==
    /\ llmCalls = 0 /\ costMicros = 0 /\ inFlight = 0 /\ settledCalls = 0
    /\ status = [t \in Tasks |-> "idle"]
    /\ attempt = [t \in Tasks |-> 0]
    /\ reserved = [t \in Tasks |-> 0]
    /\ charged = [r \in Roles |-> 0] /\ spent = [r \in Roles |-> 0] /\ overrun = [r \in Roles |-> 0]

-----------------------------------------------------------------------------
(* The reserves, clamped to half of the run's caps.                         *)

Lesser(a, b) == IF a < b THEN a ELSE b
Greater(a, b) == IF a > b THEN a ELSE b

\* _split_reserve: the referee's slice first.
Split(forecast, referee, budget) ==
    LET total == Lesser(forecast + referee, budget)
        kept == Lesser(referee, total)
    IN  [forecast |-> total - kept, referee |-> kept]

\* finalisation_reserves_micros, finalisation_reserve_calls.
Slices ==
    IF MaxCost = 0 THEN [forecast |-> ForecastReserve, referee |-> RefereeReserve]
    ELSE Split(ForecastReserve, RefereeReserve, MaxCost \div 2)
CallSlices == Split(ForecastReserveCalls, RefereeReserveCalls, MaxCalls \div 2)

\* Mutant of HeldBack: an ordinary agent holds back the forecast's slice only.
HeldBackForecastOnly(role, slices) ==
    CASE role = "ordinary" -> slices.forecast
      [] role \in {"repair", "forecast"} -> slices.referee
      [] role = "referee" -> 0

\* What an agent of a role must leave untouched.
HeldBack(role, slices) ==
    CASE role = "ordinary" -> slices.forecast + slices.referee
      [] role \in {"repair", "forecast"} -> slices.referee
      [] role = "referee" -> 0

Ceiling(role) == MaxCost + (IF role = "ordinary" THEN 0 ELSE Headroom)

\* Only the referee's model has a reservation floor.
Floor(role) == IF role = "referee" THEN Slices.referee ELSE 0

-----------------------------------------------------------------------------
(* charge_llm.                                                              *)

\* _call_estimate_micros.
CallEstimate == IF settledCalls = 0 THEN DefaultEstimate ELSE costMicros \div settledCalls

Reservation(role, estimate) == Greater(CallEstimate, Greater(Floor(role), estimate))

CallLeft(role) == llmCalls < MaxCalls - HeldBack(role, CallSlices)

\* Mutant of Affordable: what siblings have reserved is not counted.
AffordableUnreserved(role, estimate) ==
    LET available == Ceiling(role) - HeldBack(role, Slices) - costMicros
    IN  MaxCost # 0 => available > 0 /\ Reservation(role, estimate) <= available

Affordable(role, estimate) ==
    LET available == Ceiling(role) - HeldBack(role, Slices) - costMicros - inFlight
    IN  MaxCost # 0 => available > 0 /\ Reservation(role, estimate) <= available

Admits(role, estimate) == CallLeft(role) /\ Affordable(role, estimate)

\* A new request, or the next attempt of one that backed off, is admitted.
Charge(t, estimate) ==
    /\ status[t] \in {"idle", "backoff"} /\ Admits(Role[t], estimate)
    /\ LET reservation == Reservation(Role[t], estimate)
       IN  /\ inFlight' = inFlight + reservation
           /\ reserved' = [reserved EXCEPT ![t] = reservation]
    /\ llmCalls' = llmCalls + 1
    /\ charged' = [charged EXCEPT ![Role[t]] = @ + 1]
    /\ status' = [status EXCEPT ![t] = "calling"]
    /\ UNCHANGED <<costMicros, settledCalls, attempt, spent, overrun>>

\* The request of t is over.
Close(t) ==
    /\ status' = [status EXCEPT ![t] = "idle"]
    /\ attempt' = [attempt EXCEPT ![t] = 0]

\* CapExceeded, on the first attempt or on a retry.
Refuse(t, estimate) ==
    /\ status[t] \in {"idle", "backoff"} /\ ~Admits(Role[t], estimate)
    /\ Close(t)
    /\ UNCHANGED <<ledgerVars, reserved, roleVars>>

-----------------------------------------------------------------------------
(* What becomes of an open call.                                            *)

\* release_reservation.
Release(t) ==
    /\ inFlight' = Greater(0, inFlight - reserved[t])
    /\ reserved' = [reserved EXCEPT ![t] = 0]

\* add_cost: the real cost, whatever was estimated.
AddCost(t, cost) ==
    /\ costMicros' = costMicros + cost
    /\ settledCalls' = settledCalls + 1
    /\ spent' = [spent EXCEPT ![Role[t]] = @ + cost]
    /\ overrun' = [overrun EXCEPT ![Role[t]] = @ + Greater(0, cost - reserved[t])]

\* Mutant of Settle: the finally block releases what add_cost has released.
SettleAndRelease(t, cost) ==
    /\ status[t] = "calling"
    /\ inFlight' = Greater(0, inFlight - 2 * reserved[t])
    /\ reserved' = [reserved EXCEPT ![t] = 0]
    /\ AddCost(t, cost) /\ Close(t)
    /\ UNCHANGED <<llmCalls, charged>>

Settle(t, cost) ==
    /\ status[t] = "calling"
    /\ Release(t) /\ AddCost(t, cost) /\ Close(t)
    /\ UNCHANGED <<llmCalls, charged>>

\* A transient failure with attempts left sleeps before the next one.
RetryLater(t) ==
    /\ status[t] = "calling" /\ attempt[t] < MaxRetries
    /\ Release(t)
    /\ status' = [status EXCEPT ![t] = "backoff"]
    /\ attempt' = [attempt EXCEPT ![t] = @ + 1]
    /\ UNCHANGED <<llmCalls, costMicros, settledCalls, roleVars>>

\* A lasting failure, the last transient one, or a cancelled node.
Fail(t) ==
    /\ status[t] = "calling"
    /\ Release(t) /\ Close(t)
    /\ UNCHANGED <<llmCalls, costMicros, settledCalls, roleVars>>

\* The node is cancelled while its request sleeps.
CancelBackoff(t) ==
    /\ status[t] = "backoff"
    /\ Close(t)
    /\ UNCHANGED <<ledgerVars, reserved, roleVars>>

BudgetNext ==
    \E t \in Tasks :
        \/ \E estimate \in Estimates : Charge(t, estimate)
        \/ \E estimate \in Estimates : Refuse(t, estimate)
        \/ \E cost \in Costs : Settle(t, cost)
        \/ RetryLater(t)
        \/ Fail(t)
        \/ CancelBackoff(t)

BudgetSpec == BudgetInit /\ [][BudgetNext]_budgetVars

-----------------------------------------------------------------------------
(* What the budget promises.                                                *)

\* One token for every unit a task of T has reserved: the sum of reservations is
\* the number of tokens.
Tokens(r, T) == UNION {{t} \X (1 .. r[t]) : t \in T}
Held(T) == Cardinality(Tokens(reserved, T))

Playing(roles) == {t \in Tasks : Role[t] \in roles}

\* A reservation is given back exactly once, whichever way its call ends: in_flight
\* is the sum of what open calls hold, and the clamp at zero never hides a loss.
LedgerExact == inFlight = Held(Tasks)

\* Parallel calls cannot overshoot the ceiling together; only a call that costs more
\* than was reserved for it can, and by no more than that (charge_llm's docstring).
CeilingHeld ==
    MaxCost # 0 =>
        costMicros + inFlight
            <= MaxCost + Headroom + overrun["ordinary"] + overrun["repair"] + overrun["forecast"]
                 + overrun["referee"]

\* What an agent's role has spent, and what its open calls may yet spend.
Used(role) == spent[role] + Held(Playing({role}))

\* However many ordinary calls are open, retried or abandoned, they never use the
\* slices held back; repairs and the forecast share theirs, and never use the
\* referee's.
SlicesKept ==
    MaxCost # 0 =>
        /\ Used("ordinary") <= MaxCost - Slices.forecast - Slices.referee + overrun["ordinary"]
        /\ Used("ordinary") + Used("repair") + Used("forecast")
             <= MaxCost + Headroom - Slices.referee
                  + overrun["ordinary"] + overrun["repair"] + overrun["forecast"]

\* The same of the calls, which retries spend too.
CallsKept ==
    /\ llmCalls <= MaxCalls
    /\ charged["ordinary"] <= MaxCalls - CallSlices.forecast - CallSlices.referee
    /\ charged["ordinary"] + charged["repair"] + charged["forecast"] <= MaxCalls - CallSlices.referee

\* So the slices fund what they are kept for, whatever ran before or is open: a
\* forecast's call is admitted while what repairs, forecasts and the referee have
\* used of the forecast's slice and the headroom leaves enough for it, and a
\* referee's while the referee's own use of its slice does.  (What the referee spends
\* counts against the forecast: charge_llm holds its slice back even when it is
\* spent.)  Only calls that cost more than their reservation eat into what is left.
ReservesFund ==
    \A estimate \in Estimates :
        /\ /\ charged["repair"] + charged["forecast"] + charged["referee"] < CallSlices.forecast
           /\ Reservation("forecast", estimate)
                \in 1 .. (Slices.forecast + Headroom - overrun["ordinary"]
                            - Used("repair") - Used("forecast") - Used("referee"))
           => Admits("forecast", estimate)
        /\ /\ charged["referee"] < CallSlices.referee
           /\ Reservation("referee", estimate)
                \in 1 .. (Slices.referee - Used("referee")
                            - overrun["ordinary"] - overrun["repair"] - overrun["forecast"])
           => Admits("referee", estimate)

=============================================================================
