SPECIFICATION BudgetSpec
CONSTANTS
  master = master  scout = scout  quant = quant  forecast = forecast  referee = referee
  Tasks = {master, scout, quant, forecast, referee}
  Role <- MCRole
  MaxCost = 8
  Headroom = 1
  MaxCalls = 6
  ForecastReserve = 3
  RefereeReserve = 2
  ForecastReserveCalls = 2
  RefereeReserveCalls = 1
  DefaultEstimate = 1
  MaxRetries = 1
  Estimates = {1, 3}
  Costs = {1, 4}
SYMMETRY MCSymmetry
INVARIANTS
  LedgerExact
  CeilingHeld
  ReservesFund
