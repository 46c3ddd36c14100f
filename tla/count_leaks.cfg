SPECIFICATION Spec
CONSTANTS
  p1 = p1
  p2 = p2
  p3 = p3
  b1 = b1
  b2 = b2
  b3 = b3
  plan1 = plan1
  plan2 = plan2
  plan3 = plan3
  dep1 = dep1
  None = None
  Participants = {p1}
  Plans = {plan1}
  Dependencies = {dep1}
  Boots = {b1, b2, b3}
  RequestInputs <- ReissueRequests
  ParticipantInputs <- ReissueParticipants
  PlanInputs <- ReissuePlans
  DependencyInputs = {}
  ReservationInputs = {}
  CongestionInputs = {}
  CapacityInputs = {}
  PolicyInputs = {}
  InitialPolicy <- Wide
  FencedBoots = {b1}
  MaxRequestId = 1
  MaxRequestGen = 1
  MaxGrantId = 1
  MaxEpoch = 1
  MaxRecoveries = 0
  MaxAdvance = 0
  TimeModulus = 4
INVARIANTS ActiveCountExact
