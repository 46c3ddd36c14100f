SPECIFICATION FSpec
CONSTANTS
  p1 = p1
  p2 = p2
  b1 = b1
  plan1 = plan1
  None = None
  Participants = {p1, p2}
  Plans = {plan1}
  Dependencies = {}
  Boots = {b1}
  RequestInputs <- FairRequests
  ParticipantInputs <- FairParticipants
  PlanInputs <- FairPlans
  DependencyInputs = {}
  ReservationInputs = {}
  CongestionInputs = {}
  CapacityInputs = {}
  PolicyInputs = {}
  InitialPolicy <- FairPolicy
  FencedBoots = {}
  MaxRequestId = 3
  MaxRequestGen = 1
  MaxGrantId = 3
  MaxEpoch = 1
  MaxRecoveries = 0
  MaxAdvance = 0
  TimeModulus = 64
INVARIANTS ClientsNeverCollide
PROPERTIES ImplementsScheduler PromotedGoFirst InversionsReported EverythingEnds
CHECK_DEADLOCK FALSE
