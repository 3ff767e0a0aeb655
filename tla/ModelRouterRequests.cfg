CONSTANTS
  r1 = r1
  r2 = r2
  ollama = ollama
  demo = demo
  local = local
  cloud = cloud
  Requests = {r1, r2}
  Providers <- FourProviders
  Kind <- FourKinds
  ModesOf <- FourModes
  Abilities <- SomeAbilities
  NoProvider = NoProvider
SPECIFICATION FairSpec
INVARIANTS RoutingSound FallbackTold
PROPERTY CallsEnd
CHECK_DEADLOCK FALSE
