SPECIFICATION Spec
CONSTANTS
  Users = {alice, bob}
  Admins = {bob}
  Clients = {c1, c2}
  MaxRequests = 2
  MaxProjects = 3
  Ops <- AllOps
  CascadeDepth <- Depth
  NonAdminCanCreateProject = TRUE
  FirstOwner = alice
  SecondOwner = bob
SYMMETRY ClientSymmetry
INVARIANTS StoreSound
PROPERTIES RemovalsSound StaleRequestsSafe
CHECK_DEADLOCK FALSE
