\* Three projects and blueprints, five operations, one upload, a request that fails.
SPECIFICATION Spec
CONSTANTS
  MaxProjects = 3
  MaxBlueprints = 3
  MaxJobs = 1
  MaxOps = 5
  MaxFaults = 1
INVARIANTS TypeOK JobOfItsProject ListAgrees
PROPERTY WaitEnds
CHECK_DEADLOCK FALSE
