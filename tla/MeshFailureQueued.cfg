CONSTANTS
  InitialHops <- MCInitialHops
  HopCountTarget <- MCHopCountTarget
  Verifies <- MCVerifies
  Submission = {"fresh"}
  HopLimit = 3
  MeshFaults = {"timeout"}
  MaxMeshFaults = 1
SPECIFICATION MeshSpec
INVARIANT FailedIsNotQueued
