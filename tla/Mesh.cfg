CONSTANTS
  InitialHops <- MCInitialHops
  HopCountTarget <- MCHopCountTarget
  Verifies <- MCVerifies
  Submission = {"fresh", "carried", "looping"}
  HopLimit = 3
  MeshFaults = {"network", "timeout", "publish", "corrupt", "limit"}
  MaxMeshFaults = 2
SPECIFICATION MeshFairSpec
INVARIANT MeshTypeOK
INVARIANT AcceptedIsQueued
INVARIANT QueuedOnceIntact
INVARIANT HopsAsConfigured
PROPERTY EverySubmissionAnswered
