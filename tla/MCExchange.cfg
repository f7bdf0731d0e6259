\* Two threads of one client, with and without the lock, and a second client.
CONSTANTS
  ui = ui
  worker = worker
  app = app
  scene = scene
  preset = preset
  Threads = {ui, worker, app}
  ClientOf <- TwoClients
  Kinds <- Ways
  Commands = {scene, preset}
  MaxAsks <- TwoAndOne
  MaxPushes = 1
  Free = Free
SPECIFICATION Spec
INVARIANTS
  TypeOK
PROPERTIES
  AnsweredIsFound
  ReturnsOwnAnswer
SYMMETRY CommandSymmetry
CHECK_DEADLOCK FALSE
