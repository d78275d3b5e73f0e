CONSTANTS
  r1 = r1
  s1 = s1
  v1 = v1
  Pids = {c1, c2, c3}
  Paths = {r1, s1}
  NoPath = NoPath
  RecipeFiles = {r1}
  SessionFiles = {s1}
  Vars = {v1}
  NoVar = NoVar
  NoCall = NoCall
  Bodies <- TwoBodies
SPECIFICATION Spec
INVARIANTS RecordingKept ReplayRunsOneRecording SessionIsOneSave
CHECK_DEADLOCK FALSE
