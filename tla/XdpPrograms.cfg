CONSTANTS
  Frames <- MCFrames
  Envs <- MCEnvs
  MaxRuns = 2
SPECIFICATION Spec
INVARIANTS CursorInFrame ProgramsRight
PROPERTY ChecksumsKept
CHECK_DEADLOCK FALSE
