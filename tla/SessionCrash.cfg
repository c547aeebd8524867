SPECIFICATION Spec
CONSTANTS
  MaxFrames = 1
INVARIANT CrashNotDisguised
