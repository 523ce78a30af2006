SPECIFICATION ProbeSpec
CONSTANTS
  use_msi = 3
  Fails <- AllFails
  EvMax = 2
INVARIANTS GivesAllBack ReleasesHeld WorkBacked TimerGone
