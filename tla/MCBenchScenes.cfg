CONSTANTS
  main = main
  player = player
  Threads = {main, player}
  Loop = main
  Presets = {0, 1}
  Name <- MCName
  Own <- MCOwn
  Usb = 11
  Scenes = {0, 1}
  Scened = {1}
  Fader <- MCFader
  Loudness <- MCLoudness
  Crest <- MCCrest
  Noise <- MCNoise
  Lo <- MCLo
  Hi = 2
  Ceiling = 2
  MaxIterations = 2
  MaxBlocks = 3
  MaxQuiet = 2
  Riff = "riff"
  Sessions <- MCSessions
  MaxPlayer = 1
SPECIFICATION Spec
CHECK_DEADLOCK FALSE
INVARIANT SwitchedScenesAreMeasured
