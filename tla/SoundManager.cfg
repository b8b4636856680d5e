SPECIFICATION SoundSpec
CONSTANTS
  hum = hum crow = crow
  Noisy = {x1, x2}
  Loops = {hum}
  Endings = {crow}
  NoSound = NoSound NoObject = NoObject
  Channels = 2
  Capacities = {1, 2}
  FadeUpdates = 1
  MaxQueued = 1
INVARIANTS MixerSound OwnChannel
PROPERTIES LoopSurvives
