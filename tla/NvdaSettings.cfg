\* Settings changed while commands are on their way, cancel anywhere.
CONSTANTS
  Entries = {1, 2, 3, 4, 5, 6, 7}
  Images <- SomeImages
  Requests = {0, 2}
  Voices <- SomeVoices
  Linked <- PitchAndReverb
  Global <- JustVolume
  SliderValues = {30}
  Offset = 30
  Profiles <- Saved
  MaxStream = 2
SPECIFICATION DriverSpec
INVARIANTS HeardAsShown FloorKept
PROPERTIES VoiceShowsThrough RestoreWins HigherIsFaster
