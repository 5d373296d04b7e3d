SPECIFICATION MessageSpec
CONSTANTS
  Strings <- MCStrings
  Keys <- MCKeys
  Length <- MCLength
  Commands = {"connect", "publish", "play", "createStream"}
  Arguments <- MCArguments
  Modulus = 12
  AUDIO_MAX_DELTA = 2
  VIDEO_MAX_DELTA = 3
  AUDIO_DEFAULT_DELTA = 1
  VIDEO_DEFAULT_DELTA = 2
  MaxAudio = 3
CHECK_DEADLOCK FALSE
INVARIANTS
  Understood
  SizesAgree
  AudioFollows
  RegularKept
