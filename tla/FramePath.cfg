SPECIFICATION PathSpec
CONSTANTS
  StandardWidth = 2
  ExtendedWidth = 3
  Channels <- MCChannels
  Payloads <- MCPayloads
  Reprs <- MCReprs
  Traffic <- MCTraffic
INVARIANTS
  FramesAreLegal
  FramesComeBack
  FilterIsFaithful
  StatusIsTrue
CHECK_DEADLOCK FALSE
