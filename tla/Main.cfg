\* Two decoding threads, four sentences, two output streams, sentence 2 without translation.
SPECIFICATION FairSpec
CONSTANTS
  Workers = {w1, w2}
  FirstId = 0
  NumSentences = 4
  Streams <- MCStreams
  NoHypothesis <- MCFailed
  SkippedThen <- MCSkips
  Main = main
  NoTask = none
INVARIANTS
  HeldForSomeone
PROPERTIES
  FirstOutput
  LastOutput
