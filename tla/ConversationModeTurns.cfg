CONSTANTS
  l1 = l1
  l2 = l2
  Loops = {l1, l2}
  NoLoop = NoLoop
  MayReject <- LateFailures
SPECIFICATION FairSpec
INVARIANTS OneLoop MicrophoneIsOfTurn AudioFollowsStart
PROPERTIES NoHiddenListening StopReturns
