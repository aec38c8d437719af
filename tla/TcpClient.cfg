CONSTANTS
  Wnd = 3
  RecvBufSize = 3
  SndBuf = 2
  MaxUp = 5
  MaxDown = 5
SPECIFICATION Spec
INVARIANTS NoCallbackAfterFree SocksAsserts SentAsserts WindowMatchesBuffer UplinkInOrder DownlinkInOrder GracefulClose
PROPERTIES NoUseAfterFree HalfClosedIsFreed ImplementsStreams
CHECK_DEADLOCK FALSE
