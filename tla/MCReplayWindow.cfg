SPECIFICATION Spec
CONSTANTS
  W <- MCW
  MaxNonce <- MCMaxNonce
INVARIANTS
  LateFrameAccepted
PROPERTIES
  
  ChannelSpec
