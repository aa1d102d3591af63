SPECIFICATION Spec
CONSTANTS
  MaxN = 26
  MaxW = 10
INVARIANTS
  TreeIsSound
  PlanTreeAgrees
  SlicesPartition
  HandOffsGoDown
  FewHandOffs
  OverlayIsSmallAndConnected
CHECK_DEADLOCK FALSE
