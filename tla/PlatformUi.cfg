CONSTANTS
  Keys <- TwoKeys
  Spots <- FewSpots
  Handles = {1}
  MaxItems = 2
  MaxLines = 2
  Visible = 1
  DragBound = 1
SPECIFICATION Spec
INVARIANTS GuestFrameReturns LayerOnScreen
PROPERTIES TouchesPaired ChoiceIsFresh KeysPaired
