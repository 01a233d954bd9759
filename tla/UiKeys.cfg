CONSTANTS
  Keys <- FewKeys
  Spots <- OneSpot
  Handles = {1}
  MaxItems = 2
  MaxLines = 2
  Visible = 1
  DragBound = 1
SPECIFICATION Spec
PROPERTIES KeysPaired
