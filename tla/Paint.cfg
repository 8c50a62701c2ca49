SPECIFICATION PaintSpec
CONSTANTS
  Width = 4
  Height = 3
  Colors <- MCColors
  Other = "other"
  Touched <- MCTouched
PROPERTIES BrushIsSquare StrokeIsWhole
