\* Counters of two bits, rects of up to 12 pixels on a screen of 4 by 3.
CONSTANTS
  red = red  green = green
  Colours = {red, green}  Blank = Blank
  Width = 4  Height = 3
  RawMaxPixels = 3  RleMax = 3
SPECIFICATION Spec
INVARIANTS RectIsShown OthersUntouched EndsWithARow
CHECK_DEADLOCK FALSE
