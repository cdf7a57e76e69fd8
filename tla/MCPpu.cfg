CONSTANTS
  Dots = 18
  Visible = 2
  Blank = 2
  IrqDot = 4
  Cycles = {1, 3}
  DmaCycles = 4
  InterruptCycles = 1
  ControlValues = {3, 7}
  MaskValues = {TRUE}
  ScrollValues = {0, 255}
  AddrValues = {175}
  MaxWalk = 1
  ScreenLines = 4
  Width = 5
  SpriteWidth = 2
  Height = 2
  PerLine = 2
  Left = 1
  Oams <- MCOams
  Backgrounds <- MCBackgrounds
  Masks <- MCMasks
SPECIFICATION PpuSpec
\* A panic of the emulator ends it.
CHECK_DEADLOCK FALSE
INVARIANTS
  PpuTypeOK
  RenderedOncePerVblank
  IrqDeliveredOnce
  SpriteZeroHits
  OverflowIsExact
PROPERTIES
  VblankVisible
  WordsHoldFields
