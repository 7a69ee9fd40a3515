CONSTANTS
  Erased = Erased
  Wrap = 3000
  Window = 3
  Period = {400, 700}
  Horizon = 2900
  MaxBoots = 4
  LossAt = {"erase", "program", "run"}
  WriteMayFail = TRUE
SPECIFICATION ClockSpec
PROPERTY IntactStampsIncrease
CHECK_DEADLOCK FALSE
