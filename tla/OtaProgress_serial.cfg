SPECIFICATION ProgressSpec
CONSTANTS
  Sizes = {50, 100, 250}
  Lens = {50, 200}
  Threaded = FALSE
INVARIANT
  ProgressInRange
