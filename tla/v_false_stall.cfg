SPECIFICATION LoopSpec
CONSTANTS
  Threshold = 4
  PollSeconds = 2
  Interval = {1, 2}
  MaxWork = 1
  Slack = 1
  Oldest = 12
  Wrap = 64
PROPERTY StallIsReal
CHECK_DEADLOCK FALSE
