SPECIFICATION LifeSpec
CONSTANTS
  Focus = {"loop", "commands", "snapshots"}
  Threshold = 4
  PollSeconds = 2
  Interval = {1, 2}
  MaxWork = 10
  Slack = 1
  Oldest = 12
  Wrap = 64
  Client = {ui}
  Patient = {}
  Cmd = {pause, resume}
  Cap = 1
  Burst = 2
  MaxAgent = 2
  MaxCmd = 2
  MaxPublish = 2
INVARIANTS SidesKeepTheirTypes NoLostWakeup StallNoticed CleanIsOnePublication AckedWasExecuted
PROPERTIES StopIsServed CommandAnswered LogsAreComplete
CHECK_DEADLOCK FALSE
