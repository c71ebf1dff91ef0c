CONSTANTS
  Minute = 2
  Hour = 4
  RawWindow = 3
  MinuteWindow = 6
  HourWindow = 8
  MaxClock = 10
  MaxSamples = 1
  MaxLag = 0
SPECIFICATION MetricsSpec
INVARIANT HistoryCovers
CHECK_DEADLOCK FALSE
