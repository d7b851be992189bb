\* One transport, a channel for one alert: the two threads wait for each other.
CONSTANTS
  AlertBudget = 1
  AlertChannel = 1
  AlertPosts = {}
  MaxAlerts = 2
  MaxWindows = 0
  MaxAlertEdits = 2
SPECIFICATION AlertFairSpec
PROPERTY JoinEnds
CHECK_DEADLOCK FALSE
