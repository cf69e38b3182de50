SPECIFICATION RemindersSpec
CONSTANTS
    ReminderIds = {i1, i2}
    Workers = {w1}
    BatchSize = 2
    Browsers = {b1}
    MaxStops = 1
PROPERTIES
    RemindersEnd
CHECK_DEADLOCK FALSE
