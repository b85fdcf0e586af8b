SPECIFICATION FairSpec
CONSTANTS
  HoursPerDay = 2
  MinutesPerHour = 2
  Schedules <- MCSchedules
  Settings <- MCSettings
  MaxNotes = 2
  MaxFailures = 2
INVARIANTS DeliveredOncePerCut MarkedWereDelivered CyclesAddUp WakesAtNextWindow
PROPERTIES NotesDelivered
