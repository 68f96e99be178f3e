SPECIFICATION Spec
CONSTANTS
  web = web
  db = db
  Name = {web, db}
  Files <- SomeFiles
  Offered <- SomeOffered
  CheckCron <- SomeCheck
  Calendars <- SomeCalendars
  TicksPerMinute = 4
  PollTicks = 2
  MaxLate = 2
  Edits = 1
  Deaths = 1
INVARIANT
  TypeOK
PROPERTY
  RulesServed
CHECK_DEADLOCK FALSE
