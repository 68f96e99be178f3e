SPECIFICATION Spec
CONSTANTS
  web = web
  db = db
  new = new
  webdir = webdir
  dbdir = dbdir
  old = old
  cur = cur
  ghcr = ghcr
  quay = quay
  Name = {web, db, new}
  Path = {webdir, dbdir}
  Version = {old, cur}
  Hub = {ghcr, quay}
  None = None
  Torn = Torn
  Absent = Absent
  Blank = Blank
  Offered <- SomeOffered
  Found <- SomeFound
  Commands = 3
  Deaths = 1
  Faults = 1
INVARIANT
  TypeOK
PROPERTIES
  Implements
  SetConfigKeeps
CHECK_DEADLOCK FALSE
