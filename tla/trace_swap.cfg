SPECIFICATION Spec
CONSTANTS
  t1 = t1 t2 = t2
  Roll = Roll Sync = Sync Main = Main
  Loggers = {t1, t2}
  max_lines = 1
  ConnectErrors = TRUE
  UploadErrors = TRUE
  OpenErrors = TRUE
  MaxLines = 3
SYMMETRY Perms
INVARIANTS TypeOK NoPrintToClosed SentOnce LogsQueued
CHECK_DEADLOCK FALSE
