SPECIFICATION Spec
CONSTANTS
  t1 = t1 t2 = t2
  Roll = Roll Sync = Sync Main = Main
  Loggers = {t1}
  max_lines = 1
  ConnectErrors = FALSE
  UploadErrors = TRUE
  OpenErrors = FALSE
  MaxLines = 3
SYMMETRY Perms
INVARIANTS LogsPreserved
CHECK_DEADLOCK FALSE
