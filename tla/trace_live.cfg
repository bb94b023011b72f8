SPECIFICATION FairSpec
CONSTANTS
  t1 = t1 t2 = t2
  Roll = Roll Sync = Sync Main = Main
  Loggers = {t1, t2}
  max_lines = 3
  ConnectErrors = FALSE
  UploadErrors = FALSE
  OpenErrors = FALSE
  MaxLines = 3
PROPERTIES LinesReachServer
CHECK_DEADLOCK FALSE
INVARIANTS EndSendsAll
