SPECIFICATION Spec
CONSTANTS
  None = None
  Happenings <- MCHappenings
  Capacity = 3
  PerPage = 2
  FirstSerial = 65534
  MaxLosses = 1
INVARIANTS
  DownloadIsTheLog
  LastReportIsTrue
  LiveAgreesWithLog
PROPERTIES
  DownloadEnds
