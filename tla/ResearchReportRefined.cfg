CONSTANTS
  Urls <- MCUrls
  Address <- MCAddress
  NoUrl <- MCNoUrl
  Intent <- MCIntent
  Searches <- MCSearches
  Webs <- MCWebs
  Plans = {"none"}
  PageLimits = {0, 2}
  Messages <- MCMessages
  BrowserTask = FALSE
  MaxRestarts = 1
SPECIFICATION Spec
INVARIANTS SourcesSound WorkStands ReportHasBasis GradesAreEarned
PROPERTY SummaryFirstHeld
CHECK_DEADLOCK FALSE
