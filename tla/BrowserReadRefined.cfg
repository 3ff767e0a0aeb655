CONSTANTS
  Urls <- MCUrls
  Address <- MCAddress
  InitialUrl <- MCInitialUrl
  TargetQuery <- MCTargetQuery
  Webs <- MCWebs
  Official <- MCOfficial
  Blogs <- MCBlogs
  MaxPages = 2
  MaxLinks = 4
  Messages <- MCMessages
  BrowserTask = TRUE
  MaxRestarts = 1
SPECIFICATION Spec
INVARIANTS RecordSound CompletedWasRead LogSound
CHECK_DEADLOCK FALSE
