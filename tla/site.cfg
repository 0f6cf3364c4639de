SPECIFICATION SiteSpec
CONSTANTS
  Files <- MCFiles
  Main = "main"
  Text <- MCText
  Disks <- MCDisks
  OpenQuote = OpenQuote
  Quote = OpenQuote
  MaxConfigEdits = 1
  Malformed = Malformed
  BadFiles = {"lost"}
  PathOf <- MCPathOf
  Regex <- MCRegex
  LowerCase <- MCLowerCase
  StatusWords = {"=404"}
  ZoneOf <- MCZoneOf
  None = None
  Tree0 <- MCTree
  Mutable <- MCMutable
  NewSizes = {1, 3}
  NoTime = NoTime
  Open = Open
  MaxEdits = 2
  MaxRequests = 2
  MaxClock = 2
  Requests <- MCRequests
INVARIANTS SiteTypeOK LoadFaithful IncludesBounded AcceptedIsServable RouteRight
           RangeExact RevalidationSound TryFilesHonest
CHECK_DEADLOCK FALSE
