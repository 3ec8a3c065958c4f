\* Each kind of trigger; two files, three edits, one crash, one stop, a sink that raises once.
SPECIFICATION FairSpec
CONSTANTS
  Kinds = {"manual", "folder_watch", "manifest", "manifest_once"}
  Files = {"f", "g"}
  Hidden = {}
  Unnumbered = {}
  Dedup = "sha256"
  SizeOf <- BackAgain
  Rows <- TwoRows
  Unparsable = {0, 3}
  Settle = 1
  MaxCrashes = 1
  MaxEdits = 3
  MaxFaults = 1
  MaxStops = 1
PROPERTIES QuietFilesAdmitted SettledOnly ManifestTaken
CHECK_DEADLOCK FALSE
