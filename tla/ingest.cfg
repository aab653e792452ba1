SPECIFICATION PartsSpec
CONSTANTS
  fa = fa
  fb = fb
  r1 = r1
  r2 = r2
  q1 = q1
  unz = unz
  e1 = e1
  e2 = e2
  Files = {fa}
  FileOf <- MCFileOf
  Blank = ""
  Labels = {"CLERK"}
  Items = {"i"}
  Archive <- MCArchive
  Readers = {r1, r2}
  Requests = {q1}
  Unpacker = unz
  Attempts = 2
  HaltPages = 2
  MaxDocs = 2
  MaxRare = 1
  Editors = {e1, e2}
  Dates = {1}
  None = None
  MaxEdits = 2
  Days = {0, 33, 34, 49, 78, 90, 106}
  Vehicles = {"direct_appeal", "pdr_clock", "11.07", "2254"}
  Recordable = {"judgmentSigned", "sentenceImposed", "motionForNewTrial", "noticeOfAppeal", "coaJudgment", "rehearingFiled", "rehearingDenied", "pdrFiled"}
  LegalHolidays = {32}
  YearDays = 60
  MaxEntries = 2
SYMMETRY Symmetric
CHECK_DEADLOCK FALSE
INVARIANTS DuplicateHasOriginal BilledByOverlapOnly MeterCatchesUp CitedStays
INVARIANTS OneStoryUnlessRaced ClocksAreRight
