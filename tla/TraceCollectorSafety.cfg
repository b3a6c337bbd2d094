\* Two sessions on one transcript: lost answers, late requests, partial lines.
CONSTANTS
  s1 = s1
  s2 = s2
  rec = rec
  new = new
  nl = nl
  Byte = {rec, new, nl}
  Newline = nl
  MaxRecordBytes = 2
  ChunkTargetBytes = 4
  Process = {s1, s2}
  NoProcess = NoProcess
  SourceCount = 1
  TranscriptOf <- SharedTranscript
  StartupHook = {}
  Written <- WholeAndPartial
  Replacement = {}
  MaxFileBytes = 6
  MaxFaults = 2
  Mishap = {}
  MaxMishaps = 0
SPECIFICATION Spec
INVARIANTS WorkerOneRangeAhead ConflictsReconcile
PROPERTIES IsDelivery
