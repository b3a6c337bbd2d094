\* One transcript replaced, lost, or its ledger corrupted, under two collectors.
CONSTANTS
  s1 = s1
  s2 = s2
  rec = rec
  new = new
  nl = nl
  Byte = {rec, new, nl}
  Newline = nl
  MaxRecordBytes = 2
  ChunkTargetBytes = 4
  Process = {s1, s2}
  NoProcess = NoProcess
  SourceCount = 1
  TranscriptOf <- SharedTranscript
  StartupHook = {}
  Written <- WholeRecords
  Replacement <- TruncatedOrNew
  MaxFileBytes = 4
  MaxFaults = 2
  Mishap = {"replaced", "lost", "corrupted"}
  MaxMishaps = 2
SPECIFICATION Spec
INVARIANTS TypeOK ClaimsAreCommitted ArchiveIsTranscript ArchiveIsOneGeneration
PROPERTIES LedgerForwardOnly
