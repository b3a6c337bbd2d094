\* Everything is uploaded in the end: one session with a transcript, one that sweeps.
CONSTANTS
  s1 = s1
  s2 = s2
  rec = rec
  new = new
  nl = nl
  Byte = {rec, new, nl}
  Newline = nl
  MaxRecordBytes = 1
  ChunkTargetBytes = 1
  Process = {s1, s2}
  NoProcess = NoProcess
  SourceCount = 2
  TranscriptOf <- OneTranscript
  StartupHook = {s2}
  Written <- OneByteRecords
  Replacement = {}
  MaxFileBytes = 2
  MaxFaults = 1
  Mishap = {"lost"}
  MaxMishaps = 1
SPECIFICATION FairSpec
PROPERTIES EverythingUploaded
