\* Session starts overlap while the plugin is updated; one death, failure, reset or edit.
SPECIFICATION Spec
SYMMETRY Slots
CONSTANTS
  Process = {a, b}
  Commands = {"launcher", "ensure"}
  MaxVersion = 2
  MaxMishaps = 1
  MaxEdits = 1
INVARIANTS TypeOK EditsAreKept OneTimeNoticesOnce ClaimedIsShown RecordedIsAnnounced
