SPECIFICATION ConfigSpec
INVARIANTS OnlyTableEntries
PROPERTIES EntryWritten ConfigEnds
