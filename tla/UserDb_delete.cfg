CONSTANTS
  NoCandidate = NoCandidate
  s1 = s1
  s2 = s2
  script1 = script1
  table1 = table1
  script2 = script2
  Sessions <- MCSessions
  MemoriesOf <- MCMemoriesOf
  ScriptMemories = {script1, script2}
  Words = {"w"}
  Characters = {"w"}
  MaxCount = 2
  MaxWords = 2
  MaxSegments = 2

SPECIFICATION Spec

PROPERTIES
  DeletesTheCandidate
