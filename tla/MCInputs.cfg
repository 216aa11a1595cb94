SPECIFICATION Spec
CONSTANTS
  Fold <- MCFold
  Lower <- MCLower
  Files <- MCFiles
  CmdLines <- MCCmdLines
  Texts <- MCTexts
  MCLength = 4
  Payloads <- MCPayloads
  Bodies <- MCBodies
  Values <- MCValues
  Width = 6
  DefaultWait = 2
  MaxWait = 20
  FloatRange = 80
INVARIANTS
  TopicOnWords LoopsWarned AcceptedWorks
  RewriteExact
  ValidationPredicts StructureKept
  NoFalseMatch
  TimeoutInRange
