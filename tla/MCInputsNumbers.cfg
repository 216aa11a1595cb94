SPECIFICATION Spec
CONSTANTS
  Fold <- MCFold
  Lower <- MCLower
  Files = {}
  CmdLines <- MCCmdLines
  Texts = {}
  MCLength = 4
  Payloads = {}
  Bodies <- MCBodies
  Values <- MCValues
  Width = 6
  DefaultWait = 2
  MaxWait = 20
  FloatRange = 0
INVARIANT NumbersConverted
