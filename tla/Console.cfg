SPECIFICATION Spec
CONSTANTS
  Width = 3
  Height = 2
  TabStop = 2
  Letters = {"a", "b"}
  Prompt <- MCPrompt
  Outputs <- MCOutputs
  MAX_LINE = 4
  MAX_HISTORY = 2
  MaxLines = 3
INVARIANTS
  ConsoleTypeOK
  EchoExact
  PromptKept
  HistoryKeepsLast
