SPECIFICATION UserSpec
CONSTANTS
  None = None
  MAXARGS = 3
  Lines <- MCLines
  NPROC = 6
  NOFILE = 5
  PIPESIZE = 1
  MaxBack = 1
  Output = 1
  WORD = 64
  SECTSIZE = 4
  DIRSIZ = 2
  INTSIZE = 4
  Texts <- MCTexts
  Patterns <- MCPatterns
  Formats <- MCFormats
  Paths <- MCPaths
  Commands <- MCCommands
  Space1 = 24
  Limits <- MCLimits
  Images <- MCImages
  HDR = 2
  UINT = 64
  MinCore = 3
  Top = 9
  Requests = {1, 3, 4}
INVARIANT StdioRight
INVARIANT PromptAfterForeground
INVARIANT LibraryRight
INVARIANT ParserRight
INVARIANT HeapSound
PROPERTY LineEnds
