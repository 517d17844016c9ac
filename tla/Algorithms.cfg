CONSTANTS
  CommandLines <- MCCommandLines
  Cwds <- MCDirectories
  Includes <- MCIncludes
  Fold <- MCFold
  UNC <- MCUNC
  Sidebars <- MCSidebars
  Requests <- MCRequests
  Pickings <- MCPickings
  Forbidden = {"", ".", ".."}
  Hidden = {".f"}
  IncludeName <- include
  SourceName <- MCSource
  Standard <- MCStandard
  Studio <- MCStudio
  Limits <- MCLimits
  Languages = {"go"}
  Guests <- MCGuests
  Module <- MCModule
  Pages = 2
  Added = "interrupt"
  Void = Void
  Null = Null
  Memories <- MCMemories
  Pointers <- MCPointers
  Descriptors <- MCDescriptors
  Word = 8
  Chunk = 2
  Inval = 28
  Badf = 8
  NotSup = 58
  Poll <- MCPoll
  Histories <- MCHistories
  Earlier <- MCEarlier
  Today = 3
  Required = 2
SPECIFICATION CallSpec
INVARIANTS TranslationFaithful WorkspacesAgree RewriteAccepted IOBounded StreakHonest
CHECK_DEADLOCK FALSE
