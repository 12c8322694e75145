CONSTANTS
  Key <- MCKey
  HashLength = 2
  Indeterminate <- MCIndeterminate
  ArgLists <- MCArgLists
  Dashed <- MCDashed
  Stoi <- MCStoi
  TorrentTexts <- MCTorrentTexts
  AnswerTexts <- MCAnswerTexts
  Documents <- MCDocuments
  Size <- MCSize
CHECK_DEADLOCK FALSE
SPECIFICATION StartupSpec
INVARIANTS
  StartupTypeOK
  ParsedAsWritten
  InfoHashIsOfInfo
  DownloadTilesFile
  HashesCoverPieces
  PeersAreOfLastAnswer
PROPERTIES
  WholeDocumentIsParsed
