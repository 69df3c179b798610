SPECIFICATION Spec
CONSTANTS
  a = a
  b = b
  c = c
  Ids <- MCIds
  Texts <- MCTexts
  NoRun <- MCNoRun
  Limit = 2
  Documents <- MCDocuments
  Suggestions <- MCSuggestions
INVARIANTS
  TypeOK
  OutputIsOfItsText
  PreservedIsClosed
PROPERTIES
  ChangeResetsDownstream
  RerunsAreBounded
