SPECIFICATION Spec
CONSTANTS
  MarkdownBlocks <- MCMarkdown
  DocxBlocks <- MCDocx
  TextBlocks <- MCText
  MaxBlocks = 6
  MaxDocx = 5
  MaxLevel = 3
  ChunkLines = 2
  ChunkOverlap = 1
  NoHeading = NoHeading
INVARIANTS ChunkedWhereItStands ChunksInOrder
CHECK_DEADLOCK FALSE
