SPECIFICATION Spec
CONSTANTS
  a1 = a1
  a2 = a2
  a3 = a3
  b1 = b1
  a = a
  b = b
  none = none
  rules = rules
  NoValue = NoValue
  Chunks <- MCChunks
  Files = {a, b, none}
  FileOf <- MCFileOf
  SectionOf <- MCSectionOf
  Corpora <- MCCorpora
  Vocabulary <- MCVocabulary
  Stem <- MCStem
  Stopwords = {"the"}
  Short = {"db"}
  Technical = {"ORM"}
  Expansions <- MCExpansions
  Rarity <- MCRarity
  Questions <- MCQuestions
  CandidateK = 2
  MaxSearched = 2
  TopK = 2
  BroadTopK = 3
  MaxPerSection = 1
  SemanticScores = {20, 50, 80}
  SemanticFloor = 35
  MinScore = 60
  KeywordMinScore = 50
  SemanticWeight = 70
  KeywordWeight = 30
  FilenameBoost = 25
  RelativeCutoff = 80
  BroadRelativeCutoff = 60
INVARIANTS TypeOK ContextIsBest OnlyEvidence EmptyMeansNothing WordsCount
CHECK_DEADLOCK FALSE
