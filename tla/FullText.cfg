SPECIFICATION Spec
CONSTANTS
  LetterSigns = {"a", "b"}
  DigitSigns = {"1"}
  MIN_WORD_LEN = 2
  Graphemes = {"a", "b", "1", "-", ".", ",", "/", "@", "'", ":", " "}
  Texts <- MCTexts
  Detected = {"en", "fr", "ht", "ja"}
  FINESSE_LANGUAGE_BLOCK = 3
  MAX_LANGUAGE_BUFFER_BLOCK = 4
  Faults = {"session", "tika", "database", "reply"}
INVARIANTS
  BlocksAreOfTheText
  PartsHoldTheBlocks
  VectorsAreHashed
