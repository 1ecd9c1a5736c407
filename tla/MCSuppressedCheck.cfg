SPECIFICATION PassSpec
CONSTANTS
  Rules <- MCRules
  Broad = {"ALL", "PCF", "PDF"}
  AllTag = "ALL"
  CodesOf <- MCCodesOf
  UnsafeTexts = {"bad!"}
  CategoryOf <- MCCategoryOf
  CommentCategory = "PCF"
  SelfSuppressing = {"PCF102"}
  NoList = NoList
  NoComment = NoComment
  Characters <- MCCharacters
  EndOfLine = "eol"
  Order <- MCOrder
  Audit = "PCF101"
  Always = {"PCF000", "PCF001"}
  Never = {}
  Cases <- MCCases
  NoResult = NoResult
CHECK_DEADLOCK FALSE
INVARIANTS UnusedIsRemovable UsedIsNeeded RewritesKeepMeaning SuppressedLinesKept FixIsItsEdits
