CONSTANTS
  NULL = NULL
  Lower <- MCLower
  ValTexts = {1, 2, 3}
  MapTexts = {1, 2}
  KeyTexts = {1, 2, 3}
  Initial = 1
  Grow = 1
  MaxSize = 3
  SortLengths = {0, 1, 2, 5, 6}
  SortTexts = {1, 2, 3, NULL}
VIEW View
SPECIFICATION Spec
INVARIANTS Ownership VisitsEach SortSorts EqualIsSame ConversionsKeepOrder
PROPERTIES IsCollection
