SPECIFICATION Spec
CONSTANTS
  NULL = NULL
  Starts <- MCStarts
  BadRegexes = {"!["}
  Anchored <- MCAnchored
  Cases <- MCCases
  Worlds <- MCWorlds
  PlainForm <- MCPlainForm
  MaxAnswers = 2
INVARIANTS
  RequestSurvives
  ResponseSurvives
  Answered
  WrittenReadsBack
  PlainSaysTheSame
