SPECIFICATION FairSpec
CONSTANTS
  Device <- MCDevice
  PromptOf <- MCPromptOf
  Banners <- MCBanners
  Flags = {TRUE, FALSE}
  OldBuild = TRUE
  LoginAttempts = 2
  Polls = 6
  NudgeEvery = 2
  MaxVisits = 2
  Nudge = Nudge
  NoCommand = NoCommand
  Asked <- MCAsked
  Config <- MCConfig
  Template <- MCTemplate
  MayBeEmpty <- MCMayBeEmpty
  Ios <- MCIos
  Reply <- MCReply
INVARIANTS
  TypeOK
  CaptureIsTrue
  StrangersLeftAlone
  AnswerStillComing
  LoginsBounded
PROPERTIES
  VisitEnds
CHECK_DEADLOCK FALSE
