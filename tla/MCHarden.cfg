SPECIFICATION Spec
CONSTANTS
  Device <- MCDevice
  PromptOf <- MCPromptOf
  Banners <- MCBanners
  Flags = {FALSE}
  OldBuild = FALSE
  LoginAttempts = 1
  Polls = 3
  NudgeEvery = 1
  MaxVisits = 2
  Nudge = Nudge
  NoCommand = NoCommand
  HighestVty <- MCHighestVty
  MostVty <- MCMostVty
  HostNumber <- MCHostNumber
  TextNumber = 2
  Rejects <- MCRejects
  Renders <- MCRenders
  Switches <- MCSwitches
  Sessions = 2
  Fits = 2
INVARIANTS
  TypeOK
  WayBackIn
  SshClaimTrue
  RowNamesRejections
  VtyRowTrueInStep
CHECK_DEADLOCK FALSE
