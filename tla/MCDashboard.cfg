SPECIFICATION DashboardSpec
CONSTANTS
  fix = fix
  unban = unban
  health = health
  junk = junk
  s1 = s1
  s2 = s2
  Changes = {fix, unban}
  Tests = {health}
  Lines <- MCLines
  Replies <- MCReplies
  Advice <- MCAdvice
  StatusFiles <- MCStatusFiles
  MaxSel = 3
  MaxTurns = 2
  MaxWrites = 1
INVARIANTS DashboardTypeOK NothingRunsUnasked OneConversation OneRound
 
