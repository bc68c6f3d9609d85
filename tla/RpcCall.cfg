CONSTANTS
  N = 5
  Hdr <- Hdr5
  Body <- Body5
  Start <- Start5
  HdrFields <- HdrFields5
  BodyFields <- BodyFields5
  Gap = 0
  MagicLen = 4
  HeaderLen = 8
  MaxRecv = 59
  MaxLen = 3
  MaxResp = 3
  Uninit = {0, 5}
SPECIFICATION MCSpec
INVARIANTS RequestsAreMessages NoneHeldBack AnswersMatchCalls  ReplyReadIfWhole
           InOrder AllSentOrQueued
 
CHECK_DEADLOCK FALSE
