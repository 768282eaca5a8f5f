SPECIFICATION FairSpec
CONSTANTS
  home = home
  a = a
  b = b
  c = c
  d = d
  Workers = {w1, w2}
  Urls = {home, a, b, c, d}
  Start = home
  Sitemap <- MCSitemap
  Links <- MCLinks
  FinalUrl <- MCFinalUrl
  MaxPages = 4
  MaxHangs = 1
INVARIANTS TypeOK CapRespected CompletedIsExhausted FailureHasCause AnswerAddsUp
PROPERTIES CompletedIsFrozen PoolDrains DeadlineEnds
