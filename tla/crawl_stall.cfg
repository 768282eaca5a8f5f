SPECIFICATION FairSpec
CONSTANTS
  home = home
  a = a
  b = b
  c = c
  d = d
  Workers = {w1, w2}
  Urls = {home, a, b, c, d}
  Start = home
  Sitemap <- MCSitemap
  Links <- MCLinks
  FinalUrl <- MCFinalUrl
  MaxPages = 3
  MaxHangs = 2
PROPERTY DeadlineEnds
