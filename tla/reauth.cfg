SPECIFICATION Spec
CONSTANTS
  Dispatchers = {d1}
  Checkers = {c1}
  Authers = {a1}
  Logins = {s1, s2, s3, s4, s5}
  NoToken = NoToken
  Unseen = Unseen
  NoTask = NoTask
  MaxLate = 1

PROPERTIES ReauthenticatesAndRetries
