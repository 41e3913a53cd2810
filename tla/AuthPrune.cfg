\* As documented, pruning keeps failures that still count: two commits out of clock order break it.
SPECIFICATION Spec
CONSTANTS
  Worker = {w1, w2}
  PasswordKey = {login}
  TokenKey = {token}
  PasswordLimit = 2
  TokenLimit = 1
  PasswordWindow = 3
  TokenWindow = 1
  KeyMax = 1
  LockWait = 1
PROPERTIES
  PruneKeepsActive
