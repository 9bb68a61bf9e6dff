\* The data of a request are taken two bytes short.
CONSTANTS
  HeadBytes = 4
  MaxData = 2
  Target = {"/"}
  Dotted = {}
  Site = {"/index.html"}
SPECIFICATION Spec
INVARIANT DataFollowEmptyLine
CHECK_DEADLOCK FALSE
