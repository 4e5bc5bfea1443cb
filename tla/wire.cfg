CONSTANTS
  Arguments = {"plain", "a/b", "..", ".", ""}
  UriEncoded <- MCUriEncoded
  UriParts <- MCUriParts
  Undefined = Undefined
  Pages = 3
  Missing = Missing
  DEFAULT_STATEMENT = "Sign in"
  Calls <- MCCalls
  Links <- MCLinks
SPECIFICATION Spec
INVARIANTS
  ArgumentsArrive
  FieldsArrive
  PagesAdvance
  LinkedAsSigned
CHECK_DEADLOCK FALSE
