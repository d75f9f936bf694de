SPECIFICATION Spec
CONSTANTS
  Conns = {"c1", "c2"}
  Lines = {"bob", "yeti", "hunter22", "yesterday", "november", "?"}
  Names = {"bob", "yesterday"}
  Passwords = {"hunter22", "yesterday", "november"}
  Yes = {"yeti", "yesterday"}
  No = {"november"}
  Null = "null"
INVARIANTS TypeOK OneAccountPerName KnownIdentity MemoryMisusedIsExcused
PROPERTIES CreatedAsAsked
CHECK_DEADLOCK FALSE
