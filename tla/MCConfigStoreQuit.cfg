\* One console is enough.  Both properties are refuted; tlc -continue shows traces of each.
CONSTANTS
  Consoles = {c1}
  LogonACL <- MCLogonACL
  EncodedLogonACL <- MCEncodedLogonACL
  Editable <- MCEditable
  Defaults <- MCDefaults
  Files <- MCFiles
  Values = {"", "1", "list1", "list2"}
  Acls = {"list1", "list2"}
  Empty = ""
  Map = Map
  Top = ""
  NoACL = NoACL
  Garbled = Garbled
  MaxEdits = 2
SPECIFICATION QuitSpec
INVARIANTS QuitRevertsACL SavedACLInForce
CHECK_DEADLOCK FALSE
