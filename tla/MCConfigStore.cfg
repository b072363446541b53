\* Two consoles, windows or command lines; two changes; two lists.
CONSTANTS
  Consoles = {c1, c2}
  LogonACL <- MCLogonACL
  EncodedLogonACL <- MCEncodedLogonACL
  Editable <- MCEditable
  Defaults <- MCDefaults
  Files <- MCFiles
  Values = {"", "1", "list1", "list2"}
  Acls = {"list1", "list2"}
  Empty = ""
  Map = Map
  Top = ""
  NoACL = NoACL
  Garbled = Garbled
  MaxEdits = 2
SPECIFICATION Spec
SYMMETRY MCSymmetry
INVARIANTS ACLStaysBinary StoredACLInForce
PROPERTY SavedIsLoaded
CHECK_DEADLOCK FALSE
