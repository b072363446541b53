\* One console and a setting without a parent key.
CONSTANTS
  Consoles = {c1}
  LogonACL <- MCLogonACL
  EncodedLogonACL <- MCEncodedLogonACL
  Editable <- MCEditableTop
  Defaults <- MCDefaults
  Files <- MCFiles
  Values = {"", "1", "list1", "list2"}
  Acls = {"list1", "list2"}
  Empty = ""
  Map = Map
  Top = ""
  NoACL = NoACL
  Garbled = Garbled
  MaxEdits = 2
SPECIFICATION Spec
PROPERTY WhatIsSetIsRead
CHECK_DEADLOCK FALSE
