SPECIFICATION Spec
CONSTANTS
  cur = cur
  disabled = disabled
  on = on
  off = off
  enable = enable
  disable = disable
  hdr = hdr
  Files = {cur, disabled}
  Headers = {hdr}
  Contents = {on, off}
  Edits = {enable, disable}
  Byte <- MCByte
  HeaderCrc <- MCHeaderCrc
  FileCrc <- MCFileCrc
  NvramCrc <- MCNvramCrc
  SetNvram <- MCSetNvram
  Given <- MCGiven
  Absent = Absent
  Short = Short
  NoSet = NoSet
INVARIANTS TypeOK EditedAccepted EditedEqual
PROPERTIES OnlyCheckedRunsWrite EditApplied
