\* One command at a time; it may be killed and what it runs may fail.
SPECIFICATION Spec
CONSTANTS
  a = a  b = b  p1 = p1  p2 = p2
  Ids <- TwoIds
  Procs <- OneProc
  Visible = TRUE
  Fails = TRUE
  Kills = TRUE
INVARIANTS Settled LoadFindsRoom
SYMMETRY Symmetry
