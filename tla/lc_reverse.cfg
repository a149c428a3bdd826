\* Two ConstIDs in global mode share one module.
SPECIFICATION Spec
CONSTANTS
  a = a  b = b  p1 = p1  p2 = p2
  Ids <- TwoIds
  Procs <- OneProc
  Visible = TRUE
  Fails = FALSE
  Kills = FALSE
INVARIANTS ReversedBeforeGone
SYMMETRY Symmetry
