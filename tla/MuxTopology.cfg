SPECIFICATION StateSpec
CONSTANTS
  SessionIds = {s1, s2}
  NoSession = none
  Tags = {t1}
  NoTag = notag
  Saved <- Shapes
  Groups = {"ditch", "saved", "tab", "pane", "arrange"}
  Deltas <- NearAndFar
  MaxPane = 3
  MaxTab = 3
SYMMETRY SessionSymmetry
INVARIANTS SelectionLive 
PROPERTIES CloseKeepsFocus IdentitiesKept ImplementsPaneStore
