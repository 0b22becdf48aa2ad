SPECIFICATION QuitSpec
CONSTANTS
  p1 = p1
  Posters = {p1}
  MaxPosts = 2
  MaxTime = 3
  MaxInputs = 2
  MaxModals = 1
  Delays = {0, 1, 2}
PROPERTY
  QuitLeaves
CHECK_DEADLOCK FALSE
