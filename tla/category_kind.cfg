SPECIFICATION TreeSpec
CONSTANTS
  Cats = {c1, c2, c3, c4}
  NoCat = NoCat
  Absent = Absent
  Editors = {e1}
CHECK_DEADLOCK FALSE
INVARIANT SubcategoryMatchesParent
