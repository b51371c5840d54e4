CONSTANTS
  p1 = p1  p2 = p2  p3 = p3  cpp = cpp  h = h  other = other
  Projects = {p1, p2, p3}
  PlaceOf <- MCPlaceOf
  NoProject = NoProject
  Files = {cpp, h, other}
  Layouts <- MCLayouts
  Searches <- MCSearches
SPECIFICATION FairSpec
\* the search is over and the window closed
CHECK_DEADLOCK FALSE
INVARIANTS ShownUnderOwnProject AllShownWhenComplete NoItemForDeletedObserver
PROPERTIES MapStaysWhileSearched 
