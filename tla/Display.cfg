\* Three requests and two changes of the user's, on both kinds of platform.
SPECIFICATION Spec
CONSTANTS
  UserArea = {left, right}
  Maximal = maximal
  Screen = screen
  MaxRequests = 3
  MaxUser = 2
  MaxPending = 3
INVARIANTS SavedAreaIsChosen PlaceIsKept WindowStaysShown
PROPERTIES RequestIsReached
