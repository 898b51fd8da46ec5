SPECIFICATION HolderSpec
CONSTANTS
  FinalDay = 3
  Created <- MCCreated
  Spent <- MCSpent
  FirstStored = 0
  Retain = 1
  BadKinds = {}
  FirstGens = {2}
  MaxBuilt = 0
  MaxRestarts = 0
  Prices = TRUE
PROPERTIES StateKeepsUp
CHECK_DEADLOCK FALSE
