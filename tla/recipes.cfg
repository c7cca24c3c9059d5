SPECIFICATION RecipesSpec
CONSTANTS
  anna = anna ben = ben lunch = lunch
  stew = stew beef = beef leek = leek
  Editors = {anna, ben}
  Sales = {lunch}
  Products = {stew, beef, leek}
  Meal = stew
  Quantities = {1, 2}
  Missing = Missing
  LastRequest = 4
CHECK_DEADLOCK FALSE
SYMMETRY Symmetry
INVARIANTS BookIsARecipe SoldAsListed
PROPERTY AnswersTrue
