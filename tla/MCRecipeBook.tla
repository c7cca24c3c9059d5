------------------------------ MODULE MCRecipeBook -------------------------------
(***************************************************************************)
(* Small instances of RecipeBook: a meal of up to two ingredients, two     *)
(* editors and a sale.                                                     *)
(***************************************************************************)
EXTENDS RecipeBook, TLC

CONSTANTS anna, ben, lunch, stew, beef, leek

Symmetry == Permutations(Editors) \cup Permutations(Products \ {Meal})
=============================================================================
