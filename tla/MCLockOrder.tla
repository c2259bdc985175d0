----------------------------- MODULE MCLockOrder -----------------------------
(* A small instance of LockOrder for TLC. *)
EXTENDS LockOrder

CONSTANTS acmdGame, resets, game, input, plugin

SomeCategories == <<acmdGame>>
SomeLists      == <<resets>>
=============================================================================
