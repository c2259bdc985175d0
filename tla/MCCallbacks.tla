----------------------------- MODULE MCCallbacks -----------------------------
(* A small instance of Callbacks for TLC. *)
EXTENDS Callbacks

CONSTANTS res, dev, resets, fighterFrames, weaponFrames

UninstallOrder == <<resets, fighterFrames, weaponFrames>>
=============================================================================
