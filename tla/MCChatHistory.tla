--------------------------- MODULE MCChatHistory ----------------------------
(***************************************************************************)
(* Small instances of ChatHistory for TLC.                                 *)
(***************************************************************************)
EXTENDS ChatHistory

\* Everything that makes a turn other than plain.
AllMishaps == {"early", "system", "dressed", "steer", "regenerate", "narration",
               "wall", "fail", "cancel", "crash"}
=============================================================================
