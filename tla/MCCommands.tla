---------------------------- MODULE MCCommands ----------------------------
(* Counts and limits up to three, each one below, at and above each other; *)
(* three commands are a successful one, an interrupted one and a third     *)
(* that reads what both have left.                                         *)
EXTENDS Commands

MCMost == 3
MCMaxCommands == 3
============================================================================
