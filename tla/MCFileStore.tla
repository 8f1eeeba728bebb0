---------------------------- MODULE MCFileStore ----------------------------
(* The server and one CLI run, two saves each, one power loss. *)
EXTENDS FileStore

CONSTANTS server, cli

MCProcesses == {server, cli}
============================================================================
