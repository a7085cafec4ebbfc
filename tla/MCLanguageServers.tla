--------------------------- MODULE MCLanguageServers ---------------------------
(* An instance of LanguageServers: two languages that have a server and a   *)
(* pool with room for one.                                                  *)
EXTENDS LanguageServers

CONSTANTS rust, go, c1, c2, none

ASSUME \* every call finds room for its server, every server for its requests
  MaxSessions >= MaxCalls /\ MaxIds >= MaxCalls + 1
=============================================================================
