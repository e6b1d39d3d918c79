---------------------------- MODULE MCMCPServers ----------------------------
(* Small instances of MCPServers for TLC.                                  *)
EXTENDS MCPServers

CONSTANTS mail, wiki, tool, c1

BothServers == {mail, wiki}
JustMail == {mail}
JustTool == {tool}
OneCall == {c1}
NoCalls == {}
ToMail == [c \in Calls |-> mail]
=============================================================================
