---------------------------- MODULE MCPanelClient ----------------------------
(* PanelClient on a small instance: the .cfg files give the bounds.         *)
EXTENDS PanelClient
=============================================================================
