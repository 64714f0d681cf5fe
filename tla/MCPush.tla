------------------------------- MODULE MCPush -------------------------------
(* The three platforms, two addresses the scripts may be run from, and       *)
(* images that reject any of three commands.                                 *)
EXTENDS Push

MCRejectable == {"permit", "enable secret", "login list"}
=============================================================================
