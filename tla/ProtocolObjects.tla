---------------------------- MODULE ProtocolObjects ----------------------------
(* What the protocols of workspaces and of windows have in common.            *)
CONSTANTS
  Clients,
  Screens,  \* outputs, a client having at most one wl_output for each
  Spaces,   \* workspaces, a client having at most one handle for each
  None
=============================================================================
