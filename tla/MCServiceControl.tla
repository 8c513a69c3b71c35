-------------------------- MODULE MCServiceControl --------------------------
(* ServiceControl on its three platforms.                                  *)
EXTENDS ServiceControl

MCPlatforms == {"windows", "linux", "macos"}
=============================================================================
