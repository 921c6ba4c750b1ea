----------------------------- MODULE MCStartup -----------------------------
EXTENDS Startup

\* Two host ports: the one getFreePort returns, and one the other process
\* may take first.
MCPorts == {1, 2}
MCCertDirs == {"unset", "unreadable", "badca", "badkey", "ok"}

=============================================================================
