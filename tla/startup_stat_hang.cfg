CONSTANTS
    Ports <- MCPorts
    CertDirs <- MCCertDirs
SPECIFICATION Spec
PROPERTY StatServerStarts
\* main ends in worker.Wait, or the process has exited: both are final.
CHECK_DEADLOCK FALSE
