---------------------------- MODULE MCAcmeManager ---------------------------
EXTENDS AcmeManager

EveryFault == {"router", "lego", "write", "systemctl", "kill", "crash"}
=============================================================================
