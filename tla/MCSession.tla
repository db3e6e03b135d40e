------------------------------ MODULE MCSession ------------------------------
\* Constants for TLC.
EXTENDS AgentSession

NoFaults == {}
Overlap  == {"overlap"}
==============================================================================
