-------------------------------- MODULE MCChat --------------------------------
\* The constants are given in the .cfg.
EXTENDS ChatStream
==============================================================================
