---------------------------- MODULE MCConfigSync ----------------------------
\* An instance of ConfigSync for TLC.
EXTENDS ConfigSync
=============================================================================
