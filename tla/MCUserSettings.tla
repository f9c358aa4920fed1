--------------------------- MODULE MCUserSettings ---------------------------
EXTENDS UserSettings, TLC
=============================================================================
