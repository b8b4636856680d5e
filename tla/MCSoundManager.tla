--------------------------- MODULE MCSoundManager ---------------------------
EXTENDS SoundManager
CONSTANTS hum, crow
=============================================================================
