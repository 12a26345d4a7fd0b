----------------------------- MODULE MCBusPower -----------------------------
\* Two devices with the thresholds of the code; a tick is 100 ms.
EXTENDS BusPower
=============================================================================
