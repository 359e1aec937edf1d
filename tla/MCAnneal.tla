------------------------------ MODULE MCAnneal ------------------------------
EXTENDS AnnealCycle
MCCounts == {0, 1}
MCRequests == {"EXIT", "HOLD"}
MCDwells == {1, 3, 4}
MCCaps == {2}
=============================================================================
