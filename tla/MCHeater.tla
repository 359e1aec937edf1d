------------------------------ MODULE MCHeater ------------------------------
EXTENDS InductionHeater
CONSTANTS menu, rest, pinA, pinB
MCTasks == {menu, rest}
MCPins == {pinA, pinB}
MCDwells == {2, 3}
=============================================================================
