------------------------------ MODULE MCServo ------------------------------
EXTENDS ServoGate
CONSTANTS menu, rest, mid
MCTasks == {menu, rest}
MCBlocking == {menu}
MCRatios == {HOLD, DROP, mid}
=============================================================================
