----------------------------- MODULE MCDevices -----------------------------
(***************************************************************************)
(* The drivers behind the REST endpoints, which share no state with each   *)
(* other: one of them runs, the others stay as they were switched on.      *)
(***************************************************************************)
EXTENDS Motors, TempSensor, Wireless, DhcpServer, Inputs

VARIABLE part   \* the driver that runs

vars == <<motor_vars, sensor_vars, wireless_vars, dhcp_vars,
          input_vars, part>>

AskedVelocities == {-1, 2}
KnobEvents == <<"CW", "CCW">>

Init ==
    /\ part \in {"motors", "sensor", "wireless", "dhcp", "inputs"}
    /\ MotorInit /\ SensorInit /\ WirelessInit /\ DhcpInit /\ InputInit

Next ==
    \/ /\ part = "motors" /\ MotorNext
       /\ UNCHANGED <<sensor_vars, wireless_vars, dhcp_vars, input_vars, part>>
    \/ /\ part = "sensor" /\ SensorNext
       /\ UNCHANGED <<motor_vars, wireless_vars, dhcp_vars, input_vars, part>>
    \/ /\ part = "wireless" /\ WirelessNext
       /\ UNCHANGED <<motor_vars, sensor_vars, dhcp_vars, input_vars, part>>
    \/ /\ part = "dhcp" /\ DhcpNext
       /\ UNCHANGED <<motor_vars, sensor_vars, wireless_vars, input_vars, part>>
    \/ /\ part = "inputs" /\ InputNext
       /\ UNCHANGED <<motor_vars, sensor_vars, wireless_vars, dhcp_vars, part>>

Spec == Init /\ [][Next]_vars /\ WirelessFairness

=============================================================================
