----------------------------- MODULE MCLockdown -----------------------------
(* Instances of Lockdown for TLC. *)
EXTENDS LockdownRefinement, TLC

CONSTANTS c1, c2, d1, d2, t1, getty, autovt, drop_in

OneClient  == {c1}
TwoClients == {c1, c2}
OneDevice  == {d1}
TwoDevices == {d1, d2}

\* The shipped defaults, and the demo settings with the simulator on.
Shipped == [require_unlock_key |-> TRUE, auto_block_unknown |-> TRUE,
            simulator_enabled |-> FALSE]
Demo    == [Shipped EXCEPT !.simulator_enabled = TRUE]
Lenient == [require_unlock_key |-> FALSE, auto_block_unknown |-> FALSE,
            simulator_enabled |-> TRUE]

ShippedOnly == {Shipped}
DemoOnly    == {Demo}
BothModes   == {Demo, Lenient}    \* Demo can do whatever Shipped can

NoFaults   == {}
StopsOnly  == {"stop"}
StopsAndUsbguard == {"stop", "usbguard"}
AllFaults  == {"stop", "reboot", "os_error", "usbguard", "systemctl"}

ClientSymmetry == Permutations({c1, c2})
DeviceSymmetry == Permutations({d1, d2})
=============================================================================
