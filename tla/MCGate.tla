------------------------------ MODULE MCGate ------------------------------
(* Instances of Gate for TLC. *)
EXTENDS Gate, TLC

CONSTANT Home

Wifi(ssid) == [ssid |-> ssid, hasWifi |-> TRUE, metered |-> FALSE, roaming |-> FALSE,
               activeWifi |-> TRUE]

Hotspot == [ssid |-> Home, hasWifi |-> TRUE, metered |-> TRUE, roaming |-> FALSE,
            activeWifi |-> TRUE]

Cellular == [ssid |-> NoSsid, hasWifi |-> FALSE, metered |-> TRUE, roaming |-> FALSE,
             activeWifi |-> FALSE]

Abroad == [Cellular EXCEPT !.roaming = TRUE]

Careful == [mode |-> "trusted_wifi", trusted |-> {Home}, block |-> TRUE, pauseLow |-> TRUE]

Anything == [mode |-> "any", trusted |-> {}, block |-> TRUE, pauseLow |-> FALSE]

MCNet == {Wifi(Home), Hotspot, Cellular, Abroad}
MCSettings == {Careful, Anything}

(* Events, changes of the work, faults, Starts and Stops of one behaviour. *)
Cost(events, jobs, faults, starts, stops) ==
  [event |-> events, work |-> jobs, fault |-> faults, start |-> starts, stop |-> stops]

MCBudgets == {Cost(2, 1, 1, 1, 0), Cost(1, 1, 1, 2, 0), Cost(1, 0, 0, 1, 1), Cost(0, 0, 0, 2, 1)}
=============================================================================
