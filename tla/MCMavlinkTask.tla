--------------------------- MODULE MCMavlinkTask ---------------------------
(***************************************************************************)
(* Milliseconds in units of 500 for TLC, and what the ground may send.     *)
(***************************************************************************)
EXTENDS MavlinkTask

MCRows == {"heartbeat", "battery", "housekeeping"}

Of(forHeartbeat, forBattery, forHousekeeping) ==
  [heartbeat |-> forHeartbeat, battery |-> forBattery,
   housekeeping |-> forHousekeeping]

MCInterval == Of(2, 4, 2)
MCLead == Of(2, 4, 0)

M(p, kind, row, interval) ==
  [port |-> p, kind |-> kind, row |-> row, interval |-> interval]

MCArriving ==
  {M("uart", "setInterval", "housekeeping", 3),
   M("uart", "setInterval", "housekeeping", 0),
   M("uart", "setInterval", "housekeeping", 1),
   M("uart", "request", "battery", 0),
   M("usb", "logList", "", 0),
   M("usb", "clockSet", "", 0)}

MCExists == [b \in {"normal", "reduced"} |->
               IF b = "normal" THEN {0, 1, 2} ELSE {0, 2}]

\* The five rows of the program, all of one beat, and what puts a pass at its
\* fullest: housekeeping armed, then a message requested.
FiveRows == {"heartbeat", "systemTime", "sysStatus", "battery", "housekeeping"}
Beat == [r \in FiveRows |-> 2]
BeatLead == [r \in FiveRows |-> IF r = "housekeeping" THEN 0 ELSE 2]

ArmsAndRequests ==
  {M("uart", "setInterval", "housekeeping", 2),
   M("uart", "request", "autopilotVersion", 0)}
=============================================================================
