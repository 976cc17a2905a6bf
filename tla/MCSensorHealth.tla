--------------------------- MODULE MCSensorHealth ----------------------------
(* The IMU with both its sources, and the lane camera's 0x10A; a third of    *)
(* the watchdog's 500 ms is one unit, and the limits are the code's 500 ms   *)
(* and 600 ms, rounded up.                                                   *)
EXTENDS SensorHealth

MCFeeds == [c \in {"stm32", "bno055", "loc"} |-> IF c = "loc" THEN "lane" ELSE "imu"]
MCStale == [s \in {"imu", "lane"} |-> IF s = "imu" THEN 3 ELSE 4]
=============================================================================
