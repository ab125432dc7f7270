---------------------------- MODULE MCDatasetStudy ----------------------------
(* TLC instances of DatasetStudy.  Two hosts of Edge-IIoTset whose packets *)
(* interleave; TON_IoT files of a fridge, a weather station and a garage   *)
(* door with gaps; N-BaIoT, and a path without files.                      *)
EXTENDS DatasetStudy

CONSTANTS h1, h2

Packet(dst, label, len) ==
  [src |-> h1, dst |-> dst, label |-> label,
   type |-> IF label = 1 THEN "DDoS" ELSE "Normal", cells |-> ("tcp.len" :> len)]

EdgeRows ==
  { <<Packet(h1, 1, 0), Packet(h2, 1, 1), Packet(h1, 1, 1), Packet(h2, 0, 0),
      Packet(h1, Missing, 0)>>,
    <<Packet(h2, 0, 1), Packet(h2, AttackWord, Missing), Packet(h1, NormalWord, 0),
      Packet(h2, 1, 0), Packet(h2, 1, AttackWord)>> }

Reading(label, type, cells) ==
  [src |-> Missing, dst |-> Missing, label |-> label, type |-> type, cells |-> cells]

Fridge(t, high) == [fridge_temperature |-> t, temp_condition_high |-> high]
Weather(t, h, p) == [temperature |-> t, humidity |-> h, pressure |-> p]
Door(open, signal) == [door_state_open |-> open, sphone_signal_true |-> signal]

FridgeFile ==
  [device |-> "IoT_Fridge",
   rows |-> <<Reading(0, "normal", Fridge(0, 1)), Reading(1, Missing, Fridge(1, Missing))>>]

WeatherFile ==
  [device |-> "IoT_Weather",
   rows |-> <<Reading(1, "ddos", Weather(0, 1, 0)), Reading(Missing, Missing, Weather(1, 0, 1)),
              Reading(1, "xss", Weather(AttackWord, 0, 1))>>]

DoorFile ==
  [device |-> "IoT_Garage_Door",
   rows |-> <<Reading(0, "normal", Door(1, Missing)), Reading(1, "normal", Door(Missing, 1)),
              Reading(1, "ddos", Door(0, Missing))>>]

EdgeFiles == {<<[device |-> h1, rows |-> rows]>> : rows \in EdgeRows}
TonFiles  == {<<FridgeFile, WeatherFile>>, <<DoorFile, FridgeFile>>, <<WeatherFile>>}

Files == [edge_iiotset |-> EdgeFiles, ton_iot |-> TonFiles \cup {<<>>}, n_baiot |-> EdgeFiles]

MCExperiment ==
  UNION {[dataset : {d}, files : Files[d], limit : {NoLimit, 0, 4}, k : 0 .. 3] : d \in Datasets}
===============================================================================
