---------------------------- MODULE DatasetAdapters ----------------------------
(***************************************************************************)
(* How a row of a data set becomes a telemetry record: data/telemetry.py   *)
(* and the adapters under data/.  A row is                                 *)
(*   [src, dst: the two hosts, label, type: what it is, cells: its columns]*)
(* and a record [node, device, label, category, features].  A feature is   *)
(* a small number; a state in words (door, light, temperature condition)   *)
(* is 1 when it contains the word the adapter looks for, else 0.           *)
(* Timestamps are left out.  NBaIoTAdapter takes no limit on the records,  *)
(* which main.py passes to it: it is never constructed.                    *)
(***************************************************************************)
EXTENDS Integers, Sequences, Functions, TLC

CONSTANTS
  Missing,      \* an empty cell (NaN)
  NormalWord,   \* a label in words: "normal", "false"
  AttackWord    \* a label or a number in other words

IsNumber(value) == value \notin {Missing, NormalWord, AttackWord}

Datasets == {"edge_iiotset", "ton_iot", "n_baiot"}

(* The adapters whose constructor takes data_path and max_records.         *)
Constructible == {"edge_iiotset", "ton_iot"}

NumericCells(cells, columns) ==
  Restrict(cells, {c \in columns \cap DOMAIN cells : IsNumber(cells[c])})

-------------------------------------------------------------------------------
(* EdgeIIoTsetAdapter: one record per packet, at its destination.          *)

EdgeLabel(label) ==
  IF IsNumber(label) THEN label ELSE IF label = NormalWord THEN 0 ELSE 1

EdgeFeatures(row) ==
  [workload |-> EdgeLabel(row.label)] @@ NumericCells(row.cells, DOMAIN row.cells)

EdgeRecord(row) ==
  [ node |-> row.dst, device |-> row.src, label |-> EdgeLabel(row.label),
    category |-> row.type, features |-> EdgeFeatures(row) ]

-------------------------------------------------------------------------------
(* TONIoTAdapter: a file per device, which is its own edge node.           *)

DeviceColumns ==
  [ IoT_Fridge       |-> {"fridge_temperature", "temp_condition_high"},
    IoT_GPS_Tracker  |-> {"latitude", "longitude"},
    IoT_Garage_Door  |-> {"door_state_open", "sphone_signal_true"},
    IoT_Modbus       |-> {"FC1_Read_Input_Register", "FC2_Read_Discrete_Value",
                          "FC3_Read_Holding_Register", "FC4_Read_Coil"},
    IoT_Motion_Light |-> {"motion_status", "light_status_on"},
    IoT_Weather      |-> {"temperature", "pressure", "humidity"} ]

(* A garage door that reports nothing is in the state it reported last,    *)
(* closed and silent at first.                                             *)
ClosedDoor == [c \in DeviceColumns.IoT_Garage_Door |-> 0]

DoorState(row, last) ==
  [c \in DOMAIN last |-> IF row.cells[c] = Missing THEN last[c] ELSE row.cells[c]]

NextState(row, device, last) ==
  IF device = "IoT_Garage_Door" THEN DoorState(row, last) ELSE last

TonLabel(label) == IF IsNumber(label) THEN label ELSE 0

TonCategory(row) ==
  LET type == IF row.type = Missing THEN "normal" ELSE row.type
  IN  IF TonLabel(row.label) = 1 /\ type = "normal" THEN "attack" ELSE type

TonFeatures(row, device, last) ==
  IF device = "IoT_Garage_Door" THEN DoorState(row, last)
  ELSE IF device \in DOMAIN DeviceColumns
       THEN NumericCells(row.cells, DeviceColumns[device])
       ELSE <<>>

TonRecord(row, device, last) ==
  [ node |-> <<"Edge", device>>, device |-> device, label |-> TonLabel(row.label),
    category |-> TonCategory(row), features |-> TonFeatures(row, device, last) ]

-------------------------------------------------------------------------------
RecordOf(dataset, row, device, last) ==
  CASE dataset = "edge_iiotset" -> EdgeRecord(row)
    [] dataset = "ton_iot"      -> TonRecord(row, device, last)

(* get_available_features: what a detector sees of a record.               *)
AvailableFeatures(record) == record.features
===============================================================================
