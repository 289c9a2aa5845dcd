-------------------------- MODULE MCUpgradeSession --------------------------
EXTENDS UpgradeSession

(* What the providers register, one group; the same between BEFORE_ALL and  *)
(* AFTER_ALL workers, or beside a worker without a group; two groups;       *)
(* workers without a group; none at all.                                    *)
MCPlain == {
  <<FIRMWARE, FIRMWARE, FIRMWARE>>,
  <<BEFORE_ALL, FIRMWARE, AFTER_ALL>>,
  <<BEFORE_ALL, FIRMWARE, None, AFTER_ALL>>,
  <<None, None, AFTER_ALL>>,
  <<FIRMWARE, FIRMWARE, None>>,
  <<>> }

(* A whole file for every flag; parts out of order, missing or not asked    *)
(* for; files cut off where the parser raises.                              *)
AllFlags == {"rtk", "ins", "sdk", "sdk_2", "imu_boot", "imu"}
MCEthernet == {
  EthernetSession(<<"rtk", "ins", "sdk", "imu_boot", "imu">>, AllFlags \ {"sdk", "sdk_2"}, FALSE),
  EthernetSession(<<"rtk", "ins", "sdk", "imu_boot", "imu">>, {"rtk", "imu_boot"}, FALSE),
  EthernetSession(<<"rtk", "sdk">>, {"rtk", "ins", "sdk"}, FALSE),
  EthernetSession(<<"sdk">>, {"sdk", "sdk_2"}, FALSE),
  EthernetSession(<<"ins", "rtk">>, {"rtk", "ins"}, FALSE),
  EthernetSession(<<"rtk", "ins">>, {"rtk", "ins"}, TRUE) }

MCBeidou == {
  BeidouSession(<<"ins", "imu">>, FALSE), BeidouSession(<<"imu">>, FALSE),
  BeidouSession(<<"ins">>, TRUE) }

(* The serial SDK worker, by itself and beside a worker that may fail.      *)
SerialSdk == Worker("sdk", "sdk", "main")
MCSerial == {
  Session("serial", <<>>, {}, <<SerialSdk>>, <<FIRMWARE>>, FALSE),
  Session("serial", <<>>, {}, <<SerialSdk, Worker("plain", "rtk", "main")>>, <<FIRMWARE, None>>,
          FALSE) }

MCSessions == {PlainSession(gs) : gs \in MCPlain} \cup MCEthernet \cup MCBeidou \cup MCSerial
MCRegistrations == {s.groups : s \in MCSessions}
=============================================================================
