-------------------------------- MODULE Parts --------------------------------
(***************************************************************************)
(* p4n4_emu/hw/devices: the I2C sensors with modes, as a script's drivers  *)
(* find them, one transfer at a time (buses holds its lock over each).     *)
(*                                                                         *)
(* Sensing a reading may fail: a dropout fault of the device raises in the *)
(* middle of the transfer, which then has no acknowledgement.  Samples are *)
(* numbered as they are taken; the oversampling of temperature and         *)
(* pressure is on or off together.                                         *)
(***************************************************************************)
EXTENDS Integers, FiniteSets

CONSTANTS
    Channels,   \* the multiplexer settings in use
    MaxSamples  \* a bound of the model: samples taken

VARIABLES
    sample,     \* the number of the last sample taken
    bme,        \* BME280: ctrl_hum, ctrl_meas, osrs_h and what data holds
    ads,        \* ADS1115: the pointer, the configuration and the conversion
    mpu,        \* MPU6050: asleep, and the sample in data
    refused     \* (history) the parts whose last setting was not acknowledged

vars == <<sample, bme, ads, mpu, refused>>

Sleep == 0

Forced == 1

Normal == 3

Modes == {Sleep, Forced, Normal}

Skipped == 0    \* SKIPPED_20, SKIPPED_16, and data after a reset

ResetBme == [ctrl_hum |-> FALSE, osrs |-> FALSE, mode |-> Sleep, osrs_h |-> FALSE,
             data |-> [climate |-> Skipped, humidity |-> Skipped]]

Taken == sample < MaxSamples /\ sample' = sample + 1
Dropout == UNCHANGED sample

Refuses(part) == refused' = refused \cup {part}
Accepts(part) == refused' = refused \ {part}

-----------------------------------------------------------------------------
(* BME280.measure(): what is not oversampled is skipped. *)
Measured(b) == [b EXCEPT !.data = [climate  |-> IF b.osrs THEN sample + 1 ELSE Skipped,
                                   humidity |-> IF b.osrs_h THEN sample + 1 ELSE Skipped]]

write_ctrl_hum(on) ==
    /\ bme' = [bme EXCEPT !.ctrl_hum = on]
    /\ UNCHANGED <<sample, ads, mpu, refused>>

(* Bug: the part stays in forced mode. *)
StaysForced(b) == Measured(b)

(* A forced measurement is one measurement, then sleep. *)
AfterMeasuring(b) == IF b.mode = Normal THEN Measured(b) ELSE [Measured(b) EXCEPT !.mode = Sleep]

(* The write to ctrl_meas, which makes ctrl_hum effective.                 *)
write_ctrl_meas(on, mode) ==
    LET b == [bme EXCEPT !.osrs = on, !.mode = mode, !.osrs_h = bme.ctrl_hum]
    IN  /\ \/ mode = Sleep /\ bme' = b /\ Accepts("bme280") /\ UNCHANGED sample
           \/ mode # Sleep /\ Taken /\ bme' = AfterMeasuring(b) /\ Accepts("bme280")
           \/ mode # Sleep /\ Dropout /\ bme' = b /\ Refuses("bme280")
        /\ UNCHANGED <<ads, mpu>>

write_reset ==
    /\ bme' = ResetBme
    /\ Accepts("bme280")
    /\ UNCHANGED <<sample, ads, mpu>>

(* A read that starts at the data registers is a new sample in normal mode. *)
read_bme ==
    /\ bme.mode = Normal
    /\ \/ Taken /\ bme' = Measured(bme)
       \/ Dropout /\ UNCHANGED bme
    /\ UNCHANGED <<ads, mpu, refused>>

-----------------------------------------------------------------------------
(* ADS1115.convert(): the configured inputs. *)
Converted(a) == [a EXCEPT !.conversion = a.mux]

(* A write to the configuration; with OS it starts a single conversion.    *)
write_config(mux, single, start) ==
    LET a == [ads EXCEPT !.mux = mux, !.single = single, !.started = start, !.pointer = "config"]
    IN  /\ \/ ~(start /\ single) /\ ads' = a /\ Accepts("ads1115") /\ UNCHANGED sample
           \/ start /\ single /\ Taken /\ ads' = Converted(a) /\ Accepts("ads1115")
           \/ start /\ single /\ Dropout /\ ads' = a /\ Refuses("ads1115")
        /\ UNCHANGED <<bme, mpu>>

write_pointer(register) ==
    /\ ads' = [ads EXCEPT !.pointer = register]
    /\ UNCHANGED <<sample, bme, mpu, refused>>

(* A read at the pointer: in continuous mode the conversion is a new one.  *)
read_ads ==
    /\ ads.pointer = "conversion" /\ ~ads.single
    /\ \/ Taken /\ ads' = Converted(ads)
       \/ Dropout /\ UNCHANGED ads
    /\ UNCHANGED <<bme, mpu, refused>>

-----------------------------------------------------------------------------
(* MPU6050: writing PWR_MGMT_1 wakes it, sends it to sleep or resets it.   *)
write_pwr_mgmt(value) ==
    /\ mpu' = CASE value = "wake"  -> [mpu EXCEPT !.asleep = FALSE]
                [] value = "sleep" -> [mpu EXCEPT !.asleep = TRUE]
                [] value = "reset" -> [asleep |-> TRUE, data |-> Skipped]
    /\ UNCHANGED <<sample, bme, ads, refused>>

(* A read that starts at the data registers latches all of them at once.   *)
read_mpu ==
    /\ ~mpu.asleep
    /\ \/ Taken /\ mpu' = [mpu EXCEPT !.data = sample + 1]
       \/ Dropout /\ UNCHANGED mpu
    /\ UNCHANGED <<bme, ads, refused>>

Init ==
    /\ sample = 0
    /\ bme = ResetBme
    /\ ads = [pointer |-> "conversion", mux |-> CHOOSE c \in Channels : TRUE, single |-> TRUE,
              started |-> FALSE, conversion |-> Skipped]
    /\ mpu = [asleep |-> TRUE, data |-> Skipped]
    /\ refused = {}

Next ==
    \/ \E on \in BOOLEAN : write_ctrl_hum(on)
    \/ \E on \in BOOLEAN, mode \in Modes : write_ctrl_meas(on, mode)
    \/ write_reset \/ read_bme
    \/ \E mux \in Channels, single, start \in BOOLEAN : write_config(mux, single, start)
    \/ \E register \in {"conversion", "config"} : write_pointer(register)
    \/ read_ads
    \/ \E value \in {"wake", "sleep", "reset"} : write_pwr_mgmt(value)
    \/ read_mpu

Spec == Init /\ [][Next]_vars

-----------------------------------------------------------------------------
TypeOK ==
    /\ bme.mode \in Modes
    /\ bme.data.climate \in 0..sample /\ bme.data.humidity \in 0..sample /\ mpu.data \in 0..sample
    /\ ads.conversion \in Channels \cup {Skipped}

(* bme280.py:139: "a forced measurement goes back to sleep", so a part in  *)
(* forced mode is one whose driver was told of the failure.                *)
ForcedSleeps == bme.mode = Forced => "bme280" \in refused

(* ads1115.py:84: "the single-shot conversion is already done": what a     *)
(* driver reads after it started a conversion, and was not refused, is the *)
(* conversion it asked for, whatever was configured and refused before.    *)
ConversionIsTheConfigs ==
    ads.single /\ ads.started /\ "ads1115" \notin refused => ads.conversion = ads.mux

SettingsHold == ForcedSleeps /\ ConversionIsTheConfigs
=============================================================================
