------------------------------- MODULE Codecs -------------------------------
(***************************************************************************)
(* p4n4_emu/hw/devices and spidev_stub: what the parts make of a value,    *)
(* bit by bit, against what a driver that follows the datasheet makes of   *)
(* the bits.                                                               *)
(*                                                                         *)
(* Every action is one call, from a fresh part, of one of the conversions; *)
(* it leaves what was asked and what came back in "done".  Values are      *)
(* integers: millidegrees, millivolts, thousandths of g.  Python's >> and  *)
(* // are \div, which rounds down too.  The pressure's compensation needs  *)
(* 64 bits, more than TLC's integers have, and is left out.                *)
(***************************************************************************)
EXTENDS Integers, Sequences, SequencesExt, Bitwise

CONSTANTS
    Temperatures,   \* in thousandths of a degree
    Climates,       \* temperatures a BME280 is specified for, in hundredths of a degree
    Humidities,     \* in percent
    Voltages,       \* at the converters' inputs, in mV
    Ranges,         \* FSR, in mV
    Accelerations,  \* in thousandths of g
    Scales,         \* ACCEL_LSB
    Lengths,        \* of SPI transfers, in bytes
    None

VARIABLE done       \* the call made: [part, given, answer]

-----------------------------------------------------------------------------
Clamp(lo, hi, x) == IF x < lo THEN lo ELSE IF x > hi THEN hi ELSE x

(* round(n / d): to the nearest integer, a half to the even one. *)
Round(n, d) ==
    LET q == n \div d
        r == 2 * (n % d)
    IN  IF r < d \/ (r = d /\ q % 2 = 0) THEN q ELSE q + 1

Word(x) == x % 65536                                \* & 0xFFFF

_int16(n, d) == Word(Clamp(-32768, 32767, Round(n, d)))

Signed(word) == IF word >= 32768 THEN word - 65536 ELSE word

(* The bits of bytes, each byte's most significant first, and back. *)
Bits(bytes) == [k \in 1..8 * Len(bytes) |->
    (bytes[(k - 1) \div 8 + 1] \div 2^(7 - ((k - 1) % 8))) % 2]

Value(bits) == FoldLeft(LAMBDA v, b : 2 * v + b, 0, bits)

Bytes(bits) == [n \in 1..Len(bits) \div 8 |-> Value(SubSeq(bits, 8 * n - 7, 8 * n))]

LsbFirst(bytes) == [n \in DOMAIN bytes |-> Value(Reverse(Bits(<<bytes[n]>>)))]

-----------------------------------------------------------------------------
(* ds18b20.crc8(): a byte at a time, its eight bits from the least        *)
(* significant one.                                                        *)
Shifted ==
    LET shift[crc \in 0..255, i \in 0..8] ==
            IF i = 0 THEN crc
            ELSE shift[IF crc % 2 = 1 THEN (crc \div 2) ^^ 140 ELSE crc \div 2, i - 1]
    IN  [crc \in 0..255 |-> shift[crc, 8]]

crc8(data) ==
    LET crc[n \in 0..Len(data)] == IF n = 0 THEN 0 ELSE Shifted[crc[n - 1] ^^ data[n]]
    IN  crc[Len(data)]

NO_ANSWER == [n \in 1..9 |-> 255]

scratchpad(t) ==
    LET raw  == Word(Clamp(-55 * 16, 125 * 16, Round(16 * t, 1000)))
        data == <<raw % 256, raw \div 256, 75, 70, 127, 255, 12, 16>>
    IN  Append(data, crc8(data))

(* Truncated toward zero, as the kernel does. *)
millidegrees(pad) ==
    LET n == 1000 * Signed(pad[1] + 256 * pad[2])
    IN  IF n < 0 THEN -((-n) \div 16) ELSE n \div 16

(* A dropout leaves the line high, and the file says so. *)
w1_slave(t) ==
    \E pad \in {scratchpad(t), NO_ANSWER} :
        done' = [part |-> "ds18b20", given |-> t,
                 answer |-> [pad |-> pad, t |-> millidegrees(pad),
                             yes |-> crc8(SubSeq(pad, 1, 8)) = pad[9]]]

-----------------------------------------------------------------------------
(* MCP3008.code(), with 3.3 V as reference: single-ended, or a pair. *)
code(single, channel, volts) ==
    LET other == IF channel % 2 = 0 THEN channel + 1 ELSE channel - 1
        mV    == IF single = 1 THEN volts[channel] ELSE volts[channel] - volts[other]
    IN  Clamp(0, 1023, (mV * 1024) \div 3300)

(* Bug: the null bit comes without a clock to sample before it. *)
transferEarly(data, volts) ==
    LET mosi  == Bits(data)
        start == SelectInSeq(mosi, LAMBDA b : b = 1)
        c     == SubSeq(mosi, start + 1, start + 4)
        value == code(c[1], 4 * c[2] + 2 * c[3] + c[4], volts)
        miso  == [k \in DOMAIN mosi |->
                    IF k \in start + 6 .. start + 15 THEN (value \div 2^(15 - (k - start))) % 2
                    ELSE 0]
    IN  IF start = 0 \/ Len(mosi) < start + 4 THEN [n \in DOMAIN data |-> 0] ELSE Bytes(miso)

(* MCP3008.transfer(): from the start bit on, SGL/DIFF, the channel, a     *)
(* clock to sample, a null bit and ten bits, as far as the transfer goes.  *)
transfer(data, volts) ==
    LET mosi  == Bits(data)
        start == SelectInSeq(mosi, LAMBDA b : b = 1)
        c     == SubSeq(mosi, start + 1, start + 4)
        value == code(c[1], 4 * c[2] + 2 * c[3] + c[4], volts)
        miso  == [k \in DOMAIN mosi |->
                    IF k \in start + 7 .. start + 16 THEN (value \div 2^(16 - (k - start))) % 2
                    ELSE 0]
    IN  IF start = 0 \/ Len(mosi) < start + 4 THEN [n \in DOMAIN data |-> 0] ELSE Bytes(miso)

(* SpiDev._transfer(): lsbfirst turns the bytes round, both ways. *)
_transfer(lsbfirst, data, volts) ==
    IF lsbfirst THEN LsbFirst(transfer(LsbFirst(data), volts)) ELSE transfer(data, volts)

(* A driver's transfer: so many bits, then the start bit and the request.  *)
Request(length, leading, single, channel) ==
    Bytes([k \in 1..8 * length |->
        CASE k = leading + 1 -> 1
          [] k = leading + 2 -> single
          [] k \in leading + 3 .. leading + 5 -> (channel \div 2^(leading + 5 - k)) % 2
          [] OTHER -> 0])

xfer(length, leading, single, channel, lsbfirst, mV) ==
    LET volts == [c \in 0..7 |-> (mV + 370 * c) % 3500]
        frame == Request(length, leading, single, channel)
        back  == _transfer(lsbfirst, IF lsbfirst THEN LsbFirst(frame) ELSE frame, volts)
    IN  done' = [part |-> "mcp3008",
                 given |-> [length |-> length, from |-> leading + 8,
                            mV |-> volts[channel] - (IF single = 1 THEN 0
                                   ELSE volts[IF channel % 2 = 0 THEN channel + 1 ELSE channel - 1])],
                 answer |-> IF lsbfirst THEN LsbFirst(back) ELSE back]

-----------------------------------------------------------------------------
(* ADS1115.convert() and a read of the conversion register. *)
convert(mV, fsr) ==
    LET word == _int16(mV * 32768, fsr)
    IN  done' = [part |-> "ads1115", given |-> [mV |-> mV, fsr |-> fsr],
                 answer |-> <<word \div 256, word % 256>>]

(* MPU6050.sample(), of one axis. *)
sample(g, lsb) ==
    LET word == _int16(g * lsb, 1000)
    IN  done' = [part |-> "mpu6050", given |-> [g |-> g, lsb |-> lsb],
                 answer |-> <<word \div 256, word % 256>>]

-----------------------------------------------------------------------------
T == <<27504, 26435, -1000>>
H == <<75, 362, 0, 313, 50, 30>>

(* The calibration registers of temperature and humidity, from dig_T1. *)
_calibration ==
    LET le16(n) == <<Word(n) % 256, Word(n) \div 256>>
    IN  [t |-> le16(T[1]) \o le16(T[2]) \o le16(T[3]), a1 |-> H[1],
         e1 |-> le16(H[2]) \o <<H[3], (H[4] \div 16) % 256, (H[4] % 16) + 16 * (H[5] % 16),
                                (H[5] \div 16) % 256, H[6] % 256>>]

(* Bosch's formulas, with the constants of the chip or a driver's. *)
t_fine(t, adc_t) ==
    LET var1 == ((adc_t \div 8 - 2 * t[1]) * t[2]) \div 2048
        d    == adc_t \div 16 - t[1]
    IN  var1 + (((d * d) \div 4096) * t[3]) \div 16384

compensate_t(t, adc_t) == (t_fine(t, adc_t) * 5 + 128) \div 256

compensate_h(h, adc_h, fine) ==
    LET v    == fine - 76800
        x    == (adc_h * 16384 - h[4] * 1048576 - h[5] * v + 16384) \div 32768
        y    == ((v * h[6]) \div 1024) * ((v * h[3]) \div 2048 + 32768)
        w    == x * (((y \div 1024 + 2097152) * h[2] + 8192) \div 16384)
        v15  == w \div 32768
    IN  Clamp(0, 419430400, w - (((v15 * v15) \div 128) * h[1]) \div 16) \div 4096

(* _search(): the first count in 0 .. 2^bits - 1 that f takes to the       *)
(* target, or the last one.                                                *)
_search(target, f, bits) ==
    LET range[i \in 0..bits] ==
            IF i = 0 THEN <<0, 2^bits - 1>>
            ELSE LET r   == range[i - 1]
                     mid == (r[1] + r[2]) \div 2
                 IN  IF r[1] = r[2] THEN r
                     ELSE IF f[mid] < target THEN <<mid + 1, r[2]>> ELSE <<r[1], mid>>
    IN  range[bits][1]

(* BME280.measure(), in hundredths of a degree and percent. *)
measure(t, h) ==
    LET adc_t == _search(t, [a \in 0..2^20 - 1 |-> compensate_t(T, a)], 20)
        fine  == t_fine(T, adc_t)
        adc_h == _search(1024 * h, [a \in 0..2^16 - 1 |-> compensate_h(H, a, fine)], 16)
    IN  done' = [part |-> "bme280", given |-> [t |-> t, h |-> h],
                 answer |-> [data |-> <<adc_t \div 4096, (adc_t \div 16) % 256, (adc_t % 16) * 16,
                                        adc_h \div 256, adc_h % 256>>,
                             calibration |-> _calibration]]

Init == done = None

Next ==
    /\ done = None
    /\ \/ \E t \in Temperatures : w1_slave(t)
       \/ \E length \in Lengths, leading \in 0..7, single \in {0, 1}, channel \in 0..7,
            lsbfirst \in BOOLEAN, mV \in Voltages : xfer(length, leading, single, channel, lsbfirst, mV)
       \/ \E mV \in Voltages, sign \in {-1, 1}, fsr \in Ranges : convert(sign * mV, fsr)
       \/ \E g \in Accelerations, lsb \in Scales : sample(g, lsb)
       \/ \E t \in Climates, h \in Humidities : measure(t, h)

Spec == Init /\ [][Next]_done

-----------------------------------------------------------------------------
(* The 1-Wire CRC by its definition: what is left of the bits, each byte's *)
(* first bit first, divided by x^8 + x^5 + x^4 + 1.                        *)
Remainder(bytes) ==
    LET Divide(v) == IF v >= 256 THEN v ^^ 305 ELSE v
        left[v \in 0..255, byte \in 0..255, i \in 0..8] ==
            IF i = 0 THEN v ELSE left[Divide(2 * v + (byte % 2)), byte \div 2, i - 1]
        r[n \in 0..Len(bytes)] == IF n = 0 THEN 0 ELSE left[r[n - 1], bytes[n], 8]
    IN  r[Len(bytes)]

AbsDiff(a, b) == IF a < b THEN b - a ELSE a - b

(* A DS18B20's reading is within half a step of the temperature the part   *)
(* can measure, with a CRC that the definition agrees with; no answer is   *)
(* told from every reading.                                                *)
OneWireAgrees(t, answer) ==
    /\ answer.yes <=> Remainder(answer.pad) = 0
    /\ answer.yes <=> answer.pad # NO_ANSWER
    /\ answer.yes => AbsDiff(answer.t, Clamp(-55000, 125000, t)) <= 32

(* mcp3008.py:4: "so every common framing works": the driver finds the     *)
(* code at its place in the bits, as far as it has clocked them out.       *)
SpiAgrees(given, answer) ==
    LET bits == Bits(answer)
        got  == SubSeq(bits, given.from, given.from + 9)
    IN  /\ Len(answer) = given.length
        /\ given.from + 9 <= Len(bits) =>
            /\ AbsDiff(Value(got) * 3300, Clamp(0, 3299, given.mV) * 1024) < 3300
            /\ \A k \in DOMAIN bits : k \notin given.from .. given.from + 9 => bits[k] = 0

(* A signed word is the value to half a step, or the end of the range. *)
WordAgrees(value, unit, answer) ==
    LET counts == Signed(answer[1] * 256 + answer[2])
    IN  \/ 2 * AbsDiff(counts * unit, value) <= unit
        \/ counts = 32767 /\ value > 32767 * unit
        \/ counts = -32768 /\ value < -32768 * unit

(* bme280.py:7: "any driver that follows the datasheet reads them": with   *)
(* the constants and counts it reads from the registers.                   *)
ClimateAgrees(given, answer) ==
    LET d     == answer.data
        c     == answer.calibration
        t     == <<c.t[1] + 256 * c.t[2], Signed(c.t[3] + 256 * c.t[4]), Signed(c.t[5] + 256 * c.t[6])>>
        h     == <<c.a1, c.e1[1] + 256 * c.e1[2], c.e1[3], 16 * c.e1[4] + (c.e1[5] % 16),
                   16 * c.e1[6] + c.e1[5] \div 16, c.e1[7]>>
        adc_t == 4096 * d[1] + 16 * d[2] + d[3] \div 16
        adc_h == 256 * d[4] + d[5]
    IN  /\ AbsDiff(compensate_t(t, adc_t), given.t) <= 1
        /\ AbsDiff(compensate_h(h, adc_h, t_fine(t, adc_t)), 1024 * given.h) <= 12

(* What each part answers is what its driver reads out of it. *)
CodecsAgree ==
    done # None =>
        CASE done.part = "ds18b20" -> OneWireAgrees(done.given, done.answer)
          [] done.part = "mcp3008" -> SpiAgrees(done.given, done.answer)
          [] done.part = "ads1115" -> WordAgrees(done.given.mV * 32768, done.given.fsr, done.answer)
          [] done.part = "mpu6050" -> WordAgrees(done.given.g * done.given.lsb, 1000, done.answer)
          [] done.part = "bme280"  -> ClimateAgrees(done.given, done.answer)
=============================================================================
