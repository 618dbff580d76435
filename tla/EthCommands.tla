----------------------------- MODULE EthCommands -----------------------------
(* The commands and queries of the ETH32 API (eth32.c): how each call checks *)
(* its arguments, what it puts into the five bytes of its packets, and what  *)
(* it takes from the replies; threads make calls on one connection while it  *)
(* fails. A query is one step here: EthConnection has its transport.          *)
(*                                                                           *)
(* A register of the device is a tuple <<kind, index...>>; ports keep their  *)
(* pins apart. The device is external: what it does with a packet is taken   *)
(* from the use the API makes of it.                                         *)
EXTENDS Integers, Sequences, TLC, SequencesExt

CONSTANTS Threads,    \* threads that use the handle
          Suites,     \* name -> sequence of calls that are made together
          CallsEach,  \* bound: calls per thread
          WireBound,  \* bound: packets on their way at a time
          Factory,    \* register -> value when the connection is opened
          Configured, \* the registers a reset sets to zero
          MayFail     \* whether writes and queries may time out and the device go away

VARIABLES suite,      \* the name of the calls of this behaviour
          regs,       \* the device's registers
          wire,       \* packets on their way: [packet, waiter: who waits for its reply]
          alive,      \* whether the reader thread still runs
          thread      \* thread -> its call, the next step of it, and what it has

vars == <<suite, regs, wire, alive, thread>>

-----------------------------------------------------------------------------
(* Bytes. *)
Bit(n, b) == (n \div 2^b) % 2
Hi(n) == (n \div 256) % 256
Lo(n) == n % 256
Mask(b) == 2^b
NotMask(b) == 255 - 2^b

AllPorts == 0..7
DirectionPorts == 0..5
AnalogPort == 3
PWM_CLOCK == 2000000
PWM_MINIMUM_BASE == 49

Pins(kind, port) == {<<kind, port, b>> : b \in 0..7}
PinsOf(kind, port, byte) == [r \in Pins(kind, port) |-> Bit(byte, r[3])]

(* A call: the first test of its arguments that fails, whether that comes    *)
(* early, before the test of the connection, its steps, and what its caller  *)
(* asks of the registers. A step is a packet and what is taken from the      *)
(* reply: register -> <<"byte" or "word", first byte>>, and so on.           *)
FirstFailure(tests) ==
  IF \A i \in DOMAIN tests : tests[i][1] THEN "none"
  ELSE tests[CHOOSE i \in DOMAIN tests : ~tests[i][1] /\ \A j \in 1..i-1 : tests[j][1]][2]

Command(packet) == [packet |-> packet, takes |-> <<>>]
Query(packet, takes) == [packet |-> packet, takes |-> takes]

Sets(tests, steps, asked) ==
  [reject |-> FirstFailure(tests), early |-> FALSE, steps |-> steps, sets |-> asked,
   gets |-> UNION {DOMAIN steps[i].takes : i \in DOMAIN steps}]
Gets(tests, steps) == Sets(tests, steps, <<>>)
ArgumentsFirst(call) == [call EXCEPT !.early = TRUE]

(* Arguments. *)
Is(ok, code) == <<ok, code>>
IsPort(port, ports) == Is(port \in ports, "INVALID_PORT")
IsBit(bit) == Is(bit \in 0..7, "INVALID_BIT")
IsChannel(channel, channels) == Is(channel \in channels, "INVALID_CHANNEL")
IsOther(ok) == Is(ok, "INVALID_OTHER")
IsValue(ok) == Is(ok, "INVALID_VALUE")

-----------------------------------------------------------------------------
(* Digital ports. *)
verify_connection == Gets(<<>>, <<Query(<<"PING", 0, 0, 0, 0>>, <<>>)>>)

output_byte(port, value) ==
  Sets(<<IsPort(port, AllPorts), IsValue(value \in 0..255)>>,
       <<Command(<<"OPORT", port, value, 0, 0>>)>>,
       PinsOf("out", port, value))

output_bit(port, bit, value) ==
  Sets(<<IsPort(port, AllPorts), IsBit(bit)>>,
       <<Command(IF value # 0 THEN <<"SBIT", port, Mask(bit), 0, 0>>
                              ELSE <<"CBIT", port, NotMask(bit), 0, 0>>)>>,
       <<"out", port, bit>> :> (IF value # 0 THEN 1 ELSE 0))

pulse_bit(port, bit, edge, count) ==
  Sets(<<IsPort(port, AllPorts), IsBit(bit), IsOther(edge \in {0, 1}), IsOther(count \in 0..255)>>,
       <<Command(<<"PULSE", port, bit, edge, count>>)>>,
       <<"pulse", port, bit>> :> <<edge, count>>)

set_led(led, value) ==
  IF led \in 0..1 THEN output_byte(6 + led, IF value # 0 THEN 1 ELSE 0)
  ELSE ArgumentsFirst(Sets(<<IsOther(FALSE)>>, <<>>, <<>>))

TakePins(kind, port, byte) == [r \in Pins(kind, port) |-> <<"bit", byte, r[3]>>]

input_byte(port) ==
  Gets(<<IsPort(port, AllPorts)>>,
       <<Query(<<"IPORT", 0, port, 0, 0>>, TakePins("in", port, 4))>>)

input_successive(port, max) ==
  Gets(<<IsPort(port, AllPorts), IsOther(max \in 2..255)>>,
       <<Query(<<"SRD", 0, port, max, 0>>,
               (<<"tries", port>> :> <<"byte", 4>>) @@ TakePins("in", port, 5))>>)

input_bit(port, bit) == ArgumentsFirst(
  Gets(<<IsPort(port, AllPorts), IsBit(bit)>>,
       <<Query(<<"IPORT", 0, port, 0, 0>>, <<"in", port, bit>> :> <<"bit", 4, bit>>)>>))

readback(port) ==
  Gets(<<IsPort(port, AllPorts)>>,
       <<Query(<<"RBOUT", 0, port, 0, 0>>, TakePins("out", port, 4))>>)

get_led(led) == readback(6 + led)

set_direction(port, direction) ==
  Sets(<<IsPort(port, DirectionPorts), IsOther(direction \in 0..255)>>,
       <<Command(<<"SPDIR", port, direction, 0, 0>>)>>,
       PinsOf("dir", port, direction))

get_direction(port) ==
  Gets(<<IsPort(port, AllPorts)>>,
       <<Query(<<"GPDIR", 0, port, 0, 0>>, TakePins("dir", port, 4))>>)

set_direction_bit(port, bit, direction) ==
  Sets(<<IsPort(port, DirectionPorts), IsBit(bit)>>,
       <<Command(IF direction # 0 THEN <<"SPDIR", port, Mask(bit), 1, 0>>
                                  ELSE <<"SPDIR", port, NotMask(bit), 2, 0>>)>>,
       <<"dir", port, bit>> :> (IF direction # 0 THEN 1 ELSE 0))

get_direction_bit(port, bit) == ArgumentsFirst(
  Gets(<<IsPort(port, AllPorts), IsBit(bit)>>,
       <<Query(<<"GPDIR", 0, port, 0, 0>>, <<"dir", port, bit>> :> <<"bit", 4, bit>>)>>))

-----------------------------------------------------------------------------
(* Analog channels. *)
set_analog_state(state) ==
  Sets(<<IsOther(state \in {0, 1})>>, <<Command(<<"SASTA", AnalogPort, state, 0, 0>>)>>,
       <<"adc">> :> state)

get_analog_state ==
  Gets(<<>>, <<Query(<<"GASTA", 0, AnalogPort, 0, 0>>, <<"adc">> :> <<"byte", 4>>)>>)

input_analog(channel) ==
  Gets(<<IsChannel(channel, 0..7)>>,
       <<Query(<<"IANLG", 0, channel, 0, 0>>, <<"analog", channel>> :> <<"ten", 4>>)>>)

set_analog_reference(reference) ==
  Sets(<<IsOther(reference \in {0, 1, 3})>>, <<Command(<<"SREF", reference, 0, 0, 0>>)>>,
       <<"ref">> :> reference)

get_analog_reference ==
  Gets(<<>>, <<Query(<<"GREF", 0, 0, 0, 0>>, <<"ref">> :> <<"byte", 3>>)>>)

EventByte(bank, channel) == (IF bank # 0 THEN 8 ELSE 0) + channel

set_analog_eventdef(bank, channel, lomark, himark, default) ==
  Sets(<<IsOther(bank \in 0..1), IsChannel(channel, 0..7), IsOther(lomark \in 0..255),
         IsOther(himark \in 0..255), IsOther(lomark < himark), IsOther(default \in {0, 1})>>,
       <<Command(<<"SAEVT", (IF default # 0 THEN 128 ELSE 0) + EventByte(bank, channel),
                   lomark, himark, 0>>)>>,
       (<<"lo", bank, channel>> :> lomark) @@ (<<"hi", bank, channel>> :> himark)
         @@ (<<"default", bank, channel>> :> default))

get_analog_eventdef(bank, channel) ==
  Gets(<<IsOther(bank \in 0..1), IsChannel(channel, 0..7)>>,
       <<Query(<<"GAEVT", 0, EventByte(bank, channel), 0, 0>>,
               (<<"lo", bank, channel>> :> <<"byte", 4>>)
                 @@ (<<"hi", bank, channel>> :> <<"byte", 5>>))>>)

set_analog_assignment(channel, source) ==
  Sets(<<IsChannel(channel, 0..7), IsOther(source \in 0..31)>>,
       <<Command(<<"SCHAS", channel, source, 0, 0>>)>>, <<"mux", channel>> :> source)

get_analog_assignment(channel) ==
  Gets(<<IsChannel(channel, 0..7)>>,
       <<Query(<<"GCHAS", 0, channel, 0, 0>>, <<"mux", channel>> :> <<"byte", 4>>)>>)

-----------------------------------------------------------------------------
(* The device itself. *)
reset == Sets(<<>>, <<Command(<<"RST", 0, 0, 0, 0>>)>>, [r \in Configured |-> 0])

get_serialnum ==
  Gets(<<>>, <<Query(<<"SNBAT", 0, 0, 0, 0>>, <<"batch">> :> <<"word", 3>>),
               Query(<<"SNUNT", 0, 0, 0, 0>>, <<"unit">> :> <<"word", 3>>)>>)

get_product_id == Gets(<<>>, <<Query(<<"PRID", 0, 0, 0, 0>>, <<"product">> :> <<"byte", 3>>)>>)

get_serialnum_string(bufsize) == ArgumentsFirst(
  Gets(<<Is(bufsize >= 10, "BUFSIZE")>>, get_product_id.steps \o get_serialnum.steps))

get_firmware_release ==
  Gets(<<>>, <<Query(<<"FREL", 0, 0, 0, 0>>,
                     (<<"release", 1>> :> <<"byte", 3>>) @@ (<<"release", 2>> :> <<"byte", 4>>))>>)

connection_flags(clear) ==
  Sets(<<>>, <<Query(<<"CFLAG", 0, IF clear # 0 THEN 1 ELSE 0, 0, 0>>,
                     <<"flags">> :> <<"byte", 4>>)>>,
       IF clear # 0 THEN <<"flags">> :> 0 ELSE <<>>)

-----------------------------------------------------------------------------
(* Counters: counter 0 has 16 bits, counter 1 has 8. *)
Counters == 0..1
Top(counter) == IF counter = 0 THEN 65535 ELSE 255
(* A mutant: the high byte of the 8-bit counter is taken too. *)
TakeCountWide(kind, counter) == <<kind, counter>> :> <<"word", 4>>
TakeCount(kind, counter) == <<kind, counter>> :> (IF counter = 1 THEN <<"byte", 5>> ELSE <<"word", 4>>)

set_counter_state(counter, state) ==
  Sets(<<IsOther(counter \in Counters), IsOther(state \in 0..2)>>,
       <<Command(<<"SCSTA", counter, state, 0, 0>>)>>, <<"cstate", counter>> :> state)

get_counter_state(counter) ==
  Gets(<<IsOther(counter \in Counters)>>,
       <<Query(<<"GCSTA", 0, counter, 0, 0>>, <<"cstate", counter>> :> <<"byte", 4>>)>>)

set_counter_value(counter, value) ==
  Sets(<<IsOther(counter \in Counters), IsValue(value >= 0), IsValue(value <= Top(counter))>>,
       <<Command(<<"CNTWR", counter, Hi(value), Lo(value), 0>>)>>, <<"count", counter>> :> value)

get_counter_value(counter) ==
  Gets(<<IsOther(counter \in Counters)>>,
       <<Query(<<"CNTRD", 0, counter, 0, 0>>, TakeCount("count", counter))>>)

(* The code has no test for a negative rollover: its low bits are sent. *)
set_counter_rollover(counter, rollover) ==
  Sets(<<IsOther(counter \in Counters), IsValue(rollover <= Top(counter))>>,
       <<Command(<<"SCROL", counter, Hi(rollover), Lo(rollover), 0>>)>>,
       <<"rollover", counter>> :> rollover % (Top(counter) + 1))

get_counter_rollover(counter) ==
  Gets(<<IsOther(counter \in Counters)>>,
       <<Query(<<"GCROL", 0, counter, 0, 0>>, TakeCount("rollover", counter))>>)

set_counter_threshold(counter, threshold) ==
  Sets(<<IsOther(counter = 0), IsOther(threshold \in 0..65535)>>,
       <<Command(<<"SCEVT", counter, Hi(threshold), Lo(threshold), 0>>)>>,
       <<"threshold", counter>> :> threshold)

get_counter_threshold(counter) ==
  Gets(<<IsOther(counter = 0)>>,
       <<Query(<<"GCEVT", 0, counter, 0, 0>>, <<"threshold", counter>> :> <<"word", 4>>)>>)

-----------------------------------------------------------------------------
(* PWM outputs. *)
PwmChannels == 0..1

set_pwm_clock_state(state) ==
  Sets(<<IsOther(state \in {0, 1})>>, <<Command(<<"SPCLK", state, 0, 0, 0>>)>>,
       <<"pwmclock">> :> state)

get_pwm_clock_state ==
  Gets(<<>>, <<Query(<<"GPCLK", 0, 0, 0, 0>>, <<"pwmclock">> :> <<"byte", 3>>)>>)

set_pwm_base_period(period) ==
  Sets(<<IsOther(period \in PWM_MINIMUM_BASE..65535)>>,
       <<Command(<<"SPBAS", Hi(period), Lo(period), 0, 0>>)>>, <<"pwmbase">> :> period)

get_pwm_base_period ==
  Gets(<<>>, <<Query(<<"GPBAS", 0, 0, 0, 0>>, <<"pwmbase">> :> <<"word", 3>>)>>)

set_pwm_channel(channel, state) ==
  Sets(<<IsChannel(channel, PwmChannels), IsOther(state \in 0..2)>>,
       <<Command(<<"SPCST", channel, state, 0, 0>>)>>, <<"pwmstate", channel>> :> state)

get_pwm_channel(channel) ==
  Gets(<<IsChannel(channel, PwmChannels)>>,
       <<Query(<<"GPCST", 0, channel, 0, 0>>, <<"pwmstate", channel>> :> <<"byte", 4>>)>>)

set_pwm_duty_period(channel, period) ==
  Sets(<<IsChannel(channel, PwmChannels), IsOther(period \in 0..65535)>>,
       <<Command(<<"SPCDC", channel, Hi(period), Lo(period), 0>>)>>,
       <<"pwmduty", channel>> :> period)

get_pwm_duty_period(channel) ==
  Gets(<<IsChannel(channel, PwmChannels)>>,
       <<Query(<<"GPCDC", 0, channel, 0, 0>>, <<"pwmduty", channel>> :> <<"word", 4>>)>>)

(* ROUND of the code for a, b >= 0. *)
Rounded(a, b) == (2 * a + b) \div (2 * b)
Clamp(n, low, high) == IF n < low THEN low ELSE IF n > high THEN high ELSE n

(* Thresholds, one less than the counts: freq in Hz, duty a fraction of      *)
(* integers <<n, d>>. A frequency below PWM_CLOCK / 65536 becomes that one.  *)
BasePeriod(freq) ==
  Clamp((IF freq <= PWM_CLOCK \div 65536 THEN 65536 ELSE Rounded(PWM_CLOCK, freq)) - 1,
        PWM_MINIMUM_BASE, 65535)
DutyPeriod(period, duty) ==
  LET counts == Rounded((period + 1) * Clamp(duty[1], 0, duty[2]), duty[2]) IN
  Clamp(IF counts > 0 THEN counts - 1 ELSE counts, 0, 65535)

(* What the caller wants: the number of clock cycles, of those the device    *)
(* can count, whose frequency is nearest, and the nearest share of them.     *)
Nearest(n, a, b) == 2 * n * b - b <= 2 * a /\ 2 * a < 2 * n * b + b
Cycles(freq) ==
  IF freq <= PWM_CLOCK \div 65536 THEN 65536
  ELSE IF freq > PWM_CLOCK \div (PWM_MINIMUM_BASE + 1) THEN PWM_MINIMUM_BASE + 1
  ELSE CHOOSE n \in PWM_MINIMUM_BASE + 1..65536 : Nearest(n, PWM_CLOCK, freq)
HighCycles(freq, duty) ==
  LET all == Cycles(freq) IN
  CHOOSE n \in 0..all : Nearest(n, all * Clamp(duty[1], 0, duty[2]), duty[2])
Threshold(counts) == IF counts = 0 THEN 0 ELSE counts - 1

PwmPin(channel) == <<"dir", 2, 4 + channel>>

(* A mutant: the pin is switched to output first. *)
PwmStepsPinFirst(channel, state, base, dutyPeriod) ==
  (IF state # 0 THEN set_direction_bit(2, 4 + channel, 1).steps ELSE <<>>)
    \o set_pwm_base_period(base).steps \o set_pwm_duty_period(channel, dutyPeriod).steps
    \o set_pwm_clock_state(1).steps \o set_pwm_channel(channel, state).steps
PwmSteps(channel, state, base, dutyPeriod) ==
  set_pwm_base_period(base).steps \o set_pwm_duty_period(channel, dutyPeriod).steps
    \o set_pwm_clock_state(1).steps \o set_pwm_channel(channel, state).steps
    \o (IF state # 0 THEN set_direction_bit(2, 4 + channel, 1).steps ELSE <<>>)

set_pwm_parameters(channel, state, freq, duty) ==
  Sets(<<IsChannel(channel, PwmChannels), IsOther(state \in 0..2)>>,
       PwmSteps(channel, state, BasePeriod(freq), DutyPeriod(BasePeriod(freq), duty)),
       (<<"pwmbase">> :> Threshold(Cycles(freq))) @@ (<<"pwmclock">> :> 1)
         @@ (<<"pwmduty", channel>> :> Threshold(HighCycles(freq, duty)))
         @@ (<<"pwmstate", channel>> :> state)
         @@ (IF state # 0 THEN PwmPin(channel) :> 1 ELSE <<>>))

get_pwm_parameters(channel) ==
  Gets(<<IsChannel(channel, PwmChannels)>>,
       get_pwm_channel(channel).steps \o get_pwm_base_period.steps
         \o get_pwm_duty_period(channel).steps)

-----------------------------------------------------------------------------
(* The EEPROM: read in pairs, written in threes and then byte by byte. *)
InEeprom(address, length) ==
  <<IsOther(address \in 0..255), IsOther(length >= 0 /\ address + length <= 256)>>

get_eeprom(address, length) ==
  LET Pair(i) == Query(<<"GEE2", 0, address + i, 0, 0>>,
        [r \in {<<"eeprom", address + i + k>> : k \in {j \in 0..1 : i + j < length}} |->
           <<"byte", 4 + r[2] - (address + i)>>])
  IN Gets(InEeprom(address, length), [n \in 1..((length + 1) \div 2) |-> Pair(2 * (n - 1))])

Three(address, data, i) == Command(<<"SEE3", address + i, data[i + 1], data[i + 2], data[i + 3]>>)
One(address, data, i) == Command(<<"SEE1", address + i, data[i + 1], 0, 0>>)
(* A mutant: the remaining bytes go first. *)
EepromStepsRestFirst(address, data) ==
  LET threes == Len(data) \div 3 IN
  [n \in 1..(Len(data) - 3 * threes) |-> One(address, data, 3 * threes + n - 1)]
    \o [n \in 1..threes |-> Three(address, data, 3 * (n - 1))]
EepromSteps(address, data) ==
  LET threes == Len(data) \div 3 IN
  [n \in 1..threes |-> Three(address, data, 3 * (n - 1))]
    \o [n \in 1..(Len(data) - 3 * threes) |-> One(address, data, 3 * threes + n - 1)]

set_eeprom(address, data) ==
  LET length == Len(data)
  IN Sets(InEeprom(address, length), EepromSteps(address, data),
          [r \in {<<"eeprom", address + i>> : i \in 0..length - 1} |-> data[r[2] - address + 1]])

-----------------------------------------------------------------------------
(* The device (external): the registers a packet changes, and the reply to a *)
(* query, whose second byte is the sequence number.                          *)
Word(hi, lo) == 256 * hi + lo
CountOf(counter, hi, lo) == IF counter = 0 THEN Word(hi, lo) ELSE lo

Effect(p) ==
  CASE p[1] = "OPORT" -> PinsOf("out", p[2], p[3])
    [] p[1] = "SBIT" -> [r \in {q \in Pins("out", p[2]) : Bit(p[3], q[3]) = 1} |-> 1]
    [] p[1] = "CBIT" -> [r \in {q \in Pins("out", p[2]) : Bit(p[3], q[3]) = 0} |-> 0]
    [] p[1] = "PULSE" -> <<"pulse", p[2], p[3]>> :> <<p[4], p[5]>>
    [] p[1] = "SPDIR" -> IF p[4] = 0 THEN PinsOf("dir", p[2], p[3])    \* copy, OR, AND
                         ELSE LET v == IF p[4] = 1 THEN 1 ELSE 0 IN
                              [r \in {q \in Pins("dir", p[2]) : Bit(p[3], q[3]) = v} |-> v]
    [] p[1] = "SASTA" -> <<"adc">> :> p[3]
    [] p[1] = "SREF" -> <<"ref">> :> p[2]
    [] p[1] = "SAEVT" -> LET def == <<(p[2] \div 8) % 2, p[2] % 8>> IN
                         (<<"lo">> \o def :> p[3]) @@ (<<"hi">> \o def :> p[4])
                           @@ (<<"default">> \o def :> Bit(p[2], 7))
    [] p[1] = "SCHAS" -> <<"mux", p[2]>> :> p[3]
    [] p[1] = "RST" -> [r \in Configured |-> 0]
    [] p[1] = "CFLAG" -> IF p[3] = 1 THEN <<"flags">> :> 0 ELSE <<>>
    [] p[1] = "SCSTA" -> <<"cstate", p[2]>> :> p[3]
    [] p[1] = "CNTWR" -> <<"count", p[2]>> :> CountOf(p[2], p[3], p[4])
    [] p[1] = "SCROL" -> <<"rollover", p[2]>> :> CountOf(p[2], p[3], p[4])
    [] p[1] = "SCEVT" -> <<"threshold", p[2]>> :> Word(p[3], p[4])
    [] p[1] = "SPCLK" -> <<"pwmclock">> :> p[2]
    [] p[1] = "SPBAS" -> <<"pwmbase">> :> Word(p[2], p[3])
    [] p[1] = "SPCST" -> <<"pwmstate", p[2]>> :> p[3]
    [] p[1] = "SPCDC" -> <<"pwmduty", p[2]>> :> Word(p[3], p[4])
    [] p[1] = "SEE1" -> <<"eeprom", p[2]>> :> p[3]
    [] p[1] = "SEE3" -> [r \in {<<"eeprom", p[2] + i>> : i \in 0..2} |-> p[3 + r[2] - p[2]]]
    [] OTHER -> <<>>

(* A register that no call of the suite names reads as zero. *)
Value(at, r) == IF r \in DOMAIN at THEN at[r] ELSE 0
PortByte(at, kind, port) == FoldFunction(+, 0, [b \in 0..7 |-> Value(at, <<kind, port, b>>) * 2^b])
Stray == 170   \* what the high byte of an 8-bit counter may hold

Reply(p, at) ==
  LET Echo(a, b) == <<p[1], 0, p[3], a, b>>       \* the third byte repeats the query's
      Plain(a, b) == <<p[1], 0, a, b, 0>>
      EchoWord(n) == Echo(Hi(n), Lo(n))
      EchoCount(n) == IF p[3] = 1 THEN Echo(Stray, Lo(n)) ELSE EchoWord(n)
      def == <<p[3] \div 8, p[3] % 8>>
  IN
  CASE p[1] = "IPORT" -> Echo(PortByte(at, "in", p[3]), 0)
    [] p[1] = "SRD" -> Echo(Value(at, <<"tries", p[3]>>), PortByte(at, "in", p[3]))
    [] p[1] = "RBOUT" -> Echo(PortByte(at, "out", p[3]), 0)
    [] p[1] = "GPDIR" -> Echo(PortByte(at, "dir", p[3]), 0)
    [] p[1] = "GASTA" -> Echo(Value(at, <<"adc">>), 0)
    [] p[1] = "IANLG" -> LET n == Value(at, <<"analog", p[3]>>) IN Echo(n \div 4, (n % 4) * 64)
    [] p[1] = "GREF" -> Plain(Value(at, <<"ref">>), 0)
    [] p[1] = "GAEVT" -> Echo(Value(at, <<"lo">> \o def), Value(at, <<"hi">> \o def))
    [] p[1] = "GCHAS" -> Echo(Value(at, <<"mux", p[3]>>), 0)
    [] p[1] = "SNBAT" -> Plain(Hi(Value(at, <<"batch">>)), Lo(Value(at, <<"batch">>)))
    [] p[1] = "SNUNT" -> Plain(Hi(Value(at, <<"unit">>)), Lo(Value(at, <<"unit">>)))
    [] p[1] = "PRID" -> Plain(Value(at, <<"product">>), 0)
    [] p[1] = "FREL" -> Plain(Value(at, <<"release", 1>>), Value(at, <<"release", 2>>))
    [] p[1] = "CFLAG" -> Echo(Value(at, <<"flags">>), 0)
    [] p[1] = "GCSTA" -> Echo(Value(at, <<"cstate", p[3]>>), 0)
    [] p[1] = "CNTRD" -> EchoCount(Value(at, <<"count", p[3]>>))
    [] p[1] = "GCROL" -> EchoCount(Value(at, <<"rollover", p[3]>>))
    [] p[1] = "GCEVT" -> EchoWord(Value(at, <<"threshold", p[3]>>))
    [] p[1] = "GPCLK" -> Plain(Value(at, <<"pwmclock">>), 0)
    [] p[1] = "GPBAS" -> Plain(Hi(Value(at, <<"pwmbase">>)), Lo(Value(at, <<"pwmbase">>)))
    [] p[1] = "GPCST" -> Echo(Value(at, <<"pwmstate", p[3]>>), 0)
    [] p[1] = "GPCDC" -> EchoWord(Value(at, <<"pwmduty", p[3]>>))
    [] p[1] = "GEE2" -> Echo(Value(at, <<"eeprom", p[3]>>), Value(at, <<"eeprom", (p[3] + 1) % 256>>))
    [] OTHER -> Plain(0, 0)

(* What the API takes from a reply; reply[i] of the code is reply[i + 1]. *)
Decode(take, reply) ==
  LET i == take[2] IN
  CASE take[1] = "byte" -> reply[i]
    [] take[1] = "word" -> Word(reply[i], reply[i + 1])
    [] take[1] = "ten" -> reply[i] * 4 + reply[i + 1] \div 64
    [] take[1] = "bit" -> Bit(reply[i], take[3])

-----------------------------------------------------------------------------
(* Threads: the call of a busy one, its next step, what it took so far; and  *)
(* after it, what the call returned.                                         *)
Calls == Range(Suites[suite])
Start(name) == LET calls == {c \in Range(Suites[name]) : c.reject = "none"} IN
  [r \in UNION {DOMAIN c.sets \cup c.gets : c \in calls} |-> Factory[r]]
Fresh == [call |-> 0, next |-> 1, got |-> <<>>, code |-> "none", waits |-> FALSE, left |-> CallsEach]

Busy(t) == thread[t].code = "busy"
TheCall(t) == Suites[suite][thread[t].call]
NextStep(t) == TheCall(t).steps[thread[t].next]
HasStep(t) == thread[t].next <= Len(TheCall(t).steps)
IsQuery(step) == step.takes # <<>> \/ step.packet[1] = "PING"
Taken(step, at) == [r \in DOMAIN step.takes |-> Decode(step.takes[r], Reply(step.packet, at))]

Init ==
  /\ suite \in DOMAIN Suites
  /\ regs = Start(suite)
  /\ wire = <<>>
  /\ alive = TRUE
  /\ thread = [t \in Threads |-> Fresh]

(* The call's first tests: eth32_check and then its arguments, or its        *)
(* arguments and then the call that it makes.                                *)
Call(t, c) ==
  LET reject == Suites[suite][c].reject
      rejected == reject # "none" /\ (alive \/ Suites[suite][c].early)
  IN
  /\ ~Busy(t) /\ thread[t].left > 0
  /\ thread' = [thread EXCEPT ![t] =
       [Fresh EXCEPT !.call = c, !.left = thread[t].left - 1,
          !.code = IF rejected THEN reject ELSE IF alive THEN "busy" ELSE "NETWORK_ERROR"]]
  /\ UNCHANGED <<suite, regs, wire, alive>>

(* The next packet is written; a query waits, a command goes on.             *)
Write(t) ==
  /\ Busy(t) /\ ~thread[t].waits /\ alive /\ HasStep(t)
  /\ Len(wire) < WireBound
  /\ wire' = Append(wire, [packet |-> NextStep(t).packet, waiter |-> IF IsQuery(NextStep(t)) THEN {t} ELSE {}])
  /\ thread' = [thread EXCEPT ![t].waits = IsQuery(NextStep(t)),
                              ![t].next = IF IsQuery(NextStep(t)) THEN @ ELSE @ + 1]
  /\ UNCHANGED <<suite, regs, alive>>

(* The device works on the oldest packet; a reply reaches its waiter.        *)
Device ==
  /\ wire # <<>> /\ alive
  /\ regs' = Effect(Head(wire).packet) @@ regs
  /\ wire' = Tail(wire)
  /\ thread' = [t \in Threads |-> IF t \notin Head(wire).waiter THEN thread[t]
       ELSE [thread[t] EXCEPT !.got = Taken(NextStep(t), regs) @@ @, !.waits = FALSE, !.next = @ + 1]]
  /\ UNCHANGED <<suite, alive>>

(* A write or a query times out, or the connection is found dead: the call   *)
(* goes no further. A query that is on its way is still worked on.           *)
Fail(t) ==
  /\ Busy(t) /\ HasStep(t)
  /\ MayFail \/ ~alive
  /\ thread' = [thread EXCEPT ![t] =
       [Fresh EXCEPT !.left = thread[t].left, !.code = IF alive THEN "TIMEOUT" ELSE "NETWORK_ERROR"]]
  /\ wire' = [i \in DOMAIN wire |-> [wire[i] EXCEPT !.waiter = @ \ {t}]]
  /\ UNCHANGED <<suite, regs, alive>>

Return(t) ==
  /\ Busy(t) /\ ~HasStep(t)
  /\ thread' = [thread EXCEPT ![t] =
       [Fresh EXCEPT !.left = thread[t].left, !.code = "OK", !.got = thread[t].got]]
  /\ UNCHANGED <<suite, regs, wire, alive>>

(* The reader thread ends: every later check fails, and what is on the way   *)
(* to the device does not arrive.                                            *)
LoseConnection ==
  /\ MayFail /\ alive
  /\ alive' = FALSE
  /\ UNCHANGED <<suite, regs, wire, thread>>

Next ==
  \/ \E t \in Threads : \/ \E c \in DOMAIN Suites[suite] : Call(t, c)
                        \/ Write(t) \/ Fail(t) \/ Return(t)
  \/ Device
  \/ LoseConnection

Spec == Init /\ [][Next]_vars

-----------------------------------------------------------------------------
(* Every call, whatever its packets look like and however calls overlap,     *)
(* changes exactly the registers its caller named, to the values it named,   *)
(* and a successful one has sent all of them and read what was there: the    *)
(* encoding of arguments, the splitting into packets and the decoding of     *)
(* replies in eth32.c do what the API's comments say.                        *)
Applied(packets) == FoldLeft(LAMBDA at, w : Effect(w.packet) @@ at, regs, packets)
Sent(t) == UNION {DOMAIN Effect(TheCall(t).steps[i].packet) :
                    i \in 1..(thread[t].next - (IF thread[t].waits THEN 0 ELSE 1))}
Seen(t) ==
  IF ~thread[t].waits THEN thread[t].got
  ELSE LET i == CHOOSE j \in DOMAIN wire : t \in wire[j].waiter IN
       Taken(NextStep(t), Applied(SubSeq(wire, 1, i - 1))) @@ thread[t].got

EveryCall == {[sets |-> c.sets, gets |-> c.gets] :
                c \in UNION {Range(Suites[s]) : s \in DOMAIN Suites}}
EveryStart == {Start(s) : s \in DOMAIN Suites}

Registers == INSTANCE EthRegisters WITH
  Asked <- EveryCall,
  Factories <- EveryStart,
  Errors <- {"TIMEOUT", "NETWORK_ERROR", "BUFSIZE", "INVALID_PORT", "INVALID_BIT",
             "INVALID_VALUE", "INVALID_OTHER", "INVALID_CHANNEL"},
  value <- Applied(wire),
  call <- [t \in Threads |->
    IF ~Busy(t) THEN [sets |-> <<>>, gets |-> {}, done |-> {}, seen |-> <<>>, busy |-> FALSE]
    ELSE [sets |-> TheCall(t).sets, gets |-> TheCall(t).gets,
          done |-> Sent(t), seen |-> Seen(t), busy |-> TRUE]],
  result <- [t \in Threads |->
    [code |-> IF Busy(t) THEN "none" ELSE thread[t].code,
     seen |-> IF Busy(t) THEN <<>> ELSE thread[t].got]]
ImplementsRegisters == Registers!Spec

(* set_pwm_parameters drives its pin last: whenever a PWM pin becomes an     *)
(* output, its channel already has the duty and the state of one call and    *)
(* the clock runs, also while another channel is set up and when calls fail; *)
(* provided nothing else uses that channel and the direction of its pin. Two *)
(* overlapping calls for one channel can leave a mixture of both.            *)
PinDrivenLast == [][
  \A channel \in PwmChannels :
    LET pin == PwmPin(channel)
        setters == {c \in Calls : pin \in DOMAIN c.sets}
    IN
    Value(regs, pin) = 0 /\ Value(regs', pin) = 1
      /\ setters = {c \in Calls : <<"pwmduty", channel>> \in DOMAIN c.sets}
      => \E c \in setters :
           \A r \in {<<"pwmduty", channel>>, <<"pwmstate", channel>>, <<"pwmclock">>} :
             Value(regs, r) = c.sets[r]]_regs

(* A write to the EEPROM that breaks off leaves the first bytes new and the  *)
(* others as they were, in the device itself, although it is sent in threes  *)
(* and single bytes.                                                         *)
EepromWrittenInOrder ==
  \A c \in Calls : \A r, q \in {s \in DOMAIN c.sets : s[1] = "eeprom"} :
    r[2] < q[2] /\ Value(regs, q) = c.sets[q] => Value(regs, r) = c.sets[r]
=============================================================================
