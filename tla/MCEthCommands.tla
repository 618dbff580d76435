---------------------------- MODULE MCEthCommands ----------------------------
(* Instances of EthCommands: calls that meet on the same registers, with     *)
(* arguments at and beyond the edges of their ranges.                        *)
EXTENDS EthCommands

Output == <<output_byte(7, 170), output_byte(8, 1), output_byte(0, 256), output_bit(7, 1, 0),
           output_bit(7, 6, 5), output_bit(7, 8, 1), set_led(1, 9), set_led(2, 1), readback(7), get_led(1)>>
Input == <<input_byte(5), input_byte(-1), input_bit(5, 0), input_bit(5, 7), input_bit(5, -1),
          input_successive(5, 2), input_successive(5, 1), pulse_bit(5, 7, 1, 255),
          pulse_bit(5, 7, 2, 1), pulse_bit(5, 0, 0, 256), verify_connection>>
Direction == <<set_direction(2, 129), set_direction(6, 1), set_direction_bit(2, 0, 0),
              set_direction_bit(2, 4, 1), set_direction_bit(2, 9, 1), get_direction(2),
              get_direction_bit(2, 4), get_direction_bit(2, 8), reset>>
Analog == <<set_analog_state(1), set_analog_state(2), get_analog_state, input_analog(7), input_analog(8),
           set_analog_reference(3), set_analog_reference(2), get_analog_reference,
           set_analog_assignment(7, 31), set_analog_assignment(7, 32), get_analog_assignment(7)>>
AnalogEvents == <<set_analog_eventdef(1, 7, 3, 255, 1), set_analog_eventdef(1, 7, 4, 5, 0),
                 set_analog_eventdef(0, 7, 3, 3, 0), set_analog_eventdef(2, 7, 3, 4, 0),
                 set_analog_eventdef(0, 8, 3, 4, 0), set_analog_eventdef(0, 0, 3, 4, 2),
                 get_analog_eventdef(1, 7), get_analog_eventdef(2, 0)>>
Identity == <<get_serialnum, get_product_id, get_serialnum_string(10), get_serialnum_string(9),
             get_firmware_release, connection_flags(0), connection_flags(1)>>
CounterValues == <<set_counter_state(1, 2), set_counter_state(1, 3), get_counter_state(1),
                  set_counter_value(0, 65535), set_counter_value(0, 65536), set_counter_value(1, 255),
                  set_counter_value(1, 256), set_counter_value(1, -1), set_counter_value(2, 0),
                  get_counter_value(0), get_counter_value(1)>>
CounterLimits == <<set_counter_rollover(0, 258), set_counter_rollover(0, -1), set_counter_rollover(0, 65536),
                  set_counter_rollover(1, 200), set_counter_rollover(1, 256), get_counter_rollover(0),
                  get_counter_rollover(1), set_counter_threshold(0, 513), set_counter_threshold(1, 1),
                  set_counter_threshold(0, 65536), get_counter_threshold(0)>>
PwmParts == <<set_pwm_clock_state(1), set_pwm_clock_state(2), get_pwm_clock_state,
             set_pwm_parameters(1, 0, 40001, <<3, 2>>),
             set_pwm_base_period(49), set_pwm_base_period(48), set_pwm_base_period(65535),
             get_pwm_base_period, set_pwm_channel(1, 2), set_pwm_channel(2, 0), get_pwm_channel(1),
             set_pwm_duty_period(1, 65535), set_pwm_duty_period(1, 65536), get_pwm_duty_period(1)>>
PwmWhole == <<set_pwm_parameters(0, 1, 1000, <<1, 3>>), set_pwm_parameters(1, 2, 30, <<0, 1>>),
             set_pwm_parameters(1, 3, 100, <<1, 2>>),
             get_pwm_parameters(0)>>
EepromEnds == <<set_eeprom(251, <<11, 12, 13, 14, 15>>), set_eeprom(254, <<1, 2, 3>>), get_eeprom(251, 5),
               get_eeprom(252, 4), get_eeprom(256, 0), get_eeprom(250, 7)>>

PinRegisters == Pins("dir", 2) \cup Pins("out", 2)

AllSuites == [output |-> Output, input |-> Input, direction |-> Direction, analog |-> Analog,
  analog_events |-> AnalogEvents, identity |-> Identity, counter_values |-> CounterValues,
  counter_limits |-> CounterLimits, pwm_parts |-> PwmParts, pwm |-> PwmWhole, eeprom |-> EepromEnds]

(* Every register some call names, with values that differ where reading     *)
(* them from the wrong place must show.                                      *)
Named == UNION {DOMAIN c.sets \cup c.gets : c \in {d \in UNION {Range(AllSuites[s]) : s \in DOMAIN AllSuites} : d.reject = "none"}}
FactoryValue(r) ==
  CASE r[1] = "in" -> IF r[3] \in {0, 2, 5} THEN 1 ELSE 0
    [] r[1] = "tries" -> 3
    [] r[1] = "analog" -> 678
    [] r[1] = "batch" -> 259
    [] r[1] = "unit" -> 1287
    [] r[1] = "product" -> 105
    [] r[1] = "release" -> r[2] + 1
    [] r[1] = "flags" -> 5
    [] r[1] = "count" /\ r[2] = 0 -> 772
    [] r[1] = "eeprom" -> r[2]
    [] r[1] = "pulse" -> <<0, 0>>
    [] OTHER -> 0
FactoryRegisters == [r \in Named |-> FactoryValue(r)]
=============================================================================
