-------------------------- MODULE AccelerometerApp --------------------------
(***************************************************************************)
(* The application (main.c): it identifies the accelerometer, starts it    *)
(* and for ever reads it, wipes the ten lamps when the board is turned     *)
(* over, and shows the level.  An I2C call gives success and the sensor's  *)
(* bytes, or an error.                                                     *)
(***************************************************************************)
EXTENDS Integers

CONSTANTS Samples,         \* [y, z]: pairs <<high byte, low byte>>
          MaxTurns         \* counters of turns and wipes are taken modulo this

Byte == 0..255
ASSUME AppAssumption == /\ MaxTurns \in Nat \ {0}
                        /\ Samples \subseteq [y : Byte \X Byte, z : Byte \X Byte]

NLEDS == 10
Z_FLIP_NEG_TH == -200
Z_FLIP_POS_TH == 200

VARIABLES app,             \* place in main
          leds,            \* the lamps that are lit
          g_y, g_z, is_flipped,
          i,               \* where wipe_animation, or a blinking loop, is
          face, turns,     \* history: the side the samples showed last, how
          wipes            \* often it turned over, and wipes begun

application == <<app, leds, g_y, g_z, is_flipped, i, face, turns, wipes>>

\* (int16_t)((hi << 8) | lo)
Int16(b) == LET v == 256 * b[1] + b[2] IN IF v >= 32768 THEN v - 65536 ELSE v

y_to_led_index(y) ==
  IF y <= -256 THEN 0
  ELSE IF y >= 256 THEN NLEDS - 1
  ELSE ((y + 256) * (NLEDS - 1)) \div 512

All == 0..(NLEDS - 1)

Go(place) == app' = place

Open ==
  /\ app = "open"
  /\ \E found \in BOOLEAN : Go(IF found THEN "identify" ELSE "no_device")
  /\ UNCHANGED <<leds, g_y, g_z, is_flipped, i, face, turns, wipes>>

\* The identification fails or answers something else than 0xE5.
Identify ==
  /\ app = "identify"
  /\ \E ok \in BOOLEAN : Go(IF ok THEN "configure" ELSE "no_sensor")
  /\ UNCHANGED <<leds, g_y, g_z, is_flipped, i, face, turns, wipes>>

\* The two loops that signal a fault never end: lamps on, lamps off.
Blink ==
  /\ app \in {"no_device", "no_sensor"}
  /\ i' = 1 - i
  /\ leds' = IF i = 1 THEN {} ELSE IF app = "no_device" THEN All ELSE {0, NLEDS - 1}
  /\ UNCHANGED <<app, g_y, g_z, is_flipped, face, turns, wipes>>

\* The results of the two writes are not looked at.
Configure ==
  /\ app = "configure" /\ Go("read") /\ is_flipped' = FALSE
  /\ UNCHANGED <<leds, g_y, g_z, i, face, turns, wipes>>

\* The side a sample shows; in between it shows none.
Side(z) == IF z < Z_FLIP_NEG_TH THEN "down"
           ELSE IF z > Z_FLIP_POS_TH THEN "up" ELSE face

ReadSample ==
  /\ app = "read"
  /\ \E s \in Samples :
       /\ g_y' = Int16(s.y) /\ g_z' = Int16(s.z)
       /\ face' = Side(Int16(s.z))
       /\ turns' = IF face' = "down" /\ face = "up" THEN (turns + 1) % MaxTurns
                                                    ELSE turns
  /\ Go("decide")
  /\ UNCHANGED <<leds, is_flipped, i, wipes>>

ReadFails ==
  /\ app = "read" /\ leds' = {} /\ Go("sleep")
  /\ UNCHANGED <<g_y, g_z, is_flipped, i, face, turns, wipes>>

\* Mutant: one threshold for both directions.
DecideNoHysteresis ==
  /\ app = "decide"
  /\ \/ ~is_flipped /\ g_z < Z_FLIP_NEG_TH
        /\ is_flipped' = TRUE /\ i' = 0 /\ wipes' = (wipes + 1) % MaxTurns /\ Go("wipe")
     \/ is_flipped /\ g_z > Z_FLIP_NEG_TH
        /\ is_flipped' = FALSE /\ Go("show") /\ UNCHANGED <<i, wipes>>
     \/ (IF is_flipped THEN g_z <= Z_FLIP_NEG_TH ELSE g_z >= Z_FLIP_NEG_TH)
        /\ Go("show") /\ UNCHANGED <<is_flipped, i, wipes>>
  /\ UNCHANGED <<leds, g_y, g_z, face, turns>>

Decide ==
  /\ app = "decide"
  /\ \/ ~is_flipped /\ g_z < Z_FLIP_NEG_TH
        /\ is_flipped' = TRUE /\ i' = 0 /\ wipes' = (wipes + 1) % MaxTurns /\ Go("wipe")
     \/ is_flipped /\ g_z > Z_FLIP_POS_TH
        /\ is_flipped' = FALSE /\ Go("show") /\ UNCHANGED <<i, wipes>>
     \/ (IF is_flipped THEN g_z <= Z_FLIP_POS_TH ELSE g_z >= Z_FLIP_NEG_TH)
        /\ Go("show") /\ UNCHANGED <<is_flipped, i, wipes>>
  /\ UNCHANGED <<leds, g_y, g_z, face, turns>>

\* The lamps go out one by one, then all of them flash twice.
Wipe ==
  /\ app = "wipe"
  /\ leds' = CASE i < NLEDS                      -> (i + 1)..(NLEDS - 1)
               [] i \in {NLEDS, NLEDS + 2}       -> All
               [] i \in {NLEDS + 1, NLEDS + 3}   -> {}
  /\ IF i < NLEDS + 3 THEN i' = i + 1 /\ UNCHANGED app ELSE i' = 0 /\ Go("show")
  /\ UNCHANGED <<g_y, g_z, is_flipped, face, turns, wipes>>

Show ==
  /\ app = "show" /\ leds' = {y_to_led_index(g_y)} /\ Go("sleep")
  /\ UNCHANGED <<g_y, g_z, is_flipped, i, face, turns, wipes>>

Sleep ==
  /\ app = "sleep" /\ Go("read")
  /\ UNCHANGED <<leds, g_y, g_z, is_flipped, i, face, turns, wipes>>

AppStep == Open \/ Identify \/ Blink \/ Configure \/ ReadSample \/ ReadFails \/ Decide
           \/ Wipe \/ Show \/ Sleep

\* The board lies face up for the program until a sample says otherwise.
InitApp == /\ app = "open" /\ leds = {} /\ g_y = 0 /\ g_z = 0 /\ is_flipped = FALSE
           /\ i = 0 /\ face = "up" /\ turns = 0 /\ wipes = 0

\* The lamps were wiped once for each time the board was turned over, however
\* the samples bounced around the thresholds and whichever reads failed.
OneWipePerTurn == app # "decide" => wipes = turns
=============================================================================
