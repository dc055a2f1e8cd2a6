----------------------------- MODULE Controller -----------------------------
(***************************************************************************)
(* The motion controller, src/controller/controller.c, and the game thread *)
(* that reads it at the head of handle_input, src/game/game.c.  Each turn  *)
(* of the sampling thread reads the sensor, publishes a direction under    *)
(* imu_lock, reads the two buttons and publishes them under switch_lock;   *)
(* a frame reads the direction and then the buttons under the same locks.  *)
(* The section of imu_lock holds one access and is one step; that of       *)
(* switch_lock holds two, which are a step each, the first of which takes  *)
(* the lock and the second of which gives it back.                         *)
(***************************************************************************)
EXTENDS Integers

CONSTANTS
    THRESHOLD,      \* 70
    Tilts,          \* what the sensor may measure: pairs of 16-bit numbers
    MaxAge          \* bound: a sample older than this many counts as this old

Int16 == {v \in Int : -32768 <= v /\ v <= 32767}

ASSUME TiltAssumption ==
    /\ THRESHOLD \in Nat
    /\ Tilts \subseteq Int16 \X Int16
    /\ MaxAge \in Nat

VARIABLES
    sampler,        \* where the sampling thread is
    tilt,           \* history: what the sensor measured for this sample
    dir,            \* its local dir
    value1, value2, \* its locals: the line reads 0, the button is pressed
    imu_direction,  \* [dir, fire, bomb]
    switch_lock,    \* "free", or the thread that holds it
    frame,          \* where the game thread is in a frame
    ch, ch2, ch3,   \* its locals: what it has read of imu_direction
    pressed,        \* the buttons themselves
    age,            \* history: how many samples ago each part of imu_direction ...
    read_age        \* ... and what the frame has read of it was sampled

sampling == <<sampler, tilt, dir, value1, value2>>
reading  == <<frame, ch, ch2, ch3, read_age>>
vars == <<sampling, reading, imu_direction, switch_lock, pressed, age>>

Part == {"dir", "fire", "bomb"}
Age  == 0 .. MaxAge

Rest == <<0, 0>>

KTypeOK ==
    /\ sampler \in {"start", "absent", "select", "read", "publish", "lines", "fire",
                    "bomb", "sleep"}
    /\ tilt \in Tilts \cup {Rest}
    /\ dir \in 1 .. 9
    /\ value1 \in BOOLEAN /\ value2 \in BOOLEAN
    /\ imu_direction \in [dir : 1 .. 9, fire : BOOLEAN, bomb : BOOLEAN]
    /\ frame \in {"dir", "fire", "bomb", "act", "ended"}
    /\ ch \in 1 .. 9 /\ ch2 \in BOOLEAN /\ ch3 \in BOOLEAN
    /\ pressed \in [{"fire", "bomb"} -> BOOLEAN]
    /\ age \in [Part -> Age] /\ read_age \in [Part -> Age]
    /\ switch_lock = IF sampler = "bomb" THEN "sampler"
                     ELSE IF frame = "bomb" THEN "frame" ELSE "free"

\* game.c:16
Init ==
    /\ sampler = "start"
    /\ tilt = Rest
    /\ dir = 5
    /\ value1 = FALSE
    /\ value2 = FALSE
    /\ imu_direction = [dir |-> 5, fire |-> FALSE, bomb |-> FALSE]
    /\ switch_lock = "free"
    /\ frame = "dir"
    /\ ch = 5
    /\ ch2 = FALSE
    /\ ch3 = FALSE
    /\ pressed = [b \in {"fire", "bomb"} |-> FALSE]
    /\ age = [p \in Part |-> 0]
    /\ read_age = [p \in Part |-> 0]

-----------------------------------------------------------------------------
(***************************************************************************)
(* From two bytes of the sensor to a number, and from two numbers to a key *)
(* of a number pad.                                                        *)
(***************************************************************************)
LowByte(v)  == v % 256
HighByte(v) == (v % 65536) \div 256

\* mutant: plain char is signed, as it is on a PC
Char_Signed(b) == IF b > 127 THEN b - 256 ELSE b
\* Plain char is unsigned on the Raspberry Pi.
Char(b) == b

ToInt16(n) == ((n + 32768) % 65536) - 32768

\* (hi << 8) | lo: the bits of a lo that is not negative fill those of hi << 8
\* that are 0; a negative lo brings ones for all the others.
Word(hi, lo) == IF lo < 0 THEN lo ELSE ToInt16(hi * 256 + lo)
Decoded(v) == Word(Char(HighByte(v)), Char(LowByte(v)))

Abs(n) == IF n < 0 THEN -n ELSE n

DirectionOf(x, y) ==
    IF Abs(x) < THRESHOLD /\ Abs(y) < THRESHOLD THEN 5
    ELSE IF y > THRESHOLD
         THEN IF x < -THRESHOLD THEN 9 ELSE IF x > THRESHOLD THEN 7 ELSE 8
    ELSE IF y < -THRESHOLD
         THEN IF x < -THRESHOLD THEN 3 ELSE IF x > THRESHOLD THEN 1 ELSE 2
    ELSE IF x < -THRESHOLD THEN 6 ELSE IF x > THRESHOLD THEN 4 ELSE 5

-----------------------------------------------------------------------------
(***************************************************************************)
(* The sampling thread.                                                    *)
(***************************************************************************)
\* init_controller, and the GPIO chip at the head of imu_thread_func.
Open ==
    /\ sampler = "start"
    /\ sampler' \in {"select", "absent"}
    /\ UNCHANGED <<tilt, dir, value1, value2, reading, imu_direction, switch_lock,
                   pressed, age>>

\* A write that fails starts the loop again and changes nothing.
SelectRegister ==
    /\ sampler = "select"
    /\ sampler' = "read"
    /\ UNCHANGED <<tilt, dir, value1, value2, reading, imu_direction, switch_lock,
                   pressed, age>>

\* The sensor does not answer: from the top, without the buttons and a pause.
ReadFails ==
    /\ sampler = "read"
    /\ sampler' = "select"
    /\ UNCHANGED <<tilt, dir, value1, value2, reading, imu_direction, switch_lock,
                   pressed, age>>

Older(n) == IF n < MaxAge THEN n + 1 ELSE n

ReadSensor ==
    /\ sampler = "read"
    /\ sampler' = "publish"
    /\ \E t \in Tilts : tilt' = t /\ dir' = DirectionOf(Decoded(t[1]), Decoded(t[2]))
    /\ age' = [p \in Part |-> Older(age[p])]
    /\ read_age' = [p \in Part |-> Older(read_age[p])]
    /\ UNCHANGED <<value1, value2, frame, ch, ch2, ch3, imu_direction, switch_lock,
                   pressed>>

StoreDirection ==
    /\ sampler = "publish"
    /\ sampler' = "lines"
    /\ imu_direction' = [imu_direction EXCEPT !.dir = dir]
    /\ age' = [age EXCEPT !["dir"] = 0]
    /\ tilt' = Rest /\ dir' = 5
    /\ UNCHANGED <<value1, value2, reading, switch_lock, pressed>>

\* mutant: a line that cannot be read starts the loop again
ReadLines_Continue ==
    /\ sampler = "lines"
    /\ \/ /\ value1' = pressed["fire"] /\ value2' = pressed["bomb"]
          /\ sampler' = "fire"
       \/ sampler' = "sleep" /\ UNCHANGED <<value1, value2>>
    /\ UNCHANGED <<tilt, dir, reading, imu_direction, switch_lock, pressed, age>>

\* A line that cannot be read gives -1, which counts as not pressed.
ReadLines ==
    /\ sampler = "lines"
    /\ value1' \in {pressed["fire"], FALSE}
    /\ value2' \in {pressed["bomb"], FALSE}
    /\ sampler' = "fire"
    /\ UNCHANGED <<tilt, dir, reading, imu_direction, switch_lock, pressed, age>>

\* mutant: no lock
LockFree_Always == TRUE
LockFree == switch_lock = "free"

\* mutant: the state is set and never reset
StoreFire_NoReset ==
    /\ sampler = "fire" /\ LockFree
    /\ switch_lock' = "sampler"
    /\ sampler' = "bomb"
    /\ imu_direction' = [imu_direction EXCEPT !.fire = @ \/ value1]
    /\ age' = [age EXCEPT !["fire"] = 0]
    /\ UNCHANGED <<tilt, dir, value1, value2, reading, pressed>>

StoreFire ==
    /\ sampler = "fire" /\ LockFree
    /\ switch_lock' = "sampler"
    /\ sampler' = "bomb"
    /\ imu_direction' = [imu_direction EXCEPT !.fire = value1]
    /\ age' = [age EXCEPT !["fire"] = 0]
    /\ UNCHANGED <<tilt, dir, value1, value2, reading, pressed>>

\* mutant: the lock is kept
StoreBomb_KeepsLock ==
    /\ sampler = "bomb"
    /\ sampler' = "sleep"
    /\ imu_direction' = [imu_direction EXCEPT !.bomb = value2]
    /\ age' = [age EXCEPT !["bomb"] = 0]
    /\ value1' = FALSE /\ value2' = FALSE
    /\ UNCHANGED <<tilt, dir, switch_lock, reading, pressed>>

StoreBomb ==
    /\ sampler = "bomb"
    /\ switch_lock' = "free"
    /\ sampler' = "sleep"
    /\ imu_direction' = [imu_direction EXCEPT !.bomb = value2]
    /\ age' = [age EXCEPT !["bomb"] = 0]
    /\ value1' = FALSE /\ value2' = FALSE
    /\ UNCHANGED <<tilt, dir, reading, pressed>>

Sleep ==
    /\ sampler = "sleep"
    /\ sampler' = "select"
    /\ UNCHANGED <<tilt, dir, value1, value2, reading, imu_direction, switch_lock,
                   pressed, age>>

-----------------------------------------------------------------------------
(***************************************************************************)
(* The game thread.                                                        *)
(***************************************************************************)
ReadDirection ==
    /\ frame = "dir"
    /\ frame' = "fire"
    /\ ch' = imu_direction.dir
    /\ read_age' = [read_age EXCEPT !["dir"] = age["dir"]]
    /\ UNCHANGED <<sampling, ch2, ch3, imu_direction, switch_lock, pressed, age>>

ReadFire ==
    /\ frame = "fire" /\ LockFree
    /\ switch_lock' = "frame"
    /\ frame' = "bomb"
    /\ ch2' = imu_direction.fire
    /\ read_age' = [read_age EXCEPT !["fire"] = age["fire"]]
    /\ UNCHANGED <<sampling, ch, ch3, imu_direction, pressed, age>>

ReadBomb ==
    /\ frame = "bomb"
    /\ switch_lock' = "free"
    /\ frame' = "act"
    /\ ch3' = imu_direction.bomb
    /\ read_age' = [read_age EXCEPT !["bomb"] = age["bomb"]]
    /\ UNCHANGED <<sampling, ch, ch2, imu_direction, pressed, age>>

\* The rest of the frame; handle_input returns, its locals are gone.
Act ==
    /\ frame = "act"
    /\ frame' = "dir"
    /\ ch' = 5 /\ ch2' = FALSE /\ ch3' = FALSE
    /\ read_age' = [p \in Part |-> 0]
    /\ UNCHANGED <<sampling, imu_direction, switch_lock, pressed, age>>

\* The loop of run_game is left.
LastFrame ==
    /\ frame = "dir"
    /\ frame' = "ended"
    /\ UNCHANGED <<sampling, ch, ch2, ch3, read_age, imu_direction, switch_lock, pressed,
                   age>>

\* The player.
Press(b) ==
    /\ pressed' = [pressed EXCEPT ![b] = ~@]
    /\ UNCHANGED <<sampling, reading, imu_direction, switch_lock, age>>

SamplerStep ==
    \/ Open \/ SelectRegister \/ ReadFails \/ ReadSensor \/ StoreDirection
    \/ ReadLines \/ StoreFire \/ StoreBomb \/ Sleep

FrameStep == ReadDirection \/ ReadFire \/ ReadBomb \/ Act

Next == SamplerStep \/ FrameStep \/ LastFrame \/ \E b \in {"fire", "bomb"} : Press(b)

Spec == Init /\ [][Next]_vars

\* Both threads run, a sensor that is asked again and again answers again and
\* again, and the sampling thread gets the lock some time: a frame holds it for
\* one step and then sleeps for 30 ms.
FairSpec ==
    /\ Spec
    /\ WF_vars(SamplerStep) /\ SF_vars(ReadSensor) /\ SF_vars(StoreFire)
    /\ WF_vars(FrameStep)

-----------------------------------------------------------------------------
(***************************************************************************)
(* Properties.                                                             *)
(***************************************************************************)
\* The key that x and y ask for, each for itself: its column and its row.
Third(v) == IF v > THRESHOLD THEN 0 ELSE IF v < -THRESHOLD THEN 2 ELSE 1
KeyFor(x, y) == 3 * (2 - Third(y)) + Third(x) + 1

\* The direction about to be published is the one of the tilt that was
\* measured, after two bytes have been put together and nine cases told apart
\* (controller.c:90-110): neither axis disturbs the other.
TiltFollowed == sampler = "publish" => dir = KeyFor(tilt[1], tilt[2])

\* The two buttons a frame acts on are of one sample: switch_lock holds from
\* the first to the second on both sides (controller.c:121-130, game.c:737-740).
ButtonsTogether == frame = "act" => read_age["fire"] = read_age["bomb"]

\* The buttons a frame acts on are at most one sample older than its
\* direction, however the two locks interleave (controller.c:113-130,
\* game.c:733-740); they may be newer.
ButtonsNotBehind ==
    frame = "act" => read_age["fire"] <= read_age["dir"] + 1

\* A button that has been released for good is not acted on for ever: the
\* sampling thread comes round to it and clears what it has published
\* (controller.c:118-129).
ReleaseSeen ==
    <>[](~pressed["fire"]) => <>[](frame = "act" => ~ch2)
=============================================================================
