-------------------------- MODULE ControllerProofs --------------------------
(***************************************************************************)
(* The controller, for every threshold and every tilt that sixteen bits    *)
(* can say, and for both threads at any speed.                             *)
(***************************************************************************)
EXTENDS Controller, TLAPS

-----------------------------------------------------------------------------
(***************************************************************************)
(* From bytes to a key.                                                    *)
(***************************************************************************)
\* A 16-bit number and the unsigned number with the same bits.
LEMMA Unsigned ==
    ASSUME NEW v \in Int, v >= -32768, v <= 32767
    PROVE  \E w \in Int : /\ w >= 0 /\ w <= 65535
                          /\ v % 65536 = w /\ v % 256 = w % 256 /\ ToInt16(w) = v
<1>1. CASE v >= 0
    <2>1. v % 65536 = v
        BY <1>1
    <2>2. ((v + 32768) % 65536) - 32768 = v
        BY <1>1
    <2> QED
        BY <1>1, <2>1, <2>2 DEF ToInt16
<1>2. CASE v < 0
    <2>1. v % 65536 = v + 65536
        BY <1>2
    <2>2. v % 256 = (v + 65536) % 256
        OBVIOUS
    <2>3. ((v + 65536 + 32768) % 65536) - 32768 = v
        BY <1>2
    <2> QED
        BY <1>2, <2>1, <2>2, <2>3 DEF ToInt16
<1> QED
    BY <1>1, <1>2

\* Two bytes put together are the number the sensor sent.
LEMMA DecodedExact ==
    ASSUME NEW v \in Int16
    PROVE  Decoded(v) = v
<1>1. v \in Int /\ v >= -32768 /\ v <= 32767
    BY DEF Int16
<1>2. PICK w \in Int : /\ w >= 0 /\ w <= 65535
                       /\ v % 65536 = w /\ v % 256 = w % 256 /\ ToInt16(w) = v
    BY <1>1, Unsigned
<1>3. (w \div 256) * 256 + (w % 256) = w /\ ~(w % 256 < 0)
    BY <1>2
<1>4. Decoded(v) = ToInt16((w \div 256) * 256 + (w % 256))
    BY <1>2, <1>3 DEF Decoded, Word, Char, HighByte, LowByte
<1> QED
    BY <1>2, <1>3, <1>4

\* Beyond the threshold to one side, to the other, or neither.
LEMMA ThirdCases ==
    ASSUME NEW v \in Int
    PROVE  /\ v > THRESHOLD => Third(v) = 0 /\ ~(v < -THRESHOLD)
           /\ v < -THRESHOLD => Third(v) = 2 /\ ~(v > THRESHOLD)
           /\ ~(v > THRESHOLD) /\ ~(v < -THRESHOLD) => Third(v) = 1
           /\ Abs(v) < THRESHOLD => ~(v > THRESHOLD) /\ ~(v < -THRESHOLD)
BY TiltAssumption DEF Third, Abs

\* The nine cases choose the column by x and the row by y.
LEMMA DirectionIsKey ==
    ASSUME NEW x \in Int, NEW y \in Int
    PROVE  DirectionOf(x, y) = KeyFor(x, y) /\ KeyFor(x, y) \in 1 .. 9
<1>1. CASE y > THRESHOLD
    <2>1. DirectionOf(x, y) = IF x < -THRESHOLD THEN 9 ELSE IF x > THRESHOLD THEN 7 ELSE 8
        BY <1>1, ThirdCases DEF DirectionOf
    <2> QED
        BY <1>1, <2>1, ThirdCases DEF KeyFor
<1>2. CASE y < -THRESHOLD
    <2>1. DirectionOf(x, y) = IF x < -THRESHOLD THEN 3 ELSE IF x > THRESHOLD THEN 1 ELSE 2
        BY <1>2, ThirdCases DEF DirectionOf
    <2> QED
        BY <1>2, <2>1, ThirdCases DEF KeyFor
<1>3. CASE ~(y > THRESHOLD) /\ ~(y < -THRESHOLD)
    <2>1. DirectionOf(x, y) = IF x < -THRESHOLD THEN 6 ELSE IF x > THRESHOLD THEN 4 ELSE 5
        BY <1>3, ThirdCases DEF DirectionOf
    <2> QED
        BY <1>3, <2>1, ThirdCases DEF KeyFor
<1> QED
    BY <1>1, <1>2, <1>3

LEMMA TiltKey ==
    ASSUME NEW t \in Tilts
    PROVE  /\ DirectionOf(Decoded(t[1]), Decoded(t[2])) = KeyFor(t[1], t[2])
           /\ KeyFor(t[1], t[2]) \in 1 .. 9
<1>1. t[1] \in Int16 /\ t[2] \in Int16
    BY TiltAssumption
<1>2. Decoded(t[1]) = t[1] /\ Decoded(t[2]) = t[2]
    BY <1>1, DecodedExact
<1>3. \A v \in Int16 : v \in Int
    BY DEF Int16
<1> QED
    BY <1>1, <1>2, <1>3, DirectionIsKey

-----------------------------------------------------------------------------
(***************************************************************************)
(* The inductive invariant: how old what is published may be at each place *)
(* of the sampling thread, and how old what a frame has read of it.        *)
(***************************************************************************)
\* Between two samples everything published is of the last one, and at no
\* time is anything of a sample before the last.
Published ==
    /\ \A p \in Part : age[p] <= 1
    /\ sampler \in {"start", "absent", "select", "read", "sleep"} =>
            \A p \in Part : age[p] = 0
    /\ sampler \in {"lines", "fire", "bomb"} => age["dir"] = 0
    /\ sampler = "bomb" => age["fire"] = 0
    /\ sampler # "bomb" => age["fire"] = age["bomb"]

\* Only one thread is between the two buttons.
Exclusion == ~(sampler = "bomb" /\ frame = "bomb")

\* While a frame is between the two buttons both are what it has read of one.
Read ==
    /\ frame \in {"bomb", "act"} => read_age["fire"] <= read_age["dir"] + 1
    /\ frame = "bomb" => read_age["fire"] = age["bomb"]
    /\ ButtonsTogether

KInv == KTypeOK /\ TiltFollowed /\ Published /\ Exclusion /\ Read

LEMMA OlderType ==
    ASSUME NEW n \in Age
    PROVE  /\ Older(n) \in Age
           /\ Older(n) <= n + 1
           /\ \A m \in Age : n <= m + 1 => Older(n) <= Older(m) + 1
BY TiltAssumption DEF Age, Older

LEMMA KInitOK == Init => KInv
<1> SUFFICES ASSUME Init PROVE KInv
    OBVIOUS
<1>1. 0 \in Age
    BY TiltAssumption DEF Age
<1>2. KTypeOK
    <2>1. age \in [Part -> Age] /\ read_age \in [Part -> Age]
        BY <1>1 DEF Init
    <2>2. pressed \in [{"fire", "bomb"} -> BOOLEAN]
        BY DEF Init
    <2>3. imu_direction \in [dir : 1 .. 9, fire : BOOLEAN, bomb : BOOLEAN]
        BY DEF Init
    <2> QED
        BY <2>1, <2>2, <2>3 DEF Init, KTypeOK
<1>3. TiltFollowed /\ Published /\ Exclusion /\ Read
    BY DEF Init, TiltFollowed, Published, Exclusion, Read, ButtonsTogether, Part
<1> QED
    BY <1>2, <1>3 DEF KInv

\* A step of one thread leaves the other's part of the invariant alone; the
\* ages of both go up together when a sample begins.
LEMMA SampleStep ==
    ASSUME KInv, ReadSensor
    PROVE  KInv'
<1>1. PICK t \in Tilts : tilt' = t /\ dir' = DirectionOf(Decoded(t[1]), Decoded(t[2]))
    BY DEF ReadSensor
<1>2. dir' \in 1 .. 9 /\ dir' = KeyFor(tilt'[1], tilt'[2])
    BY <1>1, TiltKey
<1>3. \A p \in Part : /\ age[p] \in Age /\ age'[p] = Older(age[p])
                      /\ read_age[p] \in Age /\ read_age'[p] = Older(read_age[p])
    BY DEF KInv, KTypeOK, ReadSensor
<1>4. age' \in [Part -> Age] /\ read_age' \in [Part -> Age]
    BY <1>3, OlderType DEF ReadSensor
<1>5. KTypeOK'
    BY <1>1, <1>2, <1>4 DEF KInv, KTypeOK, ReadSensor
<1>6. TiltFollowed'
    BY <1>2 DEF TiltFollowed
<1>7. Published'
    <2>1. \A p \in Part : age[p] = 0
        BY DEF KInv, Published, ReadSensor
    <2>2. \A p \in Part : age'[p] <= 1 /\ age'[p] = Older(0)
        BY <1>3, <2>1, OlderType
    <2> QED
        BY <2>2 DEF Published, ReadSensor, Part
<1>8. Read'
    <2>1. {"dir", "fire", "bomb"} \subseteq Part
        BY DEF Part
    <2>2. frame \in {"bomb", "act"} => read_age'["fire"] <= read_age'["dir"] + 1
        BY <1>3, <2>1, OlderType DEF KInv, Read
    <2> QED
        BY <1>3, <2>1, <2>2 DEF KInv, Read, ButtonsTogether, ReadSensor
<1> QED
    BY <1>5, <1>6, <1>7, <1>8 DEF KInv, Exclusion, ReadSensor

LEMMA StoreStep ==
    ASSUME KInv, StoreDirection \/ StoreFire \/ StoreBomb
    PROVE  KInv'
<1> USE DEF KInv
<1>1. 0 \in Age /\ \A p \in Part : age[p] \in Age
    BY TiltAssumption DEF Age, KTypeOK
<1>2. CASE StoreDirection
    <2>1. KTypeOK'
        <3>1. imu_direction' \in [dir : 1 .. 9, fire : BOOLEAN, bomb : BOOLEAN]
            BY <1>2 DEF KTypeOK, StoreDirection
        <3>2. age' \in [Part -> Age]
            BY <1>1, <1>2 DEF KTypeOK, StoreDirection
        <3> QED
            BY <1>2, <3>1, <3>2 DEF KTypeOK, StoreDirection, reading
    <2>2. TiltFollowed'
        BY <1>2 DEF TiltFollowed, StoreDirection
    <2>3. \A p \in Part : age'[p] = IF p = "dir" THEN 0 ELSE age[p]
        BY <1>2 DEF KTypeOK, StoreDirection
    <2>4. Published'
        BY <1>2, <2>3 DEF Published, StoreDirection, Part
    <2>5. Read'
        BY <1>2, <2>3 DEF Read, ButtonsTogether, StoreDirection, reading, Part
    <2> QED
        BY <1>2, <2>1, <2>2, <2>4, <2>5 DEF Exclusion, StoreDirection
<1>3. CASE StoreFire
    <2>1. KTypeOK'
        <3>1. imu_direction' \in [dir : 1 .. 9, fire : BOOLEAN, bomb : BOOLEAN]
            BY <1>3 DEF KTypeOK, StoreFire
        <3>2. age' \in [Part -> Age]
            BY <1>1, <1>3 DEF KTypeOK, StoreFire
        <3> QED
            BY <1>3, <3>1, <3>2 DEF KTypeOK, StoreFire, reading
    <2>2. TiltFollowed'
        BY <1>3 DEF TiltFollowed, StoreFire
    <2>3. \A p \in Part : age'[p] = IF p = "fire" THEN 0 ELSE age[p]
        BY <1>3 DEF KTypeOK, StoreFire
    <2>4. Published'
        BY <1>3, <2>3 DEF Published, StoreFire, Part
    <2>5. frame # "bomb"
        BY <1>3 DEF KTypeOK, StoreFire, LockFree
    <2>6. Read'
        BY <1>3, <2>5 DEF Read, ButtonsTogether, StoreFire, reading
    <2> QED
        BY <1>3, <2>1, <2>2, <2>4, <2>5, <2>6 DEF Exclusion, StoreFire, reading
<1>4. CASE StoreBomb
    <2>1. frame # "bomb"
        BY <1>4 DEF Exclusion, StoreBomb
    <2>2. KTypeOK'
        <3>1. imu_direction' \in [dir : 1 .. 9, fire : BOOLEAN, bomb : BOOLEAN]
            BY <1>4 DEF KTypeOK, StoreBomb
        <3>2. age' \in [Part -> Age]
            BY <1>1, <1>4 DEF KTypeOK, StoreBomb
        <3> QED
            BY <1>4, <2>1, <3>1, <3>2 DEF KTypeOK, StoreBomb, reading
    <2>3. TiltFollowed'
        BY <1>4 DEF TiltFollowed, StoreBomb
    <2>4. \A p \in Part : age'[p] = IF p = "bomb" THEN 0 ELSE age[p]
        BY <1>4 DEF KTypeOK, StoreBomb
    <2>5. Published'
        BY <1>4, <2>4 DEF Published, StoreBomb, Part
    <2>6. Read'
        BY <1>4, <2>1 DEF Read, ButtonsTogether, StoreBomb, reading
    <2> QED
        BY <1>4, <2>1, <2>2, <2>3, <2>5, <2>6 DEF Exclusion, StoreBomb
<1> QED
    BY <1>2, <1>3, <1>4

LEMMA FrameStepOK ==
    ASSUME KInv, ReadDirection \/ ReadFire \/ ReadBomb \/ Act \/ LastFrame
    PROVE  KInv'
<1> USE DEF KInv
<1>1. 0 \in Age /\ \A p \in Part : age[p] \in Age /\ read_age[p] \in Age
    BY TiltAssumption DEF Age, KTypeOK
<1>2. TiltFollowed' /\ Published'
    BY DEF ReadDirection, ReadFire, ReadBomb, Act, LastFrame, TiltFollowed, Published,
           sampling
<1>3. read_age' \in [Part -> Age]
    BY <1>1 DEF ReadDirection, ReadFire, ReadBomb, Act, LastFrame, KTypeOK, Part
<1>4. CASE ReadDirection
    BY <1>2, <1>3, <1>4 DEF ReadDirection, KTypeOK, Exclusion, Read, ButtonsTogether,
                            sampling
<1>5. CASE ReadFire
    <2>1. sampler # "bomb"
        BY <1>5 DEF KTypeOK, ReadFire, LockFree
    <2>2. KTypeOK'
        BY <1>3, <1>5, <2>1 DEF ReadFire, KTypeOK, sampling
    <2>3. read_age'["fire"] = age["fire"] /\ read_age'["dir"] = read_age["dir"]
        BY <1>5 DEF ReadFire, KTypeOK, Part
    <2>4. read_age["dir"] >= 0 /\ age["fire"] <= 1 /\ age["fire"] = age["bomb"]
          /\ age["fire"] \in Int /\ read_age["dir"] \in Int
        BY <1>1, <2>1 DEF Published, Part, Age
    <2>5. Read'
        BY <1>5, <2>3, <2>4 DEF ReadFire, Read, ButtonsTogether
    <2> QED
        BY <1>2, <1>5, <2>1, <2>2, <2>5 DEF Exclusion, ReadFire, sampling
<1>6. CASE ReadBomb
    <2>1. sampler # "bomb"
        BY <1>6 DEF Exclusion, ReadBomb
    <2>2. KTypeOK'
        BY <1>3, <1>6, <2>1 DEF ReadBomb, KTypeOK, sampling
    <2>3. /\ read_age'["bomb"] = age["bomb"]
          /\ read_age'["fire"] = read_age["fire"] /\ read_age'["dir"] = read_age["dir"]
        BY <1>6 DEF ReadBomb, KTypeOK, Part
    <2>4. Read'
        BY <1>6, <2>3 DEF ReadBomb, Read, ButtonsTogether
    <2> QED
        BY <1>2, <1>6, <2>2, <2>4 DEF Exclusion, ReadBomb
<1>7. CASE Act
    <2>1. KTypeOK'
        <3>1. /\ UNCHANGED <<sampling, imu_direction, switch_lock, pressed, age>>
              /\ frame = "act" /\ frame' = "dir"
              /\ ch' = 5 /\ ch2' \in BOOLEAN /\ ch3' \in BOOLEAN
            BY <1>7 DEF Act
        <3> QED
            BY <1>3, <3>1 DEF KTypeOK, sampling
    <2>2. Exclusion' /\ Read'
        BY <1>7 DEF Act, Exclusion, Read, ButtonsTogether
    <2> QED
        BY <1>2, <2>1, <2>2
<1>8. CASE LastFrame
    <2>1. KTypeOK'
        BY <1>3, <1>8 DEF LastFrame, KTypeOK, sampling
    <2>2. Exclusion' /\ Read'
        BY <1>8 DEF LastFrame, Exclusion, Read, ButtonsTogether
    <2> QED
        BY <1>2, <2>1, <2>2
<1> QED
    BY <1>4, <1>5, <1>6, <1>7, <1>8

LEMMA KStep == KInv /\ [Next]_vars => KInv'
<1> SUFFICES ASSUME KInv, [Next]_vars PROVE KInv'
    OBVIOUS
<1>1. CASE Open \/ SelectRegister \/ ReadFails \/ Sleep
    <2>1. UNCHANGED <<tilt, dir, value1, value2, reading, imu_direction, switch_lock,
                      pressed, age>>
        BY <1>1 DEF Open, SelectRegister, ReadFails, Sleep
    <2>2. /\ sampler \in {"start", "select", "read", "sleep"}
          /\ sampler' \in {"absent", "select", "read"}
        BY <1>1 DEF Open, SelectRegister, ReadFails, Sleep
    <2> QED
        BY <2>1, <2>2 DEF KInv, KTypeOK, TiltFollowed, Published, Exclusion, Read,
                          ButtonsTogether, reading
<1>2. CASE ReadLines
    <2>1. value1' \in BOOLEAN /\ value2' \in BOOLEAN
        BY <1>2 DEF KInv, KTypeOK, ReadLines
    <2> QED
        BY <1>2, <2>1 DEF KInv, KTypeOK, TiltFollowed, Published, Exclusion, Read,
                          ButtonsTogether, ReadLines, reading
<1>3. ASSUME NEW b \in {"fire", "bomb"}, Press(b)
      PROVE  KInv'
    <2>1. pressed' \in [{"fire", "bomb"} -> BOOLEAN]
        BY <1>3 DEF KInv, KTypeOK, Press
    <2> QED
        BY <1>3, <2>1 DEF KInv, KTypeOK, TiltFollowed, Published, Exclusion, Read,
                          ButtonsTogether, Press, sampling, reading
<1>4. CASE UNCHANGED vars
    BY <1>4 DEF KInv, KTypeOK, TiltFollowed, Published, Exclusion, Read,
                ButtonsTogether, vars, sampling, reading
<1> QED
    BY <1>1, <1>2, <1>3, <1>4, SampleStep, StoreStep, FrameStepOK
       DEF Next, SamplerStep, FrameStep

LEMMA KInvariant == Spec => []KInv
BY KInitOK, KStep, PTL DEF Spec

-----------------------------------------------------------------------------
(***************************************************************************)
(* Theorems.                                                               *)
(***************************************************************************)
\* The types, and who holds switch_lock at each place of the two threads.
THEOREM ControllerTypes == Spec => []KTypeOK
BY KInvariant, PTL DEF KInv

\* Every tilt that sixteen bits can say is published as its key, for every
\* threshold: the bytes are put together right and the axes are independent.
THEOREM TiltsFollowed == Spec => []TiltFollowed
BY KInvariant, PTL DEF KInv

\* A frame acts on two buttons of one sample.
THEOREM ButtonsAreTogether == Spec => []ButtonsTogether
<1>1. KInv => ButtonsTogether
    BY DEF KInv, Read
<1> QED
    BY <1>1, KInvariant, PTL

\* The buttons a frame acts on are at most one sample behind its direction.
THEOREM ButtonsAreNotBehind == Spec => []ButtonsNotBehind
<1>1. KInv => ButtonsNotBehind
    BY DEF KInv, Read, ButtonsNotBehind
<1> QED
    BY <1>1, KInvariant, PTL
=============================================================================
