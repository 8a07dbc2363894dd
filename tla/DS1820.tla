------------------------------- MODULE DS1820 -------------------------------
(***************************************************************************)
(* The temperature conversion of DS1820/DS1820.cpp.  An object keeps a     *)
(* copy of its device's scratchpad, RAM; what matters of it here is the    *)
(* resolution in RAM[4], which tells convertTemperature() how long to      *)
(* wait.  The device has a resolution of its own, and forgets what it was  *)
(* told when it loses its power.  Resolutions are the sets of the bits     *)
(* 0x20 and 0x40; families other than the DS18B20 have the highest.        *)
(***************************************************************************)
EXTENDS Integers, FiniteSets

CONSTANTS
    Probes,       \* the probe objects, one device each
    B20,          \* those whose FAMILY_CODE is DS18B20 or DS1822
    ResolutionTime,   \* 94, 188, 375 and 750 ms
    AllDevices    \* the argument all_devices

ASSUME ProbeAssumption ==
    /\ B20 \subseteq Probes
    /\ AllDevices \notin Probes
    /\ ResolutionTime \in [SUBSET {32, 64} -> Nat]
    /\ \A c \in SUBSET {32, 64} : ResolutionTime[c] <= ResolutionTime[{32, 64}]

VARIABLES
    powered,      \* the devices that are on the bus
    config,       \* the device's resolution bits
    RAM,          \* the object's copy of them
    inStep,       \* objects that have exchanged the scratchpad with their
                  \* device since it was powered
    converted,    \* devices whose last conversion is over when the time that
                  \* convertTemperature() waits, or returns, has passed
    trusted,      \* devices whose last conversion was for all devices or was
                  \* asked of an object in step, and that kept their power since
    reading       \* what temperature() returned last, and for which probe
probeVars == <<powered, config, RAM, inStep, converted, trusted, reading>>

Resolutions == SUBSET {32, 64}
Full        == {32, 64}
TimeFor(c)  == ResolutionTime[c]
NoReading   == [probe |-> AllDevices, value |-> "none"]

ProbeTypeOK ==
    /\ powered \subseteq Probes
    /\ config \in [Probes -> Resolutions]
    /\ \A p \in Probes \ B20 : config[p] = Full
    /\ RAM \in [Probes -> Resolutions]
    /\ inStep \subseteq powered
    /\ converted \subseteq powered
    /\ trusted \subseteq powered
    /\ reading \in [probe : Probes, value : {"invalid", "fresh", "stale"}]
                   \union {NoReading}

\* The constructor clears RAM; a device starts with the highest resolution
ProbeInit ==
    /\ powered = Probes
    /\ config = [p \in Probes |-> Full]
    /\ RAM = [p \in Probes |-> {}]
    /\ inStep = {}
    /\ converted = {}
    /\ trusted = {}
    /\ reading = NoReading

\* Mutant: a conversion of all devices is taken to be a short one.
DelayTime_AllShort(device) ==
    IF device \in B20 THEN TimeFor(RAM[device]) ELSE TimeFor({})

\* The time that convertTemperature() sleeps or returns for the caller to wait
DelayTime(device) ==
    IF device \in B20 THEN TimeFor(RAM[device]) ELSE TimeFor(Full)

ConvertTemperature(device) ==
    LET addressed == IF device = AllDevices THEN powered ELSE powered \intersect {device}
    IN  /\ converted' = (converted \ addressed) \union
                        {p \in addressed : TimeFor(config[p]) <= DelayTime(device)}
        /\ trusted' = (trusted \ addressed) \union
                      {p \in addressed : device = AllDevices \/ p \in inStep}
        /\ reading' = NoReading
        /\ UNCHANGED <<powered, config, RAM, inStep>>

\* temperature() with read_RAM(): a device that does not answer leaves ones,
\* whose checksum is wrong
Temperature(p) ==
    /\ reading' = [probe |-> p, value |-> CASE p \notin powered  -> "invalid"
                                            [] p \in converted   -> "fresh"
                                            [] OTHER             -> "stale"]
    /\ RAM' = [RAM EXCEPT ![p] = IF p \in powered THEN config[p] ELSE Full]
    /\ inStep' = inStep \union ({p} \intersect powered)
    /\ UNCHANGED <<powered, config, converted, trusted>>

\* setResolution() with write_scratchpad().  The mask keeps the old bits
Insert(old, c) == old \union c
SetResolution(p, c) ==
    /\ RAM' = [RAM EXCEPT ![p] = Insert(RAM[p], c)]
    /\ config' = IF p \in B20 /\ p \in powered
                 THEN [config EXCEPT ![p] = Insert(RAM[p], c)] ELSE config
    /\ inStep' = (inStep \ {p}) \union ({p} \intersect powered)
    /\ UNCHANGED <<powered, converted, trusted, reading>>

LosePower(p) ==
    /\ p \in powered
    /\ powered' = powered \ {p}
    /\ inStep' = inStep \ {p}
    /\ converted' = converted \ {p}
    /\ trusted' = trusted \ {p}
    /\ config' = [config EXCEPT ![p] = Full]
    /\ UNCHANGED <<RAM, reading>>

GetPower(p) ==
    /\ p \notin powered
    /\ powered' = powered \union {p}
    /\ UNCHANGED <<config, RAM, inStep, converted, trusted, reading>>

ProbeNext ==
    \/ \E device \in Probes \union {AllDevices} : ConvertTemperature(device)
    \/ \E p \in Probes : \/ Temperature(p)
                         \/ LosePower(p)
                         \/ GetPower(p)
                         \/ \E c \in Resolutions : SetResolution(p, c)

ProbeSpec == ProbeInit /\ [][ProbeNext]_probeVars

\* temperature() does not return the result of an older conversion after a
\* conversion of all devices, nor after one asked of an object that has
\* exchanged the scratchpad with its device since that was powered.
NoStaleReading ==
    reading.value = "stale" => reading.probe \notin trusted

\* Why: such an object knows its device's resolution.
InStep == \A p \in inStep \intersect B20 : RAM[p] = config[p]

\* Why: what such an object waits, and what it waits for all devices, is enough.
LongEnough == trusted \subseteq converted

\* A temperature is that of its own conversion, whatever was set and whoever lost
\* its power before the conversion, since the object knows the resolution of its
\* device.  A device that loses its power after it has no result to give, and what
\* temperature() then reads from it is not promised.
ReadingsHold == ProbeTypeOK /\ NoStaleReading /\ InStep /\ LongEnough

=============================================================================
