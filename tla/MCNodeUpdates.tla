---------------------------- MODULE MCNodeUpdates ----------------------------
(***************************************************************************)
(* Site logs for TLC.                                                      *)
(***************************************************************************)
EXTENDS NodeUpdates

CONSTANTS Null, Sensor, Serial1, Serial2

\* With three dates to a second, 6, 7 and 8 are in the same one.
MCDates == {0, 3, 6, 7, 8, 9}

Item(type, equipment, from, to) ==
    [type |-> type, equipment |-> equipment, from |-> from, to |-> to, deleted |-> FALSE]

Mount == {Item(Receiver, Serial1, 0, Null), Item(Antenna, Serial1, 0, Null)}

\* A receiver and an antenna; the antenna replaced; the dates of the first antenna
\* corrected, with the second as it was; a clock added to that; a clock for some
\* of the time; one clock after the other, and a sensor; antennas that change within a
\* second; sensors that come within the second in which an antenna goes; two receivers at
\* once; a receiver, an antenna and a clock, of which the log once had two receivers;
\* equipment without a beginning, and a sensor that comes before another; a log that
\* getSetups() cannot place.
NewAntenna ==
    {Item(Receiver, Serial1, 0, Null), Item(Antenna, Serial1, 0, 9), Item(Antenna, Serial2, 9, Null)}
AntennaLate ==
    {Item(Receiver, Serial1, 0, Null), Item(Antenna, Serial1, 3, 6), Item(Antenna, Serial2, 9, Null)}
ClockLate == NewAntenna \union {Item(Clock, Serial1, 3, Null)}
ClockEnds == Mount \union {Item(Clock, Serial1, 3, 6)}
Clocks ==
    Mount \union {Item(Clock, Serial1, 0, 9), Item(Clock, Serial2, 9, Null), Item(Sensor, Serial1, 3, Null)}
OneSecond ==
    {Item(Receiver, Serial1, 3, Null), Item(Antenna, Serial1, 6, 8), Item(Antenna, Serial2, 8, Null),
     Item(Sensor, Serial1, 6, Null)}
EndsInSecond ==
    {Item(Receiver, Serial1, 3, Null), Item(Antenna, Serial1, 3, 8), Item(Clock, Serial1, 3, Null),
     Item(Sensor, Serial1, 6, 9), Item(Sensor, Serial2, 7, Null)}
TwoReceivers == Mount \union {Item(Receiver, Serial2, 3, 9)}
OneWithClock == Mount \union {Item(Clock, Serial1, 0, Null), Item(Sensor, Serial1, 3, Null)}
TwoWithClock == OneWithClock \union {Item(Receiver, Serial2, 0, 3)}
Undated ==
    {Item(type, Serial1, Null, Null) : type \in {Receiver, Antenna, Clock}}
        \union {Item(Sensor, Serial1, 3, Null)}
UndatedFromStart == Undated \union {Item(Sensor, Serial2, 0, 3)}

NoStart == Mount \union {Item(Antenna, Serial2, Null, 6)}

MCLogs ==
    {Mount, NewAntenna, AntennaLate, ClockLate, ClockEnds, Clocks, OneSecond, EndsInSecond,
     TwoReceivers, OneWithClock, TwoWithClock, Undated, UndatedFromStart, NoStart}

==============================================================================
