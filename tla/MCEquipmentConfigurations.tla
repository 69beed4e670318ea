---------------------- MODULE MCEquipmentConfigurations ----------------------
(***************************************************************************)
(* Site logs for TLC.                                                      *)
(***************************************************************************)
EXTENDS EquipmentConfigurations

CONSTANTS Null, Receiver, Clock, Serial, Quartz, Old, New, Here, There

MCDates == 1 .. 2

Item(type, equipment, from, to, setting) ==
    [type |-> type, equipment |-> equipment, from |-> from, to |-> to, deleted |-> FALSE,
     setting |-> setting]

\* A receiver and a clock; the receiver with other settings; the receiver taken out
\* and put back; a clock of the same type replaced; two clocks of one type at once; a
\* clock without dates; a log that getSetups() cannot place.
First == {Item(Receiver, Serial, 1, Null, Old), Item(Clock, Quartz, 1, Null, Old)}
Updated == {Item(Receiver, Serial, 1, Null, New), Item(Clock, Quartz, 1, Null, Old)}
Reinstalled == {Item(Receiver, Serial, 1, 2, Old), Item(Receiver, Serial, 2, Null, New)}
TwoClocks == {Item(Clock, Quartz, 1, Null, Old), Item(Clock, Quartz, 1, 2, New)}
Undated == {Item(Receiver, Serial, 1, 2, New), Item(Clock, Quartz, Null, Null, New)}
NoStart == {Item(Receiver, Serial, Null, 2, Old)}

MCLogs == {First, Updated, Reinstalled, TwoClocks, Undated, NoStart}

==============================================================================
