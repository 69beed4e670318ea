---------------------------- MODULE MCSiteUpdates ----------------------------
(***************************************************************************)
(* Site logs for TLC.                                                      *)
(***************************************************************************)
EXTENDS SiteUpdates

CONSTANTS Null, Receiver, Antenna, Serial1, Serial2

MCDates == 1 .. 3

Item(type, equipment, from, to) ==
    [type |-> type, equipment |-> equipment, from |-> from, to |-> to, deleted |-> FALSE]

Deleted(i) == [i EXCEPT !.deleted = TRUE]

\* A receiver and an antenna; the receiver replaced; that undone, with the
\* replacement marked deleted; two receivers at once; a correction; an
\* antenna without dates; a log that getSetups() cannot place.
First == {Item(Receiver, Serial1, 1, Null), Item(Antenna, Serial1, 1, Null)}
NewReceiver ==
    {Item(Receiver, Serial1, 1, 2), Item(Receiver, Serial2, 2, Null),
     Item(Antenna, Serial1, 1, Null)}
Undone == First \union {Deleted(Item(Receiver, Serial2, 2, Null))}
TwoReceivers == First \union {Item(Receiver, Serial2, 2, 3)}
Corrected == First \union {Item(Receiver, Serial2, 2, 2)}
Undated == {Item(Receiver, Serial1, 1, Null), Item(Antenna, Serial1, Null, Null)}
NoStart == First \union {Item(Antenna, Serial2, Null, 2)}

MCLogs == {First, NewReceiver, Undone, TwoReceivers, Corrected, Undated, NoStart}

==============================================================================
