------------------------------ MODULE MCEveryLog ------------------------------
(***************************************************************************)
(* Every small site log, for the derivation of setups.                     *)
(***************************************************************************)
EXTENDS SiteUpdates

CONSTANTS Null, Receiver, Antenna, Serial1

MCDates == 1 .. 3

Present == {i \in LogItem : ~i.deleted}

\* Every site log of at most two items, and every one of three that are not
\* deleted.
MCEveryLog ==
    {{}} \union {{i, j} : i, j \in LogItem} \union {{i, j, k} : i, j, k \in Present}

==============================================================================
