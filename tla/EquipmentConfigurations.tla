---------------------- MODULE EquipmentConfigurations ----------------------
(***************************************************************************)
(* What is known of the equipment in use, at all sites.                    *)
(*                                                                         *)
(* For each setup that an item of a site log is added to,                  *)
(* EquipmentFactory.create() finds the configuration of the item by its    *)
(* equipment and first date, or makes one, and writes the settings of the  *)
(* item (firmware, eccentricities, frequency) over those that are there.   *)
(* Equipment is found by type and serial number, a clock by its type       *)
(* alone: two sites, or two items of one site, may share a configuration.  *)
(* The handlers run one at a time, each in a transaction: "table" is the   *)
(* table as the transaction has it, "configurations" as it is committed.   *)
(* What a handler reads while uploads go on is the matter of SiteUpdates;  *)
(* here it reads the site log at once.                                     *)
(***************************************************************************)
EXTENDS SetupDerivation

CONSTANTS
    Sites,
    Settings,      \* what items say of their equipment
    Logs,          \* the site logs that may be uploaded: sets of items with a setting
    NoSite,
    MaxUploads,    \* bound on the uploads
    MaxFaults      \* bound on the handlers that are rolled back for no reason of the site log

ConfiguredItem ==
    [type : Types, equipment : Equipment, from : DateOrNull, to : DateOrNull,
     deleted : BOOLEAN, setting : Settings]

ASSUME ConfigurationsAssumption ==
    /\ Logs \subseteq SUBSET ConfiguredItem
    /\ NoSite \notin Sites
    /\ MaxUploads \in Nat
    /\ MaxFaults \in Nat

VARIABLES
    siteLog,         \* the site log of each site; {} before the first upload
    uploads,         \* how many site logs were uploaded
    pending,         \* how many SiteLogReceived events of each site the loop has not taken
    at,              \* the site whose handler is in its transaction, or NoSite
    placing,         \* the items, each with the start of a setup, it has yet to add
    table,           \* EQUIPMENT_CONFIGURATION as the transaction sees it
    using,           \* the equipment in use it has added so far
    configurations,  \* EQUIPMENT_CONFIGURATION
    nextId,          \* the sequence of ids
    inUse,           \* the equipment in use of the valid setups of each site
    everUsed,        \* history: the configurations the setups of each site ever referred to
    rolledBack,      \* the last handler of the site was rolled back
    faults           \* how many handlers were rolled back for no reason of the site log

transaction == <<at, placing, table, using>>
committed == <<configurations, inUse, everUsed>>
vars == <<siteLog, uploads, pending, transaction, committed, nextId, rolledBack, faults>>

EquipmentOf(i) == <<i.type, i.equipment>>

\* A row, and equipment in use: the setup by its start, the item, the row's id.
Configuration ==
    [id : Nat, equipment : Types \X Equipment, time : DateOrNull, setting : Settings]

Use == [setup : Dates, item : ConfiguredItem, configuration : Nat]

\* Which item is added to which setup
Placements(log) ==
    LET changes == DatesOfChange(log)
    IN  {p \in CurrentItems(log) \X changes : p[2] \in Spanned(p[1], changes)}

Init ==
    /\ siteLog = [s \in Sites |-> {}]
    /\ uploads = 0
    /\ pending = [s \in Sites |-> 0]
    /\ at = NoSite
    /\ placing = {}
    /\ table = {}
    /\ using = {}
    /\ configurations = {}
    /\ nextId = 0
    /\ inUse = [s \in Sites |-> {}]
    /\ everUsed = [s \in Sites |-> {}]
    /\ rolledBack = [s \in Sites |-> FALSE]
    /\ faults = 0

\* CorsSiteLogService.upload(), committed
Upload(s, log) ==
    /\ uploads < MaxUploads
    /\ uploads' = uploads + 1
    /\ siteLog' = [siteLog EXCEPT ![s] = log]
    /\ pending' = [pending EXCEPT ![s] = @ + 1]
    /\ UNCHANGED <<transaction, committed, nextId, rolledBack, faults>>

\* The loop takes an event and calls CorsSiteService.handle().
BeginHandle(s) ==
    /\ at = NoSite
    /\ pending[s] > 0
    /\ ~GetSetupsFails(siteLog[s])
    /\ pending' = [pending EXCEPT ![s] = @ - 1]
    /\ at' = s
    /\ placing' = Placements(siteLog[s])
    /\ table' = configurations
    /\ using' = {}
    /\ UNCHANGED <<siteLog, uploads, committed, nextId, rolledBack, faults>>

\* getSetups() throws.
HandleFail(s) ==
    /\ at = NoSite
    /\ pending[s] > 0
    /\ GetSetupsFails(siteLog[s])
    /\ pending' = [pending EXCEPT ![s] = @ - 1]
    /\ rolledBack' = [rolledBack EXCEPT ![s] = TRUE]
    /\ UNCHANGED <<siteLog, uploads, transaction, committed, nextId, faults>>

\* Deviation: the configuration is never looked up.
FindNone(i) == {}

\* getConfiguration(): an item without a first date finds none.
FindConfiguration(i) ==
    {c \in table : i.from # NoDate /\ c.equipment = EquipmentOf(i) /\ c.time = i.from}

\* Deviation: settings are set on new configurations only.
ConfiguredOnce(c, i) == c

\* The setters of EquipmentFactory.create()
Configured(c, i) == [c EXCEPT !.setting = i.setting]

Added(p, id) ==
    /\ placing' = placing \ {p}
    /\ using' = using \union {[setup |-> p[2], item |-> p[1], configuration |-> id]}
    /\ UNCHANGED <<siteLog, uploads, pending, at, committed, rolledBack, faults>>

\* addEquipment(): one item is added to one setup.
AddFound(p) ==
    \E c \in FindConfiguration(p[1]) :
        /\ table' = (table \ {c}) \union {Configured(c, p[1])}
        /\ Added(p, c.id)
        /\ UNCHANGED nextId

\* Deviation: a configuration is used before it has an id of its own.
AddNewBeforeFlush(p) ==
    /\ FindConfiguration(p[1]) = {}
    /\ table' = table \union
          {[id |-> nextId, equipment |-> EquipmentOf(p[1]), time |-> p[1].from,
            setting |-> p[1].setting]}
    /\ Added(p, nextId)
    /\ UNCHANGED nextId

AddNew(p) ==
    /\ FindConfiguration(p[1]) = {}
    /\ table' = table \union
          {[id |-> nextId, equipment |-> EquipmentOf(p[1]), time |-> p[1].from,
            setting |-> p[1].setting]}
    /\ Added(p, nextId)
    /\ nextId' = nextId + 1

TransactionEnds ==
    /\ at' = NoSite
    /\ placing' = {}
    /\ table' = {}
    /\ using' = {}

\* CorsSiteService.handle() commits: setups that did not change refer to the
\* configurations they referred to, which are the ones found again.
HandleCommit ==
    /\ at # NoSite
    /\ placing = {}
    /\ configurations' = table
    /\ inUse' = [inUse EXCEPT ![at] = using]
    /\ everUsed' = [everUsed EXCEPT ![at] = @ \union {u.configuration : u \in using}]
    /\ rolledBack' = [rolledBack EXCEPT ![at] = FALSE]
    /\ TransactionEnds
    /\ UNCHANGED <<siteLog, uploads, pending, nextId, faults>>

\* Deviation: the configurations are written outside the transaction.
HandlerFaultKeepingTable ==
    /\ at # NoSite
    /\ faults < MaxFaults
    /\ faults' = faults + 1
    /\ rolledBack' = [rolledBack EXCEPT ![at] = TRUE]
    /\ configurations' = table
    /\ TransactionEnds
    /\ UNCHANGED <<siteLog, uploads, pending, inUse, everUsed, nextId>>

\* The program is killed, or the database fails, while the handler is at work.
HandlerFault ==
    /\ at # NoSite
    /\ faults < MaxFaults
    /\ faults' = faults + 1
    /\ rolledBack' = [rolledBack EXCEPT ![at] = TRUE]
    /\ TransactionEnds
    /\ UNCHANGED <<siteLog, uploads, pending, committed, nextId>>

Next ==
    \/ \E s \in Sites :
          (\E log \in Logs : Upload(s, log)) \/ BeginHandle(s) \/ HandleFail(s)
    \/ \E p \in placing : AddFound(p) \/ AddNew(p)
    \/ HandleCommit
    \/ HandlerFault

Spec == Init /\ [][Next]_vars

------------------------------------------------------------------------------
\* Types of the variables; the rows and the references to them have ids of the
\* sequence.
TypeOK ==
    /\ siteLog \in [Sites -> SUBSET ConfiguredItem]
    /\ uploads \in 0 .. MaxUploads
    /\ pending \in [Sites -> Nat]
    /\ at \in Sites \union {NoSite}
    /\ placing \subseteq ConfiguredItem \X Dates
    /\ nextId \in Nat
    /\ \A c \in table \union configurations : c \in Configuration /\ c.id < nextId
    /\ using \subseteq Use
    /\ inUse \in [Sites -> SUBSET Use]
    /\ everUsed \in [Sites -> SUBSET Nat]
    /\ rolledBack \in [Sites -> BOOLEAN]
    /\ faults \in 0 .. MaxFaults

\* There is one configuration of a piece of equipment for a first date, whichever
\* sites name it and however often: findOne() takes the first row it gets, and with
\* two of them what a setup says would depend on the order of rows.
OneConfigurationPerDate ==
    \A c, d \in configurations :
        c.equipment = d.equipment /\ c.time = d.time /\ c.time # NoDate => c = d

Settled(s) == pending[s] = 0 /\ at # s /\ ~rolledBack[s]

\* The configuration in use says what the item says.
SaysItem(u) ==
    \E c \in configurations :
        /\ c.id = u.configuration
        /\ c.equipment = EquipmentOf(u.item) /\ c.time = u.item.from
        /\ c.setting = u.item.setting

\* Another item in use at the site has the same configuration, or the setups of
\* another site have or had it.
IsShared(s, u) ==
    \/ \E v \in inUse[s] : v.item # u.item /\ v.configuration = u.configuration
    \/ \E t \in Sites \ {s} : u.configuration \in everUsed[t]

\* When the events of a site are handled, its setups use what the site log puts there
\* and the configurations say what the log says, although earlier logs, rolled back
\* handlers and the handlers of other sites wrote to them: only a configuration that
\* is shared may say something else.
SettledConfigurationsSayLog ==
    \A s \in Sites : Settled(s) =>
        /\ {<<u.item, u.setup>> : u \in inUse[s]} = Placements(siteLog[s])
        /\ \A u \in inUse[s] : SaysItem(u) \/ IsShared(s, u)

\* No configuration goes away or becomes that of other equipment or another date, as
\* setups refer to it also after they were invalidated, and its settings change only
\* as setups are committed that use it: a handler that is rolled back leaves nothing.
ConfigurationsAreKept ==
    [][\A c \in configurations :
          \E d \in configurations' :
              /\ d.id = c.id /\ d.equipment = c.equipment /\ d.time = c.time
              /\ d.setting # c.setting =>
                    \E s \in Sites : \E u \in inUse'[s] :
                        u.configuration = c.id /\ u.item.setting = d.setting]_vars

==============================================================================
