-------------------------------- MODULE Manager --------------------------------
(***************************************************************************)
(* What keeps the main store in step with the providers, and what a start  *)
(* does to it first, side by side: a behaviour is one of the repair        *)
(* service, one of the refresh or one of the migration.                    *)
(***************************************************************************)
EXTENDS RepairSweep, TorrentEntries, StoreMigration

VARIABLE part

managerVars == <<part, repairVars, torrentVars, migrationVars>>

ManagerInit ==
    /\ part \in {"repair", "torrents", "migration"}
    /\ RepairInit /\ TorrentInit /\ MigrationInit
    /\ part # "repair" => gone = {}

InRepair(A)   == part = "repair" /\ A /\ UNCHANGED <<part, torrentVars, migrationVars>>
InTorrents(A) == part = "torrents" /\ A /\ UNCHANGED <<part, repairVars, migrationVars>>
InMigration(A) == part = "migration" /\ A /\ UNCHANGED <<part, repairVars, torrentVars>>

ManagerNext == InRepair(RepairNext) \/ InTorrents(TorrentNext) \/ InMigration(MigrationNext)

\* RepairFairness and TorrentFairness.
ManagerFairness ==
    /\ \A r \in RunIds : WF_managerVars(InRepair(RunStep(r)))
    /\ \A x \in Jobs : WF_managerVars(InRepair(JobStep(x)))
    /\ WF_managerVars(InRepair(AdminStep))
    /\ \A d \in Debrids : WF_managerVars(InTorrents(RefreshStep(d)))
    /\ \A s \in Switches : WF_managerVars(InTorrents(SwitchStep(s)))
    /\ \A h \in Torrents : WF_managerVars(InTorrents(DeleteEntryDrops(h)))
    /\ WF_managerVars(InTorrents(\E p \in purge : RemovePlacement(p)))

ManagerSpec     == ManagerInit /\ [][ManagerNext]_managerVars
FairManagerSpec == ManagerSpec /\ ManagerFairness

\* Converges, in the behaviours of the refresh: once nothing changes any more
\* the store agrees with the list of every debrid that has any torrent.
StoreConverges == part = "torrents" => Converges

\* The type invariants of the three.
ManagerTypeOK == RepairTypeOK /\ TorrentTypeOK /\ MigrationTypeOK
===============================================================================
