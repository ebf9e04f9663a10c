----------------------------- MODULE MCRetention -----------------------------
(* Instances of Retention for TLC. *)
EXTENDS Retention

EveryTable ==
    {"telemetry_latest_state", "asset_cm_state", "asset_element_telemetry",
     "asset_element_state", "inventory_items", "region_fleet_summary",
     "tactical_events"}
WithAssetId ==
    {"telemetry_latest_state", "asset_cm_state", "asset_element_telemetry",
     "asset_element_state"}

Map(table, mode, ttl) ==
    [table |-> table, mode |-> mode, retention |-> None, ttl |-> ttl]
Latest(ttl) == Map("telemetry_latest_state", "upsert", ttl)
CmState == Map("asset_cm_state", "upsert", 1)
Elements(ttl) == Map("asset_element_telemetry", "custom", ttl)
Inventory == Map("inventory_items", "upsert", 1)
Fleet == Map("region_fleet_summary", "upsert", None)
Events == [table |-> "tactical_events", mode |-> "append", retention |-> 1, ttl |-> None]

Deployed(file, env) == [file |-> file, env |-> env]

\* The lifecycle mapping before and between its dependents, with and without the
\* override, and a file that is refused.
Fleets ==
    {Deployed(<<Latest(1), CmState, Events>>, None),
     Deployed(<<Elements(1), Latest(1)>>, None),
     Deployed(<<Elements(2), Latest(2)>>, 1),
     Deployed(<<Elements(None), Latest(1)>>, 1),
     Deployed(<<Fleet, Latest(1), Inventory>>, 1),
     Deployed(<<Fleet, Latest(1), Inventory>>, 0)}

\* The override: 0 with element telemetry, and above 0 with a rollup.
Overridden ==
    {Deployed(<<Elements(1), Latest(1)>>, 0), Deployed(<<Fleet, Latest(1)>>, 1)}

\* A dependent is kept longer than the lifecycle row.
Uneven == {Deployed(<<Map("asset_cm_state", "upsert", 2), Latest(1)>>, None)}
=============================================================================
