----------------------------- MODULE MCSettings -----------------------------
(* Instances of Settings for TLC. *)
EXTENDS Settings, TLC

CONSTANTS url1, sink1, s1

\* Notifications are enabled in the file, with an entry that is not complete.
ConfigFile == [k \in NotifyKeys \cup CollectKeys |->
    CASE k \in {"notify_enabled", "collect_enable_metrics"} -> TRUE
      [] k \in ListKeys -> {sink1, Blank}
      [] k = "collect_prometheus_url" -> url1
      [] OTHER -> "10m"]

\* A new table; one that an earlier process has left.
NewTable == [k \in Keys |-> Absent]
OldTable == [k \in Keys |->
    CASE k \in {"notify_enabled", "collect_enable_metrics"} -> TRUE
      [] k = "notify_channel" -> "lark"
      [] k = ListOf["lark"] -> {sink1}
      [] k \in ListKeys -> {}
      [] k = "collect_prometheus_url" -> url1
      [] k = "collect_prom_query_range" -> "10m"
      [] k = "sso_client_secret" -> s1
      [] k = "sso_issuer_url" -> Empty
      [] OTHER -> Absent]
EarlierTables == {NewTable, OldTable}
=============================================================================
