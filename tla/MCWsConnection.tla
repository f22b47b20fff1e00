--------------------------- MODULE MCWsConnection --------------------------
(* Values of the constants of WsConnection for the model-checking run. *)
EXTENDS WsConnection

CONSTANTS c1, h1, h2, h3, a, b, p

TwoWorkers == [h \in InfoHashes |-> IF h = h3 THEN 2 ELSE 1]

\* The connection comes through a proxy.
Remote == [c \in Connections |-> p]

Shakes == [c \in Connections |->
             {[user_agent |-> {"webtorrent"}, forwarded |-> <<b, a>>],
              [user_agent |-> NoUserAgent, forwarded |-> <<>>]}]

Id(start, version) ==
    [start |-> start, style |-> "Azureus", version |-> version, prefixes |-> {start}]

Say(kind, hashes, id, stopped) ==
    [kind |-> kind, info_hashes |-> hashes, peer_id |-> id, stopped |-> stopped]

MessagesOf == [c \in Connections |->
    {Say("scrape", {h1, h2, h3}, None, FALSE), Say("scrape", {}, None, FALSE),
     Say("full_scrape", {}, None, FALSE), Say("announce", {h1}, Id("WW", 0), FALSE),
     Say("announce", {h1}, Id("QB", 9), TRUE)}]

\* A lenient tracker, and a strict one with TLS and no limit on idleness.
Base == [max_connection_idle |-> 1, trusted_proxies_enabled |-> TRUE,
         enable_tls |-> FALSE,
         enable_http_health_checks |-> TRUE, max_connections_per_worker |-> 1,
         request_filter |-> {"PrivateIp"}, client_ban_mode |-> FALSE,
         peer_id_strictness |-> "off", peer_id_user_agent_mismatch |-> "warn",
         access_list_mode |-> "deny"]

TwoConfigs == {Base,
    [Base EXCEPT !.max_connection_idle = Absent, !.enable_tls = TRUE,
                 !.client_ban_mode = TRUE, !.access_list_mode = "allow",
                 !.peer_id_strictness = "enforce", !.request_filter = {"MissingUserAgent"}]}

ClientLists == {[banned_patterns |-> {}, allowed_peer_id_prefixes |-> {},
                 ban_vampire_clients |-> TRUE]}
ProxyListsMC == {{p}, {}}
IpListsMC == {{}}
AccessListsMC == {{h2}}
============================================================================
