--------------------------- MODULE MCHttpTracker ---------------------------
(* Values of the constants of HttpTracker for the model-checking runs. *)
EXTENDS HttpTracker

CONSTANTS c1, c2, h1, h2, h3, a, b, p, q

TwoWorkers == [h \in InfoHashes |-> IF h = h3 THEN 2 ELSE 1]

\* The first client comes through a proxy, the second one directly.
Origin == [c \in Connections |-> IF c = c1 THEN a ELSE b]
Remote == [c \in Connections |-> IF c = c1 THEN p ELSE b]

\* No header, another client's address, or that of a proxy after it.
ForgedHeaders == {<<>>, <<b>>, <<b, q>>}

Ask(kind, hashes, uri, ua, start, version) ==
    [kind |-> kind, info_hashes |-> hashes, uri |-> uri, user_agent |-> ua,
     peer_id |-> [start |-> start, style |-> "Azureus", version |-> version,
                  prefixes |-> {start}]]

\* A scrape of three torrents, or something that does not parse; an announce,
\* and one of another torrent whose peer id claims a version that does not
\* exist and disagrees with the User-Agent, and whose target looks like an
\* injection.
RequestsOf ==
    [c \in Connections |->
        IF c = c1
        THEN {Ask("scrape", {h1, h2, h3}, {}, {"transmission"}, "TR", 4),
              Ask("malformed", {}, {}, {}, None, 0)}
        ELSE {Ask("announce", {h1}, {}, {"qbittorrent", "bittorrent"}, "QB", 5),
              Ask("announce", {h2}, {"sql"}, {"transmission"}, "QB", 9)}]

Base == [runs_behind_reverse_proxy |-> TRUE, enable_tls |-> FALSE, keep_alive |-> TRUE,
         max_connections_per_worker |-> 0, request_filter |-> {"PrivateIp"},
         client_ban_mode |-> FALSE, peer_id_strictness |-> "off",
         peer_id_user_agent_mismatch |-> "warn", access_list_mode |-> "deny"]

\* A lenient and a strict tracker.
TwoConfigs ==
    {Base,
     [Base EXCEPT !.enable_tls = TRUE, !.keep_alive = FALSE,
                  !.max_connections_per_worker = 1, !.client_ban_mode = TRUE,
                  !.peer_id_strictness = "enforce",
                  !.request_filter = {"SqlInjection"}]}

ClientLists == {[banned_patterns |-> {}, allowed_peer_id_prefixes |-> {},
                 ban_vampire_clients |-> TRUE]}
ProxyListsMC == {{p}, {q}}
IpListsMC == {{}}
AccessListsMC == {{h2}}
============================================================================
