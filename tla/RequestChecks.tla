--------------------------- MODULE RequestChecks ---------------------------
(***************************************************************************)
(* What a request must pass before a swarm worker sees it: the request     *)
(* filter, the client ban list and identity checks, the trusted proxy list *)
(* and the access list (crates/common/src), as functions of a request, the *)
(* loaded lists and the configuration.                                     *)
(*                                                                         *)
(* A peer id is abstracted to what the checks read: the two letters after  *)
(* a leading dash (start), its style, the major version digit and the list *)
(* entries it starts with.  A request target or a User-Agent is the set of *)
(* the listed words it contains.                                           *)
(***************************************************************************)
EXTENDS Integers, SequencesExt

None == "none"                  \* Option::None
NoUserAgent == {None}           \* a request without User-Agent header

----------------------------------------------------------------------------
(***************************************************************************)
(* Client ban list and identity (client_ban.rs)                            *)
(***************************************************************************)
\* Styles an id is classified as; only the first two are standard.
PeerIdStyle == {"Azureus", "Mainline", "Other"}

VAMPIRE_PREFIXES == {"XL", "SD", "QD", "BN", "BC", "UW", "DT", "FG", "FW"}

is_vampire_client(id) == id.start \in VAMPIRE_PREFIXES

\* The list is a record of banned patterns, allowlisted prefixes and the
\* ban_vampire_clients flag.
is_banned(list, id) ==
    \/ list.ban_vampire_clients /\ is_vampire_client(id)
    \/ id.prefixes \cap list.banned_patterns # {}

is_peer_id_allowlisted(list, id) ==
    id.prefixes \cap list.allowed_peer_id_prefixes # {}

families ==
    [UTorrent |-> {"UT", "UE", "UM", "UW"}, Transmission |-> {"TR"},
     QBittorrent |-> {"QB"}, Deluge |-> {"DE"}, Vuze |-> {"AZ"},
     Libtorrent |-> {"LT"}, WebTorrent |-> {"WW", "WD"}, BitTorrent |-> {"BT"}]

\* Only an Azureus-style id has a client code.
peer_id_family(id) ==
    IF id.style = "Azureus" /\ \E f \in DOMAIN families : id.start \in families[f]
    THEN CHOOSE f \in DOMAIN families : id.start \in families[f]
    ELSE None

max_major_version ==
    [UTorrent |-> 3, Transmission |-> 4, QBittorrent |-> 5, Deluge |-> 2,
     Vuze |-> 5, Libtorrent |-> 2]

\* A version that is not a digit (-1 here) is never implausible.
implausible_version(id) ==
    LET f == peer_id_family(id) IN
    f \in DOMAIN max_major_version /\ id.version > max_major_version[f]

\* Names are looked for in this order, the more specific ones first: a
\* User-Agent with "qbittorrent" in it contains "bittorrent" too.
user_agent_names ==
    <<<<"qbittorrent", "QBittorrent">>, <<"utorrent", "UTorrent">>,
      <<"transmission", "Transmission">>, <<"deluge", "Deluge">>,
      <<"vuze", "Vuze">>, <<"azureus", "Vuze">>, <<"libtorrent", "Libtorrent">>,
      <<"webtorrent", "WebTorrent">>, <<"bittorrent", "BitTorrent">>>>

user_agent_family(ua) ==
    LET named == {i \in DOMAIN user_agent_names : user_agent_names[i][1] \in ua}
    IN  IF named = {} THEN None ELSE user_agent_names[Min(named)][2]

report_identity_issue(mode) == IF mode = "enforce" THEN "Rejected" ELSE "Warned"

check_peer_id_format(list, id, mode) ==
    IF \/ mode = "off" \/ is_peer_id_allowlisted(list, id)
       \/ id.style = "Mainline"
       \/ id.style = "Azureus" /\ ~implausible_version(id)
    THEN "Ok" ELSE report_identity_issue(mode)

check_peer_id_user_agent(list, id, ua, mode) ==
    LET claimed == peer_id_family(id)
        named == user_agent_family(ua)
    IN  IF \/ mode = "off" \/ is_peer_id_allowlisted(list, id)
           \/ claimed = None \/ named = None \/ claimed = named
        THEN "Ok" ELSE report_identity_issue(mode)

----------------------------------------------------------------------------
(***************************************************************************)
(* Request filter (request_filter.rs)                                      *)
(***************************************************************************)
filter_checks == <<"SqlInjection", "PathTraversal", "Crawler", "MissingUserAgent">>

\* What the filter named by an AutoBanReason looks for.
Suspicious(check, uri, ua) ==
    \/ check = "SqlInjection" /\ "sql" \in uri
    \/ check = "PathTraversal" /\ "traversal" \in uri
    \/ check = "Crawler" /\ "bot" \in ua
    \/ check = "MissingUserAgent" /\ ua = NoUserAgent

\* The first enabled filter that matches; the caller reports the same one to
\* the auto-ban tracker.
check_request_with_config(filters, uri, ua) ==
    LET hits == {i \in DOMAIN filter_checks :
                    filter_checks[i] \in filters /\ Suspicious(filter_checks[i], uri, ua)}
    IN  IF hits = {} THEN None ELSE filter_checks[Min(hits)]

----------------------------------------------------------------------------
(***************************************************************************)
(* Trusted proxies (trusted_proxies.rs)                                    *)
(***************************************************************************)
\* Mutant: the leftmost entry is the client.
first_forwarded_for_ip(header, trusted) == IF header = <<>> THEN None ELSE header[1]

\* The rightmost entry that is no trusted proxy, or the leftmost one if all
\* are.  Entries that are no address have been skipped.
last_forwarded_for_ip(header, trusted) ==
    LET untrusted == {i \in DOMAIN header : header[i] \notin trusted}
    IN  IF header = <<>> THEN None
        ELSE IF untrusted = {} THEN header[1] ELSE header[Max(untrusted)]

----------------------------------------------------------------------------
(***************************************************************************)
(* Access list (access_list.rs)                                            *)
(***************************************************************************)
allows(mode, list, info_hash) ==
    CASE mode = "allow" -> info_hash \in list
      [] mode = "deny" -> info_hash \notin list
      [] OTHER -> TRUE
============================================================================
