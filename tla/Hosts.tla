------------------------------- MODULE Hosts -------------------------------
(***************************************************************************)
(* What the crawler reads off a host name (crawler/util/hosts.py,          *)
(* discovery/host_quality.py, discovery/blocklist.py).  A host is the      *)
(* sequence of its labels, the top-level domain last; a URL is its host    *)
(* and the segments of its path.  Lists of labels and of hosts that the    *)
(* code keeps as literals are constants.                                   *)
(***************************************************************************)
EXTENDS Naturals, Sequences, SequencesExt

CONSTANTS
    CountryTlds,        \* the two-letter top-level domains in use
    GenericTlds,        \* those of them used as if generic: io, co, ...
    ForeignIdns,        \* IDN country domains other than Ukraine's
    RuByTlds,           \* ru, by and their IDN forms
    RuCities, ByCities, \* codes of Russian and Belarusian cities
    Institutional,      \* gov, edu, mil, int
    Platforms,          \* global platforms that sell nothing
    NewsLabels,         \* labels with a news word in them
    MediaTlds,          \* media
    Curated             \* the curated block list

ASSUME HostsAssumption ==
    "ua" \notin GenericTlds \cup ForeignIdns \cup RuByTlds \cup Institutional \cup MediaTlds

Tld(host) == Last(host)
Dotted(host) == Len(host) >= 2
Ukrainian(host) == Tld(host) = "ua"

\* host == d or host.endswith("." + d)
Under(host, d) == IsSuffix(d, host)

\* Scheme, port and a leading www. are not part of a host's identity.
BareHost(url) == IF Head(url.host) = "www" THEN Tail(url.host) ELSE url.host

RuByCities == RuCities \cup ByCities

\* is_foreign_host reads the host only.
IsForeignHost(host) ==
    /\ Dotted(host) /\ ~Ukrainian(host)
    /\ \/ Len(host) >= 3 /\ Head(host) \in RuCities
       \/ Tld(host) \in ForeignIdns
       \/ Tld(host) \in CountryTlds \ GenericTlds

\* is_ru_by_geo reads the path as well; a Ukrainian host is above suspicion.
IsRuByGeo(url) ==
    LET host == BareHost(url)
    IN  /\ Dotted(host) /\ ~Ukrainian(host)
        /\ \/ Tld(host) \in RuByTlds
           \/ Len(host) >= 3 /\ Head(host) \in RuByCities
           \/ url.path \cap RuByCities # {}

IsLowValueHost(host) ==
    /\ Dotted(host)
    /\ \/ Tld(host) \in Institutional
       \/ host[Len(host) - 1] \in Institutional \ {"int"}
       \/ \E p \in Platforms : Under(host, p)

IsNewsHost(host) == Tld(host) \in MediaTlds \/ ToSet(host) \cap NewsLabels # {}

\* is_blocked_host, given what was learned, pinned by geography or language.
IsBlockedHost(host, learned) ==
    \E d \in {<<"gov", "ua">>} \cup Curated \cup learned : Under(host, d)

============================================================================
