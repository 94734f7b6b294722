--------------------------- MODULE ProgrammeScope ---------------------------
(* What a programme scope says of a destination: the rules of               *)
(* bugslyce/core/programme_scope.py, what they match, which of two is the    *)
(* narrower authority, and the decision the matching rules lead to.  No      *)
(* state: ScopeEditing edits the rules, the runtime asks for decisions.      *)
(*                                                                           *)
(* A hostname is the sequence of its labels from the top-level domain down,  *)
(* so that a subdomain extends its suffix.  A path is the sequence of its    *)
(* segments, an empty one after a final slash: "/" is <<Empty>>, "/a" is     *)
(* <<"a">>, "/a/" is <<"a", Empty>>.  A network is the set of its addresses. *)
EXTENDS Sequences, Integers, FiniteSets

CONSTANTS
    Labels, Segments, Empty,
    Hosts,      \* canonical hostnames
    Addresses,  \* canonical IPv4 addresses
    Special,    \* those not globally reachable, to be included explicitly
    Networks,   \* canonical IPv4 networks
    Schemes, Ports, Paths, Queries,
    Ids,        \* rule identifiers, case folded
    None

ASSUME HostsAssumption     == Hosts \subseteq Seq(Labels)
ASSUME PathsAssumption     == Paths \subseteq Seq(Segments) \ {<<>>}
ASSUME AddressesAssumption ==
    /\ Hosts \cap Addresses = {} /\ Special \subseteq Addresses
    /\ Networks \subseteq SUBSET Addresses /\ {} \notin Networks
ASSUME NoneAssumption == None \notin Schemes /\ None \notin Ports /\ None \notin Addresses

Actions       == {"include", "exclude"}
HostnameKinds == {"exact_hostname", "wildcard_subdomain"}
AddressKinds  == {"exact_ipv4", "ipv4_cidr"}
HttpKinds     == {"exact_http_url", "http_path_prefix"}

Urls == [scheme : Schemes, host : Hosts \cup Addresses, port : Ports,
         path : Paths, query : Queries \cup {None}]

Origin(url) == <<url.scheme, url.host, url.port>>

Destinations ==
    [kind : {"hostname"}, value : Hosts] \cup [kind : {"ipv4"}, value : Addresses]
        \cup [kind : {"http_url"}, value : Urls]

\* Rules by kind.  Only hostname rules can be qualified by a transport, and
\* a path prefix has no query; the builder raises on any other combination.
RulesOf(kinds, values, schemes, ports) ==
    [id : Ids, action : Actions, kind : kinds, value : values,
     scheme : schemes, port : ports]

Rules ==
    RulesOf(HostnameKinds, Hosts, Schemes \cup {None}, Ports \cup {None})
        \cup RulesOf({"exact_http_url"}, Urls, {None}, {None})
        \cup RulesOf({"http_path_prefix"}, {u \in Urls : u.query = None}, {None}, {None})
        \cup RulesOf({"exact_ipv4"}, Addresses, {None}, {None})
        \cup RulesOf({"ipv4_cidr"}, Networks, {None}, {None})

\* A policy is a list of rules and identifies each of them.
IsPolicy(rules) ==
    /\ rules \subseteq Rules /\ IsFiniteSet(rules)
    /\ \A r, s \in rules : r.id = s.id => r = s

----------------------------------------------------------------------------
(* Matching. *)

Below(host, suffix) ==
    Len(host) > Len(suffix) /\ \A i \in 1..Len(suffix) : host[i] = suffix[i]

HostnameRuleMatches(rule, host) ==
    \/ rule.kind = "exact_hostname" /\ host = rule.value
    \/ rule.kind = "wildcard_subdomain" /\ Below(host, rule.value)

TransportMatches(rule, url) ==
    rule.scheme \in {None, url.scheme} /\ rule.port \in {None, url.port}

Ipv4RuleMatches(rule, address) ==
    \/ rule.kind = "exact_ipv4" /\ address = rule.value
    \/ rule.kind = "ipv4_cidr" /\ address \in rule.value

\* Segments of a prefix that a path must repeat: all but the one a final
\* slash leaves empty.
Anchored(prefix) ==
    IF prefix[Len(prefix)] = Empty THEN Len(prefix) - 1 ELSE Len(prefix)

\* A prefix ends at a slash of its own or of the path.
PathPrefixMatches(prefix, path) ==
    Len(path) >= Len(prefix) /\ \A i \in 1..Anchored(prefix) : path[i] = prefix[i]

UrlRuleMatches(rule, url) ==
    \/ rule.kind = "exact_http_url" /\ rule.value = url
    \/ /\ rule.kind = "http_path_prefix" /\ Origin(rule.value) = Origin(url)
       /\ PathPrefixMatches(rule.value.path, url.path)
    \/ url.host \in Hosts /\ HostnameRuleMatches(rule, url.host) /\ TransportMatches(rule, url)
    \/ url.host \in Addresses /\ Ipv4RuleMatches(rule, url.host)

\* A rule qualified by a transport says nothing of a bare hostname.
RuleMatches(rule, destination) ==
    CASE destination.kind = "hostname" ->
            /\ rule.scheme = None /\ rule.port = None
            /\ HostnameRuleMatches(rule, destination.value)
      [] destination.kind = "ipv4"     -> Ipv4RuleMatches(rule, destination.value)
      [] destination.kind = "http_url" -> UrlRuleMatches(rule, destination.value)

Matching(rules, destination) == {r \in rules : RuleMatches(r, destination)}

----------------------------------------------------------------------------
(* Which rule is narrower, decided on the rules alone. *)

TransportIsSubset(narrower, broader) ==
    /\ broader.scheme = None \/ narrower.scheme = broader.scheme
    /\ broader.port = None \/ narrower.port = broader.port

HostnamePatternIsSubset(narrower, broader) ==
    \/ HostnameRuleMatches(broader, narrower.value) /\ narrower.kind = "exact_hostname"
    \/ /\ narrower.kind = "wildcard_subdomain" /\ broader.kind = "wildcard_subdomain"
       /\ narrower.value = broader.value \/ Below(narrower.value, broader.value)

\* One host under one scheme and port is the whole of its origin.
QualifiedHostIsRootPrefix(narrower, broader) ==
    /\ narrower.kind = "exact_hostname" /\ broader.kind = "http_path_prefix"
    /\ narrower.scheme # None /\ narrower.port # None
    /\ broader.value.path = <<Empty>>
    /\ Origin(broader.value) = <<narrower.scheme, narrower.value, narrower.port>>

Ipv4IsSubset(narrower, broader) ==
    \/ narrower.kind = "exact_ipv4" /\ Ipv4RuleMatches(broader, narrower.value)
    \/ /\ narrower.kind = "ipv4_cidr"
       /\ \/ broader.kind = "exact_ipv4" /\ narrower.value = {broader.value}
          \/ broader.kind = "ipv4_cidr" /\ narrower.value \subseteq broader.value

\* A slip: wildcards are forgotten, and "narrower" is no longer transitive.
HttpIsSubset_NoWildcard(narrower, broader) ==
    \/ /\ broader.kind = "exact_hostname" /\ narrower.value.host = broader.value
       /\ TransportMatches(broader, narrower.value)
    \/ /\ broader.kind = "http_path_prefix"
       /\ Origin(narrower.value) = Origin(broader.value)
       /\ PathPrefixMatches(broader.value.path, narrower.value.path)

HttpIsSubset(narrower, broader) ==
    \/ /\ broader.kind \in HostnameKinds /\ narrower.value.host \in Hosts
       /\ HostnameRuleMatches(broader, narrower.value.host)
       /\ TransportMatches(broader, narrower.value)
    \/ /\ broader.kind \in AddressKinds /\ narrower.value.host \in Addresses
       /\ Ipv4RuleMatches(broader, narrower.value.host)
    \/ /\ broader.kind = "exact_http_url" /\ narrower.kind = "exact_http_url"
       /\ narrower.value = broader.value
    \/ /\ broader.kind = "http_path_prefix"
       /\ Origin(narrower.value) = Origin(broader.value)
       /\ PathPrefixMatches(broader.value.path, narrower.value.path)

\* A slip: a fully qualified host is not seen to equal its root prefix, so
\* that the prefix counts as the narrower of the two.
AuthorityIsSubset_NoRoot(narrower, broader) ==
    \/ /\ narrower.kind \in HostnameKinds /\ broader.kind \in HostnameKinds
       /\ HostnamePatternIsSubset(narrower, broader) /\ TransportIsSubset(narrower, broader)
    \/ narrower.kind \in AddressKinds /\ Ipv4IsSubset(narrower, broader)
    \/ narrower.kind \in HttpKinds /\ HttpIsSubset(narrower, broader)

AuthorityIsSubset(narrower, broader) ==
    \/ /\ narrower.kind \in HostnameKinds /\ broader.kind \in HostnameKinds
       /\ HostnamePatternIsSubset(narrower, broader) /\ TransportIsSubset(narrower, broader)
    \/ narrower.kind \in HostnameKinds /\ QualifiedHostIsRootPrefix(narrower, broader)
    \/ narrower.kind \in AddressKinds /\ Ipv4IsSubset(narrower, broader)
    \/ narrower.kind \in HttpKinds /\ HttpIsSubset(narrower, broader)

StrictSubset(narrower, broader) ==
    AuthorityIsSubset(narrower, broader) /\ ~AuthorityIsSubset(broader, narrower)

\* A slip: only a narrower rule of the same action takes the effect of one.
Effective_OwnSide(matches) ==
    {r \in matches : ~\E other \in matches : other.action = r.action /\ StrictSubset(other, r)}

\* Matching rules that no other matching rule is strictly narrower than.
Effective(matches) == {r \in matches : ~\E other \in matches : StrictSubset(other, r)}

----------------------------------------------------------------------------
(* Decisions.  The primary rules name what a decision rests on: the most     *)
(* specific of the effective rules, kept here as the set it is chosen from,  *)
(* empty when the code has None.                                             *)

Included(rules) == {r.id : r \in {s \in rules : s.action = "include"}}
Excluded(rules) == {r.id : r \in {s \in rules : s.action = "exclude"}}

Evaluate(rules, destination) ==
    LET matches   == Matching(rules, destination)
        effective == Effective(matches)
        outcome   == IF Excluded(effective) # {} THEN "blocked"
                     ELSE IF Included(effective) # {} THEN "allowed" ELSE "unknown"
    IN  [destination |-> destination, peer |-> None, outcome |-> outcome,
         reason |-> CASE outcome = "blocked" -> "explicit_exclusion"
                      [] outcome = "allowed" -> "included"
                      [] OTHER               -> "no_matching_inclusion",
         inclusions |-> Included(matches), exclusions |-> Excluded(matches),
         primaryInclusion |-> Included(effective), primaryExclusion |-> Excluded(effective)]

SupportsResolvedPeer(destination) ==
    \/ destination.kind = "hostname"
    \/ destination.kind = "http_url" /\ destination.value.host \in Hosts

\* A slip: the peer's own inclusion is taken for the destination's.
EvaluateResolvedPeer_Widens(rules, logical, peer) ==
    LET matches == {r \in rules : Ipv4RuleMatches(r, peer)}
    IN  [logical EXCEPT !.peer = peer, !.inclusions = @ \cup Included(matches),
                        !.exclusions = @ \cup Excluded(matches),
                        !.outcome = IF Excluded(matches) # {} THEN "blocked"
                                    ELSE IF Included(matches) # {} THEN "allowed" ELSE @]

\* The decision for the address a hostname resolved to; the logical decision
\* must be the one these very rules lead to.
EvaluateResolvedPeer(rules, logical, peer) ==
    LET matches     == {r \in rules : Ipv4RuleMatches(r, peer)}
        combined    == [logical EXCEPT !.peer = peer, !.inclusions = @ \cup Included(matches),
                                       !.exclusions = @ \cup Excluded(matches)]
    IN  CASE Excluded(matches) # {} ->
               [combined EXCEPT !.outcome = "blocked", !.reason = "resolved_ip_excluded",
                                !.primaryExclusion = Excluded(matches)]
          [] Excluded(matches) = {} /\ logical.outcome = "allowed" /\ peer \in Special
                /\ Included(matches) = {} ->
               [combined EXCEPT !.outcome = "unknown",
                                !.reason = "resolved_ip_requires_explicit_inclusion",
                                !.primaryInclusion = {}, !.primaryExclusion = {}]
          [] OTHER -> combined

\* What the constructor of a decision accepts; it raises on anything else.
ValidDecision(d) ==
    /\ d.peer # None => SupportsResolvedPeer(d.destination)
    /\ d.primaryInclusion \subseteq d.inclusions /\ d.primaryExclusion \subseteq d.exclusions
    /\ CASE d.outcome = "allowed" ->
              /\ d.reason = "included" /\ d.inclusions # {}
              /\ d.primaryInclusion # {} /\ d.primaryExclusion = {}
         [] d.outcome = "blocked" ->
              /\ d.reason \in {"explicit_exclusion", "resolved_ip_excluded"}
              /\ d.exclusions # {} /\ d.primaryExclusion # {}
              /\ d.reason = "resolved_ip_excluded" => d.peer # None
         [] d.outcome = "unknown" ->
              /\ d.reason \in {"no_matching_inclusion", "resolved_ip_requires_explicit_inclusion"}
              /\ d.primaryInclusion = {} /\ d.primaryExclusion = {}
              /\ d.inclusions # {} => d.peer # None
              /\ d.reason = "resolved_ip_requires_explicit_inclusion" =>
                    d.peer # None /\ d.inclusions # {}
              /\ d.reason = "no_matching_inclusion" => d.exclusions = {}
=============================================================================
