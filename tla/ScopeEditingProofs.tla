------------------------- MODULE ScopeEditingProofs -------------------------
(* Proofs about ProgrammeScope and ScopeEditing, for every set of hosts,      *)
(* addresses, networks, transports, paths and identifiers: the test on pairs  *)
(* of rules is transitive, sound and complete, and the decisions are valid,   *)
(* monotone and as documented.                                                *)
EXTENDS ScopeEditing, SequenceTheorems, FiniteSetTheorems, WellFoundedInduction, TLAPS

----------------------------------------------------------------------------
(* What a rule is made of. *)

LEMMA RuleFields ==
    ASSUME NEW r \in Rules
    PROVE  /\ r.id \in Ids /\ r.action \in Actions
           /\ r.kind \in HostnameKinds \cup AddressKinds \cup HttpKinds
           /\ r.kind \in HostnameKinds => r.value \in Hosts
           /\ r.kind \in HttpKinds => r.value \in Urls
           /\ r.kind = "http_path_prefix" => r.value.query = None
           /\ r.kind = "exact_ipv4" => r.value \in Addresses
           /\ r.kind = "ipv4_cidr" => r.value \in Networks
           /\ r.scheme \in Schemes \cup {None} /\ r.port \in Ports \cup {None}
           /\ r.kind \notin HostnameKinds => r.scheme = None /\ r.port = None
           /\ r = [id |-> r.id, action |-> r.action, kind |-> r.kind, value |-> r.value,
                   scheme |-> r.scheme, port |-> r.port]
  BY DEF Rules, RulesOf, HostnameKinds, AddressKinds, HttpKinds

LEMMA MakeRule ==
    ASSUME NEW id \in Ids, NEW action \in Actions, NEW kind, NEW value,
           NEW scheme \in Schemes \cup {None}, NEW port \in Ports \cup {None},
           kind \in HostnameKinds \cup AddressKinds \cup HttpKinds,
           kind \in HostnameKinds => value \in Hosts,
           kind \in HttpKinds => value \in Urls,
           kind = "http_path_prefix" => value.query = None,
           kind = "exact_ipv4" => value \in Addresses,
           kind = "ipv4_cidr" => value \in Networks,
           kind \notin HostnameKinds => scheme = None /\ port = None
    PROVE  [id |-> id, action |-> action, kind |-> kind, value |-> value,
            scheme |-> scheme, port |-> port] \in Rules
  BY DEF Rules, RulesOf, HostnameKinds, AddressKinds, HttpKinds

LEMMA UrlFields ==
    ASSUME NEW u \in Urls
    PROVE  u.host \in Hosts \cup Addresses /\ u.path \in Paths
  BY DEF Urls

----------------------------------------------------------------------------
(* Subdomains and paths. *)

LEMMA BelowTransitive ==
    ASSUME NEW a \in Hosts, NEW b \in Hosts, NEW c \in Hosts, Below(a, b), Below(b, c)
    PROVE  Below(a, c)
  <1>1. a \in Seq(Labels) /\ b \in Seq(Labels) /\ c \in Seq(Labels)
    BY HostsAssumption
  <1>2. Len(a) \in Nat /\ Len(b) \in Nat /\ Len(c) \in Nat
    BY <1>1
  <1>3. Len(a) > Len(c)
    BY <1>2 DEF Below
  <1>4. ASSUME NEW i \in 1..Len(c) PROVE a[i] = c[i]
    BY <1>2, i \in 1..Len(b) DEF Below
  <1> QED
    BY <1>3, <1>4 DEF Below

LEMMA AnchoredRange ==
    ASSUME NEW p \in Paths
    PROVE  /\ Len(p) \in Nat /\ Len(p) >= 1 /\ Anchored(p) \in Nat
           /\ p[Len(p)] = Empty => Anchored(p) = Len(p) - 1
           /\ p[Len(p)] # Empty => Anchored(p) = Len(p)
  <1>1. p \in Seq(Segments) /\ p # <<>>
    BY PathsAssumption
  <1>2. Len(p) \in Nat /\ Len(p) >= 1
    BY <1>1
  <1> QED
    BY <1>2 DEF Anchored

LEMMA PrefixOfPrefix ==
    ASSUME NEW p \in Paths, NEW q \in Paths, NEW r \in Paths,
           PathPrefixMatches(p, q), PathPrefixMatches(q, r)
    PROVE  PathPrefixMatches(p, r)
  <1>1. Len(q) >= Len(p) /\ Len(r) >= Len(q)
    BY DEF PathPrefixMatches
  <1>2. \A i \in 1..Anchored(p) : q[i] = p[i]
    BY DEF PathPrefixMatches
  <1>3. \A i \in 1..Anchored(q) : r[i] = q[i]
    BY DEF PathPrefixMatches
  <1>4. Anchored(p) <= Anchored(q)
    <2>1. CASE Anchored(p) <= Len(q) - 1
      BY <2>1, AnchoredRange
    <2>2. CASE ~(Anchored(p) <= Len(q) - 1)
      <3>1. Anchored(p) = Len(p) /\ Len(p) = Len(q) /\ p[Len(p)] # Empty
        BY <1>1, <2>2, AnchoredRange
      <3>2. Len(p) \in 1..Anchored(p)
        BY <3>1, AnchoredRange
      <3>3. q[Len(q)] # Empty
        BY <1>2, <3>1, <3>2
      <3> QED
        BY <3>1, <3>3, AnchoredRange
    <2> QED
      BY <2>1, <2>2
  <1>5. ASSUME NEW i \in 1..Anchored(p) PROVE r[i] = p[i]
    <2>1. i \in 1..Anchored(q)
      BY <1>4, AnchoredRange
    <2> QED
      BY <1>2, <1>3, <2>1
  <1>6. Len(r) >= Len(p)
    BY <1>1, AnchoredRange
  <1> QED
    BY <1>5, <1>6 DEF PathPrefixMatches

LEMMA RootIsPrefix ==
    ASSUME NEW p \in Paths
    PROVE  PathPrefixMatches(<<Empty>>, p)
  <1>1. p \in Seq(Segments) /\ p # <<>>
    BY PathsAssumption
  <1>2. Len(p) \in Nat /\ Len(p) >= 1
    BY <1>1
  <1>3. Len(<<Empty>>) = 1 /\ <<Empty>>[1] = Empty
    OBVIOUS
  <1> QED
    BY <1>2, <1>3 DEF PathPrefixMatches, Anchored

LEMMA OnlyRootCoversRoot ==
    ASSUME NEW p \in Paths, PathPrefixMatches(p, <<Empty>>)
    PROVE  p = <<Empty>>
  <1>1. Len(p) = 1
    <2>1. Len(p) \in Nat /\ Len(p) >= 1
      BY AnchoredRange
    <2>2. Len(<<Empty>>) >= Len(p)
      BY DEF PathPrefixMatches
    <2>3. Len(<<Empty>>) = 1
      OBVIOUS
    <2> QED
      BY <2>1, <2>2, <2>3
  <1>2. p \in Seq(Segments)
    BY PathsAssumption
  <1>3. p[1] = Empty
    <2>1. CASE p[1] # Empty
      <3>1. 1 \in 1..Anchored(p)
        BY <1>1, <2>1, AnchoredRange
      <3> QED
        BY <2>1, <3>1 DEF PathPrefixMatches
    <2> QED
      BY <2>1
  <1>4. p \in Seq(Segments \cup {Empty})
    BY <1>2, SeqMonotonic
  <1>5. <<Empty>> \in Seq(Segments \cup {Empty})
    OBVIOUS
  <1>6. Len(<<Empty>>) = 1 /\ <<Empty>>[1] = Empty
    OBVIOUS
  <1>7. ASSUME NEW q \in Seq(Segments \cup {Empty}), Len(q) = 1, q[1] = Empty
        PROVE  p = q
    <2>1. \A i \in 1..Len(p) : p[i] = q[i]
      BY <1>1, <1>3, <1>7
    <2> QED
      BY <1>1, <1>4, <1>7, <2>1, SeqEqual
  <1> QED
    BY <1>5, <1>6, <1>7

----------------------------------------------------------------------------
(* What a rule matches, a rule it is a subset of matches too. *)

LEMMA PatternCovers ==
    ASSUME NEW s \in Rules, NEW t \in Rules, NEW h \in Hosts,
           s.kind \in HostnameKinds, t.kind \in HostnameKinds,
           HostnamePatternIsSubset(s, t), HostnameRuleMatches(s, h)
    PROVE  HostnameRuleMatches(t, h)
  <1>1. s.value \in Hosts /\ t.value \in Hosts
    BY RuleFields
  <1>2. CASE s.kind = "exact_hostname"
    BY <1>2 DEF HostnamePatternIsSubset, HostnameRuleMatches
  <1>3. CASE s.kind = "wildcard_subdomain"
    <2>1. t.kind = "wildcard_subdomain" /\ Below(h, s.value)
      BY <1>3 DEF HostnamePatternIsSubset, HostnameRuleMatches
    <2>2. s.value = t.value \/ Below(s.value, t.value)
      BY <1>3 DEF HostnamePatternIsSubset
    <2>3. Below(h, t.value)
      BY <1>1, <2>1, <2>2, BelowTransitive
    <2> QED
      BY <2>1, <2>3 DEF HostnameRuleMatches
  <1> QED
    BY <1>2, <1>3 DEF HostnameKinds

LEMMA PatternTransitive ==
    ASSUME NEW r \in Rules, NEW s \in Rules, NEW t \in Rules,
           r.kind \in HostnameKinds, s.kind \in HostnameKinds, t.kind \in HostnameKinds,
           HostnamePatternIsSubset(r, s), HostnamePatternIsSubset(s, t)
    PROVE  HostnamePatternIsSubset(r, t)
  <1>1. r.value \in Hosts /\ s.value \in Hosts /\ t.value \in Hosts
    BY RuleFields
  <1>2. CASE r.kind = "exact_hostname"
    <2>1. HostnameRuleMatches(s, r.value)
      BY <1>2 DEF HostnamePatternIsSubset
    <2>2. HostnameRuleMatches(t, r.value)
      BY <1>1, <2>1, PatternCovers
    <2> QED
      BY <1>2, <2>2 DEF HostnamePatternIsSubset
  <1>3. CASE r.kind = "wildcard_subdomain"
    <2>1. s.kind = "wildcard_subdomain" /\ t.kind = "wildcard_subdomain"
      BY <1>3 DEF HostnamePatternIsSubset
    <2>2. r.value = s.value \/ Below(r.value, s.value)
      BY <1>3 DEF HostnamePatternIsSubset
    <2>3. s.value = t.value \/ Below(s.value, t.value)
      BY <2>1 DEF HostnamePatternIsSubset
    <2>4. r.value = t.value \/ Below(r.value, t.value)
      BY <1>1, <2>2, <2>3, BelowTransitive
    <2> QED
      BY <1>3, <2>1, <2>4 DEF HostnamePatternIsSubset
  <1> QED
    BY <1>2, <1>3 DEF HostnameKinds

LEMMA TransportCovers ==
    ASSUME NEW s, NEW t, NEW u, TransportIsSubset(s, t), TransportMatches(s, u)
    PROVE  TransportMatches(t, u)
  BY DEF TransportIsSubset, TransportMatches

LEMMA AddressCovers ==
    ASSUME NEW s \in Rules, NEW t \in Rules, NEW a,
           s.kind \in AddressKinds, Ipv4IsSubset(s, t), Ipv4RuleMatches(s, a)
    PROVE  Ipv4RuleMatches(t, a)
  BY DEF AddressKinds, Ipv4IsSubset, Ipv4RuleMatches

LEMMA AddressTransitive ==
    ASSUME NEW r \in Rules, NEW s \in Rules, NEW t \in Rules,
           r.kind \in AddressKinds, s.kind \in AddressKinds,
           Ipv4IsSubset(r, s), Ipv4IsSubset(s, t)
    PROVE  Ipv4IsSubset(r, t)
  <1>1. r.kind = "ipv4_cidr" => r.value # {}
    <2>1. r.kind = "ipv4_cidr" => r.value \in Networks
      BY RuleFields
    <2> QED
      BY <2>1, AddressesAssumption
  <1>2. CASE r.kind = "exact_ipv4"
    BY <1>2, AddressCovers DEF Ipv4IsSubset, Ipv4RuleMatches
  <1>3. CASE r.kind = "ipv4_cidr"
    BY <1>1, <1>3 DEF AddressKinds, Ipv4IsSubset, Ipv4RuleMatches
  <1> QED
    BY <1>2, <1>3 DEF AddressKinds

\* A subset of an address rule is an address rule, or an HTTP rule.
LEMMA SubsetKinds ==
    ASSUME NEW r \in Rules, NEW s \in Rules, AuthorityIsSubset(r, s)
    PROVE  \/ r.kind \in HostnameKinds /\ s.kind \in HostnameKinds
           \/ r.kind = "exact_hostname" /\ s.kind = "http_path_prefix"
           \/ r.kind \in AddressKinds /\ s.kind \in AddressKinds
           \/ r.kind \in HttpKinds /\ s.kind \in HostnameKinds \cup AddressKinds
           \/ r.kind \in HttpKinds /\ s.kind = "http_path_prefix"
           \/ r.kind = "exact_http_url" /\ s.kind = "exact_http_url"
  <1>1. /\ r.kind \in HostnameKinds \cup AddressKinds \cup HttpKinds
        /\ s.kind \in HostnameKinds \cup AddressKinds \cup HttpKinds
    BY RuleFields
  <1>2. CASE r.kind \in HostnameKinds
    BY <1>2 DEF AuthorityIsSubset, QualifiedHostIsRootPrefix, HostnameKinds, AddressKinds, HttpKinds
  <1>3. CASE r.kind \in AddressKinds
    BY <1>3 DEF AuthorityIsSubset, Ipv4IsSubset, Ipv4RuleMatches, HostnameKinds, AddressKinds, HttpKinds
  <1>4. CASE r.kind \in HttpKinds
    BY <1>4 DEF AuthorityIsSubset, HttpIsSubset, HostnameKinds, AddressKinds, HttpKinds
  <1> QED
    BY <1>1, <1>2, <1>3, <1>4

LEMMA QualifiedHostTransitive ==
    ASSUME NEW r \in Rules, NEW s \in Rules, NEW t \in Rules,
           QualifiedHostIsRootPrefix(r, s), AuthorityIsSubset(s, t)
    PROVE  AuthorityIsSubset(r, t)
  <1>1. /\ r.kind = "exact_hostname" /\ s.kind = "http_path_prefix"
        /\ r.scheme # None /\ r.port # None /\ s.value.path = <<Empty>>
        /\ s.value.scheme = r.scheme /\ s.value.host = r.value /\ s.value.port = r.port
    BY DEF QualifiedHostIsRootPrefix, Origin
  <1>2. r.value \in Hosts /\ s.value \in Urls /\ r.kind \in HostnameKinds
    BY <1>1, RuleFields DEF HostnameKinds, HttpKinds
  <1>3. HttpIsSubset(s, t)
    BY <1>1 DEF AuthorityIsSubset, HostnameKinds, AddressKinds
  <1>4. CASE t.kind \in HostnameKinds
    <2>1. HostnameRuleMatches(t, r.value) /\ TransportMatches(t, s.value)
      BY <1>1, <1>3, <1>4 DEF HttpIsSubset, HostnameKinds, AddressKinds
    <2>2. HostnamePatternIsSubset(r, t) /\ TransportIsSubset(r, t)
      BY <1>1, <2>1 DEF HostnamePatternIsSubset, TransportIsSubset, TransportMatches
    <2> QED
      BY <1>2, <1>4, <2>2 DEF AuthorityIsSubset
  <1>5. CASE t.kind = "http_path_prefix"
    <2>1. t.value \in Urls
      BY <1>5, RuleFields DEF HttpKinds
    <2>2. Origin(s.value) = Origin(t.value) /\ PathPrefixMatches(t.value.path, <<Empty>>)
      BY <1>1, <1>3, <1>5 DEF HttpIsSubset, HostnameKinds, AddressKinds
    <2>3. t.value.path = <<Empty>>
      BY <2>1, <2>2, UrlFields, OnlyRootCoversRoot
    <2>4. QualifiedHostIsRootPrefix(r, t)
      BY <1>1, <1>5, <2>2, <2>3 DEF QualifiedHostIsRootPrefix, Origin
    <2> QED
      BY <1>2, <2>4 DEF AuthorityIsSubset
  <1>6. t.kind \in HostnameKinds \/ t.kind = "http_path_prefix"
    BY <1>1, <1>2, <1>3, AddressesAssumption DEF HttpIsSubset
  <1> QED
    BY <1>4, <1>5, <1>6

LEMMA HttpTransitive ==
    ASSUME NEW r \in Rules, NEW s \in Rules, NEW t \in Rules, r.kind \in HttpKinds,
           HttpIsSubset(r, s), AuthorityIsSubset(s, t)
    PROVE  HttpIsSubset(r, t)
  <1>1. r.value \in Urls /\ r.value.host \in Hosts \cup Addresses /\ r.value.path \in Paths
    BY RuleFields, UrlFields
  <1>2. CASE s.kind \in HostnameKinds
    <2>1. /\ r.value.host \in Hosts /\ HostnameRuleMatches(s, r.value.host)
          /\ TransportMatches(s, r.value)
      BY <1>2 DEF HttpIsSubset, HostnameKinds, AddressKinds
    <2>2. CASE t.kind \in HostnameKinds
      <3>1. HostnamePatternIsSubset(s, t) /\ TransportIsSubset(s, t)
        BY <1>2, <2>2 DEF AuthorityIsSubset, QualifiedHostIsRootPrefix, HostnameKinds,
                          AddressKinds, HttpKinds
      <3>2. HostnameRuleMatches(t, r.value.host) /\ TransportMatches(t, r.value)
        BY <1>2, <2>1, <2>2, <3>1, PatternCovers, TransportCovers
      <3> QED
        BY <2>1, <2>2, <3>2 DEF HttpIsSubset
    <2>3. CASE QualifiedHostIsRootPrefix(s, t)
      <3>1. /\ s.kind = "exact_hostname" /\ t.kind = "http_path_prefix"
            /\ s.scheme # None /\ s.port # None /\ t.value.path = <<Empty>>
            /\ t.value.scheme = s.scheme /\ t.value.host = s.value /\ t.value.port = s.port
        BY <2>3 DEF QualifiedHostIsRootPrefix, Origin
      <3>2. Origin(r.value) = Origin(t.value)
        BY <2>1, <3>1 DEF TransportMatches, HostnameRuleMatches, Origin
      <3>3. PathPrefixMatches(t.value.path, r.value.path)
        BY <1>1, <3>1, RootIsPrefix
      <3> QED
        BY <3>1, <3>2, <3>3 DEF HttpIsSubset
    <2> QED
      BY <1>2, <2>2, <2>3 DEF AuthorityIsSubset, HostnameKinds, AddressKinds, HttpKinds
  <1>3. CASE s.kind \in AddressKinds
    <2>1. r.value.host \in Addresses /\ Ipv4RuleMatches(s, r.value.host)
      BY <1>3 DEF HttpIsSubset, HostnameKinds, AddressKinds
    <2>2. Ipv4IsSubset(s, t) /\ t.kind \in AddressKinds
      BY <1>3, SubsetKinds DEF AuthorityIsSubset, HostnameKinds, AddressKinds, HttpKinds
    <2>3. Ipv4RuleMatches(t, r.value.host)
      BY <1>3, <2>1, <2>2, AddressCovers
    <2> QED
      BY <2>1, <2>2, <2>3 DEF HttpIsSubset
  <1>4. CASE s.kind = "exact_http_url"
    <2>1. r.kind = "exact_http_url" /\ r.value = s.value
      BY <1>4 DEF HttpIsSubset, HostnameKinds, AddressKinds
    <2>2. HttpIsSubset(s, t)
      BY <1>4 DEF AuthorityIsSubset, HostnameKinds, AddressKinds
    <2> QED
      BY <1>4, <2>1, <2>2 DEF HttpIsSubset
  <1>5. CASE s.kind = "http_path_prefix"
    <2>1. Origin(r.value) = Origin(s.value) /\ PathPrefixMatches(s.value.path, r.value.path)
      BY <1>5 DEF HttpIsSubset, HostnameKinds, AddressKinds
    <2>2. /\ r.value.scheme = s.value.scheme /\ r.value.host = s.value.host
          /\ r.value.port = s.value.port
      BY <2>1 DEF Origin
    <2>3. HttpIsSubset(s, t)
      BY <1>5 DEF AuthorityIsSubset, HostnameKinds, AddressKinds
    <2>4. s.value \in Urls /\ s.value.path \in Paths
      BY <1>5, RuleFields, UrlFields DEF HttpKinds
    <2>5. CASE t.kind = "http_path_prefix"
      <3>1. /\ Origin(s.value) = Origin(t.value)
            /\ PathPrefixMatches(t.value.path, s.value.path)
        BY <2>3, <2>5 DEF HttpIsSubset, HostnameKinds, AddressKinds
      <3>2. t.value.path \in Paths
        BY <2>5, RuleFields, UrlFields DEF HttpKinds
      <3>3. PathPrefixMatches(t.value.path, r.value.path)
        BY <1>1, <2>1, <2>4, <3>1, <3>2, PrefixOfPrefix
      <3> QED
        BY <2>1, <2>5, <3>1, <3>3 DEF HttpIsSubset
    <2>6. CASE t.kind \in HostnameKinds \cup AddressKinds
      BY <2>2, <2>3, <2>6 DEF HttpIsSubset, TransportMatches, HostnameKinds, AddressKinds
    <2>7. t.kind # "exact_http_url"
      BY <1>5, <2>3 DEF HttpIsSubset, HostnameKinds, AddressKinds
    <2> QED
      BY <2>3, <2>5, <2>6, <2>7 DEF HttpIsSubset
  <1>6. s.kind \in HostnameKinds \cup AddressKinds \cup HttpKinds
    BY RuleFields
  <1> QED
    BY <1>2, <1>3, <1>4, <1>5, <1>6 DEF HttpKinds

\* The test on pairs of rules is transitive, across all six kinds.
THEOREM SubsetTransitive ==
    ASSUME NEW r \in Rules, NEW s \in Rules, NEW t \in Rules,
           AuthorityIsSubset(r, s), AuthorityIsSubset(s, t)
    PROVE  AuthorityIsSubset(r, t)
  <1>1. CASE QualifiedHostIsRootPrefix(r, s)
    BY <1>1, QualifiedHostTransitive
  <1>2. CASE /\ r.kind \in HostnameKinds /\ s.kind \in HostnameKinds
             /\ HostnamePatternIsSubset(r, s) /\ TransportIsSubset(r, s)
    <2>1. CASE QualifiedHostIsRootPrefix(s, t)
      <3>1. /\ s.kind = "exact_hostname" /\ t.kind = "http_path_prefix"
            /\ s.scheme # None /\ s.port # None /\ t.value.path = <<Empty>>
            /\ Origin(t.value) = <<s.scheme, s.value, s.port>>
        BY <2>1 DEF QualifiedHostIsRootPrefix
      <3>2. r.kind = "exact_hostname" /\ r.value = s.value
        BY <1>2, <3>1 DEF HostnamePatternIsSubset, HostnameRuleMatches
      <3>3. r.scheme = s.scheme /\ r.port = s.port
        BY <1>2, <3>1 DEF TransportIsSubset
      <3>4. QualifiedHostIsRootPrefix(r, t)
        BY <3>1, <3>2, <3>3 DEF QualifiedHostIsRootPrefix
      <3> QED
        BY <1>2, <3>4 DEF AuthorityIsSubset
    <2>2. CASE /\ t.kind \in HostnameKinds
               /\ HostnamePatternIsSubset(s, t) /\ TransportIsSubset(s, t)
      <3>1. HostnamePatternIsSubset(r, t)
        BY <1>2, <2>2, PatternTransitive
      <3>2. TransportIsSubset(r, t)
        BY <1>2, <2>2 DEF TransportIsSubset
      <3> QED
        BY <1>2, <2>2, <3>1, <3>2 DEF AuthorityIsSubset
    <2> QED
      BY <1>2, <2>1, <2>2 DEF AuthorityIsSubset, HostnameKinds, AddressKinds, HttpKinds
  <1>3. CASE r.kind \in AddressKinds /\ Ipv4IsSubset(r, s)
    <2>1. s.kind \in AddressKinds
      BY <1>3 DEF Ipv4IsSubset, Ipv4RuleMatches, AddressKinds
    <2>2. Ipv4IsSubset(s, t)
      BY <2>1 DEF AuthorityIsSubset, HostnameKinds, AddressKinds, HttpKinds
    <2> QED
      BY <1>3, <2>1, <2>2, AddressTransitive DEF AuthorityIsSubset
  <1>4. CASE r.kind \in HttpKinds /\ HttpIsSubset(r, s)
    BY <1>4, HttpTransitive DEF AuthorityIsSubset
  <1> QED
    BY <1>1, <1>2, <1>3, <1>4 DEF AuthorityIsSubset

LEMMA StrictTransitive ==
    ASSUME NEW r \in Rules, NEW s \in Rules, NEW t \in Rules,
           StrictSubset(r, s), StrictSubset(s, t)
    PROVE  StrictSubset(r, t)
  BY SubsetTransitive DEF StrictSubset

\* The test is sound: what the narrower rule matches, bare hostname, address
\* or URL, the broader one matches too.
THEOREM SubsetSound ==
    ASSUME NEW r \in Rules, NEW s \in Rules, NEW d \in Destinations,
           AuthorityIsSubset(r, s), RuleMatches(r, d)
    PROVE  RuleMatches(s, d)
  <1>1. CASE d.kind = "hostname"
    <2>1. d.value \in Hosts
      BY <1>1 DEF Destinations
    <2>2. r.scheme = None /\ r.port = None /\ HostnameRuleMatches(r, d.value)
      BY <1>1 DEF RuleMatches
    <2>3. r.kind \in HostnameKinds
      BY <2>2 DEF HostnameRuleMatches, HostnameKinds
    <2>4. /\ s.kind \in HostnameKinds
          /\ HostnamePatternIsSubset(r, s) /\ TransportIsSubset(r, s)
      BY <2>2, <2>3 DEF AuthorityIsSubset, QualifiedHostIsRootPrefix, HostnameKinds,
                        AddressKinds, HttpKinds
    <2>5. HostnameRuleMatches(s, d.value)
      BY <2>1, <2>2, <2>3, <2>4, PatternCovers
    <2>6. s.scheme = None /\ s.port = None
      BY <2>2, <2>4 DEF TransportIsSubset
    <2> QED
      BY <1>1, <2>5, <2>6 DEF RuleMatches
  <1>2. CASE d.kind = "ipv4"
    <2>1. Ipv4RuleMatches(r, d.value)
      BY <1>2 DEF RuleMatches
    <2>2. r.kind \in AddressKinds
      BY <2>1 DEF Ipv4RuleMatches, AddressKinds
    <2>3. Ipv4IsSubset(r, s)
      BY <2>2 DEF AuthorityIsSubset, HostnameKinds, AddressKinds, HttpKinds
    <2>4. Ipv4RuleMatches(s, d.value)
      BY <2>1, <2>2, <2>3, AddressCovers
    <2> QED
      BY <1>2, <2>4 DEF RuleMatches
  <1>3. CASE d.kind = "http_url"
    <2> DEFINE u == d.value
    <2>1. u \in Urls /\ u.path \in Paths /\ UrlRuleMatches(r, u)
      BY <1>3, UrlFields DEF Destinations, RuleMatches
    <2>2. CASE r.kind = "exact_http_url" /\ r.value = u
      <3>1. HttpIsSubset(r, s)
        BY <2>2 DEF AuthorityIsSubset, HostnameKinds, AddressKinds
      <3> QED
        BY <1>3, <2>2, <3>1 DEF HttpIsSubset, RuleMatches, UrlRuleMatches
    <2>3. CASE /\ r.kind = "http_path_prefix" /\ Origin(r.value) = Origin(u)
               /\ PathPrefixMatches(r.value.path, u.path)
      <3>1. HttpIsSubset(r, s)
        BY <2>3 DEF AuthorityIsSubset, HostnameKinds, AddressKinds
      <3>2. r.value.path \in Paths
        BY <2>3, RuleFields, UrlFields DEF HttpKinds
      <3>3. /\ r.value.scheme = u.scheme /\ r.value.host = u.host /\ r.value.port = u.port
        BY <2>3 DEF Origin
      <3>4. CASE s.kind = "http_path_prefix"
        <4>1. /\ Origin(r.value) = Origin(s.value)
              /\ PathPrefixMatches(s.value.path, r.value.path)
          BY <3>1, <3>4 DEF HttpIsSubset, HostnameKinds, AddressKinds
        <4>2. s.value.path \in Paths
          BY <3>4, RuleFields, UrlFields DEF HttpKinds
        <4>3. PathPrefixMatches(s.value.path, u.path)
          BY <2>1, <2>3, <3>2, <4>1, <4>2, PrefixOfPrefix
        <4> QED
          BY <1>3, <2>3, <3>4, <4>1, <4>3 DEF RuleMatches, UrlRuleMatches
      <3>5. CASE s.kind \in HostnameKinds
        BY <1>3, <3>1, <3>3, <3>5
           DEF HttpIsSubset, HostnameKinds, AddressKinds, RuleMatches, UrlRuleMatches,
               TransportMatches
      <3>6. CASE s.kind \in AddressKinds
        BY <1>3, <3>1, <3>3, <3>6
           DEF HttpIsSubset, HostnameKinds, AddressKinds, RuleMatches, UrlRuleMatches
      <3> QED
        BY <2>3, <3>1, <3>4, <3>5, <3>6 DEF HttpIsSubset
    <2>4. CASE u.host \in Hosts /\ HostnameRuleMatches(r, u.host) /\ TransportMatches(r, u)
      <3>1. r.kind \in HostnameKinds
        BY <2>4 DEF HostnameRuleMatches, HostnameKinds
      <3>2. CASE QualifiedHostIsRootPrefix(r, s)
        <4>1. /\ r.kind = "exact_hostname" /\ s.kind = "http_path_prefix"
              /\ r.scheme # None /\ r.port # None /\ s.value.path = <<Empty>>
              /\ s.value.scheme = r.scheme /\ s.value.host = r.value /\ s.value.port = r.port
          BY <3>2 DEF QualifiedHostIsRootPrefix, Origin
        <4>2. Origin(s.value) = Origin(u)
          BY <2>4, <4>1 DEF HostnameRuleMatches, TransportMatches, Origin
        <4>3. PathPrefixMatches(s.value.path, u.path)
          BY <2>1, <4>1, RootIsPrefix
        <4> QED
          BY <1>3, <4>1, <4>2, <4>3 DEF RuleMatches, UrlRuleMatches
      <3>3. CASE /\ s.kind \in HostnameKinds
                 /\ HostnamePatternIsSubset(r, s) /\ TransportIsSubset(r, s)
        <4>1. HostnameRuleMatches(s, u.host) /\ TransportMatches(s, u)
          BY <2>4, <3>1, <3>3, PatternCovers, TransportCovers
        <4> QED
          BY <1>3, <2>4, <4>1 DEF RuleMatches, UrlRuleMatches
      <3> QED
        BY <3>1, <3>2, <3>3 DEF AuthorityIsSubset, HostnameKinds, AddressKinds, HttpKinds
    <2>5. CASE u.host \in Addresses /\ Ipv4RuleMatches(r, u.host)
      <3>1. r.kind \in AddressKinds
        BY <2>5 DEF Ipv4RuleMatches, AddressKinds
      <3>2. Ipv4IsSubset(r, s)
        BY <3>1 DEF AuthorityIsSubset, HostnameKinds, AddressKinds, HttpKinds
      <3>3. Ipv4RuleMatches(s, u.host)
        BY <2>5, <3>1, <3>2, AddressCovers
      <3> QED
        BY <1>3, <2>5, <3>3 DEF RuleMatches, UrlRuleMatches
    <2> QED
      BY <2>1, <2>2, <2>3, <2>4, <2>5 DEF UrlRuleMatches
  <1> QED
    BY <1>1, <1>2, <1>3 DEF Destinations

----------------------------------------------------------------------------
(* Adding one rule to those that match a destination. *)

Granting(matches) ==
    /\ ~\E r \in Effective(matches) : r.action = "exclude"
    /\ \E r \in Effective(matches) : r.action = "include"

LEMMA AllowedIsGranting ==
    ASSUME NEW rules, NEW d, rules \subseteq Rules
    PROVE  Evaluate(rules, d).outcome = "allowed" <=> Granting(Matching(rules, d))
  <1> DEFINE effective == Effective(Matching(rules, d))
  <1>1. Excluded(effective) # {} <=> \E r \in effective : r.action = "exclude"
    BY DEF Excluded
  <1>2. Included(effective) # {} <=> \E r \in effective : r.action = "include"
    BY DEF Included
  <1>3. Evaluate(rules, d).outcome
          = (IF Excluded(effective) # {} THEN "blocked"
             ELSE IF Included(effective) # {} THEN "allowed" ELSE "unknown")
    BY DEF Evaluate
  <1> QED
    BY <1>1, <1>2, <1>3 DEF Granting

\* An exclusion more never grants: an exclusion that it overrides would be
\* overridden without it, by whatever overrides the new one.
LEMMA ExclusionMore ==
    ASSUME NEW M, NEW x \in Rules, M \subseteq Rules, x.action = "exclude",
           Granting(M \cup {x})
    PROVE  Granting(M)
  <1> DEFINE N == M \cup {x}
  <1>1. PICK g \in Effective(N) : g.action = "include"
    BY DEF Granting
  <1>2. g \in Effective(M)
    BY <1>1 DEF Effective
  <1>3. ASSUME NEW y \in Effective(M), y.action = "exclude" PROVE FALSE
    <2>1. y \in N /\ y \notin Effective(N) /\ y \in Rules
      BY <1>3 DEF Effective, Granting
    <2>2. PICK n \in N : StrictSubset(n, y)
      BY <2>1 DEF Effective
    <2>3. n = x
      BY <1>3, <2>2 DEF Effective
    <2>4. x \notin Effective(N)
      BY DEF Granting
    <2>5. PICK m \in N : StrictSubset(m, x)
      BY <2>4 DEF Effective
    <2>6. m # x
      BY <2>5 DEF StrictSubset
    <2>7. StrictSubset(m, y)
      BY <2>1, <2>2, <2>3, <2>5, StrictTransitive
    <2> QED
      BY <1>3, <2>6, <2>7 DEF Effective
  <1> QED
    BY <1>1, <1>2, <1>3 DEF Granting

\* An inclusion more never withdraws: it only takes effect from others, and
\* from an inclusion only by being effective in its place.
LEMMA InclusionMore ==
    ASSUME NEW M, NEW i \in Rules, M \subseteq Rules, i.action = "include", Granting(M)
    PROVE  Granting(M \cup {i})
  <1> DEFINE N == M \cup {i}
  <1>1. ASSUME NEW y \in Effective(N), y.action = "exclude" PROVE FALSE
    <2>1. y \in Effective(M)
      BY <1>1 DEF Effective
    <2> QED
      BY <1>1, <2>1 DEF Granting
  <1>2. PICK g \in Effective(M) : g.action = "include"
    BY DEF Granting
  <1>3. CASE g \in Effective(N)
    BY <1>1, <1>2, <1>3 DEF Granting
  <1>4. CASE g \notin Effective(N)
    <2>1. PICK n \in N : StrictSubset(n, g)
      BY <1>2, <1>4 DEF Effective
    <2>2. n = i
      BY <1>2, <2>1 DEF Effective
    <2>3. i \in Effective(N)
      <3>1. SUFFICES ASSUME NEW m \in N, StrictSubset(m, i) PROVE FALSE
        BY DEF Effective
      <3>2. g \in Rules /\ m \in Rules
        BY <1>2 DEF Effective
      <3>3. StrictSubset(m, g)
        BY <2>1, <2>2, <3>1, <3>2, StrictTransitive
      <3>4. m # i
        BY <3>1 DEF StrictSubset
      <3> QED
        BY <1>2, <3>3, <3>4 DEF Effective
    <2> QED
      BY <1>1, <2>3 DEF Granting
  <1> QED
    BY <1>3, <1>4

----------------------------------------------------------------------------
(* The specification. *)

LEMMA EntryRule ==
    ASSUME NEW id \in Ids, NEW action \in Actions, NEW e \in Entries
    PROVE  Rule(id, action, e) \in Rules
  <1>1. PICK r \in Rules : e = [kind |-> r.kind, value |-> r.value, scheme |-> r.scheme, port |-> r.port]
    BY EntriesAssumption
  <1>2. /\ e.kind = r.kind /\ e.value = r.value /\ e.scheme = r.scheme /\ e.port = r.port
    BY <1>1
  <1>3. [id |-> id, action |-> action, kind |-> r.kind, value |-> r.value,
         scheme |-> r.scheme, port |-> r.port] \in Rules
    BY RuleFields, MakeRule
  <1> QED
    BY <1>2, <1>3 DEF Rule

LEMMA ReplacementRule ==
    ASSUME NEW rule \in Rules, NEW action \in Actions, NEW e \in Entries,
           e.kind \notin HostnameKinds => rule.scheme = None /\ rule.port = None
    PROVE  LET new == Rule(rule.id, action, [e EXCEPT !.scheme = rule.scheme, !.port = rule.port])
           IN  new \in Rules /\ new.id = rule.id
  <1> DEFINE f == [e EXCEPT !.scheme = rule.scheme, !.port = rule.port]
  <1>1. PICK r \in Rules : e = [kind |-> r.kind, value |-> r.value, scheme |-> r.scheme, port |-> r.port]
    BY EntriesAssumption
  <1>2. /\ e.kind = r.kind /\ e.value = r.value
        /\ DOMAIN e = {"kind", "value", "scheme", "port"}
    BY <1>1
  <1>3. /\ f.kind = r.kind /\ f.value = r.value
        /\ f.scheme = rule.scheme /\ f.port = rule.port
    BY <1>2
  <1> HIDE DEF f
  <1>4. [id |-> rule.id, action |-> action, kind |-> r.kind, value |-> r.value,
         scheme |-> rule.scheme, port |-> rule.port] \in Rules
    BY <1>2, RuleFields, MakeRule
  <1>5. Rule(rule.id, action, f) \in Rules /\ Rule(rule.id, action, f).id = rule.id
    BY <1>3, <1>4 DEF Rule
  <1> QED
    BY <1>5 DEF f

\* The draft is a policy in every reachable state, whatever the rules of the
\* stored policies and whatever the operator types.
THEOREM TypeCorrect == Spec => []TypeOK
<1>1. Init => TypeOK
  BY StoredAssumption, FS_EmptySet DEF Init, TypeOK, IsPolicy
<1>2. TypeOK /\ [Next]_vars => TypeOK'
  <2> SUFFICES ASSUME TypeOK, [Next]_vars PROVE TypeOK'
    OBVIOUS
  <2>1. ASSUME NEW id \in Ids, NEW action \in Actions, NEW e \in Entries, AddRule(id, action, e)
        PROVE  TypeOK'
    <3>1. Rule(id, action, e) \in Rules
      BY EntryRule
    <3>2. Rule(id, action, e).id = id
      BY DEF Rule
    <3>3. IsFiniteSet(draft')
      BY <2>1, FS_AddElement DEF AddRule, TypeOK, IsPolicy
    <3> QED
      BY <2>1, <3>1, <3>2, <3>3 DEF AddRule, TypeOK, IsPolicy, Used
  <2>2. ASSUME NEW a \in Lines, NEW b \in Lines, NEW name \in [{a, b} -> Ids],
               a # b => name[a] # name[b], AddBulk({a, b}, name)
        PROVE  TypeOK'
    <3> DEFINE new(line) == Rule(name[line], line.action, line.entry)
    <3>1. \A line \in {a, b} : new(line) \in Rules
      BY EntryRule DEF Lines
    <3>2. \A line \in {a, b} : new(line).id = name[line] /\ name[line] \notin Used
      BY <2>2 DEF Rule, AddBulk
    <3>3. draft' = draft \cup {new(line) : line \in {a, b}}
      BY <2>2 DEF AddBulk
    <3> HIDE DEF new
    <3>4. draft' = draft \cup {new(a), new(b)}
      BY <3>3
    <3>5. draft' \subseteq Rules
      BY <3>1, <3>4 DEF TypeOK, IsPolicy
    <3>6. ASSUME NEW r \in draft', NEW s \in draft', r.id = s.id PROVE r = s
      BY <2>2, <3>2, <3>4, <3>6 DEF TypeOK, IsPolicy, Used
    <3>7. IsFiniteSet(draft')
      <4>1. draft' = (draft \cup {new(a)}) \cup {new(b)} /\ IsFiniteSet(draft)
        BY <3>4 DEF TypeOK, IsPolicy
      <4> QED
        BY <4>1, FS_AddElement
    <3> QED
      BY <2>2, <3>5, <3>6, <3>7 DEF TypeOK, IsPolicy, AddBulk
  <2>3. ASSUME NEW rule \in draft, NEW action \in Actions, NEW e \in Entries,
               ReplaceRule(rule, action, e)
        PROVE  TypeOK'
    <3> DEFINE new == Rule(rule.id, action, [e EXCEPT !.scheme = rule.scheme, !.port = rule.port])
    <3>1. rule \in Rules
      BY DEF TypeOK, IsPolicy
    <3>2. new \in Rules
      BY <2>3, <3>1, ReplacementRule DEF ReplaceRule
    <3>3. new.id = rule.id
      BY <2>3, <3>1, ReplacementRule DEF ReplaceRule
    <3>4. draft' = (draft \ {rule}) \cup {new}
      BY <2>3 DEF ReplaceRule
    <3> HIDE DEF new
    <3>5. IsFiniteSet(draft')
      BY <3>4, FS_AddElement, FS_RemoveElement DEF TypeOK, IsPolicy
    <3> QED
      BY <2>3, <3>2, <3>3, <3>4, <3>5 DEF TypeOK, IsPolicy, ReplaceRule
  <2>4. ASSUME NEW rule \in draft, RemoveRule(rule) PROVE TypeOK'
    BY <2>4, FS_RemoveElement DEF RemoveRule, TypeOK, IsPolicy
  <2>5. CASE Review
    BY <2>5 DEF Review, vars, TypeOK
  <2>6. CASE UNCHANGED vars
    BY <2>6 DEF vars, TypeOK
  <2> QED
    BY <2>1, <2>2, <2>3, <2>4, <2>5, <2>6 DEF Next
<1> QED
  BY <1>1, <1>2, PTL DEF Spec

Outcome(named, logical, peer) ==
    IF Excluded(named) # {} THEN "blocked"
    ELSE IF logical.outcome = "allowed" /\ peer \in Special /\ Included(named) = {}
    THEN "unknown" ELSE logical.outcome

LEMMA PeerOutcome ==
    ASSUME NEW rules, NEW p, NEW logical,
           DOMAIN logical = {"destination", "peer", "outcome", "reason", "inclusions",
                             "exclusions", "primaryInclusion", "primaryExclusion"}
    PROVE  EvaluateResolvedPeer(rules, logical, p).outcome
             = Outcome({r \in rules : Ipv4RuleMatches(r, p)}, logical, p)
  <1> DEFINE named == {r \in rules : Ipv4RuleMatches(r, p)}
             combined == [logical EXCEPT !.peer = p,
                            !.inclusions = @ \cup Included(named),
                            !.exclusions = @ \cup Excluded(named)]
  <1>1. EvaluateResolvedPeer(rules, logical, p) =
          CASE Excluded(named) # {} ->
                 [combined EXCEPT !.outcome = "blocked", !.reason = "resolved_ip_excluded",
                                  !.primaryExclusion = Excluded(named)]
            [] Excluded(named) = {} /\ logical.outcome = "allowed" /\ p \in Special
                  /\ Included(named) = {} ->
                 [combined EXCEPT !.outcome = "unknown",
                                  !.reason = "resolved_ip_requires_explicit_inclusion",
                                  !.primaryInclusion = {}, !.primaryExclusion = {}]
            [] OTHER -> combined
    BY DEF EvaluateResolvedPeer
  <1>2. combined.outcome = logical.outcome /\ DOMAIN combined = DOMAIN logical
    OBVIOUS
  <1> HIDE DEF combined, named
  <1>3. CASE Excluded(named) # {}
    BY <1>1, <1>2, <1>3 DEF Outcome, named
  <1>4. CASE /\ Excluded(named) = {} /\ logical.outcome = "allowed" /\ p \in Special
             /\ Included(named) = {}
    BY <1>1, <1>2, <1>4 DEF Outcome, named
  <1>5. CASE /\ Excluded(named) = {}
             /\ ~(logical.outcome = "allowed" /\ p \in Special /\ Included(named) = {})
    <2>1. EvaluateResolvedPeer(rules, logical, p) = combined
      BY <1>1, <1>5
    <2> QED
      BY <1>2, <1>5, <2>1 DEF Outcome, named
  <1> QED
    BY <1>3, <1>4, <1>5

\* What it takes for a resolved peer to be allowed.
PeerGranted(rules, p) ==
    /\ \A r \in rules : Ipv4RuleMatches(r, p) => r.action # "exclude"
    /\ p \in Special => \E r \in rules : Ipv4RuleMatches(r, p) /\ r.action = "include"

LEMMA PeerAllowed ==
    ASSUME NEW rules, NEW d, NEW p
    PROVE  EvaluateResolvedPeer(rules, Evaluate(rules, d), p).outcome = "allowed"
             <=> Evaluate(rules, d).outcome = "allowed" /\ PeerGranted(rules, p)
  <1> DEFINE named == {r \in rules : Ipv4RuleMatches(r, p)}
  <1>1. DOMAIN Evaluate(rules, d)
          = {"destination", "peer", "outcome", "reason", "inclusions",
             "exclusions", "primaryInclusion", "primaryExclusion"}
    BY DEF Evaluate
  <1>2. EvaluateResolvedPeer(rules, Evaluate(rules, d), p).outcome
          = Outcome(named, Evaluate(rules, d), p)
    BY <1>1, PeerOutcome
  <1>3. Excluded(named) = {} <=> \A r \in rules : Ipv4RuleMatches(r, p) => r.action # "exclude"
    BY DEF Excluded
  <1>4. Included(named) # {} <=> \E r \in rules : Ipv4RuleMatches(r, p) /\ r.action = "include"
    BY DEF Included
  <1> HIDE DEF named
  <1> QED
    BY <1>2, <1>3, <1>4 DEF Outcome, PeerGranted

\* An address never widens what its hostname was allowed.
THEOREM PeersNarrow == Spec => []PeersOnlyNarrow
<1>1. TypeOK => PeersOnlyNarrow
  <2> SUFFICES ASSUME TypeOK, NEW d \in Asked, NEW p \in Peers(d),
                      EvaluateResolvedPeer(draft, Evaluate(draft, d), p).outcome = "allowed"
               PROVE  /\ Evaluate(draft, d).outcome = "allowed"
                      /\ \A r \in draft : Ipv4RuleMatches(r, p) => r.action = "include"
                      /\ p \in Special => \E r \in draft : Ipv4RuleMatches(r, p)
    BY DEF PeersOnlyNarrow
  <2>1. \A r \in draft : r.action \in {"include", "exclude"}
    BY RuleFields DEF TypeOK, IsPolicy, Actions
  <2> QED
    BY <2>1, PeerAllowed DEF PeerGranted
<1> QED
  BY <1>1, TypeCorrect, PTL

LEMMA MatchingOneMore ==
    ASSUME NEW rules, NEW rule, NEW d
    PROVE  Matching(rules \cup {rule}, d)
             \in {Matching(rules, d), Matching(rules, d) \cup {rule}}
  BY DEF Matching

LEMMA MayExclude ==
    ASSUME NEW M, NEW N, NEW x \in Rules, M \subseteq Rules, x.action = "exclude",
           N \in {M, M \cup {x}}, Granting(N)
    PROVE  Granting(M)
  <1>1. CASE N = M
    BY <1>1
  <1>2. CASE N = M \cup {x}
    BY <1>2, ExclusionMore
  <1> QED
    BY <1>1, <1>2

LEMMA LessWithExclusion ==
    ASSUME NEW rules, NEW x \in Rules, rules \subseteq Rules, x.action = "exclude"
    PROVE  AllowsNoMore(rules \cup {x}, rules)
  <1> SUFFICES ASSUME NEW d \in Asked, Evaluate(rules \cup {x}, d).outcome = "allowed"
               PROVE  /\ Evaluate(rules, d).outcome = "allowed"
                      /\ \A p \in Peers(d) :
                            EvaluateResolvedPeer(rules \cup {x}, Evaluate(rules \cup {x}, d), p).outcome
                                = "allowed"
                              => EvaluateResolvedPeer(rules, Evaluate(rules, d), p).outcome = "allowed"
    BY DEF AllowsNoMore
  <1>1. Granting(Matching(rules \cup {x}, d))
    BY AllowedIsGranting
  <1>2. Matching(rules, d) \subseteq Rules
    BY DEF Matching
  <1>3. Matching(rules \cup {x}, d) \in {Matching(rules, d), Matching(rules, d) \cup {x}}
    BY MatchingOneMore
  <1>4. Granting(Matching(rules, d))
    BY <1>1, <1>2, <1>3, MayExclude
  <1>5. Evaluate(rules, d).outcome = "allowed"
    BY <1>4, AllowedIsGranting
  <1>6. ASSUME NEW p, PeerGranted(rules \cup {x}, p) PROVE PeerGranted(rules, p)
    BY <1>6 DEF PeerGranted
  <1> QED
    BY <1>5, <1>6, PeerAllowed

LEMMA MoreWithInclusion ==
    ASSUME NEW rules, NEW i \in Rules, rules \subseteq Rules, i.action = "include"
    PROVE  AllowsNoMore(rules, rules \cup {i})
  <1> SUFFICES ASSUME NEW d \in Asked, Evaluate(rules, d).outcome = "allowed"
               PROVE  /\ Evaluate(rules \cup {i}, d).outcome = "allowed"
                      /\ \A p \in Peers(d) :
                            EvaluateResolvedPeer(rules, Evaluate(rules, d), p).outcome = "allowed"
                              => EvaluateResolvedPeer(rules \cup {i}, Evaluate(rules \cup {i}, d), p).outcome
                                   = "allowed"
    BY DEF AllowsNoMore
  <1>1. Granting(Matching(rules, d))
    BY AllowedIsGranting
  <1>2. Matching(rules, d) \subseteq Rules
    BY DEF Matching
  <1>3. Granting(Matching(rules \cup {i}, d))
    <2>1. CASE Matching(rules \cup {i}, d) = Matching(rules, d)
      BY <1>1, <2>1
    <2>2. CASE Matching(rules \cup {i}, d) = Matching(rules, d) \cup {i}
      <3>1. Granting(Matching(rules, d) \cup {i})
        BY <1>1, <1>2, InclusionMore
      <3> QED
        BY <2>2, <3>1
    <2>3. \/ Matching(rules \cup {i}, d) = Matching(rules, d)
          \/ Matching(rules \cup {i}, d) = Matching(rules, d) \cup {i}
      BY DEF Matching
    <2> QED
      BY <2>1, <2>2, <2>3
  <1>4. Evaluate(rules \cup {i}, d).outcome = "allowed"
    BY <1>3, AllowedIsGranting
  <1>5. ASSUME NEW p, PeerGranted(rules, p) PROVE PeerGranted(rules \cup {i}, p)
    BY <1>5 DEF PeerGranted
  <1> QED
    BY <1>4, <1>5, PeerAllowed

\* Adding an exclusion never allows a destination and adding an inclusion
\* never withdraws one, for every policy and every destination.
THEOREM EditsAreMonotone == Spec => AddingIsMonotone
<1>1. TypeOK /\ TypeOK' /\ [Next]_vars =>
        [\A rule \in draft' \ draft : draft' = draft \cup {rule} =>
            IF rule.action = "exclude" THEN AllowsNoMore(draft', draft)
                                       ELSE AllowsNoMore(draft, draft')]_vars
  <2> SUFFICES ASSUME TypeOK, TypeOK', NEW rule \in draft' \ draft, draft' = draft \cup {rule}
               PROVE  IF rule.action = "exclude" THEN AllowsNoMore(draft', draft)
                                                 ELSE AllowsNoMore(draft, draft')
    OBVIOUS
  <2>1. draft \subseteq Rules /\ rule \in Rules /\ rule.action \in {"include", "exclude"}
    BY RuleFields DEF TypeOK, IsPolicy, Actions
  <2> QED
    BY <2>1, LessWithExclusion, MoreWithInclusion
<1> QED
  BY <1>1, TypeCorrect, PTL DEF Spec, AddingIsMonotone

----------------------------------------------------------------------------
(* Every matching rule is effective or overridden by an effective one: there *)
(* are finitely many and "narrower" is transitive.                           *)

LEMMA OneIsSmallest ==
    ASSUME NEW S, IsFiniteSet(S), NEW Sets, Sets \subseteq SUBSET S, Sets # {}
    PROVE  \E T \in Sets : \A U \in Sets : U \subseteq T => U = T
  <1>1. IsWellFoundedOn(StrictSubsetOrdering(S), FiniteSubsetsOf(S))
    BY FS_StrictSubsetOrderingWellFounded
  <1>2. Sets \subseteq FiniteSubsetsOf(S)
    BY FS_Subset DEF FiniteSubsetsOf
  <1>3. PICK T \in Sets : \A U \in Sets : ~(<<U, T>> \in StrictSubsetOrdering(S))
    BY <1>1, <1>2, WFMin
  <1>4. \A U \in Sets : U \subseteq T => U = T
    BY <1>3 DEF StrictSubsetOrdering
  <1> QED
    BY <1>4

LEMMA EffectiveBelow ==
    ASSUME NEW M, M \subseteq Rules, IsFiniteSet(M), NEW m \in M
    PROVE  \E e \in Effective(M) : e = m \/ StrictSubset(e, m)
  <1> DEFINE Narrower(r) == {s \in M : StrictSubset(s, r)}
             Reaching == {r \in M : r = m \/ StrictSubset(r, m)}
             Sets == {Narrower(r) : r \in Reaching}
  <1>1. Sets \subseteq SUBSET M /\ Narrower(m) \in Sets
    OBVIOUS
  <1>2. PICK T \in Sets : \A U \in Sets : U \subseteq T => U = T
    <2> HIDE DEF Sets
    <2> QED
      BY <1>1, OneIsSmallest
  <1>3. PICK e \in Reaching : T = Narrower(e)
    OBVIOUS
  <1>4. e \in Effective(M)
    <2>1. SUFFICES ASSUME NEW s \in M, StrictSubset(s, e) PROVE FALSE
      BY DEF Effective
    <2>2. s \in Reaching
      BY <2>1, StrictTransitive
    <2>3. Narrower(s) \subseteq Narrower(e)
      BY <2>1, StrictTransitive
    <2>4. Narrower(s) = Narrower(e)
      BY <1>2, <1>3, <2>2, <2>3
    <2>5. StrictSubset(s, s)
      BY <2>1, <2>4
    <2> QED
      BY <2>5 DEF StrictSubset
  <1> QED
    BY <1>4

----------------------------------------------------------------------------
(* Decisions that their constructor accepts. *)

LEMMA LogicalValid ==
    ASSUME NEW rules, rules \subseteq Rules, IsFiniteSet(rules), NEW d
    PROVE  ValidDecision(Evaluate(rules, d))
  <1> DEFINE M == Matching(rules, d)
             effective == Effective(M)
             outcome == Evaluate(rules, d).outcome
  <1>1. /\ Evaluate(rules, d).peer = None
        /\ outcome = (IF Excluded(effective) # {} THEN "blocked"
                      ELSE IF Included(effective) # {} THEN "allowed" ELSE "unknown")
        /\ Evaluate(rules, d).reason
              = (CASE outcome = "blocked" -> "explicit_exclusion"
                   [] outcome = "allowed" -> "included"
                   [] OTHER               -> "no_matching_inclusion")
        /\ Evaluate(rules, d).inclusions = Included(M)
        /\ Evaluate(rules, d).exclusions = Excluded(M)
        /\ Evaluate(rules, d).primaryInclusion = Included(effective)
        /\ Evaluate(rules, d).primaryExclusion = Excluded(effective)
    BY DEF Evaluate
  <1>2. effective \subseteq M /\ M \subseteq Rules /\ IsFiniteSet(M)
    BY FS_Subset DEF Effective, Matching
  <1>3. Included(effective) \subseteq Included(M) /\ Excluded(effective) \subseteq Excluded(M)
    BY <1>2 DEF Included, Excluded
  <1>4. ASSUME Included(effective) = {}, Excluded(effective) = {}
        PROVE  Included(M) = {} /\ Excluded(M) = {}
    <2>1. \A r \in effective : r.action \in {"include", "exclude"}
      BY <1>2, RuleFields DEF Actions
    <2>2. effective = {}
      BY <1>4, <2>1 DEF Included, Excluded
    <2>3. M = {}
      BY <1>2, <2>2, EffectiveBelow
    <2> QED
      BY <2>3 DEF Included, Excluded
  <1> HIDE DEF M, effective, outcome
  <1>5. CASE Excluded(effective) # {}
    BY <1>1, <1>3, <1>5 DEF ValidDecision, outcome
  <1>6. CASE Excluded(effective) = {} /\ Included(effective) # {}
    BY <1>1, <1>3, <1>6 DEF ValidDecision, outcome
  <1>7. CASE Excluded(effective) = {} /\ Included(effective) = {}
    BY <1>1, <1>4, <1>7 DEF ValidDecision, outcome
  <1> QED
    BY <1>5, <1>6, <1>7

LEMMA PeerValid ==
    ASSUME NEW rules, rules \subseteq Rules, IsFiniteSet(rules), NEW d, NEW p \in Addresses,
           SupportsResolvedPeer(d)
    PROVE  ValidDecision(EvaluateResolvedPeer(rules, Evaluate(rules, d), p))
  <1> DEFINE named == {r \in rules : Ipv4RuleMatches(r, p)}
             logical == Evaluate(rules, d)
             combined == [logical EXCEPT !.peer = p,
                            !.inclusions = @ \cup Included(named),
                            !.exclusions = @ \cup Excluded(named)]
             final == EvaluateResolvedPeer(rules, logical, p)
  <1>1. final =
          CASE Excluded(named) # {} ->
                 [combined EXCEPT !.outcome = "blocked", !.reason = "resolved_ip_excluded",
                                  !.primaryExclusion = Excluded(named)]
            [] Excluded(named) = {} /\ logical.outcome = "allowed" /\ p \in Special
                  /\ Included(named) = {} ->
                 [combined EXCEPT !.outcome = "unknown",
                                  !.reason = "resolved_ip_requires_explicit_inclusion",
                                  !.primaryInclusion = {}, !.primaryExclusion = {}]
            [] OTHER -> combined
    BY DEF EvaluateResolvedPeer
  <1>2. DOMAIN logical = {"destination", "peer", "outcome", "reason", "inclusions",
                          "exclusions", "primaryInclusion", "primaryExclusion"}
        /\ logical.destination = d /\ logical.peer = None
    BY DEF Evaluate
  <1>3. ValidDecision(logical)
    BY LogicalValid
  <1>4. p # None
    BY NoneAssumption
  <1> SUFFICES ValidDecision(final)
    OBVIOUS
  <1> HIDE DEF logical
  <1>5. /\ DOMAIN combined = DOMAIN logical
        /\ combined.destination = d /\ combined.peer = p
        /\ combined.outcome = logical.outcome /\ combined.reason = logical.reason
        /\ combined.inclusions = logical.inclusions \cup Included(named)
        /\ combined.exclusions = logical.exclusions \cup Excluded(named)
        /\ combined.primaryInclusion = logical.primaryInclusion
        /\ combined.primaryExclusion = logical.primaryExclusion
    BY <1>2
  <1> HIDE DEF combined, named, final
  <1>6. CASE Excluded(named) # {}
    <2>1. /\ final.destination = d /\ final.peer = p
          /\ final.outcome = "blocked" /\ final.reason = "resolved_ip_excluded"
          /\ final.inclusions = combined.inclusions /\ final.exclusions = combined.exclusions
          /\ final.primaryInclusion = combined.primaryInclusion
          /\ final.primaryExclusion = Excluded(named)
      BY <1>1, <1>2, <1>5, <1>6
    <2>2. logical.primaryInclusion \subseteq logical.inclusions
      BY <1>3 DEF ValidDecision
    <2>3. /\ final.primaryInclusion \subseteq final.inclusions
          /\ final.primaryExclusion \subseteq final.exclusions
          /\ final.exclusions # {} /\ final.primaryExclusion # {}
      BY <1>5, <1>6, <2>1, <2>2
    <2> QED
      BY <1>4, <2>1, <2>3 DEF ValidDecision
  <1>7. CASE /\ Excluded(named) = {} /\ logical.outcome = "allowed" /\ p \in Special
             /\ Included(named) = {}
    <2>1. /\ final.destination = d /\ final.peer = p
          /\ final.outcome = "unknown" /\ final.reason = "resolved_ip_requires_explicit_inclusion"
          /\ final.inclusions = combined.inclusions /\ final.exclusions = combined.exclusions
          /\ final.primaryInclusion = {} /\ final.primaryExclusion = {}
      BY <1>1, <1>2, <1>5, <1>7
    <2>2. logical.inclusions # {}
      BY <1>3, <1>7 DEF ValidDecision
    <2>3. final.inclusions # {}
      BY <1>5, <2>1, <2>2
    <2> QED
      BY <1>4, <2>1, <2>3 DEF ValidDecision
  <1>8. CASE /\ Excluded(named) = {}
             /\ ~(logical.outcome = "allowed" /\ p \in Special /\ Included(named) = {})
    <2>1. final = combined
      BY <1>1, <1>8
    <2>2. combined.exclusions = logical.exclusions
          /\ logical.inclusions \subseteq combined.inclusions
      BY <1>5, <1>8
    <2>3. logical.reason # "resolved_ip_requires_explicit_inclusion"
          /\ logical.reason # "resolved_ip_excluded"
      BY DEF logical, Evaluate
    <2>4. logical.outcome \in {"allowed", "blocked", "unknown"}
      BY DEF logical, Evaluate
    <2>5. CASE logical.outcome = "allowed"
      <3>1. ValidDecision(combined)
        BY <1>2, <1>3, <1>4, <1>5, <2>2, <2>3, <2>5 DEF ValidDecision
      <3> QED
        BY <2>1, <3>1
    <2>6. CASE logical.outcome = "blocked"
      <3>1. ValidDecision(combined)
        BY <1>2, <1>3, <1>4, <1>5, <2>2, <2>3, <2>6 DEF ValidDecision
      <3> QED
        BY <2>1, <3>1
    <2>7. CASE logical.outcome = "unknown"
      <3>1. ValidDecision(combined)
        BY <1>2, <1>3, <1>4, <1>5, <2>2, <2>3, <2>7 DEF ValidDecision
      <3> QED
        BY <2>1, <3>1
    <2> QED
      BY <2>4, <2>5, <2>6, <2>7
  <1> QED
    BY <1>6, <1>7, <1>8

\* No destination and no peer makes the evaluation raise instead of answering.
THEOREM DecisionsAreMade == Spec => []DecisionsWellFormed
<1>1. TypeOK => DecisionsWellFormed
  <2> SUFFICES ASSUME TypeOK, NEW d \in Asked
               PROVE  /\ ValidDecision(Evaluate(draft, d))
                      /\ \A p \in Peers(d) :
                            ValidDecision(EvaluateResolvedPeer(draft, Evaluate(draft, d), p))
    BY DEF DecisionsWellFormed
  <2>1. draft \subseteq Rules /\ IsFiniteSet(draft)
    BY DEF TypeOK, IsPolicy
  <2>2. \A p \in Peers(d) : p \in Addresses /\ SupportsResolvedPeer(d)
    BY DEF Peers
  <2> QED
    BY <2>1, <2>2, LogicalValid, PeerValid
<1> QED
  BY <1>1, TypeCorrect, PTL

----------------------------------------------------------------------------
(* The converse of SubsetSound: what matches no more is recognised as a       *)
(* subset, provided that the destinations can tell: there are two schemes,    *)
(* two ports, a query and the root path, and two names below a wildcard.      *)

Branching(suffix) ==
    \E a, b \in Labels : a # b /\ Append(suffix, a) \in Hosts /\ Append(suffix, b) \in Hosts

BranchesOut(rule) == rule.kind = "wildcard_subdomain" => Branching(rule.value)

Distinguishing ==
    /\ \A scheme \in Schemes \cup {None} : \E other \in Schemes : other # scheme
    /\ \A port \in Ports \cup {None} : \E other \in Ports : other # port
    /\ \E query \in Queries : query # None
    /\ <<Empty>> \in Paths

Covers(s, r) == \A d \in Destinations : RuleMatches(r, d) => RuleMatches(s, d)

LEMMA ToDestinations ==
    /\ \A a \in Addresses : [kind |-> "ipv4", value |-> a] \in Destinations
    /\ \A u \in Urls : [kind |-> "http_url", value |-> u] \in Destinations
  BY DEF Destinations

LEMMA CoversAddress ==
    ASSUME NEW r, NEW s, Covers(s, r), NEW a \in Addresses, Ipv4RuleMatches(r, a)
    PROVE  Ipv4RuleMatches(s, a)
  <1> DEFINE d == [kind |-> "ipv4", value |-> a]
  <1>1. d \in Destinations /\ d.kind = "ipv4" /\ d.value = a
    BY ToDestinations
  <1>2. RuleMatches(r, d)
    BY <1>1 DEF RuleMatches
  <1>3. RuleMatches(s, d)
    BY <1>1, <1>2 DEF Covers
  <1> QED
    BY <1>1, <1>3 DEF RuleMatches

LEMMA CoversUrl ==
    ASSUME NEW r, NEW s, Covers(s, r), NEW u \in Urls, UrlRuleMatches(r, u)
    PROVE  UrlRuleMatches(s, u)
  <1> DEFINE d == [kind |-> "http_url", value |-> u]
  <1>1. d \in Destinations /\ d.kind = "http_url" /\ d.value = u
    BY ToDestinations
  <1>2. RuleMatches(r, d)
    BY <1>1 DEF RuleMatches
  <1>3. RuleMatches(s, d)
    BY <1>1, <1>2 DEF Covers
  <1> QED
    BY <1>1, <1>3 DEF RuleMatches

LEMMA UrlMatchByKind ==
    ASSUME NEW s \in Rules, NEW u, UrlRuleMatches(s, u)
    PROVE  \/ s.kind = "exact_http_url" /\ s.value = u
           \/ /\ s.kind = "http_path_prefix" /\ Origin(s.value) = Origin(u)
              /\ PathPrefixMatches(s.value.path, u.path)
           \/ /\ s.kind \in HostnameKinds /\ u.host \in Hosts
              /\ HostnameRuleMatches(s, u.host) /\ TransportMatches(s, u)
           \/ s.kind \in AddressKinds /\ u.host \in Addresses /\ Ipv4RuleMatches(s, u.host)
  BY DEF UrlRuleMatches, HostnameRuleMatches, Ipv4RuleMatches, HostnameKinds, AddressKinds

\* A child of a suffix is below it, and below what the suffix is below only.
LEMMA Child ==
    ASSUME NEW suffix \in Hosts, NEW label \in Labels, Append(suffix, label) \in Hosts
    PROVE  /\ Below(Append(suffix, label), suffix)
           /\ \A t \in Hosts : Below(Append(suffix, label), t)
                                 => suffix = t \/ Below(suffix, t)
  <1> DEFINE child == Append(suffix, label)
  <1>1. suffix \in Seq(Labels) /\ Len(suffix) \in Nat
    BY HostsAssumption
  <1>2. Len(child) = Len(suffix) + 1 /\ \A i \in 1..Len(suffix) : child[i] = suffix[i]
    BY <1>1
  <1>3. Below(child, suffix)
    BY <1>1, <1>2 DEF Below
  <1> HIDE DEF child
  <1>4. ASSUME NEW t \in Hosts, Below(child, t) PROVE suffix = t \/ Below(suffix, t)
    <2>1. t \in Seq(Labels) /\ Len(t) \in Nat
      BY HostsAssumption
    <2>2. Len(t) <= Len(suffix) /\ \A i \in 1..Len(t) : suffix[i] = t[i]
      BY <1>1, <1>2, <1>4, <2>1 DEF Below
    <2>3. CASE Len(t) = Len(suffix)
      BY <1>1, <2>1, <2>2, <2>3, SeqEqual
    <2>4. CASE Len(t) < Len(suffix)
      BY <1>1, <2>1, <2>2, <2>4 DEF Below
    <2> QED
      BY <1>1, <2>1, <2>2, <2>3, <2>4
  <1> QED
    BY <1>3, <1>4 DEF child

LEMMA MatchedHosts ==
    ASSUME NEW r \in Rules, r.kind \in HostnameKinds, BranchesOut(r)
    PROVE  /\ \E h \in Hosts : HostnameRuleMatches(r, h)
           /\ r.kind = "wildcard_subdomain" =>
                 \E a, b \in Labels :
                    /\ Append(r.value, a) \in Hosts /\ HostnameRuleMatches(r, Append(r.value, a))
                    /\ Append(r.value, b) \in Hosts /\ HostnameRuleMatches(r, Append(r.value, b))
                    /\ Append(r.value, a) # Append(r.value, b)
  <1>1. r.value \in Hosts
    BY RuleFields
  <1>2. CASE r.kind = "exact_hostname"
    BY <1>1, <1>2 DEF HostnameRuleMatches
  <1>3. CASE r.kind = "wildcard_subdomain"
    <2>1. PICK a \in Labels, b \in Labels :
              a # b /\ Append(r.value, a) \in Hosts /\ Append(r.value, b) \in Hosts
      BY <1>3 DEF BranchesOut, Branching
    <2>2. Below(Append(r.value, a), r.value) /\ Below(Append(r.value, b), r.value)
      BY <1>1, <2>1, Child
    <2>3. Append(r.value, a) # Append(r.value, b)
      <3>1. r.value \in Seq(Labels)
        BY <1>1, HostsAssumption
      <3>2. /\ Append(r.value, a)[Len(r.value) + 1] = a
            /\ Append(r.value, b)[Len(r.value) + 1] = b
        BY <3>1
      <3> QED
        BY <2>1, <3>2
    <2> QED
      BY <1>3, <2>1, <2>2, <2>3 DEF HostnameRuleMatches
  <1> QED
    BY <1>2, <1>3 DEF HostnameKinds

LEMMA PatternComplete ==
    ASSUME NEW r \in Rules, NEW s \in Rules, r.kind \in HostnameKinds, s.kind \in HostnameKinds,
           BranchesOut(r),
           \A h \in Hosts : HostnameRuleMatches(r, h) => HostnameRuleMatches(s, h)
    PROVE  HostnamePatternIsSubset(r, s)
  <1>1. r.value \in Hosts /\ s.value \in Hosts
    BY RuleFields
  <1>2. CASE r.kind = "exact_hostname"
    BY <1>1, <1>2 DEF HostnameRuleMatches, HostnamePatternIsSubset
  <1>3. CASE r.kind = "wildcard_subdomain"
    <2>1. PICK a \in Labels, b \in Labels :
              /\ Append(r.value, a) \in Hosts /\ HostnameRuleMatches(r, Append(r.value, a))
              /\ Append(r.value, b) \in Hosts /\ HostnameRuleMatches(r, Append(r.value, b))
              /\ Append(r.value, a) # Append(r.value, b)
      BY <1>3, MatchedHosts
    <2>2. /\ HostnameRuleMatches(s, Append(r.value, a))
          /\ HostnameRuleMatches(s, Append(r.value, b))
      BY <2>1
    <2>3. s.kind = "wildcard_subdomain"
      BY <2>1, <2>2 DEF HostnameRuleMatches
    <2>4. Below(Append(r.value, a), s.value)
      BY <2>2, <2>3 DEF HostnameRuleMatches
    <2>5. r.value = s.value \/ Below(r.value, s.value)
      BY <1>1, <2>1, <2>4, Child
    <2> QED
      BY <1>3, <2>3, <2>5 DEF HostnamePatternIsSubset
  <1> QED
    BY <1>2, <1>3 DEF HostnameKinds

LEMMA AddressComplete ==
    ASSUME NEW r \in Rules, NEW s \in Rules, r.kind \in AddressKinds, Covers(s, r)
    PROVE  AuthorityIsSubset(r, s)
  <1>1. CASE r.kind = "exact_ipv4"
    <2>1. r.value \in Addresses /\ Ipv4RuleMatches(r, r.value)
      BY <1>1, RuleFields DEF Ipv4RuleMatches
    <2>2. Ipv4RuleMatches(s, r.value)
      BY <2>1, CoversAddress
    <2> QED
      BY <1>1, <2>2 DEF Ipv4IsSubset, AuthorityIsSubset
  <1>2. CASE r.kind = "ipv4_cidr"
    <2>1. r.value # {} /\ r.value \subseteq Addresses
      <3>1. r.value \in Networks
        BY <1>2, RuleFields
      <3> QED
        BY <3>1, AddressesAssumption
    <2>2. \A a \in r.value : Ipv4RuleMatches(s, a)
      BY <1>2, <2>1, CoversAddress DEF Ipv4RuleMatches
    <2>3. CASE s.kind = "exact_ipv4"
      <3>1. r.value = {s.value}
        BY <2>1, <2>2, <2>3 DEF Ipv4RuleMatches
      <3> QED
        BY <1>2, <2>3, <3>1 DEF Ipv4IsSubset, AuthorityIsSubset
    <2>4. CASE s.kind = "ipv4_cidr"
      <3>1. r.value \subseteq s.value
        BY <2>2, <2>4 DEF Ipv4RuleMatches
      <3> QED
        BY <1>2, <2>4, <3>1 DEF Ipv4IsSubset, AuthorityIsSubset
    <2> QED
      BY <2>1, <2>2, <2>3, <2>4 DEF Ipv4RuleMatches
  <1> QED
    BY <1>1, <1>2 DEF AddressKinds

LEMMA HttpComplete ==
    ASSUME Distinguishing, NEW r \in Rules, NEW s \in Rules, r.kind \in HttpKinds, Covers(s, r)
    PROVE  AuthorityIsSubset(r, s)
  <1>1. r.value \in Urls /\ r.value.path \in Paths
    BY RuleFields, UrlFields
  <1>2. UrlRuleMatches(r, r.value)
    <2>1. PathPrefixMatches(r.value.path, r.value.path)
      BY <1>1, AnchoredRange DEF PathPrefixMatches
    <2> QED
      BY <2>1 DEF UrlRuleMatches, HttpKinds
  <1>3. UrlRuleMatches(s, r.value)
    BY <1>1, <1>2, CoversUrl
  <1>4. CASE s.kind = "exact_http_url" /\ r.kind = "http_path_prefix"
    <2>1. r.value.query = None
      BY <1>4, RuleFields
    <2>2. PICK q \in Queries : q # None
      BY DEF Distinguishing
    <2> DEFINE u == [r.value EXCEPT !.query = q]
    <2>3. /\ u \in Urls /\ u.query = q /\ u.path = r.value.path
          /\ Origin(u) = Origin(r.value)
      BY <1>1 DEF Urls, Origin
    <2>4. PathPrefixMatches(r.value.path, u.path)
      BY <1>1, <2>3, AnchoredRange DEF PathPrefixMatches
    <2>5. UrlRuleMatches(r, u)
      BY <1>4, <2>3, <2>4 DEF UrlRuleMatches
    <2>6. UrlRuleMatches(s, u)
      BY <2>3, <2>5, CoversUrl
    <2>7. s.value = u /\ s.value = r.value
      BY <1>3, <1>4, <2>6, UrlMatchByKind DEF HostnameKinds, AddressKinds
    <2> QED
      BY <2>1, <2>2, <2>3, <2>7
  <1>5. CASE ~(s.kind = "exact_http_url" /\ r.kind = "http_path_prefix")
    <2>1. HttpIsSubset(r, s)
      BY <1>3, <1>5, UrlMatchByKind DEF HttpIsSubset, HttpKinds
    <2> QED
      BY <2>1 DEF AuthorityIsSubset
  <1> QED
    BY <1>4, <1>5

\* The root of an origin, with and without a query.
Root(scheme, host, port, query) ==
    [scheme |-> scheme, host |-> host, port |-> port, path |-> <<Empty>>, query |-> query]

LEMMA CoversRoot ==
    ASSUME Distinguishing, NEW r \in Rules, NEW s \in Rules, Covers(s, r),
           NEW h \in Hosts, HostnameRuleMatches(r, h),
           NEW scheme \in Schemes, r.scheme \in {None, scheme},
           NEW port \in Ports, r.port \in {None, port}, NEW query \in Queries \cup {None}
    PROVE  /\ s.kind = "exact_http_url" => s.value.query = query
           /\ s.kind \notin AddressKinds
           /\ s.kind = "http_path_prefix" =>
                 /\ s.value.scheme = scheme /\ s.value.host = h /\ s.value.port = port
                 /\ s.value.path = <<Empty>>
           /\ s.kind \in HostnameKinds =>
                 /\ HostnameRuleMatches(s, h)
                 /\ s.scheme \in {None, scheme} /\ s.port \in {None, port}
  <1> DEFINE u == Root(scheme, h, port, query)
  <1>1. /\ u.scheme = scheme /\ u.host = h /\ u.port = port /\ u.path = <<Empty>>
        /\ u.query = query
    BY DEF Root
  <1>2. u \in Urls
    BY DEF Root, Urls, Distinguishing
  <1>3. UrlRuleMatches(r, u)
    BY <1>1 DEF UrlRuleMatches, TransportMatches
  <1>4. UrlRuleMatches(s, u)
    BY <1>2, <1>3, CoversUrl
  <1> HIDE DEF u
  <1>5. h \notin Addresses
    BY AddressesAssumption
  <1>6. ASSUME s.kind = "http_path_prefix"
        PROVE  /\ s.value.scheme = scheme /\ s.value.host = h /\ s.value.port = port
               /\ s.value.path = <<Empty>>
    <2>1. Origin(s.value) = Origin(u) /\ PathPrefixMatches(s.value.path, u.path)
      BY <1>4, <1>6, UrlMatchByKind DEF HostnameKinds, AddressKinds
    <2>2. s.value.path \in Paths
      BY <1>6, RuleFields, UrlFields DEF HttpKinds
    <2>3. s.value.path = <<Empty>>
      BY <1>1, <2>1, <2>2, OnlyRootCoversRoot
    <2> QED
      BY <1>1, <2>1, <2>3 DEF Origin
  <1>7. s.kind = "exact_http_url" => s.value = u
    BY <1>4, UrlMatchByKind DEF HostnameKinds, AddressKinds
  <1>8. s.kind \notin AddressKinds
    BY <1>1, <1>4, <1>5, UrlMatchByKind DEF HostnameKinds, AddressKinds
  <1>9. s.kind \in HostnameKinds => HostnameRuleMatches(s, h) /\ TransportMatches(s, u)
    BY <1>1, <1>4, UrlMatchByKind DEF HostnameKinds, AddressKinds
  <1> QED
    BY <1>1, <1>6, <1>7, <1>8, <1>9 DEF TransportMatches

LEMMA HostComplete ==
    ASSUME Distinguishing, NEW r \in Rules, NEW s \in Rules, r.kind \in HostnameKinds,
           BranchesOut(r), Covers(s, r)
    PROVE  AuthorityIsSubset(r, s)
  <1>1. r.scheme \in Schemes \cup {None} /\ r.port \in Ports \cup {None}
        /\ s.kind \in HostnameKinds \cup AddressKinds \cup HttpKinds
        /\ None \notin Schemes /\ None \notin Ports
    BY RuleFields, NoneAssumption
  <1>2. PICK scheme \in Schemes : r.scheme \in {None, scheme}
    BY <1>1 DEF Distinguishing
  <1>3. PICK port \in Ports : r.port \in {None, port}
    BY <1>1 DEF Distinguishing
  <1>4. PICK h \in Hosts : HostnameRuleMatches(r, h)
    BY MatchedHosts
  <1>5. PICK query \in Queries : query # None
    BY DEF Distinguishing
  <1>6. s.kind # "exact_http_url"
    <2>1. s.kind = "exact_http_url" => s.value.query = query
      BY <1>2, <1>3, <1>4, CoversRoot
    <2>2. s.kind = "exact_http_url" => s.value.query = None
      BY <1>2, <1>3, <1>4, CoversRoot
    <2> QED
      BY <1>5, <2>1, <2>2
  <1>7. s.kind \notin AddressKinds
    BY <1>2, <1>3, <1>4, CoversRoot
  <1>8. CASE s.kind = "http_path_prefix"
    <2>1. ASSUME NEW g \in Hosts, HostnameRuleMatches(r, g) PROVE s.value.host = g
      BY <1>2, <1>3, <1>8, <2>1, CoversRoot
    <2>2. r.kind = "exact_hostname"
      <3>1. CASE r.kind = "wildcard_subdomain"
        BY <2>1, <3>1, MatchedHosts
      <3> QED
        BY <3>1 DEF HostnameKinds
    <2>3. s.value.host = r.value /\ s.value.path = <<Empty>>
          /\ s.value.scheme = scheme /\ s.value.port = port
      BY <1>2, <1>3, <1>4, <1>8, <2>2, CoversRoot DEF HostnameRuleMatches
    <2>4. r.scheme = scheme
      <3>1. PICK other \in Schemes : other # scheme
        BY DEF Distinguishing
      <3>2. r.scheme = None => s.value.scheme = other
        BY <1>3, <1>4, <1>8, CoversRoot
      <3> QED
        BY <1>2, <2>3, <3>1, <3>2
    <2>5. r.port = port
      <3>1. PICK other \in Ports : other # port
        BY DEF Distinguishing
      <3>2. r.port = None => s.value.port = other
        BY <1>2, <1>4, <1>8, CoversRoot
      <3> QED
        BY <1>3, <2>3, <3>1, <3>2
    <2>6. QualifiedHostIsRootPrefix(r, s)
      BY <1>1, <1>8, <2>2, <2>3, <2>4, <2>5 DEF QualifiedHostIsRootPrefix, Origin
    <2> QED
      BY <2>6 DEF AuthorityIsSubset
  <1>9. CASE s.kind \in HostnameKinds
    <2>1. \A g \in Hosts : HostnameRuleMatches(r, g) => HostnameRuleMatches(s, g)
      BY <1>2, <1>3, <1>9, CoversRoot
    <2>2. HostnamePatternIsSubset(r, s)
      BY <1>9, <2>1, PatternComplete
    <2>3. s.scheme = None \/ r.scheme = s.scheme
      <3>1. s.scheme \in {None, scheme}
        BY <1>2, <1>3, <1>4, <1>9, CoversRoot
      <3>2. PICK other \in Schemes : other # scheme
        BY DEF Distinguishing
      <3>3. r.scheme = None => s.scheme \in {None, other}
        BY <1>3, <1>4, <1>9, CoversRoot
      <3> QED
        BY <1>2, <3>1, <3>2, <3>3
    <2>4. s.port = None \/ r.port = s.port
      <3>1. s.port \in {None, port}
        BY <1>2, <1>3, <1>4, <1>9, CoversRoot
      <3>2. PICK other \in Ports : other # port
        BY DEF Distinguishing
      <3>3. r.port = None => s.port \in {None, other}
        BY <1>2, <1>4, <1>9, CoversRoot
      <3> QED
        BY <1>3, <3>1, <3>2, <3>3
    <2> QED
      BY <1>9, <2>2, <2>3, <2>4 DEF TransportIsSubset, AuthorityIsSubset
  <1> QED
    BY <1>1, <1>6, <1>7, <1>8, <1>9 DEF HttpKinds

\* The test is complete: it recognises every rule that matches no more than
\* another, of any two kinds.
THEOREM SubsetComplete ==
    ASSUME Distinguishing, NEW r \in Rules, NEW s \in Rules, BranchesOut(r), Covers(s, r)
    PROVE  AuthorityIsSubset(r, s)
  <1>1. CASE r.kind \in HostnameKinds
    BY <1>1, HostComplete
  <1>2. CASE r.kind \in AddressKinds
    BY <1>2, AddressComplete
  <1>3. CASE r.kind \in HttpKinds
    BY <1>3, HttpComplete
  <1> QED
    BY <1>1, <1>2, <1>3, RuleFields

----------------------------------------------------------------------------
(* The precedence between the rules of a draft.  The hypothesis is about the  *)
(* universe of destinations, not about the rules' relations: every            *)
(* destination is asked for, the destinations distinguish the transports and  *)
(* queries, and a wildcard has more than one name below it.                   *)

Telling ==
    /\ Asked = Destinations /\ Distinguishing
    /\ \A entry \in Entries : BranchesOut(entry)
    /\ \A rules \in Stored : \A rule \in rules : BranchesOut(rule)

AllBranchOut == \A rule \in draft : BranchesOut(rule)

LEMMA WildcardsBranch == ASSUME Telling PROVE Spec => []AllBranchOut
<1>1. Init => AllBranchOut
  BY DEF Init, AllBranchOut, Telling
<1>2. ASSUME NEW id, NEW action, NEW e \in Entries PROVE BranchesOut(Rule(id, action, e))
  BY DEF Rule, BranchesOut, Telling
<1>3. TypeOK /\ AllBranchOut /\ [Next]_vars => AllBranchOut'
  <2> SUFFICES ASSUME TypeOK, AllBranchOut, [Next]_vars PROVE AllBranchOut'
    OBVIOUS
  <2>1. ASSUME NEW id \in Ids, NEW action \in Actions, NEW e \in Entries, AddRule(id, action, e)
        PROVE  AllBranchOut'
    BY <1>2, <2>1 DEF AddRule, AllBranchOut
  <2>2. ASSUME NEW a \in Lines, NEW b \in Lines, NEW name \in [{a, b} -> Ids], AddBulk({a, b}, name)
        PROVE  AllBranchOut'
    <3>1. \A line \in {a, b} : BranchesOut(Rule(name[line], line.action, line.entry))
      BY <1>2 DEF Lines
    <3> QED
      BY <2>2, <3>1 DEF AddBulk, AllBranchOut
  <2>3. ASSUME NEW rule \in draft, NEW action \in Actions, NEW e \in Entries,
               ReplaceRule(rule, action, e)
        PROVE  AllBranchOut'
    <3> DEFINE f == [e EXCEPT !.scheme = rule.scheme, !.port = rule.port]
    <3>1. f.kind = e.kind /\ f.value = e.value
      BY EntriesAssumption
    <3>2. BranchesOut(Rule(rule.id, action, f))
      BY <3>1 DEF Rule, BranchesOut, Telling
    <3> HIDE DEF f
    <3>3. draft' = (draft \ {rule}) \cup {Rule(rule.id, action, f)}
      BY <2>3 DEF ReplaceRule, f
    <3> QED
      BY <3>2, <3>3 DEF AllBranchOut
  <2>4. ASSUME NEW rule \in draft, RemoveRule(rule) PROVE AllBranchOut'
    BY <2>4 DEF RemoveRule, AllBranchOut
  <2>5. CASE UNCHANGED vars
    BY <2>5 DEF vars, AllBranchOut
  <2> QED
    BY <2>1, <2>2, <2>3, <2>4, <2>5 DEF Next, Review
<1> QED
  BY <1>1, <1>3, TypeCorrect, PTL DEF Spec

\* Among all destinations, "narrower" is decided rightly on any two rules of
\* any reachable draft.
THEOREM PrecedenceIsDecided == ASSUME Telling PROVE Spec => []PrecedenceIsAuthority
<1>1. TypeOK /\ AllBranchOut => PrecedenceIsAuthority
  <2> SUFFICES ASSUME TypeOK, AllBranchOut, NEW r \in draft, NEW s \in draft
               PROVE  StrictSubset(r, s)
                        <=> Authority(r) \subseteq Authority(s) /\ Authority(r) # Authority(s)
    BY DEF PrecedenceIsAuthority
  <2>1. r \in Rules /\ s \in Rules /\ BranchesOut(r) /\ BranchesOut(s)
    BY DEF TypeOK, IsPolicy, AllBranchOut
  <2>2. ASSUME NEW n \in Rules, NEW b \in Rules, BranchesOut(n)
        PROVE  AuthorityIsSubset(n, b) <=> Authority(n) \subseteq Authority(b)
    <3>1. Asked = Destinations /\ Distinguishing
      BY DEF Telling
    <3>2. Authority(n) \subseteq Authority(b) <=> Covers(b, n)
      BY <3>1 DEF Authority, Covers
    <3>3. AuthorityIsSubset(n, b) => Covers(b, n)
      BY SubsetSound DEF Covers
    <3>4. Covers(b, n) => AuthorityIsSubset(n, b)
      BY <2>2, <3>1, SubsetComplete
    <3> QED
      BY <3>2, <3>3, <3>4
  <2>3. AuthorityIsSubset(r, s) <=> Authority(r) \subseteq Authority(s)
    BY <2>1, <2>2
  <2>4. AuthorityIsSubset(s, r) <=> Authority(s) \subseteq Authority(r)
    BY <2>1, <2>2
  <2> QED
    BY <2>3, <2>4 DEF StrictSubset
<1> QED
  BY <1>1, TypeCorrect, WildcardsBranch, PTL

\* A decision follows the documented precedence: an inclusion may override a
\* broader exclusion, and exclusions win equal or incomparable overlaps,
\* however many rules override each other.
THEOREM PrecedenceDocumented == ASSUME Telling PROVE Spec => []DocumentedPrecedence
<1>1. TypeOK /\ PrecedenceIsAuthority => DocumentedPrecedence
  <2> SUFFICES ASSUME TypeOK, PrecedenceIsAuthority, NEW d \in Asked
               PROVE  LET matching == Matching(draft, d)
                          granting == {r \in matching : r.action = "include"}
                      IN  Evaluate(draft, d).outcome = "allowed" <=>
                            /\ granting # {}
                            /\ \A x \in matching \ granting : \E g \in granting :
                                  Authority(g) \subseteq Authority(x) /\ Authority(g) # Authority(x)
    BY DEF DocumentedPrecedence
  <2> DEFINE M == Matching(draft, d)
             G == {r \in M : r.action = "include"}
  <2>1. M \subseteq draft /\ M \subseteq Rules /\ IsFiniteSet(M) /\ draft \subseteq Rules
    BY FS_Subset DEF TypeOK, IsPolicy, Matching
  <2>2. \A r \in M : r.action \in {"include", "exclude"}
    BY <2>1, RuleFields DEF Actions
  <2>3. Evaluate(draft, d).outcome = "allowed" <=> Granting(M)
    BY <2>1, AllowedIsGranting
  <2>4. \A g, x \in M : StrictSubset(g, x)
           <=> Authority(g) \subseteq Authority(x) /\ Authority(g) # Authority(x)
    BY <2>1 DEF PrecedenceIsAuthority
  <2>5. \A m \in M : \E e \in Effective(M) : e = m \/ StrictSubset(e, m)
    BY <2>1, EffectiveBelow
  <2>6. Effective(M) \subseteq M
    BY DEF Effective
  <2> HIDE DEF M
  <2>7. ASSUME Granting(M)
        PROVE  G # {} /\ \A x \in M \ G : \E g \in G : StrictSubset(g, x)
    <3>1. \A e \in Effective(M) : e \in G
      BY <2>2, <2>6, <2>7 DEF Granting
    <3>2. G # {}
      BY <2>7, <3>1 DEF Granting
    <3>3. \A x \in M \ G : \E g \in G : StrictSubset(g, x)
      BY <2>5, <3>1
    <3> QED
      BY <3>2, <3>3
  <2>8. ASSUME G # {}, \A x \in M \ G : \E g \in G : StrictSubset(g, x)
        PROVE  Granting(M)
    <3>1. \A e \in Effective(M) : e \in G
      BY <2>6, <2>8 DEF Effective
    <3>2. Effective(M) # {}
      BY <2>5, <2>8
    <3> QED
      BY <2>2, <3>1, <3>2 DEF Granting
  <2>9. (\A x \in M \ G : \E g \in G : StrictSubset(g, x))
          <=> \A x \in M \ G : \E g \in G :
                Authority(g) \subseteq Authority(x) /\ Authority(g) # Authority(x)
    BY <2>4
  <2> QED
    BY <2>3, <2>7, <2>8, <2>9 DEF M
<1> QED
  BY <1>1, TypeCorrect, PrecedenceIsDecided, PTL
=============================================================================
