---------------------------- MODULE ScopeEditing ----------------------------
(* The operator edits a programme scope: the menus of                        *)
(* bugslyce/programme_scope_setup.py over the edits of                       *)
(* bugslyce/programme_scope_management.py.  The state is the draft, the      *)
(* policy a final save would make; PolicyFiles models that save.  An edit    *)
(* that is refused (an identifier in use or unknown, an unsupported value, a *)
(* confirmation not typed) raises ValueError and leaves the draft alone.     *)
(* Private notes have no bearing on a decision and are left out.             *)
EXTENDS ProgrammeScope

CONSTANTS
    Entries,   \* what the operator types: kind, value, scheme and port
    Stored,    \* policies a project may start from
    Asked,     \* destinations the decisions are examined for
    MaxRules   \* bound: rules in a draft

ASSUME EntriesAssumption ==
    Entries \subseteq {[kind |-> r.kind, value |-> r.value, scheme |-> r.scheme, port |-> r.port] :
                          r \in {s \in Rules : s.id \in Ids}}
ASSUME StoredAssumption  == \A rules \in Stored : IsPolicy(rules)
ASSUME AskedAssumption   == Asked \subseteq Destinations

VARIABLES
    configured,  \* the project has a stored policy: the longer menu
    draft        \* rules of the draft

vars == <<configured, draft>>

Init ==
    \/ configured = FALSE /\ draft = {}
    \/ configured = TRUE /\ draft \in Stored

Rule(id, action, entry) ==
    [id |-> id, action |-> action, kind |-> entry.kind, value |-> entry.value,
     scheme |-> entry.scheme, port |-> entry.port]

Used == {r.id : r \in draft}

\* One rule typed in; the prompts have no transport qualifiers.
AddRule(id, action, entry) ==
    /\ Cardinality(draft) < MaxRules
    /\ entry.scheme = None /\ entry.port = None
    /\ id \notin Used
    /\ draft' = draft \cup {Rule(id, action, entry)}
    /\ UNCHANGED configured

\* Structured lines: the menu adds all of them to its draft, or none.  Their
\* identifiers are digests of what they say, so that equal lines collapse.
AddBulk(lines, name) ==
    /\ Cardinality(draft) + Cardinality(lines) <= MaxRules
    /\ \A line \in lines : name[line] \notin Used
    /\ draft' = draft \cup {Rule(name[line], line.action, line.entry) : line \in lines}
    /\ UNCHANGED configured

\* A rule keeps its identifier and its transport whatever replaces it; the
\* builder refuses a transport on a rule that is not a hostname's.
ReplaceRule(rule, action, entry) ==
    /\ configured
    /\ entry.kind \notin HostnameKinds => rule.scheme = None /\ rule.port = None
    /\ draft' = (draft \ {rule}) \cup
           {Rule(rule.id, action, [entry EXCEPT !.scheme = rule.scheme, !.port = rule.port])}
    /\ UNCHANGED configured

RemoveRule(rule) ==
    /\ configured
    /\ draft' = draft \ {rule}
    /\ UNCHANGED configured

\* Rules are listed, or an edit is refused.
Review == UNCHANGED vars

\* What a structured line of a bulk text can say once it is parsed.
Lines == [action : Actions, entry : Entries]

Next ==
    \/ \E id \in Ids, action \in Actions, entry \in Entries : AddRule(id, action, entry)
    \/ \E a, b \in Lines : \E name \in [{a, b} -> Ids] :
          (a # b => name[a] # name[b]) /\ AddBulk({a, b}, name)
    \/ \E rule \in draft, action \in Actions, entry \in Entries :
          ReplaceRule(rule, action, entry)
    \/ \E rule \in draft : RemoveRule(rule)
    \/ Review

Spec == Init /\ [][Next]_vars

----------------------------------------------------------------------------
(* Properties. *)

\* Whatever the sequence of edits, the draft is a policy: its identifiers are
\* unique and each rule is one the builder accepts.
TypeOK == configured \in BOOLEAN /\ IsPolicy(draft)

Peers(destination) == IF SupportsResolvedPeer(destination) THEN Addresses ELSE {}

\* Every decision the evaluation computes is one the decision's constructor
\* accepts: no destination or peer can make it raise instead of answering.
DecisionsWellFormed ==
    \A d \in Asked :
        LET logical == Evaluate(draft, d) IN
        /\ ValidDecision(logical)
        /\ \A p \in Peers(d) : ValidDecision(EvaluateResolvedPeer(draft, logical, p))

\* What a rule matches, among the destinations asked for.
Authority(rule) == {d \in Asked : RuleMatches(rule, d)}

\* A rule counts as the narrower of two exactly when it matches strictly less:
\* the test on pairs of rules, without any destination, is never wrong.
PrecedenceIsAuthority ==
    \A r, s \in draft :
        StrictSubset(r, s) <=> Authority(r) \subseteq Authority(s) /\ Authority(r) # Authority(s)

\* "Narrower explicit scope rules may override broader rules; exclusions win
\* equal or incomparable overlaps": a destination is allowed exactly when some
\* inclusion matches it and every exclusion that matches it matches strictly
\* more than one of those inclusions, through any chain of overridden rules.
DocumentedPrecedence ==
    \A d \in Asked :
        LET matching == Matching(draft, d)
            granting == {r \in matching : r.action = "include"}
        IN  Evaluate(draft, d).outcome = "allowed" <=>
              /\ granting # {}
              /\ \A x \in matching \ granting : \E g \in granting :
                    Authority(g) \subseteq Authority(x) /\ Authority(g) # Authority(x)

\* An address only narrows what its hostname was allowed: a resolved peer is
\* allowed only if the name is, no exclusion names the address, and an address
\* of a special network is included by name.
PeersOnlyNarrow ==
    \A d \in Asked :
        LET logical == Evaluate(draft, d) IN
        \A p \in Peers(d) :
            EvaluateResolvedPeer(draft, logical, p).outcome = "allowed" =>
                /\ logical.outcome = "allowed"
                /\ \A r \in draft : Ipv4RuleMatches(r, p) => r.action = "include"
                /\ p \in Special => \E r \in draft : Ipv4RuleMatches(r, p)

\* Whatever some rules allow, others allow too: names and resolved peers.
AllowsNoMore(lesser, greater) ==
    \A d \in Asked :
        LET less == Evaluate(lesser, d)
            more == Evaluate(greater, d)
        IN  less.outcome = "allowed" =>
              /\ more.outcome = "allowed"
              /\ \A p \in Peers(d) :
                    EvaluateResolvedPeer(lesser, less, p).outcome = "allowed"
                        => EvaluateResolvedPeer(greater, more, p).outcome = "allowed"

\* Adding an exclusion never makes a destination allowed, and adding an
\* inclusion never takes an allowed one away, for names and resolved peers
\* alike, although a new rule can override any of the others.
AddingIsMonotone ==
    [][\A rule \in draft' \ draft : draft' = draft \cup {rule} =>
         IF rule.action = "exclude" THEN AllowsNoMore(draft', draft)
                                    ELSE AllowsNoMore(draft, draft')]_vars
=============================================================================
