--------------------------- MODULE MCScopeEditing ---------------------------
(* An instance of ScopeEditing for TLC: a domain with two levels of           *)
(* subdomains, four transports, three addresses, four networks and paths      *)
(* around a slash.  Every wildcard has more than one subdomain below it and   *)
(* every transport an alternative, so that a rule that is narrower has a      *)
(* destination that tells.                                                    *)
EXTENDS ScopeEditing, TLC

CONSTANTS i1, i2, i3, local, near, far

MCHosts == {<<"test">>, <<"test", "a">>, <<"test", "b">>, <<"test", "a", "x">>, <<"test", "a", "y">>}
MCAddresses == {local, near, far}
MCNetworks  == {{local}, {near, far}, {local, near, far}}
MCPaths     == {<<"">>, <<"a">>, <<"a", "">>, <<"a", "b">>, <<"ab">>}

Url(scheme, host, port, path, query) ==
    [scheme |-> scheme, host |-> host, port |-> port, path |-> path, query |-> query]
Entry(kind, value, scheme, port) ==
    [kind |-> kind, value |-> value, scheme |-> scheme, port |-> port]

app == <<"test", "a">>

MCEntries ==
    {Entry("exact_hostname", app, None, None), Entry("exact_hostname", app, "https", 443),
     Entry("wildcard_subdomain", <<"test">>, None, None),
     Entry("wildcard_subdomain", <<"test">>, None, 443),
     Entry("wildcard_subdomain", app, None, None),
     Entry("exact_http_url", Url("https", app, 443, <<"a">>, "q"), None, None),
     Entry("http_path_prefix", Url("https", app, 443, <<"">>, None), None, None),
     Entry("http_path_prefix", Url("https", app, 443, <<"a">>, None), None, None),
     Entry("http_path_prefix", Url("https", app, 443, <<"a", "">>, None), None, None),
     Entry("http_path_prefix", Url("http", local, 80, <<"">>, None), None, None),
     Entry("exact_ipv4", local, None, None), Entry("ipv4_cidr", {local}, None, None),
     Entry("ipv4_cidr", {local, near, far}, None, None)}

MCStored == {{Rule(i1, "include", Entry("wildcard_subdomain", <<"test">>, None, 443))}}

MCAsked ==
    [kind : {"hostname"}, value : MCHosts] \cup [kind : {"ipv4"}, value : MCAddresses]
    \cup {[kind |-> "http_url", value |-> u] : u \in
             {Url("https", app, 443, path, None) : path \in MCPaths}
             \cup {Url("https", app, 443, <<"a">>, "q")}
             \cup {Url(s, h, p, <<"">>, None) : s \in {"http", "https"}, p \in {80, 443},
                      h \in {app, <<"test", "a", "x">>, local}}
             \cup {Url("http", local, 80, <<"a">>, None), Url("http", near, 80, <<"">>, None)}}

Symmetry == Permutations(Ids)
=============================================================================
