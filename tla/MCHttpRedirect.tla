--------------------------- MODULE MCHttpRedirect --------------------------
(* Instances of HttpRedirect for TLC: a host with an approved http and      *)
(* https origin, an address that is approved, and one that is not.          *)
EXTENDS HttpRedirect

CONSTANTS p1, p2, host, other

Plain   == [scheme |-> "http", host |-> host]
Secure  == [scheme |-> "https", host |-> host]
Address == [scheme |-> "http", host |-> p1]
Upgrade == [scheme |-> "https", host |-> p1]
Foreign == [scheme |-> "https", host |-> other]

MCOrigins  == {Plain, Secure, Address, Upgrade, Foreign}
MCApproved == {Plain, Secure, Address}

Url(o, page, query, canonical) ==
    [origin |-> o, page |-> page, query |-> query, canonical |-> canonical]

Canonicals == {Url(o, 0, FALSE, TRUE) : o \in MCOrigins}
              \cup {Url(Secure, 1, FALSE, TRUE), Url(Plain, 2, FALSE, TRUE),
                    Url(Plain, 1, TRUE, TRUE)}

\* As above, with a destination that has no path.
Spelled == Canonicals \cup {Url(Foreign, 1, FALSE, FALSE)}

\* One page is excluded, the second address is allowed for one URL only.
MCInScope == Canonicals \ {Url(Plain, 1, TRUE, TRUE)}
MCAllowedPeers == {<<u, p1>> : u \in Canonicals} \cup {<<Url(Secure, 0, FALSE, TRUE), p2>>}
=============================================================================
