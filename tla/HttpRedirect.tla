---------------------------- MODULE HttpRedirect ---------------------------
(* One request of the HTTP runtime with the redirects it follows, and what  *)
(* native content discovery makes of its outcome:                           *)
(* InternalHTTPExecutor._request of bugslyce/recon/http_enforcement.py and  *)
(* _NativeObservationRecorder._publish_reserved with the record it builds.  *)
(*                                                                          *)
(* Every hop is decided anew: where it may go, which peer stands for it.    *)
(* The resolver and the target are free to answer each hop as they like.    *)
EXTENDS Naturals, Sequences, SequencesExt

CONSTANTS
    Urls,         \* request URLs and redirect destinations, as spelled
    Origins,      \* [scheme, host] of each
    Approved,     \* approved_origins
    MaxHops,      \* maximum_redirect_hops
    InScope,      \* URLs the programme scope policy allows
    Peers,        \* addresses; a host may be one
    AllowedPeers, \* pairs of a URL and a resolved address the policy allows
    None

ASSUME UrlsAssumption ==
    /\ \A u \in Urls : u.origin \in Origins
    /\ \A o \in Origins : o.scheme \in {"http", "https"}
    /\ Approved \subseteq Origins
ASSUME HopsAssumption == MaxHops \in Nat
ASSUME NoneAssumption ==
    /\ None \notin {"redirect_query_not_allowed", "https_downgrade", "http_upgrade_not_approved",
                    "origin_not_approved", "final", "redirect", "429"}
    /\ None \notin Urls

VARIABLES
    pc,         \* "idle", "peer", "exchange", "judge", "done"
    call,       \* the arguments: [url, retain, isolate, query, scoped]
    current,    \* current_url
    next,       \* the URL whose peer is being selected
    peer,       \* selected_ipv4
    redirects,  \* accepted hops
    received,   \* received_exchanges
    outcome,    \* what the call returns or raises
    sent,       \* <<URL, peer>> of each exchange begun        (history)
    answers     \* responses the target has given              (history)

vars == <<pc, call, current, next, peer, redirects, received, outcome, sent, answers>>

\* ISOLATED_HTTP_ENVIRONMENT_FAILURE_CATEGORIES, which are also
\* ATTEMPT_FAILURE_CATEGORIES, and FATAL_HTTP_EXECUTION_STOP_CATEGORIES.
Isolated == {"connect_error", "dns_error", "no_usable_ipv4", "timeout", "tls_error",
             "transport_error"}
Fatal    == {"invalid_resolver_result", "peer_mismatch", "tls_configuration_error"}

\* The failures that can follow the head of a response.
Breaks == {"timeout", "tls_error", "transport_error"}

\* On an executor with a programme scope policy, or on one without.
\* request() retains nothing, request_retaining_refused_redirect() refusals
\* and, if asked to isolate them, failures of what was redirected to.
Calls == {c \in [url : Urls, retain : BOOLEAN, isolate : BOOLEAN, query : BOOLEAN,
                 scoped : BOOLEAN] : c.isolate => c.retain}

\* How native content discovery calls the runtime.
Native(c) == c.retain /\ c.isolate /\ ~c.query

\* A variant with a plausible slip: the first URL is not remembered.
Visited_Hops == {redirects[i].destination : i \in DOMAIN redirects}

\* The URLs of a call that were admitted so far.
Visited == {call.url} \cup {redirects[i].destination : i \in DOMAIN redirects}

Init ==
    /\ pc = "idle"
    /\ call = None /\ current = None /\ next = None /\ peer = None
    /\ redirects = << >> /\ received = << >> /\ outcome = None
    /\ sent = << >> /\ answers = << >>

----------------------------------------------------------------------------
(* Ends of a call. *)

\* It returns a response, with a note on a redirect not followed or None.
Respond(url, hops, exchanges, note) ==
    /\ outcome' = [kind |-> "response", url |-> url, redirects |-> hops,
                   exchanges |-> exchanges, note |-> note]
    /\ pc' = "done"

\* It raises, with the exchanges received.
Raises(kind, why, exchanges) ==
    /\ outcome' = [kind |-> kind, why |-> why, exchanges |-> exchanges]
    /\ pc' = "done"

Followup(source, destination, why) ==
    [kind |-> "followup", source |-> source, destination |-> destination, why |-> why]

Refused(source, destination, why) ==
    [kind |-> "refused", source |-> source, destination |-> destination, why |-> why]

\* Why a redirect is not followed, and all that a response can say of one.
WithDestination == {"http_upgrade_not_approved", "https_downgrade", "origin_not_approved",
                    "redirect_hop_limit", "redirect_loop", "redirect_query_not_allowed"}
Reasons == WithDestination
           \cup {"malformed_location", "redirect_policy_unavailable", "unsupported_redirect"}
Notes == [kind : {"followup"}, source : Urls, destination : Urls, why : Isolated]
         \cup [kind : {"refused"}, source : Urls, destination : Urls \cup {None}, why : Reasons]

ASSUME NotesAssumption == None \notin Notes

\* HTTPRedirectRefused, or the response that was redirected.
Refuse(destination, why) ==
    IF call.retain
    THEN Respond(current, redirects, received, Refused(current, destination, why))
    ELSE Raises("refused", why, received)

----------------------------------------------------------------------------
(* The request and its peer. *)

\* The call is checked: its shape, the scope and the origin.
Request(c) ==
    /\ pc = "idle"
    /\ call' = c /\ next' = c.url
    /\ current' = None /\ peer' = None
    /\ redirects' = << >> /\ received' = << >> /\ sent' = << >> /\ answers' = << >>
    /\ IF c.url.query /\ ~c.query THEN Raises("invalid", "query", << >>)
       ELSE IF c.scoped /\ c.url \notin InScope THEN Raises("scope", "initial", << >>)
       ELSE IF c.url.origin \notin Approved THEN Raises("invalid", "origin", << >>)
       ELSE outcome' = None /\ pc' = "peer"

\* A variant with a plausible slip: a followed redirect keeps its peer.
Admit_KeepsPeer(address) ==
    /\ pc' = "exchange"
    /\ current' = next
    /\ peer' = IF current = None THEN address ELSE peer
    /\ redirects' = IF current = None THEN redirects
                    ELSE Append(redirects, [source |-> current, destination |-> next])
    /\ UNCHANGED <<call, next, received, outcome, sent, answers>>

\* next may be requested, from this peer.
Admit(address) ==
    /\ pc' = "exchange"
    /\ current' = next /\ peer' = address
    /\ redirects' = IF current = None THEN redirects
                    ELSE Append(redirects, [source |-> current, destination |-> next])
    /\ UNCHANGED <<call, next, received, outcome, sent, answers>>

\* select_programme_scope_ipv4_peer: an address stands for itself, a name
\* for the lowest of its addresses if all of them are allowed.  Which one
\* is the lowest is left open.
SelectPeer ==
    /\ pc = "peer"
    /\ IF ~call.scoped THEN Admit(None)
       ELSE IF next.origin.host \in Peers THEN Admit(next.origin.host)
       ELSE \E candidates \in (SUBSET Peers) \ {{}}, lowest \in Peers :
            /\ lowest \in candidates
            /\ \A p \in candidates : <<next, p>> \in AllowedPeers
            /\ Admit(lowest)

\* A resolved address is refused: HTTPProgrammeScopeRefused.
RefusePeer ==
    /\ pc = "peer" /\ call.scoped /\ next.origin.host \notin Peers
    /\ \E p \in Peers : <<next, p>> \notin AllowedPeers
    /\ Raises("scope", "resolved_peer", received)
    /\ UNCHANGED <<call, current, next, peer, redirects, received, sent, answers>>

\* The resolver fails, for the first URL or for a destination.
FailPeer(category) ==
    /\ pc = "peer" /\ call.scoped /\ next.origin.host \notin Peers
    /\ category \in {"dns_error", "no_usable_ipv4", "invalid_resolver_result"}
    /\ IF current # None /\ call.retain /\ call.isolate /\ category \in Isolated
       THEN Respond(current, redirects, received, Followup(current, next, category))
       ELSE Raises("failure", category, received)
    /\ UNCHANGED <<call, current, next, peer, redirects, received, sent, answers>>

----------------------------------------------------------------------------
(* The exchange. *)

\* The permit is refused: the handle was closed, or another thread has been
\* answered 429.  Discovery shares its runtime with no other thread.
Unavailable(why) ==
    /\ pc = "exchange"
    /\ \/ why = "closed" /\ Raises("closed", why, << >>)
       \/ why = "rate" /\ ~Native(call) /\ Raises("rate", why, received)
    /\ UNCHANGED <<call, current, next, peer, redirects, received, sent, answers>>

Transmit(status) ==
    /\ pc = "exchange"
    /\ sent' = Append(sent, <<current, peer>>)
    /\ answers' = IF status = None THEN answers
                  ELSE Append(answers, [url |-> current, status |-> status])

\* The target answers in full.
Answer(status) ==
    /\ Transmit(status)
    /\ received' = Append(received, [url |-> current, status |-> status])
    /\ IF status = "429" THEN Raises("rate", status, received')
       ELSE IF status = "final" THEN Respond(current, redirects, received', None)
       ELSE pc' = "judge" /\ UNCHANGED outcome
    /\ UNCHANGED <<call, current, next, peer, redirects>>

\* A variant with a plausible slip: the head of a broken response is lost.
Heard_Whole(status) == received

\* The exchanges of a failure: the head of a broken response is one more.
Heard(status) ==
    IF status = None THEN received
    ELSE Append(received, [url |-> current, status |-> status])

\* A variant with a plausible slip: the failed hop stays among the redirects.
FollowedTo_All == redirects

\* redirects[:-1]
FollowedTo == Front(redirects)

\* The transport fails, before a response or in the middle of one.  After a
\* redirect the response that was redirected can take the failure's place.
Fail(category, status) ==
    /\ Transmit(status)
    /\ category \in Isolated \cup Fatal
    /\ status # None => category \in Breaks
    /\ IF status = "429" THEN Raises("rate", status, Heard(status))
       ELSE IF redirects # << >> /\ call.retain /\ call.isolate /\ category \in Isolated
       THEN LET hop == Last(redirects)
            IN  Respond(hop.source, FollowedTo, Heard(status),
                        Followup(hop.source, hop.destination, category))
       ELSE Raises("failure", category, Heard(status))
    /\ UNCHANGED <<call, current, next, peer, redirects, received>>

----------------------------------------------------------------------------
(* Where a redirect may go. *)

\* A variant with a plausible slip: an upgrade needs one approved origin.
Objection_OneApproved(destination) ==
    LET from == current.origin  to == destination.origin
    IN  CASE destination.query /\ ~call.query -> "redirect_query_not_allowed"
          [] from = to -> None
          [] from.scheme = "https" /\ to.scheme = "http" -> "https_downgrade"
          [] from.scheme = "http" /\ to.scheme = "https" /\ from.host = to.host ->
               IF from \in Approved \/ to \in Approved THEN None
               ELSE "http_upgrade_not_approved"
          [] OTHER -> "origin_not_approved"

\* resolve_policy_redirect: the same origin, or its approved upgrade.
Objection(destination) ==
    LET from == current.origin  to == destination.origin
    IN  IF destination.query /\ ~call.query THEN "redirect_query_not_allowed"
        ELSE IF from = to THEN None
        ELSE IF from.scheme = "https" /\ to.scheme = "http" THEN "https_downgrade"
        ELSE IF from.scheme = "http" /\ to.scheme = "https" /\ from.host = to.host
        THEN IF {from, to} \subseteq Approved THEN None ELSE "http_upgrade_not_approved"
        ELSE "origin_not_approved"

Exhausted == Len(redirects) >= MaxHops

\* The response names no destination, or none that could be requested.
JudgeNoDestination(reason) ==
    /\ pc = "judge" /\ reason \in {"malformed_location", "unsupported_redirect"}
    /\ Refuse(None, reason)
    /\ UNCHANGED <<call, current, next, peer, redirects, received, sent, answers>>

Judge(destination) ==
    /\ pc = "judge"
    /\ IF Objection(destination) # None THEN Refuse(destination, Objection(destination))
       ELSE IF destination \in Visited THEN Refuse(destination, "redirect_loop")
       ELSE IF Exhausted THEN Refuse(destination, "redirect_hop_limit")
       ELSE IF call.scoped /\ destination \notin InScope THEN Raises("scope", "redirect", received)
       ELSE pc' = "peer" /\ UNCHANGED outcome
    /\ next' = IF pc' = "peer" THEN destination ELSE next
    /\ UNCHANGED <<call, current, peer, redirects, received, sent, answers>>

----------------------------------------------------------------------------
(* What native content discovery records: NativeCandidateObservation. *)

Disposition(kind, url, why) == [kind |-> kind, url |-> url, why |-> why]

\* A variant with a plausible slip: a follow-up failure had no response.
Recorded_NoResponse(o) ==
    LET last == IF o.exchanges = << >> THEN None ELSE Last(o.exchanges).url
    IN  CASE o.kind = "response" /\ o.note = None -> Disposition("none", None, None)
          [] o.kind = "response" /\ o.note # None /\ o.note.kind = "refused" ->
               Disposition("refused", o.note.source, o.note.why)
          [] o.kind = "response" /\ o.note # None /\ o.note.kind = "followup" ->
               Disposition("failure", o.note.destination, o.note.why)
          [] o.kind = "rate" /\ last # None -> Disposition("rate", last, o.why)
          [] o.kind = "scope" -> Disposition("scope", None, o.why)
          [] o.kind = "failure" /\ o.why \in Fatal /\ last # None ->
               Disposition("fatal", None, o.why)
          [] o.kind = "failure" /\ o.why \in Isolated ->
               IF last = None THEN Disposition("failure", call.url, o.why)
               ELSE Disposition("terminal", last, o.why)
          [] OTHER -> None

\* _publish_reserved: how an outcome is told; None if it leaves no record.
Recorded(o) ==
    LET last == IF o.exchanges = << >> THEN None ELSE Last(o.exchanges).url
    IN  CASE o.kind = "response" /\ o.note = None -> Disposition("none", None, None)
          [] o.kind = "response" /\ o.note # None /\ o.note.kind = "refused" ->
               Disposition("refused", o.note.source, o.note.why)
          [] o.kind = "response" /\ o.note # None /\ o.note.kind = "followup" ->
               Disposition(IF last = o.note.destination THEN "terminal" ELSE "failure",
                           o.note.destination, o.note.why)
          [] o.kind = "rate" /\ last # None -> Disposition("rate", last, o.why)
          [] o.kind = "scope" -> Disposition("scope", None, o.why)
          [] o.kind = "failure" /\ o.why \in Fatal /\ last # None ->
               Disposition("fatal", None, o.why)
          [] o.kind = "failure" /\ o.why \in Isolated ->
               IF last = None THEN Disposition("failure", call.url, o.why)
               ELSE Disposition("terminal", last, o.why)
          [] OTHER -> None

\* NativeCandidateObservation.__post_init__ and the records it is made of.
Accepted(o, d) ==
    LET known == o.exchanges # << >>
        last  == Last(o.exchanges)
        named == {o.exchanges[i].url : i \in DOMAIN o.exchanges}
                 \cup {u \in {d.url} : u # None}
                 \cup (IF d.kind = "refused" THEN {o.note.destination} \ {None} ELSE {})
    IN  /\ \A u \in named : u.canonical
        /\ known => o.exchanges[1].url = call.url
        /\ d.kind = "none" => known
        /\ d.kind = "refused" =>
             /\ known /\ d.url = last.url /\ last.status = "redirect"
             /\ d.why \in Reasons /\ (d.why \in WithDestination <=> o.note.destination # None)
        /\ d.kind = "failure" => IF known THEN d.url # last.url ELSE d.url = call.url
        /\ d.kind = "terminal" => known /\ d.url = last.url /\ d.why \in Breaks
        /\ d.kind = "fatal" => known /\ last.status = "redirect"
        /\ d.kind = "rate" => known /\ last.status = "429"
        /\ d.kind = "scope" => IF known THEN d.why # "initial" /\ last.status = "redirect"
                               ELSE d.why # "redirect"

\* The caller has its answer and may call again.
Finish ==
    /\ pc = "done"
    /\ pc' = "idle"
    /\ UNCHANGED <<call, current, next, peer, redirects, received, outcome, sent, answers>>

Next ==
    \/ \E c \in Calls : Request(c)
    \/ SelectPeer \/ RefusePeer
    \/ \E category \in Isolated \cup Fatal : FailPeer(category)
    \/ \E why \in {"closed", "rate"} : Unavailable(why)
    \/ \E status \in {"final", "redirect", "429"} : Answer(status)
    \/ \E category \in Isolated \cup Fatal, status \in {None, "final", "redirect", "429"} :
         Fail(category, status)
    \/ \E reason \in {"malformed_location", "unsupported_redirect"} : JudgeNoDestination(reason)
    \/ \E destination \in Urls : Judge(destination)
    \/ Finish

Spec == Init /\ [][Next]_vars

----------------------------------------------------------------------------
(* Properties. *)

Hop == [source : Urls, destination : Urls]
Exchange == [url : Urls, status : {"final", "redirect", "429"}]

TypeOK ==
    /\ pc \in {"idle", "peer", "exchange", "judge", "done"}
    /\ current \in Urls \cup {None} /\ next \in Urls \cup {None}
    /\ peer \in Peers \cup {None}
    /\ redirects \in Seq(Hop)
    /\ received \in Seq(Exchange) /\ answers \in Seq(Exchange)
    /\ sent \in Seq(Urls \X (Peers \cup {None}))
    /\ pc # "idle" => call \in Calls
    /\ pc \in {"exchange", "judge"} => current \in Urls
    /\ pc = "peer" => next \in Urls

\* A chain may go from one origin to the other: same host, no downgrade.
Descends(from, to) == from.host = to.host /\ (from.scheme = "https" => to.scheme = "https")

\* Whatever the target answers, an exchange goes to an approved origin, and
\* a chain of redirects never leaves its host or falls back to http.
OnlyApproved ==
    /\ \A i \in DOMAIN sent : sent[i][1].origin \in Approved
    /\ \A i, j \in DOMAIN sent : i < j => Descends(sent[i][1].origin, sent[j][1].origin)

Permitted(url, address) == <<url, address>> \in AllowedPeers \/ address = url.origin.host

\* Under a programme scope every exchange is with a URL in scope and with a
\* peer that was allowed for that very URL, not for the one before it, even
\* if the resolver answers differently for each hop.
PeerOfItsUrl ==
    pc # "idle" /\ call.scoped => \A i \in DOMAIN sent :
        sent[i][1] \in InScope /\ Permitted(sent[i][1], sent[i][2])

\* A call makes at most one exchange more than the hops allowed, and none
\* twice with the same URL, however the target redirects.
Bounded ==
    /\ Len(sent) <= MaxHops + 1
    /\ \A i, j \in DOMAIN sent : sent[i][1] = sent[j][1] => i = j

\* However a call ends, every response the target gave is reported, in
\* order, the broken ones included; only a closed handle reports nothing.
NothingLost == pc = "done" /\ outcome.kind # "closed" => outcome.exchanges = answers

\* A response that is returned is one the target gave: the redirects lead
\* from the URL requested to it, and what it says was not followed was not
\* answered, or only in part.
TrueStory ==
    pc = "done" /\ outcome.kind = "response" =>
        LET hops == outcome.redirects
            story == <<call.url>> \o [i \in DOMAIN hops |-> hops[i].destination]
        IN  /\ \A i \in DOMAIN hops : hops[i].source = story[i]
            /\ outcome.url = Last(story)
            /\ \A i \in DOMAIN story : answers[i].url = story[i]
            /\ outcome.note = None => answers[Len(story)].status = "final"
            /\ outcome.note # None =>
                 /\ answers[Len(story)].status = "redirect" /\ outcome.note.source = outcome.url
                 /\ outcome.note.kind = "refused" => Len(sent) = Len(story)

\* Every outcome of a candidate request can be told as one record that its
\* own validation accepts, so that no answer of a target stops discovery.
Recordable ==
    pc = "done" /\ Native(call) /\ outcome.kind # "invalid" =>
        LET d == Recorded(outcome) IN d # None => Accepted(outcome, d)
=============================================================================
