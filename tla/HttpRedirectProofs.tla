------------------------ MODULE HttpRedirectProofs -------------------------
(* Theorems about HttpRedirect for every set of URLs, origins and peers,    *)
(* every scope and every hop limit: where an exchange can go, how many there *)
(* are, that every response is reported, what a result tells, and that it    *)
(* can be recorded.                                                          *)
EXTENDS HttpRedirect, TLAPS

Ends == {"idle", "done"}

\* The types the argument needs.
Types ==
    /\ pc \in {"idle", "peer", "exchange", "judge", "done"}
    /\ pc \notin Ends => call \in Calls
    /\ sent \in Seq(Urls \X (Peers \cup {None}))
    /\ pc = "peer" => next \in Urls
    /\ pc \in {"exchange", "judge"} => current \in Urls /\ peer \in Peers \cup {None}

\* What is admitted so far may be followed by a request for url.
MayFollow(url) ==
    /\ url.origin \in Approved
    /\ \A i \in DOMAIN sent : Descends(sent[i][1].origin, url.origin)

\* The URL in hand is one that may be requested next: while its peer is being
\* selected, while it is requested and while its redirect is judged.
InHand ==
    /\ pc = "peer" => MayFollow(next)
    /\ pc \in {"exchange", "judge"} => MayFollow(current)

\* The same for scope and peer.
InScopeInHand ==
    /\ pc = "peer" /\ call.scoped => next \in InScope
    /\ pc \in {"exchange", "judge"} /\ call.scoped =>
          current \in InScope /\ Permitted(current, peer)

\* The history is of the call under way; a new call starts it afresh.
Peered == \A i \in DOMAIN sent : call.scoped =>
              sent[i][1] \in InScope /\ Permitted(sent[i][1], sent[i][2])

IInv == Types /\ OnlyApproved /\ InHand /\ InScopeInHand /\ Peered

\* A redirect that is followed leads from an approved origin to another one
\* of the same host, and not from https to http.
LEMMA Followed ==
    ASSUME NEW destination \in Urls, current \in Urls, current.origin \in Approved,
           Objection(destination) = None
    PROVE  /\ destination.origin \in Approved
           /\ Descends(current.origin, destination.origin)
BY UrlsAssumption, NoneAssumption DEF Objection, Descends

LEMMA DescendsTransitive ==
    ASSUME NEW a, NEW b, NEW c, Descends(a, b), Descends(b, c)
    PROVE  Descends(a, c)
BY DEF Descends

\* An exchange adds the URL and the peer in hand to the history.
LEMMA Transmitted ==
    ASSUME IInv, pc = "exchange", call' = call, current' = current, peer' = peer,
           sent' = Append(sent, <<current, peer>>)
    PROVE  /\ sent' \in Seq(Urls \X (Peers \cup {None}))
           /\ OnlyApproved' /\ Peered' /\ MayFollow(current)'
<1> DEFINE last == Len(sent) + 1
<1>1. current \in Urls /\ peer \in Peers \cup {None} /\ sent \in Seq(Urls \X (Peers \cup {None}))
  BY DEF IInv, Types
<1>2. /\ sent' \in Seq(Urls \X (Peers \cup {None}))
      /\ DOMAIN sent' = DOMAIN sent \cup {last} /\ sent'[last] = <<current, peer>>
      /\ \A i \in DOMAIN sent : sent'[i] = sent[i] /\ i < last /\ i \in Nat
  BY <1>1
<1>3. MayFollow(current) /\ Descends(current.origin, current.origin)
  BY DEF IInv, InHand, Descends
<1>4. \A i \in DOMAIN sent' : sent'[i][1].origin \in Approved
                             /\ Descends(sent'[i][1].origin, current.origin)
  BY <1>2, <1>3 DEF IInv, OnlyApproved, MayFollow
<1>5. ASSUME NEW i \in DOMAIN sent', NEW j \in DOMAIN sent', i < j
      PROVE  Descends(sent'[i][1].origin, sent'[j][1].origin)
  <2>1. CASE j = last
    BY <2>1, <1>2, <1>4
  <2>2. CASE j # last
    <3>1. i \in DOMAIN sent /\ j \in DOMAIN sent
      BY <2>2, <1>2, <1>1, <1>5
    <3> QED BY <3>1, <1>2, <1>5 DEF IInv, OnlyApproved
  <2> QED BY <2>1, <2>2
<1>6. OnlyApproved'
  BY <1>4, <1>5 DEF OnlyApproved
<1>7. ASSUME NEW i \in DOMAIN sent', call.scoped
      PROVE  sent'[i][1] \in InScope /\ Permitted(sent'[i][1], sent'[i][2])
  <2>1. CASE i = last
    <3>1. sent'[i][1] = current /\ sent'[i][2] = peer
      BY <2>1, <1>2
    <3> QED BY <1>7, <3>1 DEF IInv, InScopeInHand
  <2>2. CASE i \in DOMAIN sent
    BY <1>7, <2>2, <1>2 DEF IInv, Peered
  <2> QED BY <2>1, <2>2, <1>7, <1>2
<1>8. Peered'
  BY <1>7 DEF Peered, Permitted
<1> QED BY <1>2, <1>3, <1>4, <1>6, <1>8 DEF MayFollow

\* Ending a call with the history as it is.
LEMMA Ended ==
    ASSUME IInv, pc' \in Ends, UNCHANGED <<call, sent>>
    PROVE  IInv'
BY DEF IInv, Types, OnlyApproved, InHand, InScopeInHand, Peered, Permitted, Ends

\* Every step preserves the invariant.
LEMMA Inductive == IInv /\ [Next]_vars => IInv'
<1> SUFFICES ASSUME IInv, [Next]_vars PROVE IInv'
  OBVIOUS
<1> USE DEF Ends
<1>1. ASSUME NEW c \in Calls, Request(c) PROVE IInv'
  <2>1. c.url \in Urls
    BY DEF Calls
  <2>2. CASE pc' = "peer"
    <3>1. c.url.origin \in Approved /\ (c.scoped => c.url \in InScope)
      BY <1>1, <2>2 DEF Request, Raises
    <3> QED BY <1>1, <2>1, <2>2, <3>1 DEF Request, IInv, Types, OnlyApproved, InHand,
                MayFollow, InScopeInHand, Peered
  <2>3. CASE pc' = "done"
    BY <1>1, <2>3 DEF Request, IInv, Types, OnlyApproved, InHand, InScopeInHand, Peered
  <2> QED BY <1>1, <2>2, <2>3 DEF Request, Raises
<1>2. CASE SelectPeer
  <2>1. PICK address \in Peers \cup {None} :
          Admit(address) /\ (call.scoped => Permitted(next, address))
    BY <1>2 DEF SelectPeer, Permitted
  <2> QED BY <1>2, <2>1 DEF SelectPeer, Admit, IInv, Types, OnlyApproved, InHand, MayFollow,
              InScopeInHand, Peered, Permitted
<1>3. CASE RefusePeer
  BY <1>3, Ended DEF RefusePeer, Raises
<1>4. ASSUME NEW category, FailPeer(category) PROVE IInv'
  BY <1>4, Ended DEF FailPeer, Raises, Respond
<1>5. ASSUME NEW why, Unavailable(why) PROVE IInv'
  BY <1>5, Ended DEF Unavailable, Raises
<1>6. ASSUME NEW status \in {"final", "redirect", "429"}, Answer(status) PROVE IInv'
  <2>1. pc = "exchange" /\ pc' \in {"judge", "done"}
    BY <1>6 DEF Answer, Transmit, Raises, Respond
  <2>2. /\ sent' \in Seq(Urls \X (Peers \cup {None}))
        /\ OnlyApproved' /\ Peered' /\ MayFollow(current)'
    BY <1>6, Transmitted DEF Answer, Transmit
  <2> QED BY <1>6, <2>1, <2>2 DEF Answer, IInv, Types, InHand, InScopeInHand, Permitted
<1>7. ASSUME NEW category, NEW status, Fail(category, status) PROVE IInv'
  <2>1. pc = "exchange" /\ pc' = "done"
    BY <1>7 DEF Fail, Transmit, Raises, Respond
  <2>2. /\ sent' \in Seq(Urls \X (Peers \cup {None}))
        /\ OnlyApproved' /\ Peered' /\ MayFollow(current)'
    BY <1>7, Transmitted DEF Fail, Transmit
  <2> QED BY <2>1, <2>2 DEF IInv, Types, InHand, InScopeInHand
<1>8. ASSUME NEW reason, JudgeNoDestination(reason) PROVE IInv'
  BY <1>8, Ended DEF JudgeNoDestination, Refuse, Raises, Respond
<1>9. ASSUME NEW destination \in Urls, Judge(destination) PROVE IInv'
  <2>1. CASE pc' = "done"
    BY <1>9, <2>1, Ended DEF Judge
  <2>2. CASE pc' = "peer"
    <3>1. Objection(destination) = None /\ (call.scoped => destination \in InScope)
      BY <1>9, <2>2 DEF Judge, Refuse, Raises, Respond
    <3>2. destination.origin \in Approved /\ Descends(current.origin, destination.origin)
      BY <1>9, <3>1, Followed DEF Judge, IInv, Types, InHand, MayFollow
    <3>3. MayFollow(destination)
      BY <1>9, <3>2, DescendsTransitive DEF Judge, IInv, InHand, MayFollow
    <3> QED BY <1>9, <2>2, <3>1, <3>3 DEF Judge, IInv, Types, OnlyApproved, InHand, MayFollow,
                InScopeInHand, Peered
  <2> QED BY <1>9, <2>1, <2>2 DEF Judge, Refuse, Raises, Respond
<1>10. CASE Finish
  BY <1>10, Ended DEF Finish
<1>11. CASE UNCHANGED vars
  BY <1>11 DEF vars, IInv, Types, OnlyApproved, InHand, MayFollow, InScopeInHand, Peered, Permitted
<1> QED BY <1>1, <1>2, <1>3, <1>4, <1>5, <1>6, <1>7, <1>8, <1>9, <1>10, <1>11 DEF Next

LEMMA Invariant == Spec => []IInv
<1>1. Init => IInv
  BY DEF Init, Ends, IInv, Types, OnlyApproved, InHand, InScopeInHand, Peered
<1> QED BY <1>1, Inductive, PTL DEF Spec

\* Whatever target and resolver answer, exchanges go to approved origins and
\* a chain of redirects stays on its host, never back to http.
THEOREM StaysApproved == Spec => []OnlyApproved
BY Invariant, PTL DEF IInv

\* Under a programme scope, exchanges are with URLs in scope and with peers
\* that were allowed for them.
THEOREM StaysInScope == Spec => []PeerOfItsUrl
<1>1. IInv => PeerOfItsUrl
  BY DEF IInv, Peered, PeerOfItsUrl
<1> QED BY <1>1, Invariant, PTL

----------------------------------------------------------------------------
(* How many exchanges there are, and what is reported. *)

LEMMA StatusIsAnswer == \A status \in {"final", "redirect", "429"} : status # None
BY NoneAssumption

\* Every step keeps the types.
LEMMA TypeNext == TypeOK /\ [Next]_vars => TypeOK'
<1> SUFFICES ASSUME TypeOK, [Next]_vars PROVE TypeOK'
  OBVIOUS
<1> USE DEF TypeOK
<1>1. ASSUME NEW c \in Calls, Request(c) PROVE TypeOK'
  <2>1. c.url \in Urls
    BY DEF Calls
  <2> QED BY <1>1, <2>1 DEF Request, Raises
<1>2. CASE SelectPeer
  <2>1. PICK address \in Peers \cup {None} : Admit(address)
    BY <1>2 DEF SelectPeer
  <2>2. redirects' \in Seq(Hop)
    <3>1. CASE current = None
      BY <2>1, <3>1 DEF Admit
    <3>2. CASE current # None
      <4>1. [source |-> current, destination |-> next] \in Hop
        BY <1>2, <3>2 DEF SelectPeer, Hop
      <4> QED BY <2>1, <3>2, <4>1 DEF Admit
    <3> QED BY <3>1, <3>2
  <2> QED BY <1>2, <2>1, <2>2 DEF SelectPeer, Admit
<1>3. CASE RefusePeer
  BY <1>3 DEF RefusePeer, Raises
<1>4. ASSUME NEW category, FailPeer(category) PROVE TypeOK'
  BY <1>4 DEF FailPeer, Raises, Respond
<1>5. ASSUME NEW why, Unavailable(why) PROVE TypeOK'
  BY <1>5 DEF Unavailable, Raises
<1>6. ASSUME NEW status \in {None, "final", "redirect", "429"}, Transmit(status)
      PROVE  /\ sent' \in Seq(Urls \X (Peers \cup {None})) /\ answers' \in Seq(Exchange)
             /\ status # None => [url |-> current, status |-> status] \in Exchange
  <2>1. current \in Urls /\ <<current, peer>> \in Urls \X (Peers \cup {None})
    BY <1>6 DEF Transmit
  <2>2. status # None => [url |-> current, status |-> status] \in Exchange
    BY <1>6, <2>1 DEF Exchange
  <2> QED BY <1>6, <2>1, <2>2 DEF Transmit
<1>7. ASSUME NEW status \in {"final", "redirect", "429"}, Answer(status) PROVE TypeOK'
  <2>1. /\ sent' \in Seq(Urls \X (Peers \cup {None})) /\ answers' \in Seq(Exchange)
        /\ status # None => [url |-> current, status |-> status] \in Exchange
    BY <1>6, <1>7 DEF Answer
  <2>2. received' \in Seq(Exchange) /\ status # None
    BY <1>7, <2>1, StatusIsAnswer DEF Answer
  <2> QED BY <1>7, <2>1, <2>2 DEF Answer, Transmit, Raises, Respond
<1>8. ASSUME NEW category, NEW status \in {None, "final", "redirect", "429"}, Fail(category, status)
      PROVE  TypeOK'
  <2>1. sent' \in Seq(Urls \X (Peers \cup {None})) /\ answers' \in Seq(Exchange)
    BY <1>6, <1>8 DEF Fail
  <2>2. pc = "exchange" /\ pc' = "done" /\ UNCHANGED <<call, current, next, peer, redirects, received>>
    BY <1>8 DEF Fail, Transmit, Raises, Respond
  <2> QED BY <2>1, <2>2
<1>9. ASSUME NEW reason, JudgeNoDestination(reason) PROVE TypeOK'
  BY <1>9 DEF JudgeNoDestination, Refuse, Raises, Respond
<1>10. ASSUME NEW destination \in Urls, Judge(destination) PROVE TypeOK'
  BY <1>10 DEF Judge, Refuse, Raises, Respond
<1>11. CASE Finish
  BY <1>11 DEF Finish
<1>12. CASE UNCHANGED vars
  BY <1>12 DEF vars
<1> QED BY <1>1, <1>2, <1>3, <1>4, <1>5, <1>7, <1>8, <1>9, <1>10, <1>11, <1>12 DEF Next

LEMMA TypeInit == Init => TypeOK
<1>1. ASSUME NEW S PROVE << >> \in Seq(S)
  OBVIOUS
<1> QED BY <1>1 DEF Init, TypeOK

\* Every variable keeps its type.
THEOREM TypeCorrect == Spec => []TypeOK
BY TypeInit, TypeNext, PTL DEF Spec

\* What is received so far is what was answered so far.
Told ==
    /\ pc \in {"peer", "exchange", "judge"} => received = answers
    /\ NothingLost

LEMMA ToldNext == TypeOK /\ Told /\ [Next]_vars => Told'
<1> SUFFICES ASSUME TypeOK, Told, [Next]_vars PROVE Told'
  OBVIOUS
<1> USE DEF Told, NothingLost
<1>1. ASSUME NEW c \in Calls, Request(c) PROVE Told'
  BY <1>1 DEF Request, Raises
<1>2. CASE SelectPeer
  <2>1. PICK address \in Peers \cup {None} : Admit(address)
    BY <1>2 DEF SelectPeer
  <2> QED BY <1>2, <2>1 DEF SelectPeer, Admit
<1>3. CASE RefusePeer
  BY <1>3 DEF RefusePeer, Raises
<1>4. ASSUME NEW category, FailPeer(category) PROVE Told'
  BY <1>4 DEF FailPeer, Raises, Respond
<1>5. ASSUME NEW why, Unavailable(why) PROVE Told'
  BY <1>5 DEF Unavailable, Raises
<1>6. ASSUME NEW status \in {"final", "redirect", "429"}, Answer(status) PROVE Told'
  <2>1. received' = answers'
    BY <1>6, StatusIsAnswer DEF Answer, Transmit
  <2>2. pc' = "judge" \/ (pc' = "done" /\ outcome'.exchanges = received')
    BY <1>6 DEF Answer, Raises, Respond
  <2> QED BY <2>1, <2>2
<1>7. ASSUME NEW category, NEW status, Fail(category, status) PROVE Told'
  <2>1. Heard(status) = answers'
    BY <1>7 DEF Fail, Transmit, Heard
  <2>2. pc' = "done" /\ outcome'.exchanges = Heard(status)
    BY <1>7 DEF Fail, Raises, Respond
  <2> QED BY <2>1, <2>2
<1>8. ASSUME NEW reason, JudgeNoDestination(reason) PROVE Told'
  BY <1>8 DEF JudgeNoDestination, Refuse, Raises, Respond
<1>9. ASSUME NEW destination \in Urls, Judge(destination) PROVE Told'
  BY <1>9 DEF Judge, Refuse, Raises, Respond
<1>10. CASE Finish
  BY <1>10 DEF Finish
<1>11. CASE UNCHANGED vars
  BY <1>11 DEF vars
<1> QED BY <1>1, <1>2, <1>3, <1>4, <1>5, <1>6, <1>7, <1>8, <1>9, <1>10, <1>11 DEF Next

\* However a call ends, every response the target gave is reported in order.
THEOREM ResponsesAreReported == Spec => []NothingLost
<1>1. Init => Told
  BY DEF Init, Told, NothingLost
<1>2. Told => NothingLost
  BY DEF Told
<1> QED BY <1>1, <1>2, ToldNext, TypeCorrect, PTL DEF Spec

\* The exchanges of a call are those of the URLs visited: as many as there
\* are redirects, one more once the URL in hand has been requested.
Fits ==
    /\ pc \in {"peer", "exchange", "judge"} => \A i \in DOMAIN sent : sent[i][1] \in Visited
    /\ pc = "peer" =>
         \/ current = None /\ next = call.url /\ sent = << >> /\ redirects = << >>
         \/ /\ current \in Urls /\ next \notin Visited
            /\ Len(sent) = Len(redirects) + 1 /\ Len(redirects) < MaxHops
    /\ pc = "exchange" =>
         /\ \A i \in DOMAIN sent : sent[i][1] # current
         /\ current \in Visited
         /\ Len(sent) = Len(redirects) /\ Len(redirects) <= MaxHops
    /\ pc = "judge" => Len(sent) = Len(redirects) + 1
    /\ Bounded

\* An exchange with a URL that was not requested before.
LEMMA Fitted ==
    ASSUME TypeOK, Fits, pc = "exchange", sent' = Append(sent, <<current, peer>>)
    PROVE  /\ Bounded' /\ Len(sent') = Len(redirects) + 1
           /\ \A i \in DOMAIN sent' : sent'[i][1] \in Visited
<1>1. sent \in Seq(Urls \X (Peers \cup {None})) /\ redirects \in Seq(Hop)
      /\ current \in Urls /\ peer \in Peers \cup {None}
  BY DEF TypeOK
<1>2. /\ DOMAIN sent' = DOMAIN sent \cup {Len(sent) + 1} /\ Len(sent') = Len(sent) + 1
      /\ sent'[Len(sent) + 1] = <<current, peer>>
      /\ \A i \in DOMAIN sent : sent'[i] = sent[i] /\ i # Len(sent) + 1
  BY <1>1
<1>3. /\ \A i \in DOMAIN sent : sent[i][1] # current /\ sent[i][1] \in Visited
      /\ \A i, j \in DOMAIN sent : sent[i][1] = sent[j][1] => i = j
  BY DEF Fits, Bounded
<1>4. \A i, j \in DOMAIN sent' : sent'[i][1] = sent'[j][1] => i = j
  BY <1>2, <1>3
<1>5. Len(sent') <= MaxHops + 1 /\ Len(sent') = Len(redirects) + 1
  BY <1>1, <1>2, HopsAssumption DEF Fits
<1>6. current \in Visited
  BY DEF Fits
<1> QED BY <1>2, <1>3, <1>4, <1>5, <1>6 DEF Bounded

LEMMA FitsEnded ==
    ASSUME Fits, pc' \in Ends, UNCHANGED sent
    PROVE  Fits'
BY DEF Fits, Ends, Bounded

LEMMA FitsNext == TypeOK /\ Fits /\ [Next]_vars => Fits'
<1> SUFFICES ASSUME TypeOK, Fits, [Next]_vars PROVE Fits'
  OBVIOUS
<1> USE DEF Ends
<1>1. ASSUME NEW c \in Calls, Request(c) PROVE Fits'
  BY <1>1, HopsAssumption DEF Request, Raises, Fits, Bounded
<1>2. CASE SelectPeer
  <2>1. PICK address \in Peers \cup {None} : Admit(address)
    BY <1>2 DEF SelectPeer
  <2>2. pc = "peer" /\ pc' = "exchange" /\ current' = next /\ sent' = sent /\ call' = call
        /\ redirects \in Seq(Hop) /\ next \in Urls
    BY <1>2, <2>1 DEF SelectPeer, Admit, TypeOK
  <2>3. Bounded'
    BY <2>2 DEF Fits, Bounded
  <2>4. CASE current = None
    <3>1. next = call.url /\ sent = << >> /\ redirects = << >> /\ redirects' = << >>
      BY <2>1, <2>2, <2>4, NoneAssumption DEF Fits, Admit
    <3> QED BY <2>2, <2>3, <3>1, HopsAssumption DEF Fits, Visited
  <2>5. CASE current # None
    <3>1. next \notin Visited /\ Len(sent) = Len(redirects) + 1 /\ Len(redirects) < MaxHops
          /\ \A i \in DOMAIN sent : sent[i][1] \in Visited
      BY <2>2, <2>5 DEF Fits
    <3>2. redirects' = Append(redirects, [source |-> current, destination |-> next])
      BY <2>1, <2>5 DEF Admit
    <3>3. Len(redirects') = Len(redirects) + 1
          /\ DOMAIN redirects' = DOMAIN redirects \cup {Len(redirects) + 1}
          /\ redirects'[Len(redirects) + 1] = [source |-> current, destination |-> next]
          /\ \A i \in DOMAIN redirects : redirects'[i] = redirects[i]
      BY <2>2, <3>2
    <3>4. Visited' = Visited \cup {next}
      BY <2>2, <3>3 DEF Visited
    <3>5. Len(redirects) \in Nat /\ Len(sent) \in Nat
      BY <2>2 DEF TypeOK
    <3> QED BY <2>2, <2>3, <3>1, <3>3, <3>4, <3>5, HopsAssumption DEF Fits
  <2> QED BY <2>4, <2>5
<1>3. CASE RefusePeer
  BY <1>3, FitsEnded DEF RefusePeer, Raises
<1>4. ASSUME NEW category, FailPeer(category) PROVE Fits'
  BY <1>4, FitsEnded DEF FailPeer, Raises, Respond
<1>5. ASSUME NEW why, Unavailable(why) PROVE Fits'
  BY <1>5, FitsEnded DEF Unavailable, Raises
<1>6. ASSUME NEW status \in {"final", "redirect", "429"}, Answer(status) PROVE Fits'
  <2>1. pc = "exchange" /\ pc' \in {"judge", "done"} /\ UNCHANGED <<call, redirects>>
        /\ sent' = Append(sent, <<current, peer>>)
    BY <1>6 DEF Answer, Transmit, Raises, Respond
  <2>2. Visited' = Visited
    BY <2>1 DEF Visited
  <2> QED BY <2>1, <2>2, Fitted DEF Fits
<1>7. ASSUME NEW category, NEW status, Fail(category, status) PROVE Fits'
  <2>1. pc = "exchange" /\ pc' = "done" /\ sent' = Append(sent, <<current, peer>>)
    BY <1>7 DEF Fail, Transmit, Raises, Respond
  <2> QED BY <2>1, Fitted DEF Fits
<1>8. ASSUME NEW reason, JudgeNoDestination(reason) PROVE Fits'
  BY <1>8, FitsEnded DEF JudgeNoDestination, Refuse, Raises, Respond
<1>9. ASSUME NEW destination \in Urls, Judge(destination) PROVE Fits'
  <2>1. CASE pc' = "done"
    BY <1>9, <2>1, FitsEnded DEF Judge
  <2>2. CASE pc' = "peer"
    <3>1. destination \notin Visited /\ ~Exhausted /\ next' = destination
          /\ pc = "judge" /\ UNCHANGED <<call, current, redirects, sent>>
      BY <1>9, <2>2 DEF Judge, Refuse, Raises, Respond
    <3>2. Len(redirects) \in Nat /\ current \in Urls
      BY <3>1 DEF TypeOK
    <3>3. Len(redirects) < MaxHops
      BY <3>1, <3>2, HopsAssumption DEF Exhausted
    <3>4. Visited' = Visited
      BY <3>1 DEF Visited
    <3> QED BY <2>2, <3>1, <3>2, <3>3, <3>4 DEF Fits, Bounded
  <2> QED BY <1>9, <2>1, <2>2 DEF Judge, Refuse, Raises, Respond
<1>10. CASE Finish
  BY <1>10, FitsEnded DEF Finish
<1>11. CASE UNCHANGED vars
  BY <1>11 DEF vars, Fits, Bounded, Visited
<1> QED BY <1>1, <1>2, <1>3, <1>4, <1>5, <1>6, <1>7, <1>8, <1>9, <1>10, <1>11 DEF Next

\* A call makes at most one exchange more than the hops allowed, and none
\* twice with the same URL, for any answers and any hop limit.
THEOREM ExchangesAreBounded == Spec => []Bounded
<1>1. Init => Fits
  BY HopsAssumption DEF Init, Fits, Bounded
<1>2. Fits => Bounded
  BY DEF Fits
<1> QED BY <1>1, <1>2, FitsNext, TypeCorrect, PTL DEF Spec

----------------------------------------------------------------------------
(* What a response that is returned tells. *)

\* The i-th URL of a chain: the one requested, then where each hop led.
Place(url, hops, i) == IF i = 1 THEN url ELSE hops[i - 1].destination

Reached == Place(call.url, redirects, Len(redirects) + 1)

\* The hops lead from the URL requested to the one in hand, and each URL
\* before it was answered, with a redirect.
Chained ==
    /\ pc \in {"peer", "exchange", "judge"} =>
         /\ \A i \in DOMAIN redirects : redirects[i].source = Place(call.url, redirects, i)
         /\ \A i \in DOMAIN answers :
              answers[i] = [url |-> Place(call.url, redirects, i), status |-> "redirect"]
    /\ pc = "peer" =>
         \/ current = None /\ next = call.url /\ redirects = << >> /\ answers = << >>
         \/ current \in Urls /\ current = Reached /\ Len(answers) = Len(redirects) + 1
    /\ pc = "exchange" => current = Reached /\ Len(answers) = Len(redirects)
    /\ pc = "judge" => current = Reached /\ Len(answers) = Len(redirects) + 1

LEMMA PlaceAppend ==
    ASSUME NEW hops \in Seq(Hop), NEW hop \in Hop, NEW url
    PROVE  /\ \A i \in 1..(Len(hops) + 1) : Place(url, Append(hops, hop), i) = Place(url, hops, i)
           /\ Place(url, Append(hops, hop), Len(hops) + 2) = hop.destination
BY DEF Place

\* A URL that is admitted becomes the last of the chain.
LEMMA ChainedAdmit ==
    ASSUME TypeOK, Chained, pc = "peer", NEW address, Admit(address)
    PROVE  Chained'
<1>1. /\ pc' = "exchange" /\ current' = next /\ UNCHANGED <<call, answers>>
      /\ redirects \in Seq(Hop) /\ next \in Urls /\ answers \in Seq(Exchange)
  BY DEF Admit, TypeOK
<1>2. CASE current = None
  <2>1. next = call.url /\ redirects = << >> /\ answers = << >>
    BY <1>1, <1>2, NoneAssumption DEF Chained
  <2>2. redirects' = << >>
    BY <1>2, <2>1 DEF Admit
  <2> QED BY <1>1, <2>1, <2>2 DEF Chained, Reached, Place
<1>3. CASE current # None
  <2> DEFINE hop == [source |-> current, destination |-> next]
             size == Len(redirects)
  <2>1. /\ current \in Urls /\ current = Reached /\ Len(answers) = size + 1
        /\ \A i \in DOMAIN redirects : redirects[i].source = Place(call.url, redirects, i)
        /\ \A i \in DOMAIN answers :
              answers[i] = [url |-> Place(call.url, redirects, i), status |-> "redirect"]
    BY <1>1, <1>3 DEF Chained
  <2>2. hop \in Hop /\ redirects' = Append(redirects, hop)
    BY <1>1, <1>3, <2>1 DEF Admit, Hop
  <2>3. /\ \A i \in 1..(size + 1) : Place(call.url, redirects', i) = Place(call.url, redirects, i)
        /\ Place(call.url, redirects', size + 2) = next
    BY <1>1, <2>2, PlaceAppend
  <2>4. /\ Len(redirects') = size + 1 /\ size \in Nat
        /\ DOMAIN redirects' = 1..(size + 1) /\ DOMAIN redirects = 1..size
        /\ DOMAIN answers = 1..(size + 1)
        /\ redirects'[size + 1] = hop /\ \A i \in 1..size : redirects'[i] = redirects[i]
    BY <1>1, <2>1, <2>2
  <2> HIDE DEF hop, size
  <2>5. \A i \in DOMAIN redirects' : redirects'[i].source = Place(call.url, redirects', i)
    <3> SUFFICES ASSUME NEW i \in 1..(size + 1)
                 PROVE  redirects'[i].source = Place(call.url, redirects, i)
      BY <2>3, <2>4
    <3>1. CASE i = size + 1
      BY <2>1, <2>4, <3>1 DEF Reached, hop, size
    <3>2. CASE i # size + 1
      BY <2>1, <2>4, <3>2
    <3> QED BY <3>1, <3>2
  <2>6. \A i \in DOMAIN answers' :
          answers'[i] = [url |-> Place(call.url, redirects', i), status |-> "redirect"]
    BY <1>1, <2>1, <2>3, <2>4
  <2>7. current' = Reached' /\ Len(answers') = Len(redirects')
    BY <1>1, <2>1, <2>3, <2>4 DEF Reached, size
  <2> QED BY <1>1, <2>5, <2>6, <2>7 DEF Chained
<1> QED BY <1>2, <1>3

LEMMA ChainedEnded ==
    ASSUME pc' \in Ends
    PROVE  Chained'
BY DEF Chained, Ends

LEMMA ChainedNext == TypeOK /\ Chained /\ [Next]_vars => Chained'
<1> SUFFICES ASSUME TypeOK, Chained, [Next]_vars PROVE Chained'
  OBVIOUS
<1> USE ChainedEnded DEF Ends
<1>1. ASSUME NEW c \in Calls, Request(c) PROVE Chained'
  <2>1. CASE pc' = "peer"
    BY <1>1, <2>1 DEF Request, Chained, Place
  <2> QED BY <1>1, <2>1 DEF Request, Raises
<1>2. CASE SelectPeer
  BY <1>2, ChainedAdmit DEF SelectPeer
<1>3. CASE RefusePeer
  BY <1>3 DEF RefusePeer, Raises
<1>4. ASSUME NEW category, FailPeer(category) PROVE Chained'
  BY <1>4 DEF FailPeer, Raises, Respond
<1>5. ASSUME NEW why, Unavailable(why) PROVE Chained'
  BY <1>5 DEF Unavailable, Raises
<1>6. ASSUME NEW status \in {"final", "redirect", "429"}, Answer(status) PROVE Chained'
  <2>1. CASE pc' = "done"
    BY <2>1
  <2>2. CASE pc' # "done"
    <3>1. /\ pc = "exchange" /\ pc' = "judge" /\ status = "redirect"
          /\ answers' = Append(answers, [url |-> current, status |-> "redirect"])
          /\ UNCHANGED <<call, current, redirects>>
      BY <1>6, <2>2, StatusIsAnswer DEF Answer, Transmit, Raises, Respond
    <3>2. /\ current = Place(call.url, redirects, Len(redirects) + 1)
          /\ Len(answers) = Len(redirects) /\ Len(redirects) \in Nat
          /\ answers \in Seq(Exchange)
      BY <3>1 DEF Chained, Reached, TypeOK
    <3>3. \A i \in DOMAIN answers' :
            answers'[i] = [url |-> Place(call.url, redirects, i), status |-> "redirect"]
      BY <3>1, <3>2 DEF Chained
    <3>4. Len(answers') = Len(redirects) + 1
      BY <3>1, <3>2
    <3> QED BY <3>1, <3>3, <3>4 DEF Chained, Reached
  <2> QED BY <2>1, <2>2
<1>7. ASSUME NEW category, NEW status, Fail(category, status) PROVE Chained'
  BY <1>7 DEF Fail, Transmit, Raises, Respond
<1>8. ASSUME NEW reason, JudgeNoDestination(reason) PROVE Chained'
  BY <1>8 DEF JudgeNoDestination, Refuse, Raises, Respond
<1>9. ASSUME NEW destination \in Urls, Judge(destination) PROVE Chained'
  <2>1. CASE pc' = "peer"
    <3>1. pc = "judge" /\ UNCHANGED <<call, current, redirects, answers>> /\ current \in Urls
      BY <1>9 DEF Judge, TypeOK
    <3> QED BY <2>1, <3>1 DEF Chained, Reached
  <2> QED BY <1>9, <2>1 DEF Judge, Refuse, Raises, Respond
<1>10. CASE Finish
  BY <1>10 DEF Finish
<1>11. CASE UNCHANGED vars
  BY <1>11 DEF vars, Chained, Reached
<1> QED BY <1>1, <1>2, <1>3, <1>4, <1>5, <1>6, <1>7, <1>8, <1>9, <1>10, <1>11 DEF Next

\* TrueStory place by place, without the sequence it builds.
Ending ==
    pc = "done" /\ outcome.kind = "response" =>
        LET hops == outcome.redirects
            last == Len(hops) + 1
        IN  /\ hops \in Seq(Hop) /\ call.url \in Urls
            /\ \A i \in DOMAIN hops : hops[i].source = Place(call.url, hops, i)
            /\ outcome.url = Place(call.url, hops, last)
            /\ \A i \in 1..last : answers[i].url = Place(call.url, hops, i)
            /\ outcome.note = None => answers[last].status = "final"
            /\ outcome.note # None =>
                 /\ answers[last].status = "redirect" /\ outcome.note.source = outcome.url
                 /\ outcome.note.kind = "refused" => Len(sent) = last

\* The redirects of an outcome, as the story they tell.
LEMMA StoryPlaces ==
    ASSUME NEW url \in Urls, NEW hops \in Seq(Hop)
    PROVE  LET story == <<url>> \o [i \in DOMAIN hops |-> hops[i].destination]
           IN  /\ DOMAIN story = 1..(Len(hops) + 1) /\ Len(story) = Len(hops) + 1
               /\ \A i \in 1..(Len(hops) + 1) : story[i] = Place(url, hops, i)
               /\ Last(story) = Place(url, hops, Len(hops) + 1)
<1> DEFINE led == [i \in DOMAIN hops |-> hops[i].destination]
           story == <<url>> \o led
<1>1. \A i \in DOMAIN hops : hops[i].destination \in Urls
  <2>1. \A i \in DOMAIN hops : hops[i] \in Hop
    OBVIOUS
  <2> QED BY <2>1 DEF Hop
<1>2. led \in Seq(Urls) /\ Len(led) = Len(hops) /\ \A i \in 1..Len(hops) : led[i] = hops[i].destination
  BY <1>1
<1>3. Len(<<url>>) = 1 /\ <<url>>[1] = url /\ <<url>> \in Seq(Urls)
  OBVIOUS
<1> HIDE DEF led
<1>4. Len(story) = Len(hops) + 1 /\ DOMAIN story = 1..(Len(hops) + 1) /\ story[1] = url
  BY <1>2, <1>3
<1>5. \A i \in 2..(Len(hops) + 1) : story[i] = hops[i - 1].destination
  BY <1>2, <1>3
<1> HIDE DEF story
<1>6. \A i \in 1..(Len(hops) + 1) : story[i] = Place(url, hops, i)
  BY <1>4, <1>5 DEF Place
<1>7. Last(story) = Place(url, hops, Len(hops) + 1)
  BY <1>4, <1>6 DEF Last
<1> QED BY <1>4, <1>6, <1>7 DEF story, led

\* The response in hand is returned because its redirect is not followed.
LEMMA EndingNoted ==
    ASSUME TypeOK, Chained, pc \in {"peer", "judge"}, current = Reached,
           Len(answers) = Len(redirects) + 1, NEW note \in Notes, note.source = current,
           note.kind = "refused" => Len(sent) = Len(redirects) + 1,
           Respond(current, redirects, received, note), UNCHANGED <<call, sent, answers>>
    PROVE  Ending'
<1>1. /\ outcome'.redirects = redirects /\ outcome'.url = current /\ outcome'.note = note
      /\ outcome'.kind = "response" /\ note # None
  BY NotesAssumption DEF Respond
<1>2. redirects \in Seq(Hop) /\ call.url \in Urls /\ Len(redirects) \in Nat
      /\ answers \in Seq(Exchange)
  BY DEF TypeOK, Calls
<1>3. /\ \A i \in DOMAIN redirects : redirects[i].source = Place(call.url, redirects, i)
      /\ \A i \in 1..(Len(redirects) + 1) :
            answers[i].url = Place(call.url, redirects, i) /\ answers[i].status = "redirect"
  BY <1>2 DEF Chained
<1> QED BY <1>1, <1>2, <1>3 DEF Ending, Reached

\* The response before the last hop is returned because the hop failed: what
\* remains is the chain without that hop.
LEMMA EndingFollowup ==
    ASSUME TypeOK, Chained, pc = "exchange", redirects # << >>, NEW category \in Isolated,
           NEW heard, NEW status \in {None, "final", "redirect", "429"}, Transmit(status),
           Respond(Last(redirects).source, FollowedTo, heard,
                   Followup(Last(redirects).source, Last(redirects).destination, category)),
           UNCHANGED call
    PROVE  Ending'
<1> DEFINE hops == Front(redirects)
           size == Len(redirects)
<1>1. /\ redirects \in Seq(Hop) /\ call.url \in Urls /\ size \in Nat /\ size > 0
      /\ answers \in Seq(Exchange) /\ current \in Urls
  BY DEF TypeOK, Calls
<1>2. /\ hops \in Seq(Hop) /\ Len(hops) = size - 1 /\ DOMAIN hops = 1..(size - 1)
      /\ \A i \in 1..(size - 1) : hops[i] = redirects[i]
  <2>1. hops = SubSeq(redirects, 1, size - 1)
    BY DEF Front
  <2> HIDE DEF hops, size
  <2>2. size = Len(redirects)
    BY DEF size
  <2>3. hops \in Seq(Hop) /\ Len(hops) = size - 1
    BY <1>1, <2>1, <2>2
  <2>4. \A i \in 1..(size - 1) : hops[i] = redirects[i]
    BY <1>1, <2>1, <2>2
  <2> QED BY <2>3, <2>4
<1>3. Last(redirects) = redirects[size] /\ redirects[size] \in Hop
  BY <1>1 DEF Last
<1>4. /\ outcome'.redirects = hops /\ outcome'.url = redirects[size].source
      /\ outcome'.note = Followup(redirects[size].source, redirects[size].destination, category)
  BY <1>3 DEF Respond, FollowedTo
<1>5. /\ outcome'.note # None /\ outcome'.note.source = redirects[size].source
      /\ outcome'.note.kind = "followup"
  BY <1>3, <1>4, NotesAssumption DEF Followup, Notes, Hop
<1>6. /\ \A i \in 1..size : redirects[i].source = Place(call.url, redirects, i)
      /\ \A i \in 1..size :
            answers[i].url = Place(call.url, redirects, i) /\ answers[i].status = "redirect"
      /\ Len(answers) = size
  <2>1. /\ \A i \in DOMAIN redirects : redirects[i].source = Place(call.url, redirects, i)
        /\ \A i \in DOMAIN answers :
              answers[i] = [url |-> Place(call.url, redirects, i), status |-> "redirect"]
        /\ Len(answers) = size
    BY DEF Chained
  <2>2. DOMAIN redirects = 1..size /\ DOMAIN answers = 1..size
    BY <1>1, <2>1
  <2> QED BY <2>1, <2>2
<1>7. \A i \in 1..size : answers'[i] = answers[i]
  BY <1>1, <1>6 DEF Transmit
<1> HIDE DEF hops, size
<1>8. \A i \in 1..size : Place(call.url, hops, i) = Place(call.url, redirects, i)
  BY <1>1, <1>2 DEF Place
<1>9. /\ \A i \in DOMAIN hops : hops[i].source = Place(call.url, hops, i)
      /\ \A i \in 1..size : answers'[i].url = Place(call.url, hops, i)
      /\ answers'[size].status = "redirect"
      /\ redirects[size].source = Place(call.url, hops, size)
  <2>1. size \in 1..size /\ \A i \in 1..(size - 1) : i \in 1..size
    BY <1>1
  <2>2. \A i \in DOMAIN hops : hops[i].source = Place(call.url, hops, i)
    BY <1>2, <1>6, <1>8, <2>1
  <2> QED BY <1>6, <1>7, <1>8, <2>1, <2>2
<1>10. Len(hops) + 1 = size
  BY <1>1, <1>2
<1> QED BY <1>1, <1>2, <1>4, <1>5, <1>9, <1>10 DEF Ending

LEMMA EndingElse ==
    ASSUME pc' # "done" \/ outcome'.kind # "response"
    PROVE  Ending'
BY DEF Ending

\* A refused redirect, retained or raised.
LEMMA EndingRefuse ==
    ASSUME TypeOK, Chained, Fits, pc = "judge", NEW destination \in Urls \cup {None},
           NEW why \in Reasons, Refuse(destination, why), UNCHANGED <<call, sent, answers>>
    PROVE  Ending'
<1>1. CASE call.retain
  <2>1. Refused(current, destination, why) \in Notes
    BY DEF Refused, Notes, TypeOK
  <2>2. current = Reached /\ Len(answers) = Len(redirects) + 1 /\ Len(sent) = Len(redirects) + 1
    BY DEF Chained, Fits
  <2>3. Respond(current, redirects, received, Refused(current, destination, why))
    BY <1>1 DEF Refuse
  <2> QED BY <2>1, <2>2, <2>3, EndingNoted DEF Refused
<1>2. CASE ~call.retain
  BY <1>2, EndingElse DEF Refuse, Raises
<1> QED BY <1>1, <1>2

\* What Judge refuses, it refuses with a destination.
LEMMA ObjectionHasDestination ==
    \A destination : Objection(destination) \in WithDestination \cup {None}
BY DEF Objection, WithDestination

LEMMA EndingNext == TypeOK /\ Chained /\ Fits /\ Ending /\ [Next]_vars => Ending'
<1> SUFFICES ASSUME TypeOK, Chained, Fits, Ending, [Next]_vars PROVE Ending'
  OBVIOUS
<1> USE EndingElse
<1>1. ASSUME NEW c \in Calls, Request(c) PROVE Ending'
  BY <1>1 DEF Request, Raises
<1>2. CASE SelectPeer
  BY <1>2 DEF SelectPeer, Admit
<1>3. CASE RefusePeer
  BY <1>3 DEF RefusePeer, Raises
<1>4. ASSUME NEW category, FailPeer(category) PROVE Ending'
  <2>1. CASE current # None /\ call.retain /\ call.isolate /\ category \in Isolated
    <3>1. /\ pc = "peer" /\ UNCHANGED <<call, sent, answers>>
          /\ Respond(current, redirects, received, Followup(current, next, category))
      BY <1>4, <2>1 DEF FailPeer
    <3>2. current \in Urls /\ current = Reached /\ Len(answers) = Len(redirects) + 1
      BY <2>1, <3>1 DEF Chained
    <3>3. Followup(current, next, category) \in Notes
      BY <2>1, <3>1, <3>2 DEF Followup, Notes, TypeOK
    <3> QED BY <3>1, <3>2, <3>3, EndingNoted DEF Followup
  <2>2. CASE ~(current # None /\ call.retain /\ call.isolate /\ category \in Isolated)
    BY <1>4, <2>2 DEF FailPeer, Raises
  <2> QED BY <2>1, <2>2
<1>5. ASSUME NEW why, Unavailable(why) PROVE Ending'
  BY <1>5 DEF Unavailable, Raises
<1>6. ASSUME NEW status \in {"final", "redirect", "429"}, Answer(status) PROVE Ending'
  <2>1. CASE status = "final"
    <3>1. /\ pc = "exchange" /\ UNCHANGED <<call, redirects>>
          /\ answers' = Append(answers, [url |-> current, status |-> "final"])
          /\ outcome'.redirects = redirects /\ outcome'.url = current /\ outcome'.note = None
      BY <1>6, <2>1, StatusIsAnswer DEF Answer, Transmit, Respond
    <3>2. /\ redirects \in Seq(Hop) /\ call.url \in Urls /\ Len(redirects) \in Nat
          /\ answers \in Seq(Exchange) /\ Len(answers) = Len(redirects)
          /\ current = Place(call.url, redirects, Len(redirects) + 1)
      BY <3>1 DEF TypeOK, Calls, Chained, Reached
    <3>3. /\ \A i \in DOMAIN redirects : redirects[i].source = Place(call.url, redirects, i)
          /\ \A i \in DOMAIN answers : answers[i].url = Place(call.url, redirects, i)
      BY <3>1 DEF Chained
    <3>4. /\ \A i \in 1..(Len(redirects) + 1) : answers'[i].url = Place(call.url, redirects, i)
          /\ answers'[Len(redirects) + 1].status = "final"
      BY <3>1, <3>2, <3>3
    <3> QED BY <3>1, <3>2, <3>3, <3>4 DEF Ending
  <2>2. CASE status # "final"
    BY <1>6, <2>2 DEF Answer, Transmit, Raises
  <2> QED BY <2>1, <2>2
<1>7. ASSUME NEW category, NEW status \in {None, "final", "redirect", "429"}, Fail(category, status)
      PROVE  Ending'
  <2>1. CASE /\ status # "429"
             /\ redirects # << >> /\ call.retain /\ call.isolate /\ category \in Isolated
    <3>1. /\ pc = "exchange" /\ Transmit(status) /\ UNCHANGED call
          /\ Respond(Last(redirects).source, FollowedTo, Heard(status),
                     Followup(Last(redirects).source, Last(redirects).destination, category))
      BY <1>7, <2>1 DEF Fail, Transmit
    <3> QED BY <2>1, <3>1, EndingFollowup
  <2>2. CASE ~(/\ status # "429"
               /\ redirects # << >> /\ call.retain /\ call.isolate /\ category \in Isolated)
    BY <1>7, <2>2 DEF Fail, Raises
  <2> QED BY <2>1, <2>2
<1>8. ASSUME NEW reason, JudgeNoDestination(reason) PROVE Ending'
  BY <1>8, EndingRefuse DEF JudgeNoDestination, Reasons
<1>9. ASSUME NEW destination \in Urls, Judge(destination) PROVE Ending'
  <2>1. pc = "judge" /\ UNCHANGED <<call, sent, answers>>
    BY <1>9 DEF Judge
  <2>2. CASE \E why \in WithDestination : Refuse(destination, why)
    BY <2>1, <2>2, EndingRefuse DEF Reasons
  <2>3. CASE ~\E why \in WithDestination : Refuse(destination, why)
    <3>1. \/ pc' = "peer"
          \/ Raises("scope", "redirect", received)
      BY <1>9, <2>3, ObjectionHasDestination DEF Judge, WithDestination
    <3> QED BY <3>1 DEF Raises
  <2> QED BY <2>2, <2>3
<1>10. CASE Finish
  BY <1>10 DEF Finish
<1>11. CASE UNCHANGED vars
  BY <1>11 DEF vars, Ending
<1> QED BY <1>1, <1>2, <1>3, <1>4, <1>5, <1>6, <1>7, <1>8, <1>9, <1>10, <1>11 DEF Next

LEMMA ChainInvariant == Spec => [](TypeOK /\ Chained /\ Fits /\ Ending)
<1>1. Init => Chained /\ Ending
  BY DEF Init, Chained, Ending
<1>2. Init => Fits
  BY HopsAssumption DEF Init, Fits, Bounded
<1> QED BY <1>1, <1>2, TypeCorrect, ChainedNext, FitsNext, EndingNext, PTL DEF Spec

\* A response that is returned is one the target gave: the redirects lead
\* from the URL requested to it, and what it says was not followed was not
\* answered, or only in part.
THEOREM ResponsesAreTrue == Spec => []TrueStory
<1>1. Ending => TrueStory
  <2> SUFFICES ASSUME Ending, pc = "done", outcome.kind = "response" PROVE TrueStory
    BY DEF TrueStory
  <2> DEFINE hops == outcome.redirects
             story == <<call.url>> \o [i \in DOMAIN hops |-> hops[i].destination]
  <2>1. hops \in Seq(Hop) /\ call.url \in Urls
    BY DEF Ending
  <2>2. /\ DOMAIN story = 1..(Len(hops) + 1) /\ Len(story) = Len(hops) + 1
        /\ \A i \in 1..(Len(hops) + 1) : story[i] = Place(call.url, hops, i)
        /\ Last(story) = Place(call.url, hops, Len(hops) + 1)
    BY <2>1, StoryPlaces
  <2>3. \A i \in DOMAIN hops : i \in 1..(Len(hops) + 1)
    BY <2>1
  <2> HIDE DEF story
  <2>4. /\ \A i \in DOMAIN hops : hops[i].source = story[i]
        /\ outcome.url = Last(story)
        /\ \A i \in DOMAIN story : answers[i].url = story[i]
    BY <2>2, <2>3 DEF Ending
  <2>5. /\ outcome.note = None => answers[Len(story)].status = "final"
        /\ outcome.note # None =>
             /\ answers[Len(story)].status = "redirect" /\ outcome.note.source = outcome.url
             /\ outcome.note.kind = "refused" => Len(sent) = Len(story)
    BY <2>2 DEF Ending
  <2> QED BY <2>4, <2>5 DEF TrueStory, story
<1> QED BY <1>1, ChainInvariant, PTL

----------------------------------------------------------------------------
(* What native discovery can record. *)

\* What the record's validation relies on, for a call c and its outcome o.
RightResponse(o) ==
    /\ o.exchanges # << >> /\ o.note \in Notes \cup {None}
    /\ o.note # None /\ o.note.kind = "refused" =>
         /\ o.note.source = Last(o.exchanges).url /\ Last(o.exchanges).status = "redirect"
         /\ o.note.why \in WithDestination <=> o.note.destination # None
    /\ o.note # None /\ o.note.kind = "followup" /\ Last(o.exchanges).url = o.note.destination =>
         o.note.why \in Breaks

RightFailure(c, o) ==
    /\ o.why \in Isolated \cup Fatal
    /\ o.why \in Fatal /\ o.exchanges # << >> => Last(o.exchanges).status = "redirect"
    /\ o.why \in Isolated /\ o.exchanges # << >> /\ Native(c) => o.why \in Breaks

RightScope(o) ==
    IF o.exchanges = << >> THEN o.why # "redirect"
    ELSE o.why # "initial" /\ Last(o.exchanges).status = "redirect"

TellsRight(c, o) ==
    /\ o.exchanges \in Seq(Exchange)
    /\ o.exchanges # << >> => o.exchanges[1].url = c.url
    /\ o.kind \in {"invalid", "closed", "refused", "scope", "rate", "failure", "response"}
    /\ o.kind = "response" => RightResponse(o)
    /\ o.kind = "failure" => RightFailure(c, o)
    /\ o.kind = "scope" => RightScope(o)
    /\ o.kind = "rate" /\ Native(c) => o.exchanges # << >> /\ Last(o.exchanges).status = "429"

Reported == pc = "done" => TellsRight(call, outcome)

\* The exchanges received before the one under way.
LEMMA ReceivedSoFar ==
    ASSUME TypeOK, Told, Chained, pc \in {"peer", "exchange", "judge"}
    PROVE  /\ received \in Seq(Exchange)
           /\ received # << >> => received[1].url = call.url /\ Last(received).status = "redirect"
           /\ pc = "judge" \/ (pc = "peer" /\ current # None) =>
                received # << >> /\ Last(received).url = current
           /\ pc = "exchange" /\ received = << >> => current = call.url
           /\ pc = "exchange" /\ redirects = << >> => received = << >>
<1>1. received = answers /\ answers \in Seq(Exchange) /\ redirects \in Seq(Hop)
  BY DEF Told, TypeOK
<1>2. \A i \in DOMAIN answers :
        answers[i] = [url |-> Place(call.url, redirects, i), status |-> "redirect"]
  BY DEF Chained
<1>3. Len(answers) \in Nat /\ Len(redirects) \in Nat /\ DOMAIN answers = 1..Len(answers)
      /\ (answers = << >> <=> Len(answers) = 0) /\ (redirects = << >> => Len(redirects) = 0)
  BY <1>1
<1>4. answers # << >> => 1 \in DOMAIN answers /\ Len(answers) \in DOMAIN answers
  BY <1>3
<1>5. answers # << >> => answers[1].url = call.url /\ Last(answers).status = "redirect"
  BY <1>2, <1>4 DEF Last, Place
<1>6. pc = "judge" \/ (pc = "peer" /\ current # None) =>
        current = Reached /\ Len(answers) = Len(redirects) + 1
  BY DEF Chained
<1>7. pc = "judge" \/ (pc = "peer" /\ current # None) =>
        answers # << >> /\ Last(answers).url = current
  <2> SUFFICES ASSUME pc = "judge" \/ (pc = "peer" /\ current # None)
               PROVE  answers # << >> /\ Last(answers).url = current
    OBVIOUS
  <2>1. current = Reached /\ Len(answers) = Len(redirects) + 1
    BY <1>6
  <2>2. answers # << >> /\ Len(answers) \in DOMAIN answers
    BY <1>3, <1>4, <2>1
  <2>3. answers[Len(answers)].url = Place(call.url, redirects, Len(answers))
    BY <1>2, <2>2
  <2> QED BY <2>1, <2>2, <2>3 DEF Last, Reached
<1>8. pc = "exchange" => Len(answers) = Len(redirects) /\ current = Reached
  BY DEF Chained
<1>9. pc = "exchange" /\ answers = << >> => current = call.url
  BY <1>3, <1>8 DEF Reached, Place
<1> QED BY <1>1, <1>3, <1>5, <1>7, <1>8, <1>9

LEMMA ReachedVisited ==
    ASSUME redirects \in Seq(Hop)
    PROVE  Reached \in Visited
<1>1. Len(redirects) \in Nat /\ DOMAIN redirects = 1..Len(redirects)
  OBVIOUS
<1>2. CASE Len(redirects) = 0
  BY <1>2 DEF Reached, Place, Visited
<1>3. CASE Len(redirects) # 0
  <2>1. Len(redirects) \in DOMAIN redirects /\ Reached = redirects[Len(redirects)].destination
    BY <1>1, <1>3 DEF Reached, Place
  <2> QED BY <2>1 DEF Visited
<1> QED BY <1>2, <1>3

\* A response heard, in full or not, is one more.
LEMMA HeardOneMore ==
    ASSUME TypeOK, Told, Chained, pc = "exchange", NEW status \in {"final", "redirect", "429"}
    PROVE  LET heard == Append(received, [url |-> current, status |-> status])
           IN  /\ heard \in Seq(Exchange) /\ heard # << >>
               /\ heard[1].url = call.url /\ Last(heard) = [url |-> current, status |-> status]
<1> DEFINE heard == Append(received, [url |-> current, status |-> status])
<1>1. /\ received \in Seq(Exchange) /\ current \in Urls
      /\ received # << >> => received[1].url = call.url
      /\ received = << >> => current = call.url
  BY ReceivedSoFar DEF TypeOK
<1>2. [url |-> current, status |-> status] \in Exchange
  BY <1>1 DEF Exchange
<1>3. /\ heard \in Seq(Exchange) /\ Len(heard) = Len(received) + 1
      /\ heard[Len(received) + 1] = [url |-> current, status |-> status]
      /\ \A i \in 1..Len(received) : heard[i] = received[i]
      /\ Len(received) \in Nat /\ (received = << >> <=> Len(received) = 0)
  BY <1>1, <1>2
<1> HIDE DEF heard
<1>4. heard # << >> /\ Last(heard) = [url |-> current, status |-> status]
  BY <1>3 DEF Last
<1>5. heard[1].url = call.url
  <2>1. CASE received = << >>
    <3>1. heard[1] = [url |-> current, status |-> status]
      BY <1>3, <2>1
    <3> QED BY <1>1, <2>1, <3>1
  <2>2. CASE received # << >>
    <3>1. 1 \in 1..Len(received)
      BY <1>3, <2>2
    <3> QED BY <1>1, <1>3, <2>2, <3>1
  <2> QED BY <2>1, <2>2
<1> QED BY <1>3, <1>4, <1>5 DEF heard

\* A redirect that is not followed is told by the response that named it.
LEMMA RefusalTellsRight ==
    ASSUME TypeOK, Told, Chained, pc = "judge", NEW destination \in Urls \cup {None},
           NEW why \in Reasons, why \in WithDestination <=> destination # None,
           Refuse(destination, why), call' = call
    PROVE  Reported'
<1>1. /\ received \in Seq(Exchange) /\ received # << >> /\ Last(received).url = current
      /\ received[1].url = call.url /\ Last(received).status = "redirect"
  BY ReceivedSoFar
<1>2. CASE call.retain
  <2>1. Refused(current, destination, why) \in Notes
    BY DEF Refused, Notes, TypeOK
  <2>2. /\ outcome'.kind = "response" /\ outcome'.exchanges = received
        /\ outcome'.note = Refused(current, destination, why)
    BY <1>2 DEF Refuse, Respond
  <2>3. RightResponse(outcome')
    BY <1>1, <2>1, <2>2 DEF RightResponse, Refused
  <2> QED BY <1>1, <2>2, <2>3 DEF Reported, TellsRight
<1>3. CASE ~call.retain
  BY <1>1, <1>3 DEF Refuse, Raises, Reported, TellsRight
<1> QED BY <1>2, <1>3

\* A peer that cannot be found is told as a failure, or as one of the redirect.
LEMMA NoPeerTellsRight ==
    ASSUME TypeOK, Told, Chained, Fits, NEW category, FailPeer(category)
    PROVE  Reported'
<1>1. /\ pc = "peer" /\ call' = call /\ received \in Seq(Exchange)
      /\ category \in {"dns_error", "no_usable_ipv4", "invalid_resolver_result"}
      /\ received # << >> => received[1].url = call.url /\ Last(received).status = "redirect"
      /\ current # None => received # << >> /\ Last(received).url = current
  BY ReceivedSoFar DEF FailPeer
<1>2. CASE current # None /\ call.retain /\ call.isolate /\ category \in Isolated
  <2>1. /\ outcome'.kind = "response" /\ outcome'.exchanges = received
        /\ outcome'.note = Followup(current, next, category)
    BY <1>2 DEF FailPeer, Respond
  <2>2. current \in Urls /\ next \in Urls
    BY <1>1, <1>2 DEF TypeOK
  <2>3. Followup(current, next, category) \in Notes
    BY <1>2, <2>2 DEF Followup, Notes
  <2>4. next # current
    <3>1. next \notin Visited /\ current = Reached
      BY <1>1, <1>2 DEF Fits, Chained
    <3>2. Reached \in Visited
      BY ReachedVisited DEF TypeOK
    <3> QED BY <3>1, <3>2
  <2>5. RightResponse(outcome')
    BY <1>1, <1>2, <2>1, <2>3, <2>4 DEF RightResponse, Followup
  <2> QED BY <1>1, <1>2, <2>1, <2>5 DEF Reported, TellsRight
<1>3. CASE ~(current # None /\ call.retain /\ call.isolate /\ category \in Isolated)
  <2>1. /\ outcome'.kind = "failure" /\ outcome'.exchanges = received
        /\ outcome'.why = category
    BY <1>3 DEF FailPeer, Raises
  <2>2. current = None => received = << >>
    BY <1>1, NoneAssumption DEF Chained, Told
  <2>3. RightFailure(call, outcome')
    BY <1>1, <1>3, <2>1, <2>2 DEF RightFailure, Native, Isolated, Fatal
  <2> QED BY <1>1, <2>1, <2>3 DEF Reported, TellsRight
<1> QED BY <1>2, <1>3

\* A redirect that is followed leads to a URL not visited before.
Onward ==
    pc = "exchange" /\ redirects # << >> => Last(redirects).source # Last(redirects).destination

LEMMA OnwardAdmit ==
    ASSUME TypeOK, Chained, Fits, Onward, pc = "peer", NEW address, Admit(address)
    PROVE  Onward'
<1>1. redirects \in Seq(Hop) /\ next \in Urls
  BY DEF TypeOK
<1>2. CASE current = None
  <2>1. redirects' = << >>
    BY <1>2, NoneAssumption DEF Chained, Admit
  <2> QED BY <2>1 DEF Onward
<1>3. CASE current # None
  <2> DEFINE hop == [source |-> current, destination |-> next]
  <2>1. redirects' = Append(redirects, hop) /\ current = Reached /\ next \notin Visited
    BY <1>3 DEF Admit, Chained, Fits
  <2>2. hop \in Hop
    BY <1>1, <1>3 DEF Hop, Chained
  <2>3. Last(redirects') = hop
    <3> HIDE DEF hop
    <3> QED BY <1>1, <2>1, <2>2 DEF Last
  <2>4. current # next
    BY <1>1, <2>1, ReachedVisited
  <2> QED BY <2>3, <2>4 DEF Onward
<1> QED BY <1>2, <1>3

LEMMA OnwardNext == TypeOK /\ Chained /\ Fits /\ Onward /\ [Next]_vars => Onward'
<1> SUFFICES ASSUME TypeOK, Chained, Fits, Onward, [Next]_vars PROVE Onward'
  OBVIOUS
<1>1. CASE SelectPeer
  BY <1>1, OnwardAdmit DEF SelectPeer
<1>2. CASE UNCHANGED vars
  BY <1>2 DEF vars, Onward
<1>3. CASE ~SelectPeer /\ ~UNCHANGED vars
  <2>1. pc' # "exchange"
    BY <1>3 DEF Next, Request, RefusePeer, FailPeer, Unavailable, Answer, Fail,
       JudgeNoDestination, Judge, Finish, Refuse, Respond, Raises
  <2> QED BY <2>1 DEF Onward
<1> QED BY <1>1, <1>2, <1>3

\* While a redirect is followed its source is the last URL answered, and it
\* is not its destination.
LEMMA HopAnswered ==
    ASSUME TypeOK, Told, Chained, Onward, pc = "exchange", redirects # << >>
    PROVE  received # << >> /\ Last(received).url # Last(redirects).destination
<1> DEFINE size == Len(redirects)
<1>1. /\ received = answers /\ Len(answers) = size
      /\ redirects \in Seq(Hop) /\ answers \in Seq(Exchange)
  BY DEF Told, Chained, TypeOK
<1>2. size \in DOMAIN redirects /\ size \in DOMAIN answers
  BY <1>1
<1>3. redirects[size].source = answers[size].url
  BY <1>2 DEF Chained
<1>4. Last(answers) = answers[size] /\ Last(redirects) = redirects[size] /\ answers # << >>
  BY <1>1, <1>2 DEF Last
<1> QED BY <1>1, <1>3, <1>4 DEF Onward

\* A transport that fails is told as a failure, as one of the redirect before
\* it, or as the rejection it was the head of.
LEMMA BreakTellsRight ==
    ASSUME TypeOK, Told, Chained, Onward, NEW category \in Isolated \cup Fatal,
           NEW status \in {None, "final", "redirect", "429"}, Fail(category, status)
    PROVE  Reported'
<1>1. /\ pc = "exchange" /\ call' = call
      /\ status # None => category \in Breaks
  BY DEF Fail, Transmit
<1>2. /\ received \in Seq(Exchange)
      /\ received # << >> => received[1].url = call.url /\ Last(received).status = "redirect"
      /\ redirects = << >> => received = << >>
  BY <1>1, ReceivedSoFar
<1>3. /\ Heard(status) \in Seq(Exchange)
      /\ Heard(status) # << >> => Heard(status)[1].url = call.url
      /\ status # None =>
           Heard(status) # << >> /\ Last(Heard(status)) = [url |-> current, status |-> status]
  <2>1. CASE status = None
    BY <1>2, <2>1 DEF Heard
  <2>2. CASE status # None
    <3>1. Heard(status) = Append(received, [url |-> current, status |-> status])
      BY <2>2 DEF Heard
    <3> QED BY <1>1, <2>2, <3>1, HeardOneMore
  <2> QED BY <2>1, <2>2
<1>4. status = None => Heard(status) = received
  BY DEF Heard
<1>5. CASE status = "429"
  <2>1. /\ outcome'.kind = "rate" /\ outcome'.exchanges = Heard(status)
    BY <1>5 DEF Fail, Raises
  <2> QED BY <1>1, <1>3, <1>5, <2>1, StatusIsAnswer DEF Reported, TellsRight
<1>6. CASE /\ status # "429"
           /\ redirects # << >> /\ call.retain /\ call.isolate /\ category \in Isolated
  <2> DEFINE hop == Last(redirects)
  <2>1. hop \in Hop /\ hop = redirects[Len(redirects)] /\ Len(redirects) \in DOMAIN redirects
    BY <1>6 DEF TypeOK, Last
  <2>2. /\ outcome'.kind = "response" /\ outcome'.exchanges = Heard(status)
        /\ outcome'.note = Followup(hop.source, hop.destination, category)
    BY <1>6 DEF Fail, Respond
  <2>3. /\ Followup(hop.source, hop.destination, category) \in Notes
        /\ outcome'.note.kind = "followup" /\ outcome'.note.why = category
        /\ outcome'.note.destination = hop.destination
    BY <1>6, <2>1, <2>2 DEF Followup, Notes, Hop
  <2>4. Heard(status) # << >>
    BY <1>1, <1>3, <1>4, <1>6, HopAnswered
  <2>5. status = None => Last(Heard(status)).url # hop.destination
    BY <1>1, <1>4, <1>6, HopAnswered
  <2>6. Last(Heard(status)).url = hop.destination => category \in Breaks
    BY <1>1, <2>5
  <2>7. RightResponse(outcome')
    BY <2>2, <2>3, <2>4, <2>6 DEF RightResponse
  <2> QED BY <1>1, <1>3, <2>2, <2>7 DEF Reported, TellsRight
<1>7. CASE /\ status # "429"
           /\ ~(redirects # << >> /\ call.retain /\ call.isolate /\ category \in Isolated)
  <2>1. /\ outcome'.kind = "failure" /\ outcome'.exchanges = Heard(status)
        /\ outcome'.why = category
    BY <1>7 DEF Fail, Raises
  <2>2. category \in Fatal => status = None
    BY <1>1 DEF Fatal, Breaks
  <2>3. category \in Isolated /\ Native(call) /\ Heard(status) # << >> => category \in Breaks
    BY <1>1, <1>2, <1>4, <1>7 DEF Native
  <2>4. RightFailure(call, outcome')
    BY <1>2, <1>4, <2>1, <2>2, <2>3 DEF RightFailure
  <2> QED BY <1>1, <1>3, <2>1, <2>4 DEF Reported, TellsRight
<1> QED BY <1>5, <1>6, <1>7

LEMMA ReportedNext ==
    TypeOK /\ Told /\ Chained /\ Fits /\ Onward /\ Reported /\ [Next]_vars => Reported'
<1> SUFFICES ASSUME TypeOK, Told, Chained, Fits, Onward, Reported, [Next]_vars PROVE Reported'
  OBVIOUS
<1>1. ASSUME NEW c \in Calls, Request(c) PROVE Reported'
  <2>1. CASE pc' = "done"
    <3>1. /\ outcome'.exchanges = << >> /\ outcome'.kind \in {"invalid", "scope"}
          /\ outcome'.kind = "scope" => outcome'.why = "initial"
      BY <1>1, <2>1 DEF Request, Raises
    <3>2. << >> \in Seq(Exchange)
      OBVIOUS
    <3> QED BY <3>1, <3>2 DEF Reported, TellsRight, RightScope
  <2> QED BY <2>1 DEF Reported
<1>2. CASE SelectPeer
  BY <1>2 DEF SelectPeer, Admit, Reported
<1>3. CASE RefusePeer
  <2>1. /\ pc = "peer" /\ outcome'.exchanges = received /\ outcome'.kind = "scope"
        /\ outcome'.why = "resolved_peer" /\ call' = call
    BY <1>3 DEF RefusePeer, Raises
  <2> QED BY <2>1, ReceivedSoFar DEF Reported, TellsRight, RightScope
<1>4. ASSUME NEW category, FailPeer(category) PROVE Reported'
  BY <1>4, NoPeerTellsRight
<1>5. ASSUME NEW why, Unavailable(why) PROVE Reported'
  <2>1. /\ pc = "exchange" /\ call' = call
        /\ \/ outcome'.kind = "closed" /\ outcome'.exchanges = << >>
           \/ ~Native(call) /\ outcome'.kind = "rate" /\ outcome'.exchanges = received
    BY <1>5 DEF Unavailable, Raises
  <2>2. << >> \in Seq(Exchange)
    OBVIOUS
  <2> QED BY <2>1, <2>2, ReceivedSoFar DEF Reported, TellsRight
<1>6. ASSUME NEW status \in {"final", "redirect", "429"}, Answer(status) PROVE Reported'
  <2>1. CASE status \in {"final", "429"}
    <3>1. /\ pc = "exchange" /\ call' = call /\ outcome'.exchanges = received'
          /\ received' = Append(received, [url |-> current, status |-> status])
      BY <1>6, <2>1 DEF Answer, Transmit, Raises, Respond
    <3>2. \/ outcome'.kind = "rate" /\ status = "429"
          \/ outcome'.kind = "response" /\ outcome'.note = None
      BY <1>6, <2>1 DEF Answer, Transmit, Raises, Respond
    <3>3. /\ received' \in Seq(Exchange) /\ received' # << >>
          /\ received'[1].url = call.url /\ Last(received').status = status
      BY <3>1, HeardOneMore
    <3> QED BY <3>1, <3>2, <3>3 DEF Reported, TellsRight, RightResponse
  <2>2. CASE status = "redirect"
    BY <1>6, <2>2 DEF Answer, Transmit, Reported
  <2> QED BY <2>1, <2>2
<1>7. ASSUME NEW category \in Isolated \cup Fatal, NEW status \in {None, "final", "redirect", "429"},
             Fail(category, status)
      PROVE  Reported'
  BY <1>7, BreakTellsRight
<1>8. ASSUME NEW reason, JudgeNoDestination(reason) PROVE Reported'
  BY <1>8, RefusalTellsRight DEF JudgeNoDestination, Reasons, WithDestination
<1>9. ASSUME NEW destination \in Urls, Judge(destination) PROVE Reported'
  <2>1. pc = "judge" /\ call' = call /\ destination # None
    BY <1>9, NoneAssumption DEF Judge
  <2>2. CASE \E why \in WithDestination : Refuse(destination, why)
    BY <2>1, <2>2, RefusalTellsRight DEF Reasons
  <2>3. CASE ~\E why \in WithDestination : Refuse(destination, why)
    <3>1. \/ pc' = "peer"
          \/ Raises("scope", "redirect", received)
      BY <1>9, <2>3, ObjectionHasDestination DEF Judge, WithDestination
    <3>2. CASE Raises("scope", "redirect", received)
      BY <2>1, <3>2, ReceivedSoFar DEF Raises, Reported, TellsRight, RightScope
    <3> QED BY <3>1, <3>2 DEF Reported
  <2> QED BY <2>2, <2>3
<1>10. CASE Finish
  BY <1>10 DEF Finish, Reported
<1>11. CASE UNCHANGED vars
  BY <1>11 DEF vars, Reported
<1> QED BY <1>1, <1>2, <1>3, <1>4, <1>5, <1>6, <1>7, <1>8, <1>9, <1>10, <1>11 DEF Next

\* What every kind of record has in common: its URLs, and where it starts.
LEMMA RecordStarts ==
    ASSUME NEW o, TellsRight(call, o), \A u \in Urls : u.canonical,
           NEW d, d.url \in Urls \cup {None},
           d.kind = "refused" => o.note.destination \in Urls \cup {None}
    PROVE  /\ \A u \in {o.exchanges[i].url : i \in DOMAIN o.exchanges}
                       \cup {u \in {d.url} : u # None}
                       \cup (IF d.kind = "refused" THEN {o.note.destination} \ {None} ELSE {}) :
                 u.canonical
           /\ o.exchanges # << >> => o.exchanges[1].url = call.url
<1>1. \A i \in DOMAIN o.exchanges : o.exchanges[i].url \in Urls
  <2>1. \A i \in DOMAIN o.exchanges : o.exchanges[i] \in Exchange
    BY DEF TellsRight
  <2> QED BY <2>1 DEF Exchange
<1> QED BY <1>1 DEF TellsRight

\* A response that is returned can be recorded.
LEMMA RecordResponse ==
    ASSUME call \in Calls, NEW o, TellsRight(call, o), o.kind = "response",
           \A u \in Urls : u.canonical
    PROVE  Accepted(o, Recorded(o))
<1>1. RightResponse(o) /\ o.exchanges \in Seq(Exchange) /\ o.exchanges # << >>
  BY DEF TellsRight, RightResponse
<1>2. CASE o.note = None
  <2>1. Recorded(o) = Disposition("none", None, None)
    BY <1>2 DEF Recorded
  <2> DEFINE d == Disposition("none", None, None)
  <2>2. d.kind = "none" /\ d.url = None
    BY DEF Disposition
  <2> HIDE DEF d
  <2>3. Accepted(o, d)
    BY <1>1, <2>2, RecordStarts DEF Accepted
  <2> QED BY <2>1, <2>3 DEF d
<1>3. CASE o.note # None /\ o.note.kind = "refused"
  <2>1. Recorded(o) = Disposition("refused", o.note.source, o.note.why)
    BY <1>3 DEF Recorded
  <2> DEFINE d == Disposition("refused", o.note.source, o.note.why)
  <2>2. d.kind = "refused" /\ d.url = o.note.source /\ d.why = o.note.why
    BY DEF Disposition
  <2>3. o.note \in Notes
    BY <1>1, <1>3 DEF RightResponse
  <2>4. o.note.source \in Urls /\ o.note.destination \in Urls \cup {None} /\ o.note.why \in Reasons
    BY <1>3, <2>3 DEF Notes
  <2> HIDE DEF d
  <2>5. Accepted(o, d)
    BY <1>1, <1>3, <2>2, <2>4, RecordStarts DEF Accepted, RightResponse
  <2> QED BY <2>1, <2>5 DEF d
<1>4. CASE o.note # None /\ o.note.kind = "followup"
  <2> DEFINE last == Last(o.exchanges).url
             d == Disposition(IF last = o.note.destination THEN "terminal" ELSE "failure",
                              o.note.destination, o.note.why)
  <2>1. Recorded(o) = d
    BY <1>1, <1>4 DEF Recorded
  <2>2. /\ d.kind = IF last = o.note.destination THEN "terminal" ELSE "failure"
        /\ d.url = o.note.destination /\ d.why = o.note.why
    BY DEF Disposition
  <2>3. o.note.destination \in Urls
    BY <1>1, <1>4 DEF RightResponse, Notes
  <2> HIDE DEF d
  <2>4. Accepted(o, d)
    BY <1>1, <1>4, <2>2, <2>3, RecordStarts DEF Accepted, RightResponse
  <2> QED BY <2>1, <2>4
<1> QED BY <1>1, <1>2, <1>3, <1>4 DEF RightResponse, Notes

\* So can a failure, if it leaves a record at all.
LEMMA RecordFailure ==
    ASSUME call \in Calls, NEW o, TellsRight(call, o), o.kind = "failure", Native(call),
           \A u \in Urls : u.canonical, Recorded(o) # None
    PROVE  Accepted(o, Recorded(o))
<1>1. /\ RightFailure(call, o) /\ o.exchanges \in Seq(Exchange)
      /\ Isolated \cap Fatal = {} /\ o.kind # "response" /\ call.url \in Urls
  BY DEF TellsRight, Isolated, Fatal, Calls
<1> DEFINE last == Last(o.exchanges).url
<1>2. o.exchanges # << >> => last \in Urls /\ last # None
  <2> SUFFICES ASSUME o.exchanges # << >> PROVE last \in Urls
    BY NoneAssumption
  <2>1. Last(o.exchanges) \in Exchange
    BY <1>1 DEF Last
  <2> QED BY <2>1 DEF Exchange
<1> HIDE DEF last
<1>3. CASE o.why \in Fatal /\ o.exchanges = << >>
  BY <1>1, <1>3 DEF Recorded
<1>4. CASE o.why \in Fatal /\ o.exchanges # << >>
  <2> DEFINE d == Disposition("fatal", None, o.why)
  <2>1. Recorded(o) = d
    BY <1>1, <1>2, <1>4 DEF Recorded, last
  <2>2. d.kind = "fatal" /\ d.url = None
    BY DEF Disposition
  <2> HIDE DEF d
  <2>3. Accepted(o, d)
    BY <1>1, <1>4, <2>2, RecordStarts DEF Accepted, RightFailure
  <2> QED BY <2>1, <2>3
<1>5. CASE o.why \in Isolated /\ o.exchanges = << >>
  <2> DEFINE d == Disposition("failure", call.url, o.why)
  <2>1. Recorded(o) = d
    BY <1>1, <1>5 DEF Recorded
  <2>2. d.kind = "failure" /\ d.url = call.url
    BY DEF Disposition
  <2> HIDE DEF d
  <2>3. Accepted(o, d)
    BY <1>1, <1>5, <2>2, RecordStarts DEF Accepted
  <2> QED BY <2>1, <2>3
<1>6. CASE o.why \in Isolated /\ o.exchanges # << >>
  <2> DEFINE d == Disposition("terminal", last, o.why)
  <2>1. Recorded(o) = d
    BY <1>1, <1>2, <1>6 DEF Recorded, last
  <2>2. d.kind = "terminal" /\ d.url = last /\ d.why = o.why
    BY DEF Disposition
  <2>3. o.why \in Breaks
    BY <1>1, <1>6 DEF RightFailure
  <2> HIDE DEF d
  <2>4. Accepted(o, d)
    BY <1>1, <1>2, <1>6, <2>2, <2>3, RecordStarts DEF Accepted, last
  <2> QED BY <2>1, <2>4
<1> QED BY <1>1, <1>3, <1>4, <1>5, <1>6 DEF RightFailure

\* So can a refusal of the scope policy and a rejection.
LEMMA RecordStop ==
    ASSUME call \in Calls, NEW o, TellsRight(call, o), o.kind \in {"scope", "rate"}, Native(call),
           \A u \in Urls : u.canonical
    PROVE  Accepted(o, Recorded(o))
<1>1. o.exchanges \in Seq(Exchange)
  BY DEF TellsRight
<1>2. CASE o.kind = "scope"
  <2> DEFINE d == Disposition("scope", None, o.why)
  <2>1. Recorded(o) = d
    BY <1>2 DEF Recorded
  <2>2. d.kind = "scope" /\ d.url = None /\ d.why = o.why
    BY DEF Disposition
  <2> HIDE DEF d
  <2>3. Accepted(o, d)
    BY <1>2, <2>2, RecordStarts DEF Accepted, TellsRight, RightScope
  <2> QED BY <2>1, <2>3
<1>3. CASE o.kind = "rate"
  <2> DEFINE last == Last(o.exchanges).url
             d == Disposition("rate", last, o.why)
  <2>1. o.exchanges # << >> /\ Last(o.exchanges).status = "429"
    BY <1>3 DEF TellsRight
  <2>2. last \in Urls /\ last # None
    <3>1. Last(o.exchanges) \in Exchange
      BY <1>1, <2>1 DEF Last
    <3> QED BY <3>1, NoneAssumption DEF Exchange
  <2>3. Recorded(o) = d
    BY <1>3, <2>1, <2>2 DEF Recorded
  <2>4. d.kind = "rate" /\ d.url = last
    BY DEF Disposition
  <2> HIDE DEF d
  <2>5. Accepted(o, d)
    BY <2>1, <2>2, <2>4, RecordStarts DEF Accepted
  <2> QED BY <2>3, <2>5
<1> QED BY <1>2, <1>3

LEMMA ReportInvariant == Spec => [](TypeOK /\ Reported)
<1>1. Init => Told /\ Onward /\ Reported
  BY DEF Init, Told, NothingLost, Onward, Reported
<1> QED BY <1>1, ChainInvariant, ToldNext, OnwardNext, ReportedNext, PTL DEF Spec

\* Where every URL is in canonical spelling (redirect_spelling shows what
\* another one does), every outcome of a candidate request can be told as one
\* record that its own validation accepts.
THEOREM OutcomesAreRecordable ==
    ASSUME \A u \in Urls : u.canonical
    PROVE  Spec => []Recordable
<1>1. TypeOK /\ Reported => Recordable
  <2> SUFFICES ASSUME TypeOK, Reported, pc = "done", Native(call), outcome.kind # "invalid",
                      Recorded(outcome) # None
               PROVE  Accepted(outcome, Recorded(outcome))
    BY DEF Recordable
  <2>1. call \in Calls /\ TellsRight(call, outcome)
    BY DEF TypeOK, Reported
  <2>2. outcome.kind \in {"scope", "rate", "failure", "response"}
    <3>1. outcome.kind \notin {"closed", "refused"}
      BY DEF Recorded
    <3> QED BY <2>1, <3>1 DEF TellsRight
  <2> QED BY <2>1, <2>2, RecordResponse, RecordFailure, RecordStop
<1> QED BY <1>1, ReportInvariant, PTL
=============================================================================
