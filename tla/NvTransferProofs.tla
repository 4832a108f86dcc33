------------------------- MODULE NvTransferProofs -------------------------
(***************************************************************************)
(* Proofs about NvTransfer, for every size of the buffers, every window    *)
(* and every number of requests.                                           *)
(***************************************************************************)
EXTENDS NvTransfer, TLAPS

-----------------------------------------------------------------------------
(* Sequences *)

LEMMA PrefixPointwise ==
  ASSUME NEW S, NEW s \in Seq(S), NEW t \in Seq(S)
  PROVE  IsPrefix(s, t) <=> Len(s) <= Len(t) /\ \A i \in 1..Len(s) : s[i] = t[i]
<1>1. SubSeq(s, 1, Len(s)) = [i \in 1..Len(s) |-> s[i]]
  OBVIOUS
<1>2. ASSUME Len(s) <= Len(t) PROVE SubSeq(t, 1, Len(s)) = [i \in 1..Len(s) |-> t[i]]
  BY <1>2
<1> QED
  BY <1>1, <1>2 DEF IsPrefix

LEMMA PrefixTail ==
  ASSUME NEW S, NEW s \in Seq(S), NEW t \in Seq(S), s # <<>>, IsPrefix(s, t)
  PROVE  /\ t # <<>> /\ Head(s) = Head(t)
         /\ Tail(s) \in Seq(S) /\ Tail(t) \in Seq(S) /\ IsPrefix(Tail(s), Tail(t))
<1>1. Len(s) <= Len(t) /\ \A i \in 1..Len(s) : s[i] = t[i]
  BY PrefixPointwise
<1>2. Len(s) \in Nat \ {0}
  OBVIOUS
<1>3. t # <<>> /\ Head(s) = Head(t)
  BY <1>1, <1>2
<1>4. /\ Tail(s) \in Seq(S) /\ Tail(t) \in Seq(S)
      /\ Len(Tail(s)) = Len(s) - 1 /\ Len(Tail(t)) = Len(t) - 1
      /\ \A i \in 1..Len(Tail(s)) : Tail(s)[i] = s[i + 1]
      /\ \A i \in 1..Len(Tail(t)) : Tail(t)[i] = t[i + 1]
  BY <1>2, <1>3
<1>5. \A i \in 1..Len(Tail(s)) : Tail(s)[i] = Tail(t)[i]
  BY <1>1, <1>2, <1>4
<1>6. Len(Tail(s)) <= Len(Tail(t))
  BY <1>1, <1>2, <1>4
<1>7. IsPrefix(Tail(s), Tail(t))
  BY <1>4, <1>5, <1>6, PrefixPointwise
<1> QED
  BY <1>3, <1>4, <1>7

LEMMA PrefixOfConcat ==
  ASSUME NEW S, NEW s \in Seq(S), NEW r \in Seq(S), NEW t \in Seq(S), IsPrefix(s \o r, t)
  PROVE  IsPrefix(s, t)
<1>1. s \o r \in Seq(S) /\ Len(s) <= Len(s \o r) /\ \A i \in 1..Len(s) : (s \o r)[i] = s[i]
  OBVIOUS
<1>2. Len(s \o r) <= Len(t) /\ \A i \in 1..Len(s \o r) : (s \o r)[i] = t[i]
  BY <1>1, PrefixPointwise
<1>3. /\ Len(s) <= Len(t) /\ Len(s) \in Nat /\ Len(s \o r) \in Nat /\ Len(t) \in Nat
      /\ \A i \in 1..Len(s) : i \in 1..Len(s \o r)
  BY <1>1, <1>2
<1>4. \A i \in 1..Len(s) : s[i] = t[i]
  BY <1>1, <1>2, <1>3
<1> QED
  BY <1>3, <1>4, PrefixPointwise

LEMMA PrefixSelf ==
  ASSUME NEW S, NEW s \in Seq(S)
  PROVE  IsPrefix(s, s)
BY PrefixPointwise

\* What of s is whole is in the same place of t.
Matches(s, t) == \A i \in DOMAIN s : s[i] # Torn => i \in DOMAIN t /\ s[i] = t[i]

LEMMA PrefixMatches ==
  ASSUME NEW S, NEW s \in Seq(S), NEW t \in Seq(S), IsPrefix(s, t)
  PROVE  Matches(s, t)
<1>1. Len(s) <= Len(t) /\ \A i \in 1..Len(s) : s[i] = t[i]
  BY PrefixPointwise
<1> QED
  BY <1>1 DEF Matches

LEMMA MatchesLonger ==
  ASSUME NEW S, NEW s \in Seq(S), NEW t \in Seq(S), NEW x \in S, Matches(s, t)
  PROVE  Matches(s, Append(t, x))
BY DEF Matches

LEMMA MatchesTorn ==
  ASSUME NEW S, NEW s \in Seq(S), NEW t \in Seq(S), Torn \in S, Matches(s, t)
  PROVE  Matches(Append(s, Torn), t)
<1>1. /\ DOMAIN Append(s, Torn) = 1 .. Len(s) + 1 /\ DOMAIN s = 1 .. Len(s)
      /\ \A i \in 1 .. Len(s) : Append(s, Torn)[i] = s[i]
      /\ Append(s, Torn)[Len(s) + 1] = Torn
  OBVIOUS
<1>2. \A i \in 1 .. Len(s) + 1 : i \in 1 .. Len(s) \/ i = Len(s) + 1
  OBVIOUS
<1> QED
  BY <1>1, <1>2 DEF Matches

LEMMA MatchesTail ==
  ASSUME NEW S, NEW s \in Seq(S), NEW t \in Seq(S), s # <<>>, t # <<>>, Matches(s, t)
  PROVE  Matches(Tail(s), Tail(t))
<1>1. /\ Len(s) \in Nat \ {0} /\ Len(t) \in Nat \ {0}
      /\ DOMAIN s = 1 .. Len(s) /\ DOMAIN t = 1 .. Len(t)
      /\ DOMAIN Tail(s) = 1 .. Len(s) - 1 /\ DOMAIN Tail(t) = 1 .. Len(t) - 1
      /\ \A i \in 1 .. Len(s) - 1 : Tail(s)[i] = s[i + 1]
      /\ \A i \in 1 .. Len(t) - 1 : Tail(t)[i] = t[i + 1]
  OBVIOUS
<1> SUFFICES ASSUME NEW i \in 1 .. Len(s) - 1, s[i + 1] # Torn
             PROVE  i \in 1 .. Len(t) - 1 /\ s[i + 1] = Tail(t)[i]
  BY <1>1 DEF Matches
<1>2. i + 1 \in 1 .. Len(s)
  BY <1>1
<1>3. i + 1 \in 1 .. Len(t) /\ s[i + 1] = t[i + 1]
  BY <1>1, <1>2 DEF Matches
<1>4. i \in 1 .. Len(t) - 1
  BY <1>1, <1>3
<1> QED
  BY <1>1, <1>3, <1>4

LEMMA ConcatAppend ==
  ASSUME NEW S, NEW s \in Seq(S), NEW t \in Seq(S), NEW x \in S
  PROVE  s \o Append(t, x) = Append(s \o t, x)
OBVIOUS

LEMMA ConcatOne ==
  ASSUME NEW S, NEW s \in Seq(S), NEW x \in S
  PROVE  Append(s, x) = s \o <<x>> /\ Append(s, x) \o <<>> = Append(s, x)
OBVIOUS

LEMMA ConcatTail ==
  ASSUME NEW S, NEW s \in Seq(S), NEW t \in Seq(S), s # <<>>
  PROVE  /\ Tail(s) \o t = Tail(s \o t) /\ s \o t # <<>>
         /\ Head(s \o t) = Head(s) /\ Head(s) \in S /\ Tail(s) \in Seq(S)
<1>1. Len(s) \in Nat \ {0}
  OBVIOUS
<1>2. /\ Len(s \o t) = Len(s) + Len(t) /\ s \o t \in Seq(S)
      /\ Tail(s) \in Seq(S) /\ Len(Tail(s)) = Len(s) - 1
  BY <1>1
<1>3. Len(Tail(s) \o t) = Len(Tail(s \o t)) /\ Tail(s) \o t \in Seq(S) /\ Tail(s \o t) \in Seq(S)
  BY <1>1, <1>2
<1>4. \A i \in 1..Len(Tail(s) \o t) : (Tail(s) \o t)[i] = Tail(s \o t)[i]
  BY <1>1, <1>2
<1>5. Tail(s) \o t = Tail(s \o t)
  BY <1>3, <1>4
<1> QED
  BY <1>1, <1>2, <1>5

LEMMA HeadAndTail ==
  ASSUME NEW S, NEW s \in Seq(S), s # <<>>
  PROVE  s = <<Head(s)>> \o Tail(s)
OBVIOUS
-----------------------------------------------------------------------------
(* The inductive invariant *)

Entries == Requests \cup {Torn}

\* What is at the front of the first, and of the last, of three parts.
LEMMA ConcatHeads ==
  ASSUME NEW s \in Seq(Entries), NEW r \in Seq(Entries), NEW t \in Seq(Entries)
  PROVE  /\ Len((s \o r) \o t) = Len(s) + Len(r) + Len(t)
         /\ s # <<>> => (s \o r) \o t # <<>> /\ Head((s \o r) \o t) = Head(s)
         /\ t # <<>> => /\ Len(s) + Len(r) + 1 \in 1 .. Len((s \o r) \o t)
                        /\ ((s \o r) \o t)[Len(s) + Len(r) + 1] = Head(t)
<1> DEFINE u == s \o r
<1>1. u \in Seq(Entries) /\ Len(u) = Len(s) + Len(r) /\ Len(u) \in Nat
  OBVIOUS
<1>2. s # <<>> => u # <<>> /\ Head(u) = Head(s)
  OBVIOUS
<1> HIDE DEF u
<1>3. /\ Len(u \o t) = Len(u) + Len(t)
      /\ u # <<>> => u \o t # <<>> /\ Head(u \o t) = Head(u)
      /\ t # <<>> => Len(u) + 1 \in 1 .. Len(u \o t) /\ (u \o t)[Len(u) + 1] = Head(t)
  <2>1. Len(u \o t) = Len(u) + Len(t) /\ Len(t) \in Nat
    BY <1>1
  <2>2. u # <<>> => u \o t # <<>> /\ Head(u \o t) = Head(u)
    BY <1>1
  <2>3. ASSUME t # <<>>
        PROVE  Len(u) + 1 \in 1 .. Len(u \o t) /\ (u \o t)[Len(u) + 1] = Head(t)
    <3>1. Len(t) > 0
      BY <2>3
    <3>2. Len(u) + 1 \in 1 .. Len(u) + Len(t)
      BY <1>1, <2>1, <3>1
    <3>3. (u \o t)[Len(u) + 1] = t[1]
      BY <1>1, <2>1, <3>2
    <3> QED
      BY <2>1, <2>3, <3>2, <3>3
  <2> QED
    BY <2>1, <2>2, <2>3
<1>4. Len(s) \in Nat /\ Len(r) \in Nat /\ Len(t) \in Nat
  OBVIOUS
<1> QED
  BY <1>1, <1>2, <1>3, <1>4 DEF u

LEMMA ConcatAssociates ==
  \A s, t, r \in Seq(Entries) : (s \o t) \o r = s \o (t \o r)
OBVIOUS

Results ==
  [peer : Peers, op : Calls, outcome : {"ok"}, list : Requests]
    \cup [peer : Peers, op : Calls, outcome : {"system_error"}, list : {0}]
    \cup {<<>>}
Places == {"idle", "exit"} \cup Sending \cup Receiving

\* What a peer that is in a call has in hand; who is not up has nothing.
Hands ==
  /\ \A p \in Peers : pc[p] # "idle" => up[p]
  /\ \A p \in Peers : ~ up[p] => chan[p] = <<>> /\ m_nv[p] = 0
  /\ pc["client"] # "exit"
  /\ pc["client"] \in Sending => m_nv["client"] # 0 /\ Len(asked) < Window
  /\ pc["client"] \in Receiving => asked # <<>>
  /\ pc["server"] \in Sending => m_nv["server"] # 0
  /\ pc["server"] \in Receiving => m_nv["server"] = 0

\* A server that an exception reached does not call again.
Stopped == "server" \in failed => pc["server"] = "exit" \/ ~ up["server"]

IInv == TypeOK /\ Hands /\ Stopped /\ InFlight

LEMMA PeersAre ==
  /\ Peers = {"client", "server"} /\ "client" \in Peers /\ "server" \in Peers
  /\ "client" # "server"
  /\ Other("client") = "server" /\ Other("server") = "client"
  /\ \A p \in Peers : Other(p) \in Peers
BY DEF Peers, Other

LEMMA FlightTyped ==
  ASSUME TypeOK
  PROVE  /\ \A p \in Peers : chan[p] \in Seq(Entries)
         /\ InHand \in Seq(Entries) /\ Flight \in Seq(Entries) /\ asked \in Seq(Entries)
<1>1. \A p \in Peers : chan[p] \in Seq(Entries)
  BY DEF TypeOK, Entries
<1>2. InHand \in Seq(Entries)
  <2>1. m_nv["server"] = 0 \/ m_nv["server"] \in Requests
    BY PeersAre DEF TypeOK
  <2>2. CASE m_nv["server"] = 0
    BY <2>2 DEF InHand
  <2>3. CASE m_nv["server"] # 0
    <3>1. InHand = <<m_nv["server"]>> /\ m_nv["server"] \in Entries
      BY <2>1, <2>3 DEF InHand, Entries
    <3> QED
      BY <3>1
  <2> QED
    BY <2>2, <2>3
<1>3. asked \in Seq(Entries)
  <2>1. asked \in Seq(Requests) /\ Requests \subseteq Entries
    BY DEF TypeOK, Entries
  <2> QED
    BY <2>1
<1> QED
  BY <1>1, <1>2, <1>3, PeersAre DEF Flight

LEMMA FlightHeads ==
  ASSUME TypeOK
  PROVE  /\ Len(Flight) = Len(chan["client"]) + Len(InHand) + Len(chan["server"])
         /\ chan["client"] # <<>> => Flight # <<>> /\ Head(Flight) = Head(chan["client"])
         /\ chan["server"] # <<>> =>
              \E k \in 1 .. Len(Flight) : Flight[k] = Head(chan["server"])
<1>1. \A s, r, t \in Seq(Entries) :
        /\ Len((s \o r) \o t) = Len(s) + Len(r) + Len(t)
        /\ s # <<>> => (s \o r) \o t # <<>> /\ Head((s \o r) \o t) = Head(s)
        /\ t # <<>> => \E k \in 1 .. Len((s \o r) \o t) : ((s \o r) \o t)[k] = Head(t)
  <2> SUFFICES ASSUME NEW s \in Seq(Entries), NEW r \in Seq(Entries), NEW t \in Seq(Entries)
               PROVE  /\ Len((s \o r) \o t) = Len(s) + Len(r) + Len(t)
                      /\ s # <<>> => (s \o r) \o t # <<>> /\ Head((s \o r) \o t) = Head(s)
                      /\ t # <<>> => \E k \in 1 .. Len((s \o r) \o t) : ((s \o r) \o t)[k] = Head(t)
    OBVIOUS
  <2>1. /\ Len((s \o r) \o t) = Len(s) + Len(r) + Len(t)
        /\ s # <<>> => (s \o r) \o t # <<>> /\ Head((s \o r) \o t) = Head(s)
        /\ t # <<>> => /\ Len(s) + Len(r) + 1 \in 1 .. Len((s \o r) \o t)
                       /\ ((s \o r) \o t)[Len(s) + Len(r) + 1] = Head(t)
    BY ConcatHeads, Zenon
  <2> QED
    BY <2>1, Zenon
<1>2. chan["client"] \in Seq(Entries) /\ chan["server"] \in Seq(Entries) /\ InHand \in Seq(Entries)
  BY FlightTyped, PeersAre
<1> QED
  BY <1>1, <1>2, Zenon DEF Flight

LEMMA CallOver ==
  ASSUME TypeOK, NEW p \in Peers, NEW x \in Requests, Returns(p, x) \/ Throws(p)
  PROVE  pc' \in [Peers -> Places] /\ failed' \subseteq Peers /\ result' \in Results
<1>1. Op(p) \in Calls
  BY DEF Op, Calls
<1>2. pc \in [Peers -> Places] /\ failed \subseteq Peers
  BY DEF TypeOK, Places
<1>3. CASE Returns(p, x)
  <2>1. /\ pc' = [pc EXCEPT ![p] = "idle"] /\ failed' = failed
        /\ result' = [peer |-> p, op |-> Op(p), outcome |-> "ok", list |-> x]
    BY <1>3 DEF Returns
  <2>2. pc' \in [Peers -> Places]
    BY <1>2, <2>1 DEF Places
  <2> QED
    BY <1>1, <1>2, <2>1, <2>2 DEF Results
<1>4. CASE Throws(p)
  <2>1. /\ pc' = [pc EXCEPT ![p] = IF p = "server" THEN "exit" ELSE "idle"]
        /\ failed' = failed \cup {p}
        /\ result' = [peer |-> p, op |-> Op(p), outcome |-> "system_error", list |-> 0]
    BY <1>4 DEF Throws
  <2>2. pc' \in [Peers -> Places]
    BY <1>2, <2>1 DEF Places
  <2> QED
    BY <1>1, <1>2, <2>1, <2>2 DEF Results
<1> QED
  BY <1>3, <1>4

\* The next state has the right form if its parts have.
LEMMA TypeParts ==
  ASSUME up' \in [Peers -> BOOLEAN], chan' \in [Peers -> Seq(Entries)],
         \A p \in Peers : Len(chan'[p]) <= Cap,
         pc' \in [Peers -> Places], m_nv' \in [Peers -> Requests \cup {0}],
         issued' \in 0 .. MaxRequests, asked' \in Seq(Requests), failed' \subseteq Peers,
         result' \in Results
  PROVE  TypeOK'
BY DEF TypeOK, Entries, Places, Results

LEMMA TypeUnfolds ==
  ASSUME TypeOK
  PROVE  /\ up \in [Peers -> BOOLEAN] /\ chan \in [Peers -> Seq(Entries)]
         /\ \A p \in Peers : Len(chan[p]) <= Cap
         /\ pc \in [Peers -> Places] /\ m_nv \in [Peers -> Requests \cup {0}]
         /\ issued \in 0 .. MaxRequests /\ asked \in Seq(Requests) /\ failed \subseteq Peers
         /\ result \in Results
BY DEF TypeOK, Entries, Places, Results
-----------------------------------------------------------------------------
(* Calls begin *)

\* InFlight by whether an exception reached the server.
OnTheWay == IsPrefix(Flight, asked) /\ (up["server"] => Flight = asked)

LEMMA InFlightCases ==
  /\ InFlight <=> ("client" \in failed \/ ~ up["client"] \/
                    IF "server" \in failed THEN Matches(chan["client"], asked) ELSE OnTheWay)
  /\ InFlight' <=> ("client" \in failed' \/ ~ up'["client"] \/
                     IF "server" \in failed' THEN Matches(chan'["client"], asked')
                     ELSE OnTheWay')
BY DEF InFlight, Arrived, Matches, OnTheWay

\* What has arrived is in order, whether or not the server had an exception.
LEMMA ArrivedMatches ==
  ASSUME TypeOK, InFlight, "client" \notin failed, up["client"]
  PROVE  Matches(chan["client"], asked)
<1>1. CASE "server" \in failed
  BY <1>1, InFlightCases
<1>2. CASE "server" \notin failed
  <2>1. /\ chan["client"] \in Seq(Entries) /\ chan["server"] \in Seq(Entries)
        /\ InHand \in Seq(Entries) /\ asked \in Seq(Entries)
    BY FlightTyped, PeersAre
  <2> DEFINE r == InHand \o chan["server"]
  <2>2. r \in Seq(Entries)
    BY <2>1
  <2>3. Flight = chan["client"] \o r
    BY <2>1, ConcatAssociates, Zenon DEF Flight
  <2>4. IsPrefix(chan["client"] \o r, asked)
    BY <1>2, <2>3, InFlightCases DEF OnTheWay
  <2> HIDE DEF r
  <2>5. IsPrefix(chan["client"], asked)
    BY <2>1, <2>2, <2>4, PrefixOfConcat
  <2> QED
    BY <2>1, <2>5, PrefixMatches
<1> QED
  BY <1>1, <1>2

\* Nothing that is on its way changes.
SameFlight == UNCHANGED <<up, chan, asked, failed>> /\ m_nv'["server"] = m_nv["server"]

LEMMA SameFlightKeeps ==
  ASSUME InFlight, SameFlight
  PROVE  InFlight'
BY DEF InFlight, Arrived, SameFlight, Flight, InHand

LEMMA RequestStep ==
  ASSUME IInv, NEW c \in Sending, MakesRequest(c), UNCHANGED <<up, chan, asked, failed, result>>
  PROVE  TypeOK' /\ Hands' /\ InFlight'
<1>1. /\ pc' = [pc EXCEPT !["client"] = c] /\ m_nv' = [m_nv EXCEPT !["client"] = issued']
      /\ up["client"] /\ issued' = issued + 1 /\ issued < MaxRequests
      /\ Len(asked) < Window /\ pc["client"] = "idle"
  BY DEF MakesRequest, Begins
<1>2. issued' \in Requests /\ issued' # 0 /\ issued' \in 0 .. MaxRequests
  BY <1>1, RequestsAssumption, TypeUnfolds DEF IInv, Requests
<1>3. c \in Places /\ c # "idle" /\ c # "exit" /\ c \notin Receiving
  BY DEF Places, Sending, Receiving
<1>4. TypeOK'
  BY <1>1, <1>2, <1>3, TypeUnfolds, TypeParts, PeersAre DEF IInv
<1>5. Hands'
  BY <1>1, <1>2, <1>3, TypeUnfolds, PeersAre DEF IInv, Hands
<1>6. SameFlight
  BY <1>1, TypeUnfolds, PeersAre DEF IInv, SameFlight
<1> QED
  BY <1>4, <1>5, <1>6, SameFlightKeeps DEF IInv

LEMMA BeginStep ==
  ASSUME IInv, client_recv \/ server_recv \/ server_send
  PROVE  TypeOK' /\ Hands' /\ InFlight'
<1>1. /\ \/ /\ pc' = [pc EXCEPT !["client"] = "recv"] /\ asked # <<>> /\ up["client"]
         \/ /\ pc' = [pc EXCEPT !["server"] = "recv"] /\ m_nv["server"] = 0 /\ up["server"]
         \/ /\ pc' = [pc EXCEPT !["server"] = "send"] /\ m_nv["server"] # 0 /\ up["server"]
      /\ UNCHANGED <<up, chan, m_nv, issued, asked, failed, result>>
  BY DEF client_recv, server_recv, server_send, Begins
<1>2. /\ "recv" \in Places /\ "send" \in Places
      /\ "recv" \in Receiving /\ "recv" \notin Sending
      /\ "send" \in Sending /\ "send" \notin Receiving
  BY DEF Places, Sending, Receiving
<1>3. TypeOK'
  BY <1>1, <1>2, TypeUnfolds, TypeParts, PeersAre DEF IInv
<1>4. Hands'
  <2>1. /\ pc \in [Peers -> Places]
        /\ pc["client"] # "exit"
        /\ \A p \in Peers : pc[p] # "idle" => up[p]
        /\ \A p \in Peers : ~ up[p] => chan[p] = <<>> /\ m_nv[p] = 0
    BY TypeUnfolds DEF IInv, Hands
  <2>2. CASE pc' = [pc EXCEPT !["client"] = "recv"] /\ asked # <<>> /\ up["client"]
    BY <1>1, <1>2, <2>1, <2>2, PeersAre DEF IInv, Hands
  <2>3. CASE pc' = [pc EXCEPT !["server"] = "recv"] /\ m_nv["server"] = 0 /\ up["server"]
    BY <1>1, <1>2, <2>1, <2>3, PeersAre DEF IInv, Hands
  <2>4. CASE pc' = [pc EXCEPT !["server"] = "send"] /\ m_nv["server"] # 0 /\ up["server"]
    BY <1>1, <1>2, <2>1, <2>4, PeersAre DEF IInv, Hands
  <2> QED
    BY <1>1, <2>2, <2>3, <2>4
<1>5. SameFlight
  BY <1>1 DEF SameFlight
<1> QED
  BY <1>3, <1>4, <1>5, SameFlightKeeps DEF IInv
-----------------------------------------------------------------------------
(* Calls end *)

\* After an exception at the client InFlight promises nothing; after one at the
\* server what has arrived is still in order.
LEMMA FailedKeeps ==
  ASSUME IInv, NEW p \in Peers, failed' = failed \cup {p}, asked' = asked \/ p = "client",
         up' = up,
         \/ chan'["client"] = chan["client"]
         \/ chan'["client"] = Append(chan["client"], Torn)
         \/ p = "client"
  PROVE  InFlight'
<1> SUFFICES ASSUME "client" \notin failed', up'["client"]
             PROVE  Matches(chan'["client"], asked')
  <2>1. "server" \in failed' \/ "client" \in failed'
    BY PeersAre
  <2> QED
    BY <2>1, InFlightCases
<1>1. p # "client" /\ "client" \notin failed /\ up["client"] /\ asked' = asked
  BY PeersAre
<1>2. Matches(chan["client"], asked)
  BY <1>1, ArrivedMatches DEF IInv
<1>3. chan["client"] \in Seq(Entries) /\ asked \in Seq(Entries) /\ Torn \in Entries
  BY FlightTyped, PeersAre DEF IInv, Entries
<1>4. Matches(Append(chan["client"], Torn), asked)
  BY <1>2, <1>3, MatchesTorn
<1> QED
  BY <1>1, <1>2, <1>4

LEMMA SentStep ==
  ASSUME IInv, NEW p \in Peers, Sent(p)
  PROVE  TypeOK' /\ Hands' /\ InFlight'
<1>1. /\ pc[p] \in Sending /\ up[Other(p)] /\ Len(chan[Other(p)]) < Cap
      /\ chan' = [chan EXCEPT ![Other(p)] = Append(@, m_nv[p])]
      /\ asked' = IF p = "client" THEN Append(asked, m_nv[p]) ELSE asked
      /\ m_nv' = [m_nv EXCEPT ![p] = 0] /\ UNCHANGED <<up, issued>>
  BY DEF Sent, HasRoom, nvlist_send
<1>2. /\ up \in [Peers -> BOOLEAN] /\ chan \in [Peers -> Seq(Entries)]
      /\ \A q \in Peers : Len(chan[q]) <= Cap
      /\ pc \in [Peers -> Places] /\ m_nv \in [Peers -> Requests \cup {0}]
      /\ issued \in 0 .. MaxRequests /\ asked \in Seq(Requests) /\ failed \subseteq Peers
      /\ result \in Results
  BY TypeUnfolds DEF IInv
<1>3. m_nv[p] \in Requests /\ m_nv[p] # 0 /\ m_nv[p] \in Entries /\ up[p]
  BY <1>1, <1>2, PeersAre DEF IInv, Hands, Sending, Entries
<1>4. /\ pc' = [pc EXCEPT ![p] = IF pc[p] = "send" THEN "idle" ELSE "xfer recv"]
      /\ failed' = failed /\ result' \in Results
  <2>1. CASE pc[p] = "send"
    BY <2>1, <1>2, <1>3, CallOver DEF Sent, Returns, IInv
  <2>2. CASE pc[p] # "send"
    BY <2>2, <1>2 DEF Sent
  <2> QED
    BY <2>1, <2>2
<1>5. TypeOK'
  <2>1. chan' \in [Peers -> Seq(Entries)] /\ \A q \in Peers : Len(chan'[q]) <= Cap
    <3>1. /\ Append(chan[Other(p)], m_nv[p]) \in Seq(Entries)
          /\ Len(Append(chan[Other(p)], m_nv[p])) = Len(chan[Other(p)]) + 1
      BY <1>2, <1>3, PeersAre
    <3> QED
      BY <1>1, <1>2, <3>1, PeersAre, SizesAssumption
  <2>2. asked' \in Seq(Requests)
    BY <1>1, <1>2, <1>3
  <2>3. pc' \in [Peers -> Places] /\ m_nv' \in [Peers -> Requests \cup {0}]
    BY <1>1, <1>2, <1>4 DEF Places, Receiving
  <2> QED
    BY <1>1, <1>2, <1>4, <2>1, <2>2, <2>3, TypeParts
<1>6. Hands'
  <2>1. \A q \in Peers : pc'[q] # "idle" => up'[q]
    BY <1>1, <1>2, <1>3, <1>4 DEF IInv, Hands
  <2>2. \A q \in Peers : ~ up'[q] => chan'[q] = <<>> /\ m_nv'[q] = 0
    BY <1>1, <1>2, <1>3, PeersAre DEF IInv, Hands
  <2>3. "idle" \notin Sending \cup Receiving /\ "xfer recv" \notin Sending
    BY DEF Sending, Receiving
  <2>4. CASE p = "client"
    <3>1. asked' # <<>>
      BY <1>1, <1>2, <1>3, <2>4
    <3>2. pc'["server"] = pc["server"] /\ m_nv'["server"] = m_nv["server"]
      BY <1>1, <1>2, <1>4, <2>4, PeersAre
    <3>3. pc'["client"] # "exit" /\ pc'["client"] \notin Sending
      BY <1>2, <1>4, <2>3, <2>4, PeersAre
    <3> QED
      BY <2>1, <2>2, <3>1, <3>2, <3>3 DEF IInv, Hands
  <2>5. CASE p = "server"
    <3>1. asked' = asked /\ pc'["client"] = pc["client"] /\ m_nv'["client"] = m_nv["client"]
      BY <1>1, <1>2, <1>4, <2>5, PeersAre
    <3>2. pc'["server"] \notin Sending /\ m_nv'["server"] = 0
      BY <1>1, <1>2, <1>4, <2>3, <2>5, PeersAre
    <3> QED
      BY <2>1, <2>2, <3>1, <3>2 DEF IInv, Hands
  <2> QED
    BY <2>4, <2>5, PeersAre
<1>7. ASSUME "client" \notin failed', up'["client"], "server" \in failed'
      PROVE  Matches(chan'["client"], asked')
  <2>1. p = "client"
    <3>1. "server" \in failed /\ pc["server"] \notin Sending
      BY <1>1, <1>4, <1>7, PeersAre DEF IInv, Hands, Stopped, Sending
    <3> QED
      BY <1>1, <3>1, PeersAre
  <2>2. chan'["client"] = chan["client"] /\ asked' = Append(asked, m_nv["client"])
    BY <1>1, <1>2, <2>1, PeersAre
  <2>3. chan["client"] \in Seq(Entries) /\ asked \in Seq(Entries) /\ m_nv["client"] \in Entries
    BY <1>3, <2>1, FlightTyped, PeersAre DEF IInv
  <2>4. Matches(chan["client"], asked)
    BY <1>1, <1>4, <1>7, ArrivedMatches DEF IInv
  <2> QED
    BY <2>2, <2>3, <2>4, MatchesLonger
<1>8. ASSUME "client" \notin failed', up'["client"], "server" \notin failed' PROVE OnTheWay'
  <2>1. /\ chan["client"] \in Seq(Entries) /\ chan["server"] \in Seq(Entries)
        /\ InHand \in Seq(Entries) /\ Flight \in Seq(Entries)
    BY FlightTyped, PeersAre DEF IInv
  <2>2. up["server"] /\ up'["server"]
    BY <1>1, <1>3, <1>8, PeersAre
  <2>3. Flight = asked
    BY <1>1, <1>4, <1>8, <2>2 DEF IInv, InFlight
  <2>4. Flight' = asked'
    <3>1. CASE p = "client"
      <4>1. /\ chan'["client"] = chan["client"] /\ InHand' = InHand
            /\ chan'["server"] = Append(chan["server"], m_nv["client"])
            /\ asked' = Append(asked, m_nv["client"])
        BY <1>1, <1>2, <3>1, PeersAre DEF InHand
      <4>2. chan["client"] \o InHand \in Seq(Entries)
        BY <2>1
      <4>3. (chan["client"] \o InHand) \o Append(chan["server"], m_nv["client"])
              = Append((chan["client"] \o InHand) \o chan["server"], m_nv["client"])
        <5> DEFINE s == chan["client"] \o InHand
        <5>1. m_nv["client"] \in Entries
          BY <1>3, <3>1
        <5>2. chan["server"] \in Seq(Entries)
          BY <2>1
        <5>3. s \in Seq(Entries)
          BY <4>2
        <5> HIDE DEF s
        <5>4. s \o Append(chan["server"], m_nv["client"]) = Append(s \o chan["server"], m_nv["client"])
          BY <5>1, <5>2, <5>3, ConcatAppend
        <5> QED
          BY <5>4 DEF s
      <4> QED
        BY <4>1, <4>3, <2>3 DEF Flight
    <3>2. CASE p = "server"
      <4>1. /\ chan'["server"] = chan["server"] /\ InHand' = <<>>
            /\ chan'["client"] = Append(chan["client"], m_nv["server"])
            /\ asked' = asked /\ InHand = <<m_nv["server"]>>
        BY <1>1, <1>2, <1>3, <3>2, PeersAre DEF InHand
      <4>2. chan["client"] \in Seq(Entries) /\ m_nv["server"] \in Entries
        BY <1>3, <2>1, <3>2
      <4>3. /\ Append(chan["client"], m_nv["server"]) = chan["client"] \o <<m_nv["server"]>>
            /\ Append(chan["client"], m_nv["server"]) \o <<>>
                 = Append(chan["client"], m_nv["server"])
        BY <4>2, ConcatOne
      <4> QED
        BY <4>1, <4>3, <2>3 DEF Flight
    <3> QED
      BY <3>1, <3>2, PeersAre
  <2>5. asked' \in Seq(Requests) /\ IsPrefix(asked', asked')
    BY <1>5, PrefixSelf DEF TypeOK
  <2> QED
    BY <2>4, <2>5 DEF OnTheWay
<1>9. InFlight'
  BY <1>7, <1>8, InFlightCases
<1> QED
  BY <1>5, <1>6, <1>9 DEF IInv

LEMMA SendThrowsStep ==
  ASSUME IInv, NEW p \in Peers, SendRefused(p) \/ SendFails(p)
  PROVE  TypeOK' /\ Hands' /\ InFlight'
<1>1. /\ pc[p] \in Sending /\ Throws(p) /\ m_nv' = [m_nv EXCEPT ![p] = 0]
      /\ UNCHANGED <<up, issued, asked>>
      /\ \/ chan' = chan
         \/ /\ up[Other(p)] /\ Len(chan[Other(p)]) < Cap
            /\ chan' = [chan EXCEPT ![Other(p)] = Append(@, Torn)]
  BY DEF SendRefused, SendFails, HasRoom
<1>2. /\ up \in [Peers -> BOOLEAN] /\ chan \in [Peers -> Seq(Entries)]
      /\ \A q \in Peers : Len(chan[q]) <= Cap
      /\ pc \in [Peers -> Places] /\ m_nv \in [Peers -> Requests \cup {0}]
      /\ issued \in 0 .. MaxRequests /\ asked \in Seq(Requests) /\ failed \subseteq Peers
      /\ result \in Results
  BY TypeUnfolds DEF IInv
<1>3. /\ pc' = [pc EXCEPT ![p] = IF p = "server" THEN "exit" ELSE "idle"]
      /\ pc' \in [Peers -> Places] /\ failed' = failed \cup {p} /\ result' \in Results
      /\ failed' \subseteq Peers
  <2>1. m_nv[p] \in Requests
    BY <1>1, <1>2, PeersAre DEF IInv, Hands, Sending
  <2> QED
    BY <1>1, <2>1, CallOver DEF Throws, IInv
<1>4. /\ chan' \in [Peers -> Seq(Entries)] /\ \A q \in Peers : Len(chan'[q]) <= Cap
      /\ \A q \in Peers : ~ up[q] => chan'[q] = chan[q]
  <2>1. CASE chan' = chan
    BY <1>2, <2>1
  <2>2. CASE chan' # chan
    <3>1. /\ Append(chan[Other(p)], Torn) \in Seq(Entries)
          /\ Len(Append(chan[Other(p)], Torn)) = Len(chan[Other(p)]) + 1
      BY <1>2, PeersAre DEF Entries
    <3>2. /\ up[Other(p)] /\ Len(chan[Other(p)]) < Cap
          /\ chan' = [chan EXCEPT ![Other(p)] = Append(chan[Other(p)], Torn)]
      BY <1>1, <2>2
    <3>3. \A q \in Peers : chan'[q] = IF q = Other(p) THEN Append(chan[Other(p)], Torn) ELSE chan[q]
      BY <1>2, <3>2, PeersAre
    <3>4. chan' \in [Peers -> Seq(Entries)]
      BY <1>2, <3>1, <3>2
    <3>5. Len(chan[Other(p)]) + 1 <= Cap
      BY <1>2, <3>2, PeersAre, SizesAssumption
    <3> QED
      BY <1>2, <3>1, <3>2, <3>3, <3>4, <3>5
  <2> QED
    BY <2>1, <2>2
<1>5. TypeOK'
  BY <1>1, <1>2, <1>3, <1>4, TypeParts
<1>6. Hands'
  <2>1. up[p]
    BY <1>1 DEF IInv, Hands, Sending
  <2>2. "idle" \notin Sending \cup Receiving /\ "exit" \notin Sending \cup Receiving
    BY DEF Sending, Receiving
  <2> QED
    BY <1>1, <1>2, <1>3, <1>4, <2>1, <2>2, PeersAre DEF IInv, Hands
<1>7. \/ chan'["client"] = chan["client"]
      \/ chan'["client"] = Append(chan["client"], Torn)
  BY <1>1, <1>2, PeersAre
<1> QED
  BY <1>1, <1>3, <1>5, <1>6, <1>7, FailedKeeps DEF IInv

LEMMA ReceivedStep ==
  ASSUME IInv, NEW p \in Peers, Received(p)
  PROVE  TypeOK' /\ Hands' /\ InFlight'
<1>1. /\ pc[p] \in Receiving /\ chan[p] # <<>> /\ Head(chan[p]) # Torn
      /\ chan' = [chan EXCEPT ![p] = Tail(@)]
      /\ Returns(p, Head(chan[p]))
      /\ asked' = IF p = "client" THEN Tail(asked) ELSE asked
      /\ m_nv' = [m_nv EXCEPT ![p] = IF p = "server" THEN Head(chan[p]) ELSE 0]
      /\ UNCHANGED <<up, issued>>
  BY DEF Received, nvlist_recv
<1>2. /\ up \in [Peers -> BOOLEAN] /\ chan \in [Peers -> Seq(Entries)]
      /\ \A q \in Peers : Len(chan[q]) <= Cap
      /\ pc \in [Peers -> Places] /\ m_nv \in [Peers -> Requests \cup {0}]
      /\ issued \in 0 .. MaxRequests /\ asked \in Seq(Requests) /\ failed \subseteq Peers
      /\ result \in Results
  BY TypeUnfolds DEF IInv
<1>3. chan[p] \in Seq(Entries) /\ Head(chan[p]) \in Requests /\ Tail(chan[p]) \in Seq(Entries)
  <2>1. chan[p] \in Seq(Entries) /\ Head(chan[p]) \in Entries /\ Tail(chan[p]) \in Seq(Entries)
    BY <1>1, <1>2
  <2> QED
    BY <1>1, <2>1 DEF Entries
<1>4. up[p] /\ (p = "client" => asked # <<>>) /\ (p = "server" => m_nv["server"] = 0)
  BY <1>1 DEF IInv, Hands, Receiving
<1>5. /\ pc' = [pc EXCEPT ![p] = "idle"] /\ pc' \in [Peers -> Places]
      /\ failed' = failed /\ failed' \subseteq Peers /\ result' \in Results
  BY <1>1, <1>2, <1>3, CallOver DEF Returns, IInv
<1>6. TypeOK'
  <2>1. chan' \in [Peers -> Seq(Entries)] /\ \A q \in Peers : Len(chan'[q]) <= Cap
    <3>1. Len(Tail(chan[p])) = Len(chan[p]) - 1 /\ Len(chan[p]) \in Nat
      BY <1>1, <1>3
    <3> QED
      BY <1>1, <1>2, <1>3, <3>1, SizesAssumption
  <2>2. asked' \in Seq(Requests)
    BY <1>1, <1>2, <1>4
  <2>3. m_nv' \in [Peers -> Requests \cup {0}]
    BY <1>1, <1>2, <1>3
  <2> QED
    BY <1>1, <1>2, <1>5, <2>1, <2>2, <2>3, TypeParts
<1>7. Hands'
  <2>1. \A q \in Peers : pc'[q] # "idle" => up'[q]
    BY <1>1, <1>2, <1>5 DEF IInv, Hands
  <2>2. \A q \in Peers : ~ up'[q] => chan'[q] = <<>> /\ m_nv'[q] = 0
    BY <1>1, <1>2, <1>4 DEF IInv, Hands
  <2>3. "idle" \notin Sending \cup Receiving
    BY DEF Sending, Receiving
  <2>4. CASE p = "client"
    <3>1. pc'["client"] = "idle" /\ pc'["server"] = pc["server"] /\ m_nv'["server"] = m_nv["server"]
      BY <1>1, <1>2, <1>5, <2>4, PeersAre
    <3> QED
      BY <2>1, <2>2, <2>3, <3>1 DEF IInv, Hands
  <2>5. CASE p = "server"
    <3>1. /\ pc'["server"] = "idle" /\ asked' = asked
          /\ pc'["client"] = pc["client"] /\ m_nv'["client"] = m_nv["client"]
      BY <1>1, <1>2, <1>5, <2>5, PeersAre
    <3> QED
      BY <2>1, <2>2, <2>3, <3>1 DEF IInv, Hands
  <2> QED
    BY <2>4, <2>5, PeersAre
<1>8. ASSUME "client" \notin failed', up'["client"], "server" \in failed'
      PROVE  Matches(chan'["client"], asked')
  <2>1. p = "client"
    <3>1. "server" \in failed /\ pc["server"] \notin Receiving
      BY <1>1, <1>5, <1>8, PeersAre DEF IInv, Hands, Stopped, Receiving
    <3> QED
      BY <1>1, <3>1, PeersAre
  <2>2. chan'["client"] = Tail(chan["client"]) /\ asked' = Tail(asked)
    BY <1>1, <1>2, <2>1
  <2>3. /\ chan["client"] \in Seq(Entries) /\ asked \in Seq(Entries)
        /\ chan["client"] # <<>> /\ asked # <<>>
    BY <1>1, <1>4, <2>1, FlightTyped, PeersAre DEF IInv
  <2>4. Matches(chan["client"], asked)
    BY <1>1, <1>5, <1>8, ArrivedMatches DEF IInv
  <2> QED
    BY <2>2, <2>3, <2>4, MatchesTail
<1>9. ASSUME "client" \notin failed', up'["client"], "server" \notin failed' PROVE OnTheWay'
  <2>1. /\ chan["client"] \in Seq(Entries) /\ chan["server"] \in Seq(Entries)
        /\ InHand \in Seq(Entries) /\ Flight \in Seq(Entries) /\ asked \in Seq(Entries)
    BY FlightTyped, PeersAre DEF IInv
  <2>2. IsPrefix(Flight, asked) /\ (up["server"] => Flight = asked)
    BY <1>1, <1>5, <1>9 DEF IInv, InFlight
  <2>3. CASE p = "client"
    <3>1. /\ chan'["client"] = Tail(chan["client"]) /\ chan'["server"] = chan["server"]
          /\ InHand' = InHand /\ asked' = Tail(asked) /\ up' = up /\ chan["client"] # <<>>
      BY <1>1, <1>2, <2>3, PeersAre DEF InHand
    <3>2. InHand \o chan["server"] \in Seq(Entries)
      BY <2>1
    <3>3. /\ Flight = chan["client"] \o (InHand \o chan["server"])
          /\ Flight' = Tail(chan["client"]) \o (InHand \o chan["server"])
      <4>1. Tail(chan["client"]) \in Seq(Entries)
        BY <2>1, <3>1
      <4> QED
        <5>1. Flight' = (Tail(chan["client"]) \o InHand) \o chan["server"]
          BY <3>1 DEF Flight
        <5>2. Flight = (chan["client"] \o InHand) \o chan["server"]
          BY DEF Flight
        <5>3. /\ InHand \in Seq(Entries)
              /\ chan["client"] \in Seq(Entries) /\ chan["server"] \in Seq(Entries)
          BY <2>1
        <5>4. (Tail(chan["client"]) \o InHand) \o chan["server"]
                = Tail(chan["client"]) \o (InHand \o chan["server"])
          BY <4>1, <5>3, ConcatAssociates, Zenon
        <5>5. (chan["client"] \o InHand) \o chan["server"]
                = chan["client"] \o (InHand \o chan["server"])
          BY <5>3, ConcatAssociates, Zenon
        <5> QED
          BY <5>1, <5>2, <5>4, <5>5
    <3>4. Flight' = Tail(Flight) /\ Flight # <<>>
      BY <2>1, <3>1, <3>2, <3>3, ConcatTail, Zenon
    <3>5. IsPrefix(Tail(Flight), Tail(asked))
      BY <2>1, <2>2, <3>4, PrefixTail
    <3> QED
      BY <2>2, <3>1, <3>4, <3>5 DEF OnTheWay
  <2>4. CASE p = "server"
    <3>1. /\ chan'["server"] = Tail(chan["server"]) /\ chan'["client"] = chan["client"]
          /\ asked' = asked /\ up' = up /\ chan["server"] # <<>>
          /\ m_nv'["server"] = Head(chan["server"])
      BY <1>1, <1>2, <2>4, PeersAre
    <3>2. InHand = <<>> /\ InHand' = <<Head(chan["server"])>>
      BY <1>1, <1>3, <1>4, <2>4, <3>1 DEF InHand, Torn
    <3>3. chan["server"] = <<Head(chan["server"])>> \o Tail(chan["server"])
      BY <2>1, <3>1, HeadAndTail
    <3>4. /\ Tail(chan["server"]) \in Seq(Entries) /\ <<Head(chan["server"])>> \in Seq(Entries)
      BY <2>1, <3>1
    <3>5. Flight' = chan["client"] \o (<<Head(chan["server"])>> \o Tail(chan["server"]))
      <4>1. Flight' = (chan["client"] \o <<Head(chan["server"])>>) \o Tail(chan["server"])
        BY <3>1, <3>2 DEF Flight
      <4>2. (chan["client"] \o <<Head(chan["server"])>>) \o Tail(chan["server"])
              = chan["client"] \o (<<Head(chan["server"])>> \o Tail(chan["server"]))
        <5>1. chan["client"] \in Seq(Entries)
          BY <2>1
        <5> QED
          BY <3>4, <5>1, ConcatAssociates, Zenon
      <4> QED
        BY <4>1, <4>2
    <3>6. Flight = chan["client"] \o chan["server"]
      BY <2>1, <3>2 DEF Flight
    <3> QED
      BY <2>2, <3>1, <3>3, <3>5, <3>6 DEF OnTheWay
  <2> QED
    BY <2>3, <2>4, PeersAre
<1>10. InFlight'
  BY <1>8, <1>9, InFlightCases
<1> QED
  BY <1>6, <1>7, <1>10 DEF IInv

LEMMA ReceiveThrowsStep ==
  ASSUME IInv, NEW p \in Peers, ReceiveRefused(p) \/ ReceiveFails(p)
  PROVE  TypeOK' /\ Hands' /\ InFlight'
<1>1. /\ pc[p] \in Receiving /\ Throws(p) /\ m_nv' = [m_nv EXCEPT ![p] = 0]
      /\ asked' = IF p = "client" THEN Tail(asked) ELSE asked
      /\ UNCHANGED <<up, issued>>
      /\ \/ chan' = chan
         \/ chan[p] # <<>> /\ chan' = [chan EXCEPT ![p] = Tail(@)]
  BY DEF ReceiveRefused, ReceiveFails, GivesUp, nvlist_recv
<1>2. /\ up \in [Peers -> BOOLEAN] /\ chan \in [Peers -> Seq(Entries)]
      /\ \A q \in Peers : Len(chan[q]) <= Cap
      /\ pc \in [Peers -> Places] /\ m_nv \in [Peers -> Requests \cup {0}]
      /\ issued \in 0 .. MaxRequests /\ asked \in Seq(Requests) /\ failed \subseteq Peers
      /\ result \in Results
  BY TypeUnfolds DEF IInv
<1>3. up[p] /\ (p = "client" => asked # <<>>)
  BY <1>1 DEF IInv, Hands, Receiving
<1>4. /\ pc' = [pc EXCEPT ![p] = IF p = "server" THEN "exit" ELSE "idle"]
      /\ result' = [peer |-> p, op |-> Op(p), outcome |-> "system_error", list |-> 0]
      /\ failed' = failed \cup {p}
  BY <1>1 DEF Throws
<1>5. pc' \in [Peers -> Places] /\ result' \in Results
  BY <1>2, <1>4 DEF Places, Results, Op, Calls
<1>6. /\ chan' \in [Peers -> Seq(Entries)] /\ \A q \in Peers : Len(chan'[q]) <= Cap
      /\ \A q \in Peers : q # p => chan'[q] = chan[q]
  <2>1. CASE chan' = chan
    BY <1>2, <2>1
  <2>2. CASE chan[p] # <<>> /\ chan' = [chan EXCEPT ![p] = Tail(@)]
    <3>1. /\ Tail(chan[p]) \in Seq(Entries) /\ Len(chan[p]) \in Nat
          /\ Len(Tail(chan[p])) = Len(chan[p]) - 1
      BY <1>2, <2>2
    <3> QED
      BY <1>2, <2>2, <3>1, SizesAssumption
  <2> QED
    BY <1>1, <2>1, <2>2
<1>7. TypeOK'
  <2>1. asked' \in Seq(Requests)
    BY <1>1, <1>2, <1>3
  <2> QED
    BY <1>1, <1>2, <1>4, <1>5, <1>6, <2>1, TypeParts
<1>8. Hands'
  <2>1. "idle" \notin Sending \cup Receiving /\ "exit" \notin Sending \cup Receiving
    BY DEF Sending, Receiving
  <2>2. \A q \in Peers : pc'[q] # "idle" => up'[q]
    BY <1>1, <1>2, <1>3, <1>4 DEF IInv, Hands
  <2>3. \A q \in Peers : ~ up'[q] => chan'[q] = <<>> /\ m_nv'[q] = 0
    BY <1>1, <1>2, <1>3, <1>6 DEF IInv, Hands
  <2>4. CASE p = "client"
    <3>1. pc'["client"] = "idle" /\ pc'["server"] = pc["server"] /\ m_nv'["server"] = m_nv["server"]
      BY <1>1, <1>2, <1>4, <2>4, PeersAre
    <3> QED
      BY <2>1, <2>2, <2>3, <3>1 DEF IInv, Hands
  <2>5. CASE p = "server"
    <3>1. /\ pc'["server"] = "exit" /\ asked' = asked
          /\ pc'["client"] = pc["client"] /\ m_nv'["client"] = m_nv["client"]
      BY <1>1, <1>2, <1>4, <2>5, PeersAre
    <3> QED
      BY <2>1, <2>2, <2>3, <3>1 DEF IInv, Hands
  <2> QED
    BY <2>4, <2>5, PeersAre
<1>9. InFlight'
  <2>1. p = "client" \/ (asked' = asked /\ chan'["client"] = chan["client"])
    BY <1>1, <1>6, PeersAre
  <2>2. failed' = failed \cup {p} /\ up' = up
    BY <1>1, <1>4
  <2>3. CASE p = "client"
    BY <2>2, <2>3, FailedKeeps, Zenon
  <2>4. CASE asked' = asked /\ chan'["client"] = chan["client"]
    BY <2>2, <2>4, FailedKeeps, Zenon
  <2> QED
    BY <2>1, <2>3, <2>4
<1> QED
  BY <1>7, <1>8, <1>9
-----------------------------------------------------------------------------
(* Connections *)

LEMMA CloseStep ==
  ASSUME IInv, NEW p \in Peers, close(p)
  PROVE  TypeOK' /\ Hands' /\ InFlight'
<1>1. /\ up[p]
      /\ up' = [up EXCEPT ![p] = FALSE] /\ pc' = [pc EXCEPT ![p] = "idle"]
      /\ chan' = [chan EXCEPT ![p] = <<>>] /\ m_nv' = [m_nv EXCEPT ![p] = 0]
      /\ UNCHANGED <<issued, asked, failed, result>>
  BY DEF close
<1>2. /\ up \in [Peers -> BOOLEAN] /\ chan \in [Peers -> Seq(Entries)]
      /\ \A q \in Peers : Len(chan[q]) <= Cap
      /\ pc \in [Peers -> Places] /\ m_nv \in [Peers -> Requests \cup {0}]
      /\ issued \in 0 .. MaxRequests /\ asked \in Seq(Requests) /\ failed \subseteq Peers
      /\ result \in Results
  BY TypeUnfolds DEF IInv
<1>3. TypeOK'
  <2>1. chan' \in [Peers -> Seq(Entries)] /\ \A q \in Peers : Len(chan'[q]) <= Cap
    BY <1>1, <1>2, SizesAssumption
  <2>2. pc' \in [Peers -> Places]
    BY <1>1, <1>2 DEF Places
  <2> QED
    BY <1>1, <1>2, <2>1, <2>2, TypeParts
<1>4. Hands'
  <2>1. "idle" \notin Sending \cup Receiving
    BY DEF Sending, Receiving
  <2>2. \A q \in Peers : pc'[q] # "idle" => up'[q]
    BY <1>1, <1>2 DEF IInv, Hands
  <2>3. \A q \in Peers : ~ up'[q] => chan'[q] = <<>> /\ m_nv'[q] = 0
    BY <1>1, <1>2 DEF IInv, Hands
  <2>4. \A q \in Peers : IF q = p THEN pc'[q] = "idle" ELSE pc'[q] = pc[q] /\ m_nv'[q] = m_nv[q]
    BY <1>1, <1>2
  <2> QED
    BY <1>1, <2>1, <2>2, <2>3, <2>4, PeersAre DEF IInv, Hands
<1>5. ASSUME "client" \notin failed', up'["client"], "server" \in failed'
      PROVE  Matches(chan'["client"], asked')
  <2>1. p # "client" /\ up["client"] /\ asked' = asked /\ chan'["client"] = chan["client"]
    BY <1>1, <1>2, <1>5, PeersAre
  <2> QED
    BY <1>1, <1>5, <2>1, ArrivedMatches DEF IInv
<1>6. ASSUME "client" \notin failed', up'["client"], "server" \notin failed' PROVE OnTheWay'
  <2>1. p = "server" /\ up["client"] /\ ~ up'["server"] /\ asked' = asked
    BY <1>1, <1>2, <1>6, PeersAre
  <2>2. /\ chan["client"] \in Seq(Entries) /\ chan["server"] \in Seq(Entries)
        /\ InHand \in Seq(Entries) /\ Flight \in Seq(Entries) /\ asked \in Seq(Entries)
    BY FlightTyped, PeersAre DEF IInv
  <2>3. IsPrefix(Flight, asked)
    BY <1>1, <1>6, <2>1 DEF IInv, InFlight
  <2>4. Flight = chan["client"] \o (InHand \o chan["server"])
    BY <2>2, ConcatAssociates, Zenon DEF Flight
  <2>5. InHand \o chan["server"] \in Seq(Entries)
    BY <2>2
  <2>6. IsPrefix(chan["client"], asked)
    <3> DEFINE r == InHand \o chan["server"]
    <3>1. r \in Seq(Entries) /\ IsPrefix(chan["client"] \o r, asked)
      BY <2>3, <2>4, <2>5
    <3> HIDE DEF r
    <3> QED
      BY <2>2, <3>1, PrefixOfConcat
  <2>7. chan'["client"] = chan["client"] /\ chan'["server"] = <<>> /\ InHand' = <<>>
    BY <1>1, <1>2, <2>1, PeersAre DEF InHand
  <2>8. Flight' = chan["client"]
    BY <2>2, <2>7 DEF Flight
  <2> QED
    BY <2>1, <2>6, <2>8 DEF OnTheWay
<1>7. InFlight'
  BY <1>5, <1>6, InFlightCases
<1> QED
  BY <1>3, <1>4, <1>7 DEF IInv

\* Nothing is on its way between two new sockets.
LEMMA NothingOnItsWay ==
  ASSUME chan' = [p \in Peers |-> <<>>], m_nv'["server"] = 0, asked' = <<>>
  PROVE  InFlight'
<1>1. chan'["client"] = <<>> /\ chan'["server"] = <<>> /\ InHand' = <<>>
  BY PeersAre DEF InHand
<1>2. Flight' = <<>>
  BY <1>1 DEF Flight
<1>3. <<>> \in Seq(Entries)
  OBVIOUS
<1>4. IsPrefix(<<>>, <<>>)
  BY <1>3, PrefixSelf
<1> QED
  BY <1>1, <1>2, <1>4 DEF InFlight, Arrived

LEMMA ConnectStep ==
  ASSUME IInv, connect
  PROVE  TypeOK' /\ Hands' /\ InFlight'
<1>1. /\ \A p \in Peers : ~ up[p]
      /\ up' = [p \in Peers |-> TRUE] /\ chan' = [p \in Peers |-> <<>>]
      /\ issued' = 0 /\ asked' = <<>> /\ failed' = {}
      /\ UNCHANGED <<pc, m_nv, result>>
  BY DEF connect
<1>2. \A p \in Peers : pc'[p] = "idle" /\ m_nv'[p] = 0
  BY <1>1 DEF IInv, Hands
<1>3. TypeOK'
  <2>1. chan' \in [Peers -> Seq(Entries)] /\ \A p \in Peers : Len(chan'[p]) <= Cap
    BY <1>1, SizesAssumption
  <2>2. issued' \in 0 .. MaxRequests /\ asked' \in Seq(Requests)
    BY <1>1, RequestsAssumption
  <2> QED
    BY <1>1, <2>1, <2>2, TypeUnfolds, TypeParts DEF IInv
<1>4. Hands'
  BY <1>1, <1>2, PeersAre DEF Hands, Sending, Receiving
<1>5. InFlight'
  BY <1>1, <1>2, PeersAre, NothingOnItsWay
<1> QED
  BY <1>3, <1>4, <1>5 DEF IInv
-----------------------------------------------------------------------------
(* The theorems *)

LEMMA StoppedStep ==
  ASSUME IInv, Next
  PROVE  Stopped'
<1>1. /\ pc \in [Peers -> Places] /\ up \in [Peers -> BOOLEAN] /\ failed \subseteq Peers
      /\ "server" \in failed => pc["server"] = "exit" \/ ~ up["server"]
      /\ \A p \in Peers : pc[p] # "idle" => up[p]
  BY TypeUnfolds DEF IInv, Stopped, Hands
<1>2. ASSUME NEW p \in Peers, Throws(p), up' = up PROVE Stopped'
  <2>1. CASE p = "server"
    BY <1>1, <1>2, <2>1 DEF Throws, Stopped
  <2>2. CASE p # "server"
    <3>1. "client" = p /\ pc'["server"] = pc["server"] /\ failed' = failed \cup {p}
      BY <1>1, <1>2, <2>2, PeersAre DEF Throws
    <3> QED
      BY <1>1, <1>2, <2>2, <3>1 DEF Stopped
  <2> QED
    BY <2>1, <2>2
<1>3. ASSUME failed' = failed, pc'["server"] = pc["server"] \/ pc["server"] # "exit",
             up'["server"] => up["server"]
      PROVE  Stopped'
  BY <1>1, <1>3 DEF Stopped
<1>4. CASE Client
  <2>1. /\ failed' = failed /\ up' = up
        /\ \E c \in Sending \cup Receiving : pc' = [pc EXCEPT !["client"] = c]
    BY <1>4 DEF Client, client_send, client_xfer, client_recv, MakesRequest, Begins, Sending,
                Receiving
  <2>2. pc'["server"] = pc["server"]
    BY <1>1, <2>1, PeersAre
  <2> QED
    BY <1>3, <2>1, <2>2
<1>5. CASE Server
  <2>1. failed' = failed /\ up' = up /\ pc["server"] = "idle"
    BY <1>5 DEF Server, server_recv, server_send, Begins
  <2> QED
    BY <1>3, <2>1
<1>6. CASE connect
  BY <1>6 DEF connect, Stopped
<1>7. ASSUME NEW p \in Peers, Sent(p) \/ Received(p) PROVE Stopped'
  <2>1. failed' = failed /\ up' = up /\ pc[p] # "exit"
    BY <1>7 DEF Sent, Received, Returns, Sending, Receiving
  <2>2. pc'["server"] = pc["server"] \/ p = "server"
    BY <1>1, <1>7, PeersAre DEF Sent, Received, Returns
  <2> QED
    BY <1>3, <2>1, <2>2
<1>8. ASSUME NEW p \in Peers,
             SendRefused(p) \/ ReceiveRefused(p) \/ SendFails(p) \/ ReceiveFails(p)
      PROVE  Stopped'
  <2>1. Throws(p) /\ up' = up
    BY <1>8 DEF SendRefused, ReceiveRefused, SendFails, ReceiveFails
  <2> QED
    BY <1>2, <2>1
<1>9. ASSUME NEW p \in Peers, close(p) PROVE Stopped'
  <2>1. failed' = failed /\ up' = [up EXCEPT ![p] = FALSE] /\ pc' = [pc EXCEPT ![p] = "idle"]
    BY <1>9 DEF close
  <2>2. CASE p = "server"
    BY <1>1, <2>1, <2>2 DEF Stopped
  <2>3. CASE p # "server"
    <3>1. pc'["server"] = pc["server"] /\ up'["server"] = up["server"]
      BY <1>1, <2>1, <2>3, PeersAre
    <3> QED
      BY <1>3, <2>1, <3>1
  <2> QED
    BY <2>2, <2>3
<1> QED
  BY <1>4, <1>5, <1>6, <1>7, <1>8, <1>9 DEF Next, CallEnds, CallFails

LEMMA InitIInv == Init => IInv
<1> SUFFICES ASSUME Init PROVE IInv
  OBVIOUS
<1>1. /\ up = [p \in Peers |-> TRUE] /\ chan = [p \in Peers |-> <<>>]
      /\ pc = [p \in Peers |-> "idle"] /\ m_nv = [p \in Peers |-> 0]
      /\ issued = 0 /\ asked = <<>> /\ failed = {} /\ result = <<>>
  BY DEF Init
<1>2. TypeOK
  <2>1. \A p \in Peers : Len(chan[p]) <= Cap
    BY <1>1, SizesAssumption
  <2>2. issued \in 0 .. MaxRequests /\ asked \in Seq(Requests)
    BY <1>1, RequestsAssumption
  <2>3. result \in Results
    BY <1>1 DEF Results
  <2>4. up \in [Peers -> BOOLEAN] /\ chan \in [Peers -> Seq(Entries)]
        /\ pc \in [Peers -> Places] /\ m_nv \in [Peers -> Requests \cup {0}]
    BY <1>1 DEF Places
  <2> QED
    BY <1>1, <2>1, <2>2, <2>3, <2>4 DEF TypeOK, Entries, Places, Results
<1>3. Hands
  BY <1>1, PeersAre DEF Hands, Sending, Receiving
<1>4. InFlight
  <2>1. chan["client"] = <<>> /\ chan["server"] = <<>> /\ InHand = <<>>
    BY <1>1, PeersAre DEF InHand
  <2>2. Flight = <<>>
    BY <2>1 DEF Flight
  <2>3. <<>> \in Seq(Entries)
    OBVIOUS
  <2>4. IsPrefix(<<>>, <<>>)
    BY <2>3, PrefixSelf
  <2> QED
    BY <1>1, <2>1, <2>2, <2>4 DEF InFlight, Arrived
<1>5. Stopped
  BY <1>1 DEF Stopped
<1> QED
  BY <1>2, <1>3, <1>4, <1>5 DEF IInv

LEMMA NextIInv == IInv /\ [Next]_vars => IInv'
<1> SUFFICES ASSUME IInv, [Next]_vars PROVE IInv'
  OBVIOUS
<1> DEFINE Kept == TypeOK' /\ Hands' /\ InFlight'
<1>1. ASSUME client_send PROVE Kept
  <2>1. "send" \in Sending
    BY DEF Sending
  <2> QED
    BY <1>1, <2>1, RequestStep DEF client_send
<1>2. ASSUME client_xfer PROVE Kept
  <2>1. "xfer send" \in Sending
    BY DEF Sending
  <2> QED
    BY <1>2, <2>1, RequestStep DEF client_xfer
<1>3. ASSUME client_recv \/ Server PROVE Kept
  BY <1>3, BeginStep DEF Server
<1>4. ASSUME connect PROVE Kept
  BY <1>4, ConnectStep
<1>5. ASSUME NEW p \in Peers, Sent(p) PROVE Kept
  BY <1>5, SentStep
<1>6. ASSUME NEW p \in Peers, SendRefused(p) \/ SendFails(p) PROVE Kept
  BY <1>6, SendThrowsStep
<1>7. ASSUME NEW p \in Peers, Received(p) PROVE Kept
  BY <1>7, ReceivedStep
<1>8. ASSUME NEW p \in Peers, ReceiveRefused(p) \/ ReceiveFails(p) PROVE Kept
  BY <1>8, ReceiveThrowsStep
<1>9. ASSUME NEW p \in Peers, close(p) PROVE Kept
  BY <1>9, CloseStep
<1>10. CASE UNCHANGED vars
  BY <1>10 DEF vars, IInv, TypeOK, Hands, Stopped, InFlight, Arrived, Flight, InHand
<1>11. CASE Next
  <2>1. Kept
    BY <1>1, <1>2, <1>3, <1>4, <1>5, <1>6, <1>7, <1>8, <1>9, <1>11
       DEF Next, Client, CallEnds, CallFails
  <2> QED
    BY <1>11, <2>1, StoppedStep DEF IInv
<1> QED
  BY <1>10, <1>11

THEOREM Inductive == Spec => []IInv
<1> QED
  BY InitIInv, NextIInv, PTL DEF Spec

\* Buffers stay within their size, and calls that return a list return one
\* that was requested, never a null pointer (nv_list.cc recv, xfer).
THEOREM TypeCorrect == Spec => []TypeOK
<1>1. IInv => TypeOK
  BY DEF IInv
<1> QED
  BY <1>1, Inductive, PTL

\* As long as no call has thrown at the client, what it expects is on its way,
\* and after an exception of the server what has arrived is still the next it
\* expects (send, recv and xfer of both peers).
THEOREM InFlightHolds == Spec => []InFlight
<1>1. IInv => InFlight
  BY DEF IInv
<1> QED
  BY <1>1, Inductive, PTL

\* What is in the sockets and the server's hands, while both peers are up and
\* no call has thrown.
LEMMA Counted ==
  ASSUME IInv, "client" \notin failed, up["client"], pc["server"] \in Sending \cup Receiving
  PROVE  /\ up["server"] /\ Flight = asked
         /\ Len(asked) = Len(chan["client"]) + Len(InHand) + Len(chan["server"])
         /\ Len(chan["client"]) \in Nat /\ Len(chan["server"]) \in Nat /\ Len(InHand) \in Nat
         /\ Len(asked) \in Nat /\ Cap \in Nat \ {0}
         /\ pc["server"] \in Sending => Len(InHand) = 1
<1>1. up["server"] /\ "server" \notin failed
  BY PeersAre DEF IInv, Hands, Stopped, Sending, Receiving
<1>2. Flight = asked
  BY <1>1 DEF IInv, InFlight
<1>3. /\ chan["client"] \in Seq(Entries) /\ chan["server"] \in Seq(Entries)
      /\ InHand \in Seq(Entries) /\ asked \in Seq(Entries)
  BY FlightTyped, PeersAre DEF IInv
<1>4. Len(asked) = Len(chan["client"]) + Len(InHand) + Len(chan["server"])
  BY <1>2, FlightHeads DEF IInv
<1>5. pc["server"] \in Sending => Len(InHand) = 1
  BY DEF IInv, Hands, InHand
<1>6. \A s \in Seq(Entries) : Len(s) \in Nat
  OBVIOUS
<1>7. /\ Len(chan["client"]) \in Nat /\ Len(chan["server"]) \in Nat
      /\ Len(InHand) \in Nat /\ Len(asked) \in Nat
  BY <1>3, <1>6, Zenon
<1> QED
  BY <1>1, <1>2, <1>4, <1>5, <1>7, SizesAssumption, Zenon

LEMMA WaitOnlyWhenOverrun ==
  ASSUME IInv, "client" \notin failed, Waits("client"), Waits("server")
  PROVE  Overruns
<1>1. /\ pc["client"] \in Sending \/ pc["client"] \in Receiving
      /\ pc["server"] \in Sending \/ pc["server"] \in Receiving
  BY DEF Waits
<1>2. up["client"] /\ up["server"]
  BY <1>1, PeersAre DEF IInv, Hands, Sending, Receiving
<1>3. /\ Flight = asked
      /\ Len(asked) = Len(chan["client"]) + Len(InHand) + Len(chan["server"])
      /\ Len(chan["client"]) \in Nat /\ Len(chan["server"]) \in Nat /\ Len(InHand) \in Nat
      /\ Len(asked) \in Nat /\ Cap \in Nat \ {0}
      /\ pc["server"] \in Sending => Len(InHand) = 1
  BY <1>1, <1>2, Counted
<1>4. /\ chan["client"] \in Seq(Entries) /\ chan["server"] \in Seq(Entries)
      /\ asked \in Seq(Requests)
  BY FlightTyped, TypeUnfolds, PeersAre DEF IInv
<1>5. Torn \notin Requests
  BY RequestsAssumption DEF Torn, Requests
<1>6. ASSUME NEW p \in Peers, chan[p] # <<>> PROVE Head(chan[p]) # Torn
  <2>1. CASE p = "client"
    <3>1. asked # <<>> /\ Head(asked) = Head(chan["client"])
      BY <1>3, <1>6, <2>1, FlightHeads DEF IInv
    <3>2. Head(asked) \in Requests
      BY <1>4, <3>1
    <3> QED
      BY <1>5, <2>1, <3>1, <3>2
  <2>2. CASE p = "server"
    <3>1. PICK k \in 1 .. Len(asked) : asked[k] = Head(chan["server"])
      BY <1>3, <1>6, <2>2, FlightHeads DEF IInv
    <3>2. asked[k] \in Requests
      BY <1>4, <3>1
    <3> QED
      BY <1>5, <2>2, <3>1, <3>2
  <2> QED
    BY <2>1, <2>2, PeersAre
<1>7. \A p \in Peers : pc[p] \in Receiving => chan[p] = <<>>
  BY <1>2, <1>6, PeersAre DEF Waits, Readable, Receiving, Sending
<1>8. \A p \in Peers : pc[p] \in Sending => Len(chan[Other(p)]) >= Cap
  <2>1. "send" \notin Receiving /\ "xfer send" \notin Receiving
    BY DEF Receiving
  <2>2. \A p \in Peers : pc[p] \in Sending => ~ HasRoom(Other(p))
    BY <2>1, PeersAre DEF Waits, Sending
  <2> QED
    BY <1>3, <2>2, PeersAre DEF HasRoom
<1>9. CASE pc["client"] \in Sending /\ pc["server"] \in Sending
  <2>1. Len(chan["client"]) >= Cap /\ Len(chan["server"]) >= Cap
    BY <1>8, <1>9, PeersAre
  <2>2. Len(asked) > 2 * Cap
    <3>1. \A a, b, c, n \in Nat : a >= c /\ b >= c /\ n = a + 1 + b => n > 2 * c
      OBVIOUS
    <3>2. Len(asked) = Len(chan["client"]) + 1 + Len(chan["server"]) /\ Cap \in Nat
      BY <1>3, <1>9
    <3> QED
      BY <1>3, <2>1, <3>1, <3>2, Zenon
  <2> QED
    BY <1>9, <2>2 DEF Overruns
<1>10. CASE pc["client"] \in Sending /\ pc["server"] \in Receiving
  <2>1. Len(chan["server"]) >= Cap /\ chan["server"] = <<>>
    BY <1>7, <1>8, <1>10, PeersAre
  <2> QED
    BY <1>3, <2>1
<1>11. CASE pc["client"] \in Receiving /\ pc["server"] \in Sending
  <2>1. Len(chan["client"]) >= Cap /\ chan["client"] = <<>>
    BY <1>7, <1>8, <1>11, PeersAre
  <2> QED
    BY <1>3, <2>1
<1>12. CASE pc["client"] \in Receiving /\ pc["server"] \in Receiving
  <2>1. chan["client"] = <<>> /\ chan["server"] = <<>> /\ InHand = <<>>
    BY <1>7, <1>12, PeersAre DEF IInv, Hands, InHand
  <2>2. Flight = <<>> /\ asked # <<>>
    BY <1>12, <2>1 DEF Flight, IInv, Hands
  <2> QED
    BY <1>3, <2>2
<1> QED
  BY <1>1, <1>9, <1>10, <1>11, <1>12

LEMMA OverrunWaits ==
  ASSUME IInv, "client" \notin failed, Overruns, pc["server"] \in Sending
  PROVE  Waits("client") /\ Waits("server")
<1>1. pc["client"] \in Sending /\ Len(asked) > 2 * Cap
  BY DEF Overruns
<1>2. up["client"]
  BY <1>1, PeersAre DEF IInv, Hands, Sending
<1>3. /\ up["server"]
      /\ Len(asked) = Len(chan["client"]) + 1 + Len(chan["server"])
      /\ Len(chan["client"]) \in Nat /\ Len(chan["server"]) \in Nat
      /\ Len(asked) \in Nat /\ Cap \in Nat
  BY <1>2, Counted
<1>4. Len(chan["client"]) <= Cap /\ Len(chan["server"]) <= Cap
  BY TypeUnfolds, PeersAre DEF IInv
<1>5. \A a, b, c, n \in Nat :
        a <= c /\ b <= c /\ n = a + 1 + b /\ n > 2 * c => ~ (a < c) /\ ~ (b < c)
  OBVIOUS
<1>6. ~ HasRoom("client") /\ ~ HasRoom("server")
  BY <1>1, <1>3, <1>4, <1>5, Zenon DEF HasRoom
<1> QED
  BY <1>1, <1>2, <1>3, <1>6, PeersAre DEF Waits

\* The peers wait for each other only if the client overruns them, and always
\* when it overruns a server that is sending (send, xfer: they send before
\* they receive).
THEOREM NoMutualWaitHolds == Spec => []NoMutualWait
<1>1. IInv => NoMutualWait
  BY WaitOnlyWhenOverrun, OverrunWaits DEF NoMutualWait
<1> QED
  BY <1>1, Inductive, PTL

\* A client that lets no more than 2 * Cap + 1 replies be outstanding, and no
\* call of which has thrown, never waits for the server while the server waits
\* for it (send, recv and xfer of both peers).
THEOREM PacedNeverWaits ==
  Window <= 2 * Cap + 1 =>
    (Spec => [](~ ("client" \notin failed /\ Waits("client") /\ Waits("server"))))
<1> SUFFICES ASSUME Window <= 2 * Cap + 1
             PROVE  Spec => [](~ ("client" \notin failed /\ Waits("client") /\ Waits("server")))
  OBVIOUS
<1>1. IInv => ~ ("client" \notin failed /\ Waits("client") /\ Waits("server"))
  <2> SUFFICES ASSUME IInv, "client" \notin failed, Waits("client"), Waits("server")
               PROVE  FALSE
    OBVIOUS
  <2>1. pc["client"] \in Sending /\ Len(asked) > 2 * Cap
    BY WaitOnlyWhenOverrun DEF Overruns
  <2>2. Len(asked) < Window /\ Len(asked) \in Nat
    BY <2>1, TypeUnfolds DEF IInv, Hands
  <2> QED
    BY <2>1, <2>2, SizesAssumption
<1> QED
  BY <1>1, Inductive, PTL

\* As long as no call has thrown at the client, each reply received is the one
\* to the oldest request that waits for one (recv, xfer of the client).
THEOREM ReplyMatchesHolds == Spec => ReplyMatches
<1>1. IInv /\ [Next]_vars =>
        [pc["client"] \in Receiving /\ pc'["client"] = "idle" /\ up'["client"]
           /\ "client" \notin failed' => result'.list = Head(asked)]_vars
  <2> SUFFICES ASSUME IInv, Next, pc["client"] \in Receiving, pc'["client"] = "idle",
                      up'["client"], "client" \notin failed'
               PROVE  result'.list = Head(asked)
    OBVIOUS
  <2>1. "client" \in Peers /\ pc \in [Peers -> Places] /\ up \in [Peers -> BOOLEAN]
    BY TypeUnfolds, PeersAre DEF IInv
  <2>2. pc["client"] # "idle" /\ pc["client"] \notin Sending
    BY DEF Receiving, Sending
  <2>3. ~ Client
    BY <2>2 DEF Client, client_send, client_xfer, client_recv, MakesRequest, Begins
  <2>4. ~ Server
    BY <2>1, <2>2, PeersAre DEF Server, server_recv, server_send, Begins
  <2>5. ~ connect
    BY <2>1, <2>2 DEF connect
  <2>6. ASSUME NEW p \in Peers, SendRefused(p) \/ SendFails(p) \/ ReceiveRefused(p) \/ ReceiveFails(p)
        PROVE  FALSE
    <3>1. /\ failed' = failed \cup {p}
          /\ pc' = [pc EXCEPT ![p] = IF p = "server" THEN "exit" ELSE "idle"]
      BY <2>6 DEF SendRefused, SendFails, ReceiveRefused, ReceiveFails, Throws
    <3>2. p # "client"
      BY <3>1
    <3>3. pc'["client"] = pc["client"]
      BY <2>1, <3>1, <3>2
    <3> QED
      BY <2>2, <3>3
  <2>7. ASSUME NEW p \in Peers, close(p) PROVE FALSE
    BY <2>1, <2>2, <2>7 DEF close
  <2>8. ASSUME NEW p \in Peers, Sent(p) PROVE FALSE
    <3>1. p # "client"
      BY <2>2, <2>8 DEF Sent
    <3>2. pc'["client"] = pc["client"]
      BY <2>1, <2>8, <3>1 DEF Sent, Returns
    <3> QED
      BY <2>2, <3>2
  <2>9. ASSUME NEW p \in Peers, Received(p) PROVE result'.list = Head(asked)
    <3>1. p = "client"
      BY <2>1, <2>2, <2>9 DEF Received, Returns
    <3>2. chan["client"] # <<>> /\ result'.list = Head(chan["client"]) /\ failed' = failed /\ up' = up
      BY <2>9, <3>1 DEF Received, Returns
    <3>3. chan["client"] \in Seq(Entries) /\ asked \in Seq(Entries)
      BY FlightTyped, PeersAre DEF IInv
    <3>4. Matches(chan["client"], asked)
      BY <3>2, ArrivedMatches DEF IInv
    <3>5. /\ 1 \in DOMAIN chan["client"] /\ chan["client"][1] = Head(chan["client"])
          /\ Head(chan["client"]) # Torn
      BY <2>9, <3>1, <3>2, <3>3 DEF Received
    <3>6. 1 \in DOMAIN asked /\ Head(chan["client"]) = asked[1]
      BY <3>4, <3>5 DEF Matches
    <3> QED
      BY <3>2, <3>3, <3>6
  <2> QED
    BY <2>3, <2>4, <2>5, <2>6, <2>7, <2>8, <2>9 DEF Next, CallEnds, CallFails
<1> QED
  BY <1>1, Inductive, PTL DEF Spec, ReplyMatches
=============================================================================
