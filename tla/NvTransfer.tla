---------------------------- MODULE NvTransfer ----------------------------
(***************************************************************************)
(* Lists sent through a pair of connected sockets: send(), recv() and      *)
(* xfer(), called by a client that asks and a server that receives a list, *)
(* answers with another, and receives again, as the threads of the test    *)
(* nvxx_xfer do.  A call blocks until the socket has room or a list, or    *)
(* fails; either peer may exit or crash at any time, in a call or not.     *)
(*                                                                         *)
(* A list is the number of the request it is or answers.  Lists in the     *)
(* error state are refused before anything happens: send in NvList, xfer   *)
(* in NvOwnership.                                                         *)
(***************************************************************************)
EXTENDS Naturals, SequencesExt

CONSTANTS
  Cap,         \* the lists that fit into a socket's buffer
  Window,      \* the replies a client lets be outstanding
  MaxRequests  \* bound: the requests of one connection

ASSUME SizesAssumption == Cap \in Nat \ {0} /\ Window \in Nat
ASSUME RequestsAssumption == MaxRequests \in Nat

VARIABLES
  up,      \* whether each peer has its descriptor open
  chan,    \* what is in the buffer of each peer's socket
  pc,      \* the call each peer is in
  m_nv,    \* the list each peer has, 0 when it has none
  issued,  \* the requests the client has made
  asked,   \* those of which it expects the reply
  failed,  \* history: the peers at which a call on this connection has thrown
  result   \* the last call that ended

vars == <<up, chan, pc, m_nv, issued, asked, failed, result>>

Peers == {"client", "server"}
Other(p) == IF p = "client" THEN "server" ELSE "client"

\* The start of a list whose rest was not sent.
Torn == 0

Requests == 1 .. MaxRequests
Sending == {"send", "xfer send"}
Receiving == {"recv", "xfer recv"}
Calls == {"send", "recv", "xfer"}

\* Buffers within their size; recv() and xfer() that return, return a list.
TypeOK ==
  /\ up \in [Peers -> BOOLEAN]
  /\ chan \in [Peers -> Seq(Requests \cup {Torn})]
  /\ \A p \in Peers : Len(chan[p]) <= Cap
  /\ pc \in [Peers -> {"idle", "exit"} \cup Sending \cup Receiving]
  /\ m_nv \in [Peers -> Requests \cup {0}]
  /\ issued \in 0 .. MaxRequests /\ asked \in Seq(Requests) /\ failed \subseteq Peers
  /\ result \in [peer : Peers, op : Calls, outcome : {"ok"}, list : Requests]
                  \cup [peer : Peers, op : Calls, outcome : {"system_error"}, list : {0}]
                  \cup {<<>>}
-----------------------------------------------------------------------------
(* Calls begin and end *)

Op(p) == IF pc[p] \in {"send", "recv"} THEN pc[p] ELSE "xfer"

Begins(p, call) == up[p] /\ pc[p] = "idle" /\ pc' = [pc EXCEPT ![p] = call]

\* The call of p returns; for send(), list is what was sent.
Returns(p, list) ==
  /\ pc' = [pc EXCEPT ![p] = "idle"]
  /\ result' = [peer |-> p, op |-> Op(p), outcome |-> "ok", list |-> list]
  /\ failed' = failed

\* Mutant: a null pointer from libnv is taken for a list.
Throws_null(p) == Returns(p, 0)

\* An exception ends the server, as it ends the thread of the test.
Throws(p) ==
  /\ pc' = [pc EXCEPT ![p] = IF p = "server" THEN "exit" ELSE "idle"]
  /\ result' = [peer |-> p, op |-> Op(p), outcome |-> "system_error", list |-> 0]
  /\ failed' = failed \cup {p}

\* The client does not expect the reply any more.
GivesUp(p) == asked' = IF p = "client" /\ pc[p] \in Receiving THEN Tail(asked) ELSE asked
-----------------------------------------------------------------------------
(* The client: its calls overlap with the replies to earlier ones *)

MakesRequest(call) ==
  /\ Len(asked) < Window /\ issued < MaxRequests
  /\ Begins("client", call)
  /\ issued' = issued + 1 /\ m_nv' = [m_nv EXCEPT !["client"] = issued']

client_send == MakesRequest("send") /\ UNCHANGED <<up, chan, asked, failed, result>>

\* Mutant: libnv is asked to receive first.
client_xfer_receiving ==
  MakesRequest("xfer recv") /\ asked' = Append(asked, issued')
    /\ UNCHANGED <<up, chan, failed, result>>

client_xfer == MakesRequest("xfer send") /\ UNCHANGED <<up, chan, asked, failed, result>>

client_recv ==
  /\ asked # <<>>
  /\ Begins("client", "recv")
  /\ UNCHANGED <<up, chan, m_nv, issued, asked, failed, result>>

(* The server *)

server_recv ==
  /\ m_nv["server"] = 0
  /\ Begins("server", "recv")
  /\ UNCHANGED <<up, chan, m_nv, issued, asked, failed, result>>

server_send ==
  /\ m_nv["server"] # 0
  /\ Begins("server", "send")
  /\ UNCHANGED <<up, chan, m_nv, issued, asked, failed, result>>
-----------------------------------------------------------------------------
(* send() and the first half of xfer() *)

HasRoom(p) == Len(chan[p]) < Cap

nvlist_send(p) == chan' = [chan EXCEPT ![Other(p)] = Append(@, m_nv[p])]

\* Mutant: xfer() calls send() and then nvlist_xfer().
Sent_twice(p) ==
  /\ pc[p] \in Sending /\ up[Other(p)] /\ Len(chan[Other(p)]) + 2 <= Cap
  /\ chan' = [chan EXCEPT ![Other(p)] = @ \o <<m_nv[p], m_nv[p]>>]
  /\ asked' = IF p = "client" THEN Append(asked, m_nv[p]) ELSE asked
  /\ m_nv' = [m_nv EXCEPT ![p] = 0]
  /\ IF pc[p] = "send" THEN Returns(p, m_nv[p])
     ELSE pc' = [pc EXCEPT ![p] = "xfer recv"] /\ UNCHANGED <<failed, result>>
  /\ UNCHANGED <<up, issued>>

\* The caller destroys the list he has sent; after xfer() has sent it libnv
\* destroys it, and waits for another.
Sent(p) ==
  /\ pc[p] \in Sending /\ up[Other(p)] /\ HasRoom(Other(p))
  /\ nvlist_send(p)
  /\ asked' = IF p = "client" THEN Append(asked, m_nv[p]) ELSE asked
  /\ m_nv' = [m_nv EXCEPT ![p] = 0]
  /\ IF pc[p] = "send" THEN Returns(p, m_nv[p])
     ELSE pc' = [pc EXCEPT ![p] = "xfer recv"] /\ UNCHANGED <<failed, result>>
  /\ UNCHANGED <<up, issued>>

\* The peer has closed its socket.
SendRefused(p) ==
  /\ pc[p] \in Sending /\ ~ up[Other(p)]
  /\ Throws(p)
  /\ m_nv' = [m_nv EXCEPT ![p] = 0] /\ UNCHANGED <<up, chan, issued, asked>>

\* Mutant: the return value of nvlist_send() is ignored.
SendFails_unreported(p) ==
  /\ pc[p] \in Sending
  /\ Returns(p, m_nv[p])
  /\ asked' = IF p = "client" THEN Append(asked, m_nv[p]) ELSE asked
  /\ m_nv' = [m_nv EXCEPT ![p] = 0] /\ UNCHANGED <<up, chan, issued>>

\* A timeout or want of memory; part of the list may have been sent.
SendFails(p) ==
  /\ pc[p] \in Sending
  /\ Throws(p)
  /\ \/ chan' = chan
     \/ /\ up[Other(p)] /\ HasRoom(Other(p))
        /\ chan' = [chan EXCEPT ![Other(p)] = Append(@, Torn)]
  /\ m_nv' = [m_nv EXCEPT ![p] = 0] /\ UNCHANGED <<up, issued, asked>>
-----------------------------------------------------------------------------
(* recv() and the second half of xfer() *)

nvlist_recv(p) == chan' = [chan EXCEPT ![p] = Tail(@)]

\* The server keeps the list to answer it.
Received(p) ==
  /\ pc[p] \in Receiving /\ chan[p] # <<>> /\ Head(chan[p]) # Torn
  /\ nvlist_recv(p)
  /\ Returns(p, Head(chan[p]))
  /\ asked' = IF p = "client" THEN Tail(asked) ELSE asked
  /\ m_nv' = [m_nv EXCEPT ![p] = IF p = "server" THEN Head(chan[p]) ELSE 0]
  /\ UNCHANGED <<up, issued>>

\* A torn list fits nothing that follows; without it, libnv waits for the rest.
Readable(p) ==
  \/ chan[p] # <<>> /\ (Head(chan[p]) = Torn => Len(chan[p]) > 1)
  \/ ~ up[Other(p)]

\* Mutant: a null pointer makes it call nvlist_recv() again.
ReceiveRefused_retried(p) == pc[p] \in Receiving /\ Readable(p) /\ UNCHANGED vars

\* The peer has closed its socket, or the list was torn.
ReceiveRefused(p) ==
  /\ pc[p] \in Receiving /\ Readable(p)
  /\ chan[p] # <<>> => Head(chan[p]) = Torn
  /\ Throws(p) /\ GivesUp(p)
  /\ m_nv' = [m_nv EXCEPT ![p] = 0] /\ UNCHANGED <<up, chan, issued>>

\* A timeout, or want of memory for the list that was read.
ReceiveFails(p) ==
  /\ pc[p] \in Receiving
  /\ Throws(p) /\ GivesUp(p)
  /\ chan' = chan \/ (chan[p] # <<>> /\ nvlist_recv(p))
  /\ m_nv' = [m_nv EXCEPT ![p] = 0] /\ UNCHANGED <<up, issued>>
-----------------------------------------------------------------------------
(* Connections *)

\* A peer closes its socket, exits or crashes: what it had not received is
\* lost, what it had sent is not.
close(p) ==
  /\ up[p]
  /\ up' = [up EXCEPT ![p] = FALSE] /\ pc' = [pc EXCEPT ![p] = "idle"]
  /\ chan' = [chan EXCEPT ![p] = <<>>] /\ m_nv' = [m_nv EXCEPT ![p] = 0]
  /\ UNCHANGED <<issued, asked, failed, result>>

\* A new pair of sockets.
connect ==
  /\ \A p \in Peers : ~ up[p]
  /\ up' = [p \in Peers |-> TRUE] /\ chan' = [p \in Peers |-> <<>>]
  /\ issued' = 0 /\ asked' = <<>> /\ failed' = {}
  /\ UNCHANGED <<pc, m_nv, result>>

Init ==
  /\ up = [p \in Peers |-> TRUE] /\ chan = [p \in Peers |-> <<>>]
  /\ pc = [p \in Peers |-> "idle"] /\ m_nv = [p \in Peers |-> 0]
  /\ issued = 0 /\ asked = <<>> /\ failed = {} /\ result = <<>>

\* libnv, and the kernel, are done with the call of p.
CallEnds(p) == Sent(p) \/ SendRefused(p) \/ Received(p) \/ ReceiveRefused(p)
CallFails(p) == SendFails(p) \/ ReceiveFails(p)

Client == client_send \/ client_xfer \/ client_recv
Server == server_recv \/ server_send

Next ==
  \/ Client \/ Server \/ connect
  \/ \E p \in Peers : CallEnds(p) \/ CallFails(p) \/ close(p)

\* A call that may end does end; a server that is up serves, and one that an
\* exception reached exits, as the thread of the test does.  Nothing makes
\* the client call, or a call fail, or a peer close.
Fairness ==
  /\ WF_vars(Server)
  /\ WF_vars(pc["server"] = "exit" /\ close("server"))
  /\ \A p \in Peers : WF_vars(CallEnds(p))

Spec == Init /\ [][Next]_vars /\ Fairness
-----------------------------------------------------------------------------
(* Safety *)

\* What is between the request the client made last and the reply it got last.
InHand == IF m_nv["server"] = 0 THEN <<>> ELSE <<m_nv["server"]>>
Flight == chan["client"] \o InHand \o chan["server"]

\* The whole replies in the client's socket are the next ones it expects.
Arrived ==
  \A i \in DOMAIN chan["client"] : chan["client"][i] # Torn =>
    i \in DOMAIN asked /\ chan["client"][i] = asked[i]

\* As long as no call has thrown at the client, the replies that it expects
\* are on their way, in the order of the requests, none lost and none twice.
\* When the server closes the last ones are missing; when a call has thrown at
\* the server, those that have arrived are still the next ones, even if one
\* was sent only in part.
InFlight ==
  "client" \notin failed /\ up["client"] =>
    IF "server" \in failed THEN Arrived
    ELSE IsPrefix(Flight, asked) /\ (up["server"] => Flight = asked)

\* As long as no call has thrown at the client, recv() and xfer() return the
\* reply to the oldest request without one, so that an xfer() with no other
\* outstanding returns the answer to its own list; no exception of the server
\* and no reply it sent in part changes that.  After an exception at the
\* client, a reply that was given up may still come and be taken for that of
\* the next request.
ReplyMatches ==
  [][/\ pc["client"] \in Receiving /\ pc'["client"] = "idle"
     /\ up'["client"] /\ "client" \notin failed'
     => result'.list = Head(asked)]_vars

Waits(p) ==
  \/ pc[p] \in Sending /\ up[Other(p)] /\ ~ HasRoom(Other(p))
  \/ pc[p] \in Receiving /\ ~ Readable(p)

\* The client sends although both sockets and the hands of the server can be
\* full of what it has asked already.
Overruns == pc["client"] \in Sending /\ Len(asked) > 2 * Cap

\* As long as no call has thrown at the client, the peers wait for each other
\* only if the client overruns them: never both to receive, as xfer() sends
\* first, and never to have their sockets emptied with fewer requests than
\* that.  The bound is sharp: a client that overruns a server which is sending
\* waits for it, and the server for the client.
NoMutualWait ==
  "client" \notin failed =>
    /\ Waits("client") /\ Waits("server") => Overruns
    /\ Overruns /\ pc["server"] \in Sending => Waits("client") /\ Waits("server")
-----------------------------------------------------------------------------
(* Liveness *)

\* A call that the client begins before any of its calls has thrown, and that
\* does not overrun the server, ends: it returns, or it throws, also when the
\* server is ended by an exception, exits or crashes.  After an exception at
\* the client a reply it gave up may fill its socket, and nothing is promised.
ClientReturns ==
  pc["client"] # "idle" /\ "client" \notin failed /\ ~ Overruns ~> pc["client"] = "idle"
=============================================================================
