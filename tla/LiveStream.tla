----------------------------- MODULE LiveStream -----------------------------
(***************************************************************************)
(* One request on its way through forwardLive, a yamux stream and the      *)
(* agent's handleStream to the local app, and the answer back: a body,     *)
(* which may be kept as a snapshot, or a protocol upgrade, after which     *)
(* both sides relay raw bytes.                                             *)
(*                                                                         *)
(* Between two parties there are two hops, one for each direction:         *)
(*    client --ce--> edge --ea--> agent --al--> app                        *)
(*    client <--ec-- edge <--ae-- agent <--la-- app                        *)
(* ce, ec, al and la are TCP, ea and ae the stream.  A reader may hold     *)
(* bytes it has taken off its hop beyond those it was asked for.  Bytes    *)
(* are numbered portions of what a side sends; a head is one item, and End *)
(* is what tells that a body with a length, or in chunks, is complete.  Of *)
(* the body of a request only its end matters: until the client has sent   *)
(* that, r.Write and req.Write wait for it.                                *)
(***************************************************************************)
EXTENDS Naturals, Sequences

CONSTANTS
  Request, Ok, Bad, Switch, End, \* heads: 200, 502 and 101; the end of a body
  MaxSent,                       \* bound on the portions a side sends
  Window,                        \* bound on the items on a hop
  Limit,                         \* maxTeeBody, in portions
  None                           \* no snapshot

ASSUME StreamAssumption ==
  /\ MaxSent \in Nat /\ Window \in Nat \ {0} /\ Limit \in Nat
  /\ LET marks == <<Request, Ok, Bad, Switch, End>>
     IN \A i \in 1..5 : /\ marks[i] \notin 1..MaxSent
                        /\ \A j \in 1..5 : marks[i] = marks[j] => i = j

VARIABLES
  kind,      \* what the app answers with
  cacheable, \* the request, and the headers the app gives, allow a snapshot
  body,      \* the end of the request's body, at each side that copies it
  edge,      \* where forwardLive is
  agent,     \* where handleStream is
  copy,      \* the copying goroutines, by the hop they read
  session,   \* the yamux session lives
  wire,      \* what is on each hop
  buf,       \* what each hop's reader holds
  fin,       \* the sender of each hop has closed it
  app,       \* where the app is with its answer
  gone,      \* who of client and app reads no more
  sent,      \* how many portions client and app have sent
  got,       \* the portions client and app have received, after an upgrade
  cb,        \* the cappedBuffer
  over,      \* its flag
  stored     \* the snapshot

vars == <<kind, cacheable, body, edge, agent, copy, session, wire, buf, fin, app, gone,
          sent, got, cb, over, stored>>
peers == <<app, gone, sent, got>>
tee == <<cb, over, stored>>
choice == <<kind, cacheable>>
request == <<choice, body>>

Hops == {"ce", "ea", "al", "la", "ae", "ec"}
StreamHops == {"ea", "ae"}
Portions == 1..MaxSent
Items == Portions \cup {Request, Ok, Bad, Switch, End}

Late == {"relay", "close", "returned"}

StreamTypeOK ==
  /\ kind \in {"framed", "close", "upgrade"} /\ cacheable \in BOOLEAN
  /\ body \in [{"edge", "agent"} -> {"due", "there", "passed"}]
  /\ edge \in {"start", "read", "copy", "tee", "hijack", "drain"} \cup Late
  /\ agent \in {"idle", "dial", "read", "reply", "copy", "switch"} \cup Late
  /\ copy \in [{"ce", "ae", "ea", "la"} -> {"none", "run", "done"}]
  /\ session \in BOOLEAN
  /\ wire \in [Hops -> Seq(Items)] /\ buf \in [Hops -> Seq(Items)]
  /\ \A h \in Hops : Len(wire[h]) <= Window + 1
  /\ fin \in [Hops -> BOOLEAN]
  /\ app \in {"listen", "asked", "body", "done"}
  /\ gone \subseteq {"client", "app"}
  /\ sent \in [{"client", "app"} -> 0..MaxSent]
  /\ got \in [{"client", "app"} -> Seq(Portions)]
  /\ cb \in Seq(Portions) /\ Len(cb) <= Limit /\ over \in BOOLEAN
  /\ stored = None \/ stored \in Seq(Portions)

\* A request has a body whose end is due, or none; one for an upgrade has none.
Init ==
  /\ kind \in {"framed", "close", "upgrade"}
  /\ cacheable \in BOOLEAN /\ (kind = "upgrade" => ~cacheable)
  /\ body \in {[x \in {"edge", "agent"} |-> b] :
                 b \in {"passed"} \cup (IF kind = "upgrade" THEN {} ELSE {"due"})}
  /\ edge = "start" /\ agent = "idle"
  /\ copy = [h \in {"ce", "ae", "ea", "la"} |-> "none"]
  /\ session = TRUE
  /\ wire = [h \in Hops |-> <<>>] /\ buf = wire
  /\ fin = [h \in Hops |-> FALSE]
  /\ app = "listen" /\ gone = {}
  /\ sent = [x \in {"client", "app"} |-> 0]
  /\ got = [x \in {"client", "app"} |-> <<>>]
  /\ cb = <<>> /\ over = FALSE /\ stored = None

-----------------------------------------------------------------------------
(* Hops.                                                                   *)

Broken(h) == h \in StreamHops /\ ~session

\* Nobody will read what is written: a FIN or a RST may say so, or not yet.
Deaf(h) ==
  CASE h \in {"ce", "ae"} -> edge = "returned"
    [] h \in {"ea", "la"} -> agent = "returned"
    [] h = "ec" -> "client" \in gone
    [] h = "al" -> "app" \in gone

CanWrite(h) == ~Broken(h) /\ (Deaf(h) \/ Len(wire[h]) < Window)
WriteFails(h) == Broken(h) \/ Deaf(h)

Written(w, h, s) == IF Deaf(h) THEN w ELSE [w EXCEPT ![h] = @ \o s]

\* What the code that reads h will read first: its reader's bytes, except that
\* conn and stream are relayed upwards themselves and not through their readers.
Held(h) == IF h \in {"ce", "ea"} THEN <<>> ELSE buf[h]

Unread(h) == Held(h) \o wire[h]
AtEOF(h) == Unread(h) = <<>> /\ (fin[h] \/ Broken(h))

\* One item is read from h and written to g.
Pass(h, g) ==
  /\ Unread(h) # <<>> /\ CanWrite(g)
  /\ buf' = [buf EXCEPT ![h] = IF Held(h) = <<>> THEN @ ELSE Tail(@)]
  /\ wire' = Written(IF Held(h) = <<>> THEN [wire EXCEPT ![h] = Tail(@)] ELSE wire,
                     g, <<Head(Unread(h))>>)

\* A head is read through a bufio.Reader, which may take more off the hop.
ReadHead(h) ==
  /\ wire[h] # <<>>
  /\ \E n \in 1..Len(wire[h]) :
       /\ buf' = [buf EXCEPT ![h] = SubSeq(wire[h], 2, n)]
       /\ wire' = [wire EXCEPT ![h] = SubSeq(@, n + 1, Len(@))]

\* The deferred Closes of a handler: what its stream and its socket still have
\* for it is dropped.  Closing a socket with unread bytes resets it, and what
\* was written to it last may be lost.
Close(stream, socket) ==
  /\ fin' = [fin EXCEPT ![stream.out] = TRUE, ![socket.out] = TRUE]
  /\ \E n \in 0..Len(wire[socket.out]) :
       /\ wire[socket.in] = <<>> => n = Len(wire[socket.out])
       /\ wire' = [wire EXCEPT ![socket.out] = SubSeq(@, 1, n),
                              ![socket.in] = <<>>, ![stream.in] = <<>>]

-----------------------------------------------------------------------------
(* forwardLive.                                                            *)

EdgeGoes(from, to) == edge = from /\ edge' = to

\* OpenStream, and what r.Write writes before the body; an error of either ends
\* forwardLive.
WriteRequest ==
  /\ \/ EdgeGoes("start", "read") /\ CanWrite("ea") /\ wire' = Written(wire, "ea", <<Request>>)
     \/ EdgeGoes("start", "close") /\ WriteFails("ea") /\ UNCHANGED wire
  /\ UNCHANGED <<request, agent, copy, session, buf, fin, peers, tee>>

\* r.Write copies the body, for as long as the client takes to send it: it fails
\* on a client that has stopped sending, and on the stream.
WriteBody ==
  /\ edge = "read"
  /\ \/ /\ body["edge"] = "there" /\ ~Broken("ea")
        /\ body' = [edge |-> "passed", agent |-> "there"] /\ UNCHANGED edge
     \/ /\ \/ body["edge"] = "there" /\ WriteFails("ea")
           \/ body["edge"] = "due" /\ fin["ce"]
        /\ EdgeGoes("read", "close") /\ UNCHANGED body
  /\ UNCHANGED <<choice, agent, copy, session, wire, buf, fin, peers, tee>>

\* snapshot.Cacheable, where st and tunnelID allow it.
Cacheable(head) == head = Ok /\ cacheable

ReadResponse ==
  /\ body["edge"] = "passed"
  /\ \/ /\ ReadHead("ae")
        /\ EdgeGoes("read", CASE Head(wire["ae"]) = Switch -> "hijack"
                              [] Cacheable(Head(wire["ae"])) -> "tee"
                              [] OTHER -> "copy")
     \/ EdgeGoes("read", "close") /\ AtEOF("ae") /\ UNCHANGED <<wire, buf>>
  /\ UNCHANGED <<request, agent, copy, session, fin, peers, tee>>

\* Mutant: the cappedBuffer is compared with its limit before the write.
CopyPastLimit ==
  /\ edge \in {"copy", "tee"} /\ Unread("ae") # <<>> /\ Head(Unread("ae")) # End
  /\ Pass("ae", "ec")
  /\ IF edge = "tee" /\ ~over /\ Len(cb) <= Limit
     THEN cb' = Append(cb, Head(Unread("ae"))) /\ UNCHANGED over
     ELSE over' = (edge = "tee") /\ UNCHANGED cb
  /\ UNCHANGED <<request, edge, agent, copy, session, fin, peers, stored>>

\* io.Copy of a portion to the client, and to the cappedBuffer when teeing.
CopyPortion ==
  /\ edge \in {"copy", "tee"} /\ Unread("ae") # <<>> /\ Head(Unread("ae")) # End
  /\ Pass("ae", "ec")
  /\ IF edge = "tee" /\ ~over /\ Len(cb) + 1 <= Limit
     THEN cb' = Append(cb, Head(Unread("ae"))) /\ UNCHANGED over
     ELSE over' = (edge = "tee") /\ UNCHANGED cb
  /\ UNCHANGED <<request, edge, agent, copy, session, fin, peers, stored>>

\* A body with a length or in chunks that stops before its end is an error, as
\* is a client that cannot be written to; any other body ends with the stream.
Complete == IF Unread("ae") = <<>> THEN kind = "close" /\ AtEOF("ae")
                                   ELSE Head(Unread("ae")) = End
Aborted == IF Unread("ae") = <<>> THEN kind # "close" /\ AtEOF("ae")
                                  ELSE WriteFails("ec") /\ Head(Unread("ae")) # End

\* Mutant: cb.over is not looked at.
StoreCapped ==
  /\ EdgeGoes("tee", "close") \/ EdgeGoes("copy", "close")
  /\ \/ Complete /\ stored' = IF edge = "tee" THEN cb ELSE None
     \/ Aborted /\ UNCHANGED stored
  /\ UNCHANGED <<request, agent, copy, session, wire, buf, fin, peers, cb, over>>

\* io.Copy ends; storeSnapshot.
EndBody ==
  /\ EdgeGoes("tee", "close") \/ EdgeGoes("copy", "close")
  /\ \/ Complete /\ stored' = IF edge = "tee" /\ ~over THEN cb ELSE None
     \/ Aborted /\ UNCHANGED stored
  /\ UNCHANGED <<request, agent, copy, session, wire, buf, fin, peers, cb, over>>

\* The edge takes the client's socket over, with whatever the server's reader
\* had read ahead, and writes the 101 to it.
Hijack ==
  /\ \/ /\ EdgeGoes("hijack", "drain") /\ CanWrite("ec")
        /\ \E n \in 0..Len(wire["ce"]) :
             /\ buf' = [buf EXCEPT !["ce"] = SubSeq(wire["ce"], 1, n)]
             /\ wire' = Written([wire EXCEPT !["ce"] = SubSeq(@, n + 1, Len(@))],
                                "ec", <<Switch>>)
     \/ EdgeGoes("hijack", "close") /\ WriteFails("ec") /\ UNCHANGED <<wire, buf>>
  /\ UNCHANGED <<request, agent, copy, session, fin, peers, tee>>

\* Mutant: what the reader holds is left there.
DrainNothing ==
  /\ EdgeGoes("drain", "relay")
  /\ copy' = [copy EXCEPT !["ce"] = "run", !["ae"] = "run"]
  /\ UNCHANGED <<request, agent, session, wire, buf, fin, peers, tee>>

\* What the reader holds goes first; then the two copying goroutines start.
Drain ==
  /\ \/ /\ EdgeGoes("drain", "relay")
        /\ ~Broken("ea") \/ buf["ce"] = <<>>
        /\ wire' = Written(wire, "ea", buf["ce"])
        /\ buf' = [buf EXCEPT !["ce"] = <<>>]
        /\ copy' = [copy EXCEPT !["ce"] = "run", !["ae"] = "run"]
     \/ /\ EdgeGoes("drain", "close") /\ WriteFails("ea") /\ buf["ce"] # <<>>
        /\ UNCHANGED <<wire, buf, copy>>
  /\ UNCHANGED <<request, agent, session, fin, peers, tee>>

\* Mutant: passthroughUpgrade waits for both goroutines.
AwaitBoth ==
  /\ EdgeGoes("relay", "close")
  /\ copy["ce"] = "done" /\ copy["ae"] = "done"
  /\ UNCHANGED <<request, agent, copy, session, wire, buf, fin, peers, tee>>

\* passthroughUpgrade returns with the first goroutine that ends.
AwaitFirst ==
  /\ EdgeGoes("relay", "close")
  /\ copy["ce"] = "done" \/ copy["ae"] = "done"
  /\ UNCHANGED <<request, agent, copy, session, wire, buf, fin, peers, tee>>

CloseBoth ==
  /\ EdgeGoes("close", "returned")
  /\ Close([in |-> "ae", out |-> "ea"], [in |-> "ce", out |-> "ec"])
  /\ UNCHANGED <<request, agent, copy, session, buf, peers, tee>>

forwardLive ==
  \/ WriteRequest \/ WriteBody \/ ReadResponse \/ CopyPortion \/ EndBody
  \/ Hijack \/ Drain \/ AwaitFirst \/ CloseBoth

-----------------------------------------------------------------------------
(* handleStream.                                                           *)

AgentGoes(from, to) == agent = from /\ agent' = to

ReadRequest ==
  /\ \/ AgentGoes("idle", "dial") /\ ReadHead("ea")
     \/ AgentGoes("idle", "close") /\ AtEOF("ea") /\ UNCHANGED <<wire, buf>>
  /\ UNCHANGED <<request, edge, copy, session, fin, peers, tee>>

\* writeBadGateway, whose error is ignored.
BadGateway(from) ==
  /\ AgentGoes(from, "close")
  /\ wire' = IF Broken("ae") THEN wire ELSE Written(wire, "ae", <<Bad, End>>)
  /\ UNCHANGED buf

\* net.Dial, and what req.Write writes before the body; either may fail.
Forward ==
  /\ \/ /\ AgentGoes("dial", "read") /\ CanWrite("al") /\ UNCHANGED buf
        /\ wire' = Written(wire, "al", <<Request>>)
     \/ BadGateway("dial")
  /\ UNCHANGED <<request, edge, copy, session, fin, peers, tee>>

\* req.Write copies the body as it comes: it fails on a stream that ends before
\* the body does, and on an app that is gone.
ForwardBody ==
  /\ agent = "read"
  /\ \/ /\ body["agent"] = "there" /\ CanWrite("al")
        /\ body' = [body EXCEPT !["agent"] = "passed"]
        /\ UNCHANGED <<agent, wire, buf>>
     \/ /\ \/ body["agent"] = "there" /\ WriteFails("al")
           \/ body["agent"] = "due" /\ (fin["ea"] \/ Broken("ea"))
        /\ BadGateway("read") /\ UNCHANGED body
  /\ UNCHANGED <<choice, edge, copy, session, fin, peers, tee>>

ReadAnswer ==
  /\ body["agent"] = "passed"
  /\ \/ /\ ReadHead("la")
        /\ AgentGoes("read", IF Head(wire["la"]) = Switch THEN "switch" ELSE "reply")
     \/ BadGateway("read") /\ AtEOF("la")
  /\ UNCHANGED <<request, edge, copy, session, fin, peers, tee>>

\* resp.Write: the head, and the body as it comes.  A body that stops early
\* stops here too, and the deferred Close is all the edge will see of it.
Reply ==
  /\ \/ /\ AgentGoes("reply", "copy") /\ CanWrite("ae") /\ UNCHANGED buf
        /\ wire' = Written(wire, "ae", <<Ok>>)
     \/ /\ Pass("la", "ae")
        /\ AgentGoes("copy", IF Head(Unread("la")) = End THEN "close" ELSE "copy")
     \/ AgentGoes("copy", "close") /\ AtEOF("la") /\ UNCHANGED <<wire, buf>>
     \/ /\ WriteFails("ae") /\ (agent = "copy" => Unread("la") # <<>>)
        /\ AgentGoes("reply", "close") \/ AgentGoes("copy", "close")
        /\ UNCHANGED <<wire, buf>>
  /\ UNCHANGED <<request, edge, copy, session, fin, peers, tee>>

\* The agent's passthroughUpgrade: the 101, what localR holds, the goroutines.
SwitchOver ==
  /\ \/ /\ AgentGoes("switch", "relay") /\ CanWrite("ae")
        /\ wire' = Written(wire, "ae", <<Switch>> \o buf["la"])
        /\ buf' = [buf EXCEPT !["la"] = <<>>]
        /\ copy' = [copy EXCEPT !["ea"] = "run", !["la"] = "run"]
     \/ AgentGoes("switch", "close") /\ WriteFails("ae") /\ UNCHANGED <<wire, buf, copy>>
  /\ UNCHANGED <<request, edge, session, fin, peers, tee>>

AgentAwaitFirst ==
  /\ AgentGoes("relay", "close")
  /\ copy["ea"] = "done" \/ copy["la"] = "done"
  /\ UNCHANGED <<request, edge, copy, session, wire, buf, fin, peers, tee>>

CloseLocal ==
  /\ AgentGoes("close", "returned")
  /\ Close([in |-> "ea", out |-> "ae"], [in |-> "la", out |-> "al"])
  /\ UNCHANGED <<request, edge, copy, session, buf, peers, tee>>

handleStream ==
  \/ ReadRequest \/ Forward \/ ForwardBody \/ ReadAnswer \/ Reply
  \/ SwitchOver \/ AgentAwaitFirst \/ CloseLocal

-----------------------------------------------------------------------------
(* The copying goroutines of both relays.                                  *)

Onward == [ce |-> "ea", ea |-> "al", la |-> "ae", ae |-> "ec"]
Returned(h) == IF h \in {"ce", "ae"} THEN edge = "returned" ELSE agent = "returned"

\* io.Copy reads and writes; a read or a write that fails ends it, as all do
\* once the handler has closed both ends.
CopyOne(h) ==
  /\ copy[h] = "run"
  /\ \/ ~Returned(h) /\ Pass(h, Onward[h]) /\ UNCHANGED copy
     \/ /\ \/ AtEOF(h) \/ Returned(h)
           \/ Unread(h) # <<>> /\ WriteFails(Onward[h])
        /\ copy' = [copy EXCEPT ![h] = "done"]
        /\ UNCHANGED <<wire, buf>>
  /\ UNCHANGED <<request, edge, agent, session, fin, peers, tee>>

-----------------------------------------------------------------------------
(* Client, app and session.                                                *)

Outgoing == [client |-> "ce", app |-> "la"]
Incoming == [client |-> "ec", app |-> "al"]
others == <<request, edge, agent, copy, session, buf, tee>>

\* The client sends the rest of its request, when it does.
Upload ==
  /\ body["edge"] = "due" /\ ~fin["ce"] /\ edge # "returned"
  /\ body' = [body EXCEPT !["edge"] = "there"]
  /\ UNCHANGED <<choice, edge, agent, copy, session, wire, buf, fin, peers, tee>>

\* Once upgraded, or before it knows of it, the client sends as it likes; the
\* app after its head.  What is sent to a closed socket is left out.
Send(x) ==
  /\ IF x = "client" THEN kind = "upgrade" /\ edge # "returned"
                     ELSE app = "body" /\ agent # "returned"
  /\ ~fin[Outgoing[x]] /\ sent[x] < MaxSent /\ Len(wire[Outgoing[x]]) < Window
  /\ sent' = [sent EXCEPT ![x] = @ + 1]
  /\ wire' = [wire EXCEPT ![Outgoing[x]] = Append(@, sent[x] + 1)]
  /\ UNCHANGED <<others, fin, app, gone, got>>

Receive(x) ==
  /\ x \notin gone /\ wire[Incoming[x]] # <<>>
  /\ wire' = [wire EXCEPT ![Incoming[x]] = Tail(@)]
  /\ LET item == Head(wire[Incoming[x]])
     IN /\ got' = IF item \in Portions THEN [got EXCEPT ![x] = Append(@, item)] ELSE got
        /\ app' = IF item = Request THEN "asked" ELSE app
  /\ UNCHANGED <<others, fin, gone, sent>>

\* The app writes the head of its answer, or the end of a body that has one.
Answer ==
  /\ ~fin["la"] /\ Len(wire["la"]) < Window
  /\ \/ /\ app = "asked" /\ app' = "body"
        /\ wire' = [wire EXCEPT !["la"] = Append(@, IF kind = "upgrade" THEN Switch ELSE Ok)]
     \/ /\ app = "body" /\ kind = "framed" /\ app' = "done"
        /\ wire' = [wire EXCEPT !["la"] = Append(@, End)]
  /\ UNCHANGED <<others, fin, gone, sent, got>>

\* A side closes one direction, or leaves: a crash of the app looks the same.
Finish(x) ==
  /\ x \notin gone
  /\ fin' = [fin EXCEPT ![Outgoing[x]] = TRUE]
  /\ \/ ~fin[Outgoing[x]] /\ UNCHANGED <<gone, wire>>
     \/ gone' = gone \cup {x} /\ wire' = [wire EXCEPT ![Incoming[x]] = <<>>]
  /\ UNCHANGED <<others, app, sent, got>>

\* The session breaks; what has not arrived never will.
Break ==
  /\ session /\ session' = FALSE
  /\ edge # "returned" \/ agent \notin {"idle", "returned"}
  /\ \E n \in 0..Len(wire["ea"]), m \in 0..Len(wire["ae"]) :
       wire' = [wire EXCEPT !["ea"] = SubSeq(@, 1, n), !["ae"] = SubSeq(@, 1, m)]
  /\ \/ UNCHANGED body
     \/ body["agent"] = "there" /\ body' = [body EXCEPT !["agent"] = "due"]
  /\ UNCHANGED <<choice, edge, agent, copy, buf, fin, peers, tee>>

Next ==
  \/ forwardLive \/ handleStream
  \/ \E h \in {"ce", "ae", "ea", "la"} : CopyOne(h)
  \/ \E x \in {"client", "app"} : Send(x) \/ Receive(x) \/ Finish(x)
  \/ Answer \/ Upload \/ Break

Spec == Init /\ [][Next]_vars

\* Goroutines run, and who is still there reads what arrives: no deadline frees
\* a relay whose peer stays and does not read.
Fairness ==
  /\ WF_vars(forwardLive) /\ WF_vars(handleStream)
  /\ \A h \in {"ce", "ae", "ea", "la"} : WF_vars(CopyOne(h))
  /\ \A x \in {"client", "app"} : WF_vars(Receive(x))

FairSpec == Spec /\ Fairness

-----------------------------------------------------------------------------
(* Properties.                                                             *)

\* A snapshot is what the app sent, within maxTeeBody, and all of it when the
\* answer says where it ends (forwardLive, cappedBuffer).  A body that only the
\* end of the connection ends is cut where the app or the session broke.
StoredIsWhole ==
  stored # None =>
    /\ stored = [i \in 1..Len(stored) |-> i] /\ Len(stored) <= Limit
    /\ kind = "framed" => app = "done" /\ Len(stored) = sent["app"]
    /\ kind = "close" => Len(stored) <= sent["app"]

\* The relay is over, and nothing is under way any more.
Over ==
  /\ edge = "returned" /\ agent = "returned"
  /\ \A h \in DOMAIN copy : copy[h] = "done"
  /\ \A x \in {"client", "app"} : wire[Incoming[x]] = <<>> \/ x \in gone

Arrived(x, y) == Len(got[y]) = sent[x]

\* Through an upgrade every byte goes once and in order, those that came before
\* their reader was asked for them included.  If one side closes while the other
\* one has nothing under way and the session lives, all it sent arrives, though
\* the first direction that ends closes both (passthroughUpgrade, twice).
UpgradeDelivers ==
  /\ \A x \in {"client", "app"} : got[x] = [i \in 1..Len(got[x]) |-> i]
  /\ Over /\ session =>
       \A x, y \in {"client", "app"} :
         x # y /\ fin[Outgoing[x]] /\ ~fin[Outgoing[y]] /\ Arrived(y, x) => Arrived(x, y)

Ended ==
  /\ edge = "returned" /\ agent \in {"idle", "returned"}
  /\ \A h \in DOMAIN copy : copy[h] # "run"

\* r.Write waits for a client that neither sends the rest of its request nor
\* closes; no deadline ends that wait (proxy.go:39, main.go:154).
Stalled == edge = "read" /\ body["edge"] = "due" /\ ~fin["ce"]

\* Unless the client stalls in its request: both handlers and all their
\* goroutines end once the app has answered in full or gone, and a relay's also
\* once its client has closed or its session has broken, though the other
\* direction may stay silent for ever (<-errc and the deferred Closes); and a
\* broken session frees the edge.  It does not free an agent whose app is silent
\* before or within its answer (stream.go:47, 60).
RelayEnds ==
  <>[](/\ (\/ fin["la"] \/ app = "done"
           \/ copy["ce"] # "none" /\ (fin["ce"] \/ ~session)) /\ ~Stalled
          => Ended
       /\ ~session /\ ~Stalled => edge = "returned")
=============================================================================
