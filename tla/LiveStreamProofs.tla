--------------------------- MODULE LiveStreamProofs ---------------------------
(***************************************************************************)
(* Proofs about a request's stream, for any number of portions, any room   *)
(* on the hops and any maxTeeBody.                                         *)
(*                                                                         *)
(* Every portion has its place, its number, and so has a head (place 0) or *)
(* an end (the place after the last portion).  The invariant says, of each *)
(* hop that will still be read, which places its items have: they continue *)
(* where what comes before them ends, up to what the sender has sent.  Of  *)
(* an upgrade it also counts what is anywhere between the two sides: if    *)
(* that is not all that was sent, somebody has closed, or the other        *)
(* direction has lost something first.                                     *)
(***************************************************************************)
EXTENDS LiveStream, Integers, SequenceTheorems, TLAPS

-----------------------------------------------------------------------------
(* What is on a hop.                                                       *)

\* The items of s are what T allows at the places after n.
Along(s, n, T) == \A i \in 1..Len(s) : s[i] \in T[n + i]

\* Nothing is anywhere.
LEMMA AlongEmpty == \A n, T : Along(<<>>, n, T)
BY DEF Along

\* An item is written behind the others.
LEMMA AlongAppend ==
  ASSUME NEW S, NEW s \in Seq(S), NEW x \in S, NEW n \in Int, NEW T,
         Along(s, n, T), x \in T[n + Len(s) + 1]
  PROVE  /\ Along(Append(s, x), n, T) /\ Append(s, x) \in Seq(S)
         /\ Len(Append(s, x)) = Len(s) + 1
<1>1. /\ Append(s, x) \in Seq(S) /\ Len(Append(s, x)) = Len(s) + 1
      /\ \A i \in 1..Len(s) + 1 : Append(s, x)[i] = IF i = Len(s) + 1 THEN x ELSE s[i]
  OBVIOUS
<1>2. ASSUME NEW i \in 1..Len(s) + 1 PROVE Append(s, x)[i] \in T[n + i]
  <2>1. CASE i = Len(s) + 1
    <3>1. n + i = n + Len(s) + 1
      BY <2>1
    <3> QED BY <1>1, <2>1, <3>1
  <2>2. CASE i # Len(s) + 1
    <3>1. i \in 1..Len(s)
      BY <2>2
    <3> QED BY <1>1, <2>2, <3>1 DEF Along
  <2> QED BY <2>1, <2>2
<1> QED BY <1>1, <1>2 DEF Along

\* The first item is read.
LEMMA AlongHead ==
  ASSUME NEW S, NEW s \in Seq(S), s # <<>>, NEW n \in Int, NEW T, Along(s, n, T)
  PROVE  /\ Head(s) \in T[n + 1] /\ Head(s) \in S
         /\ Along(Tail(s), n + 1, T) /\ Tail(s) \in Seq(S) /\ Len(Tail(s)) = Len(s) - 1
         /\ Len(s) > 0
<1>1. Len(s) > 0 /\ Head(s) = s[1] /\ Tail(s) \in Seq(S) /\ Len(Tail(s)) = Len(s) - 1
  OBVIOUS
<1>2. \A i \in 1..Len(Tail(s)) : Tail(s)[i] = s[i + 1]
  OBVIOUS
<1>3. \A i \in 1..Len(Tail(s)) : Tail(s)[i] \in T[n + (i + 1)]
  BY <1>1, <1>2 DEF Along
<1>4. \A i \in Int : n + (i + 1) = (n + 1) + i
  OBVIOUS
<1> QED BY <1>1, <1>3, <1>4 DEF Along

\* A part of what is on a hop is in its place.
LEMMA AlongCut ==
  ASSUME NEW S, NEW s \in Seq(S), NEW n \in Int, NEW T, Along(s, n, T),
         NEW i \in 1..Len(s) + 1, NEW j \in 0..Len(s), i <= j + 1,
         NEW m \in Int, m + 1 = n + i
  PROVE  /\ Along(SubSeq(s, i, j), m, T) /\ SubSeq(s, i, j) \in Seq(S)
         /\ Len(SubSeq(s, i, j)) = j - i + 1
<1> DEFINE t == SubSeq(s, i, j)
<1>1. t \in Seq(S) /\ Len(t) = j - i + 1 /\ \A k \in 1..Len(t) : t[k] = s[i + k - 1]
  OBVIOUS
<1>2. \A k \in 1..Len(t) : i + k - 1 \in 1..Len(s) /\ n + (i + k - 1) = m + k
  BY <1>1
<1> QED BY <1>1, <1>2 DEF Along

\* The first of the items are in their places.
LEMMA AlongPrefix ==
  ASSUME NEW S, NEW s \in Seq(S), NEW n \in Int, NEW T, Along(s, n, T), NEW j \in 0..Len(s)
  PROVE  Along(SubSeq(s, 1, j), n, T)
<1>1. 1 \in 1..Len(s) + 1 /\ 1 <= j + 1
  OBVIOUS
<1> QED BY <1>1, AlongCut

\* Items are written behind the others.
LEMMA AlongConcat ==
  ASSUME NEW S, NEW s \in Seq(S), NEW t \in Seq(S), NEW n \in Int, NEW T,
         Along(s, n, T), Along(t, n + Len(s), T)
  PROVE  /\ Along(s \o t, n, T) /\ s \o t \in Seq(S) /\ Len(s \o t) = Len(s) + Len(t)
<1>1. /\ s \o t \in Seq(S) /\ Len(s \o t) = Len(s) + Len(t)
      /\ \A k \in 1..Len(s \o t) : (s \o t)[k] = IF k <= Len(s) THEN s[k] ELSE t[k - Len(s)]
  OBVIOUS
<1>2. ASSUME NEW k \in 1..Len(s \o t) PROVE (s \o t)[k] \in T[n + k]
  <2>1. CASE k <= Len(s) BY <1>1, <2>1 DEF Along
  <2>2. CASE k > Len(s)
    <3>1. k - Len(s) \in 1..Len(t) /\ (n + Len(s)) + (k - Len(s)) = n + k BY <1>1, <2>2
    <3> QED BY <1>1, <2>2, <3>1 DEF Along
  <2> QED BY <2>1, <2>2
<1> QED BY <1>1, <1>2 DEF Along

\* What is allowed grows.
LEMMA AlongMore ==
  ASSUME NEW s, NEW n, NEW T, NEW U, Along(s, n, T), \A k \in Int : T[k] \subseteq U[k],
         Len(s) \in Nat, n \in Int
  PROVE  Along(s, n, U)
BY DEF Along

-----------------------------------------------------------------------------
(* The invariant.                                                          *)

\* How many items are on a hop, with its reader, at a side, in the cappedBuffer.
OnWay(h) == Len(wire[h])
InHand(h) == Len(buf[h])
Arrivals(x) == Len(got[x])
Teed == Len(cb)

Count == [k \in Int |-> IF k \in Portions THEN {k} ELSE {}]

Answered == app \in {"body", "done"}
\* handleStream reads what the app answers: it has passed the request on.
Heard == Answered /\ body["agent"] = "passed"
Begun == copy["ea"] # "none"
Joined == copy["ce"] # "none"

\* what the app's answer has at place k
Spoken == [k \in Int |->
  IF k = 0 THEN (IF Answered THEN {IF kind = "upgrade" THEN Switch ELSE Ok} ELSE {})
  ELSE (IF k \in 1..sent["app"] THEN {k} ELSE {}) \cup
       (IF app = "done" /\ k = sent["app"] + 1 THEN {End} ELSE {})]
Told == [k \in Int |->
  IF Heard THEN Spoken[k] ELSE IF k = 0 THEN {Bad} ELSE IF k = 1 THEN {End} ELSE {}]
Asked == [k \in Int |-> IF k = 0 THEN {Request} ELSE Count[k]]
Switched == [k \in Int |-> IF k = 0 THEN {Switch} ELSE Count[k]]

Early == {"idle", "dial", "read", "reply", "switch"}

\* How far the relays are, and who is past which place.
Relays ==
  /\ (copy["ea"] = "none") <=> (copy["la"] = "none")
  /\ (copy["ce"] = "none") <=> (copy["ae"] = "none")
  /\ Joined => Begun /\ edge \in Late
  /\ Begun => agent \in Late /\ kind = "upgrade" /\ Heard
  /\ agent = "relay" => Begun
  /\ edge = "relay" => Joined
  /\ edge \in {"hijack", "drain"} => Begun
  /\ kind = "upgrade" /\ Answered /\ wire["ae"] # <<>> => Begun
  /\ Joined /\ edge # "relay" => copy["ce"] = "done" \/ copy["ae"] = "done"
  /\ Begun /\ agent # "relay" => copy["ea"] = "done" \/ copy["la"] = "done"

\* Nothing has gone upwards beyond the request before the relays begin.
Requested ==
  /\ edge = "start" => wire["ea"] = <<>>
  /\ edge = "start" => agent = "idle" \/ (~session /\ agent \in {"close", "returned"})
  /\ ~Joined /\ agent = "idle" => OnWay("ea") <= 1
  /\ ~Joined /\ agent # "idle" => wire["ea"] = <<>>
  /\ agent \in {"idle", "dial"} => app = "listen" /\ wire["al"] = <<>>
  /\ ~Begun => got["app"] = <<>>
  /\ ~Begun /\ app = "listen" => OnWay("al") <= 1
  /\ ~Begun /\ app # "listen" => wire["al"] = <<>>
  /\ ~Answered /\ body["agent"] = "passed" /\ agent \in {"close", "returned"}
       => fin["la"] \/ (app = "listen" /\ wire["al"] = <<>>)

\* Nothing has come down before the app's head.
Replied ==
  /\ ~Heard => agent \in {"idle", "dial", "read", "close", "returned"}
  /\ ~Answered => wire["la"] = <<>> /\ buf["la"] = <<>> /\ sent["app"] = 0
  /\ ~Heard => edge \notin {"tee", "hijack", "drain", "relay"}
  /\ agent \in Early => wire["ae"] = <<>> /\ buf["ae"] = <<>>
  /\ agent \in Early => edge \in {"start", "read", "close", "returned"}
  /\ agent \in Early => wire["ec"] = <<>> /\ got["client"] = <<>>
  /\ agent \in {"idle", "dial", "read"} => buf["la"] = <<>>
  /\ edge = "start" => wire["ae"] = <<>>
  /\ edge = "tee" => cacheable /\ Heard
  /\ kind = "upgrade" => ~cacheable /\ body["agent"] = "passed"
  /\ body["agent"] # "due" => body["edge"] = "passed"
  /\ agent = "switch" => kind = "upgrade" /\ Heard
  /\ agent \in {"reply", "copy"} => kind # "upgrade" /\ Heard
  /\ app = "done" => kind = "framed"

\* What the readers hold, and the room on the hops.
Readers ==
  /\ buf["ea"] = <<>>
  /\ edge \in {"start", "read"} => buf["ae"] = <<>> /\ cb = <<>> /\ ~over
  /\ edge \in {"start", "read", "hijack"} => wire["ec"] = <<>> /\ got["client"] = <<>>
  /\ edge \notin {"drain", "close", "returned"} => buf["ce"] = <<>>
  /\ Joined => buf["ce"] = <<>>
  /\ Begun => buf["la"] = <<>>
  /\ edge \notin {"close", "returned"} => stored = None
  /\ OnWay("ce") <= Window /\ OnWay("la") <= Window /\ InHand("ce") <= Window
  /\ agent = "switch" => InHand("la") < Window

Stages == Relays /\ Requested /\ Replied /\ Readers

Ends ==
  /\ fin["ae"] => agent = "returned"
  /\ fin["ea"] => edge = "returned"
  /\ "client" \in gone => fin["ce"] /\ wire["ec"] = <<>>
  /\ "app" \in gone => fin["la"] /\ wire["al"] = <<>>
  /\ edge = "returned" => wire["ae"] = <<>> /\ wire["ce"] = <<>>
  /\ agent = "returned" => wire["ea"] = <<>> /\ (Begun => wire["la"] = <<>>)

\* The place before what is on its way to the client, and the last place of it;
\* the same on the way to the app.
ecAt == IF wire["ec"] # <<>> /\ Head(wire["ec"]) = Switch THEN -1 ELSE Arrivals("client")
ecEnd == ecAt + OnWay("ec")
alAt == IF app = "listen" THEN -1 ELSE Arrivals("app")
alEnd == alAt + OnWay("al")

\* forwardLive will read what the stream brings, from the place after aeAt on;
\* handleStream will read what the app sends, from the place after laAt on; and
\* the app has got as far as AppAt.
aeLive ==
  \/ edge \in {"start", "read"}
  \/ edge = "tee" /\ ~over
  \/ /\ "client" \notin gone
     /\ edge \in {"copy", "tee", "hijack", "drain"} \/ (Joined /\ edge # "returned")
aeAt == IF edge \in {"start", "read"} THEN -1 ELSE IF edge = "tee" /\ ~over THEN Teed ELSE ecEnd
aeEnd == aeAt + InHand("ae") + OnWay("ae")
laLive ==
  \/ agent \in Early
  \/ session /\ aeLive /\ (agent = "copy" \/ (Begun /\ agent # "returned"))
laAt == IF agent \in {"idle", "dial", "read"} THEN -1 ELSE IF agent \in Early THEN 0 ELSE aeEnd
AppAt == IF ~Answered THEN -1 ELSE IF app = "body" THEN sent["app"] ELSE sent["app"] + 1

\* What the client has, and what is on its way to it from forwardLive.
ToClient ==
  /\ Along(got["client"], 0, Count)
  /\ Along(wire["ec"], ecAt, Switched)
  /\ ecAt = -1 => got["client"] = <<>> /\ kind = "upgrade"

\* The cappedBuffer is what the client was written, if it is still there.
Captured ==
  /\ Along(cb, 0, Count) /\ Teed <= sent["app"]
  /\ edge = "tee" /\ ~over /\ "client" \notin gone => ecEnd = Teed

\* What forwardLive has to read, and then handleStream.
ToEdge ==
  aeLive => Along(buf["ae"], aeAt, Told) /\ Along(wire["ae"], aeAt + InHand("ae"), Told)

ToAgent ==
  laLive => /\ Along(buf["la"], laAt, Spoken) /\ Along(wire["la"], laAt + InHand("la"), Spoken)
            /\ laAt + InHand("la") + OnWay("la") = AppAt

Down == ToClient /\ Captured /\ ToEdge /\ ToAgent

\* The other way: what the app has, and what is on its way to it.
ToApp ==
  /\ Along(got["app"], 0, Count)
  /\ Along(wire["al"], alAt, Asked)
  /\ Begun /\ agent # "returned" /\ "app" \notin gone => Along(wire["ea"], alEnd, Count)

FromClient ==
  /\ ~Joined /\ edge # "returned" =>
       /\ Along(buf["ce"], 0, Count) /\ Along(wire["ce"], InHand("ce"), Count)
       /\ InHand("ce") + OnWay("ce") = sent["client"]
  /\ Joined /\ edge # "returned" /\ session /\ agent # "returned" /\ "app" \notin gone =>
       /\ Along(wire["ce"], alEnd + OnWay("ea"), Count)
       /\ alEnd + OnWay("ea") + OnWay("ce") = sent["client"]

Up == ToApp /\ FromClient

Linked == Begun /\ session /\ (Joined \/ edge \in {"read", "hijack", "drain"})
UpTotal == Arrivals("app") + OnWay("al") + OnWay("ea") + InHand("ce") + OnWay("ce")
DownTotal == ecEnd + (IF edge = "returned" THEN 0 ELSE InHand("ae")) + OnWay("ae")
              - (IF edge = "read" THEN 1 ELSE 0) + InHand("la") + OnWay("la")
LostUp == UpTotal # sent["client"]
LostDown == DownTotal # sent["app"]
\* No item is lost but for one of these reasons: the app closed or something
\* was lost on the way down, and the same the other way round.
Reasons ==
  Linked => /\ UpTotal <= sent["client"] /\ DownTotal <= sent["app"]
            /\ LostUp => fin["la"] \/ LostDown
            /\ LostDown => fin["ce"] \/ LostUp

\* Why a copying goroutine ended, while its handler is there.
EdgeCopies ==
  Linked /\ edge # "returned" =>
    /\ copy["ce"] = "done" => \/ fin["ce"] /\ wire["ce"] = <<>>
                              \/ agent = "returned" /\ (wire["ce"] # <<>> \/ LostUp)
    /\ copy["ae"] = "done" =>
         \/ agent = "returned" /\ buf["ae"] = <<>> /\ wire["ae"] = <<>>
         \/ "client" \in gone /\ (buf["ae"] # <<>> \/ wire["ae"] # <<>> \/ LostDown)

AgentCopies ==
  Linked /\ agent # "returned" =>
    /\ copy["la"] = "done" => \/ fin["la"] /\ wire["la"] = <<>>
                              \/ edge = "returned" /\ (wire["la"] # <<>> \/ LostDown)
    /\ copy["ea"] = "done" => \/ edge = "returned" /\ wire["ea"] = <<>>
                              \/ "app" \in gone /\ (wire["ea"] # <<>> \/ LostUp)

\* Why a relay ended, and that the head of an upgrade is not lost.
Closing ==
  Linked => /\ agent \in {"close", "returned"} => fin["la"] \/ edge = "returned"
            /\ Joined /\ edge \in {"close", "returned"} => fin["ce"] \/ agent = "returned"
            /\ edge = "read" => wire["ae"] # <<>>

Losses == Reasons /\ EdgeCopies /\ AgentCopies /\ Closing

-----------------------------------------------------------------------------
(* What the steps do to the hops.                                          *)

HopTypes == wire \in [Hops -> Seq(Items)] /\ buf \in [Hops -> Seq(Items)]

\* What a Write does to the hops (Written).
LEMMA WriteMoves ==
  ASSUME NEW w \in [Hops -> Seq(Items)], NEW g \in Hops, NEW s \in Seq(Items)
  PROVE  /\ Written(w, g, s) \in [Hops -> Seq(Items)]
         /\ \A h \in Hops : Written(w, g, s)[h] = IF h = g /\ ~Deaf(g) THEN w[g] \o s ELSE w[h]
<1>1. w[g] \o s \in Seq(Items) OBVIOUS
<1> QED BY <1>1 DEF Written

\* One turn of an io.Copy (Pass): the item comes from the reader's bytes or
\* from the hop, and goes on, unless nobody will read it.
LEMMA PassMoves ==
  ASSUME HopTypes, NEW h \in Hops, NEW g \in Hops, g # h, Pass(h, g)
  PROVE  LET x == Head(Unread(h)) IN
         /\ HopTypes' /\ x \in Items /\ CanWrite(g)
         /\ \A f \in Hops : /\ f \notin {h, g} => wire'[f] = wire[f]
                            /\ f # h => buf'[f] = buf[f]
         /\ wire'[g] = IF Deaf(g) THEN wire[g] ELSE Append(wire[g], x)
         /\ \/ /\ Held(h) = <<>> /\ wire[h] # <<>> /\ x = Head(wire[h])
               /\ wire'[h] = Tail(wire[h]) /\ buf'[h] = buf[h]
            \/ /\ h \notin {"ce", "ea"} /\ buf[h] # <<>> /\ x = Head(buf[h])
               /\ wire'[h] = wire[h] /\ buf'[h] = Tail(buf[h])
<1> DEFINE x == Head(Unread(h))
           w == IF Held(h) = <<>> THEN [wire EXCEPT ![h] = Tail(@)] ELSE wire
<1>1. /\ Held(h) \in Seq(Items) /\ wire[h] \in Seq(Items) /\ buf[h] \in Seq(Items)
      /\ wire[g] \in Seq(Items)
  BY DEF Held, HopTypes
<1>2. Unread(h) # <<>> /\ CanWrite(g)
  BY DEF Pass
<1>3. \/ Held(h) = <<>> /\ wire[h] # <<>> /\ x = Head(wire[h])
      \/ Held(h) # <<>> /\ Held(h) = buf[h] /\ h \notin {"ce", "ea"} /\ x = Head(Held(h))
  <2>1. CASE Held(h) = <<>>
    <3>1. Unread(h) = wire[h] BY <1>1, <2>1 DEF Unread
    <3> QED BY <2>1, <3>1, <1>2
  <2>2. CASE Held(h) # <<>>
    <3>1. Head(Held(h) \o wire[h]) = Head(Held(h)) BY <1>1, <2>2
    <3> QED BY <2>2, <3>1 DEF Unread, Held
  <2> QED BY <2>1, <2>2
<1>4. x \in Items /\ <<x>> \in Seq(Items) /\ wire[g] \o <<x>> = Append(wire[g], x)
  <2>1. x \in Items
    BY <1>1, <1>3
  <2> HIDE DEF x
  <2> QED BY <1>1, <2>1
<1>5. /\ w \in [Hops -> Seq(Items)]
      /\ \A f \in Hops : w[f] = IF f = h /\ Held(h) = <<>> THEN Tail(wire[h]) ELSE wire[f]
  BY <1>1, <1>3 DEF HopTypes
<1>6. wire' = Written(w, g, <<x>>)
  BY DEF Pass
<1>7. /\ wire' \in [Hops -> Seq(Items)]
      /\ \A f \in Hops : wire'[f] = IF f = g /\ ~Deaf(g) THEN w[g] \o <<x>> ELSE w[f]
  <2> HIDE DEF w, x
  <2> QED BY <1>4, <1>5, <1>6, WriteMoves
<1>8. /\ buf' \in [Hops -> Seq(Items)]
      /\ \A f \in Hops : buf'[f] = IF f = h /\ Held(h) # <<>> THEN Tail(buf[h]) ELSE buf[f]
  BY <1>1, <1>3 DEF Pass, HopTypes
<1> HIDE DEF w, x
<1> QED BY <1>2, <1>3, <1>4, <1>5, <1>7, <1>8 DEF HopTypes, x

\* http.ReadRequest and http.ReadResponse (ReadHead) take the head off a hop,
\* and into the reader what they like of the rest.
LEMMA ReadHeadMoves ==
  ASSUME HopTypes, NEW h \in Hops, ReadHead(h)
  PROVE  \E n \in 1..Len(wire[h]) :
           /\ HopTypes' /\ wire[h] # <<>> /\ Head(wire[h]) = wire[h][1] /\ wire[h][1] \in Items
           /\ wire'[h] = SubSeq(wire[h], n + 1, Len(wire[h]))
           /\ Len(wire'[h]) = Len(wire[h]) - n
           /\ buf'[h] = SubSeq(wire[h], 2, n) /\ Len(buf'[h]) = n - 1
           /\ \A f \in Hops \ {h} : wire'[f] = wire[f] /\ buf'[f] = buf[f]
<1>1. PICK n \in 1..Len(wire[h]) : /\ buf' = [buf EXCEPT ![h] = SubSeq(wire[h], 2, n)]
                                   /\ wire' = [wire EXCEPT ![h] = SubSeq(@, n + 1, Len(@))]
  BY DEF ReadHead
<1>2. /\ SubSeq(wire[h], 2, n) \in Seq(Items) /\ Len(SubSeq(wire[h], 2, n)) = n - 1
      /\ SubSeq(wire[h], n + 1, Len(wire[h])) \in Seq(Items)
      /\ Len(SubSeq(wire[h], n + 1, Len(wire[h]))) = Len(wire[h]) - n
      /\ wire[h] # <<>> /\ Head(wire[h]) = wire[h][1] /\ wire[h][1] \in Items
  BY DEF HopTypes
<1> QED BY <1>1, <1>2 DEF HopTypes

\* The two ends that a handler closes are of two pairs of hops.
LEMMA CloseMoves ==
  ASSUME HopTypes, NEW si \in Hops, NEW so \in Hops, NEW ti \in Hops, NEW to \in Hops,
         si # so, si # ti, si # to, so # ti, so # to, ti # to, fin \in [Hops -> BOOLEAN],
         Close([in |-> si, out |-> so], [in |-> ti, out |-> to]), UNCHANGED buf
  PROVE  /\ HopTypes' /\ fin' \in [Hops -> BOOLEAN]
         /\ \A f \in Hops : fin'[f] = (f \in {so, to} \/ fin[f])
         /\ \A f \in Hops \ {si, ti, to} : wire'[f] = wire[f]
         /\ wire'[si] = <<>> /\ wire'[ti] = <<>>
         /\ \E n \in 0..Len(wire[to]) :
              /\ wire[ti] = <<>> => n = Len(wire[to])
              /\ wire'[to] = SubSeq(wire[to], 1, n) /\ Len(wire'[to]) = n
<1>1. PICK n \in 0..Len(wire[to]) :
           /\ wire[ti] = <<>> => n = Len(wire[to])
           /\ wire' = [wire EXCEPT ![to] = SubSeq(@, 1, n), ![ti] = <<>>, ![si] = <<>>]
  BY DEF Close
<1>2. /\ SubSeq(wire[to], 1, n) \in Seq(Items) /\ Len(SubSeq(wire[to], 1, n)) = n
      /\ <<>> \in Seq(Items)
  BY DEF HopTypes
<1>3. fin' = [fin EXCEPT ![so] = TRUE, ![to] = TRUE]
  BY DEF Close
<1> QED BY <1>1, <1>2, <1>3 DEF HopTypes

-----------------------------------------------------------------------------
(* Counting, and the parts of the types.                                   *)

\* The bounds are numbers.
LEMMA Sizes == MaxSent \in Nat /\ Window \in Nat \ {0} /\ Limit \in Nat
BY StreamAssumption DEF StreamAssumption

\* Nothing has no length.
LEMMA LenEmpty == Len(<<>>) = 0
OBVIOUS

\* Heads and ends are items, and no portions; they differ.
LEMMA HeadTypes ==
  /\ {Request, Ok, Bad, Switch, End} \subseteq Items /\ Portions \subseteq Items
  /\ {Request, Ok, Bad, Switch, End} \cap Portions = {}
  /\ Switch # Ok /\ Switch # Bad /\ Ok # Bad /\ Request # End /\ Switch # End
  /\ Ok # End /\ Bad # End /\ Request # Switch /\ Request # Ok /\ Request # Bad
BY StreamAssumption, \A i \in 1..5 : i \in {1, 2, 3, 4, 5} DEF StreamAssumption, Items, Portions

\* Nothing happens on hop h.
Kept(h) == /\ wire'[h] = wire[h] /\ buf'[h] = buf[h]
           /\ OnWay(h)' = OnWay(h) /\ InHand(h)' = InHand(h)

\* The counts of a hop follow from what is on it.
LEMMA KeptWhere == \A h : wire'[h] = wire[h] /\ buf'[h] = buf[h] => Kept(h)
BY DEF Kept, OnWay, InHand

\* Who receives nothing keeps its count; so does the cappedBuffer.
LEMMA CountsKept ==
  /\ got' = got => /\ Arrivals("client")' = Arrivals("client")
                   /\ Arrivals("app")' = Arrivals("app")
  /\ cb' = cb => Teed' = Teed
BY DEF Arrivals, Teed

\* Counting to zero.
Zeros ==
  /\ (wire["ce"] = <<>> <=> OnWay("ce") = 0) /\ (wire["ea"] = <<>> <=> OnWay("ea") = 0)
  /\ (wire["al"] = <<>> <=> OnWay("al") = 0) /\ (wire["la"] = <<>> <=> OnWay("la") = 0)
  /\ (wire["ae"] = <<>> <=> OnWay("ae") = 0) /\ (wire["ec"] = <<>> <=> OnWay("ec") = 0)
  /\ (buf["ce"] = <<>> <=> InHand("ce") = 0) /\ (buf["la"] = <<>> <=> InHand("la") = 0)
  /\ (buf["ae"] = <<>> <=> InHand("ae") = 0) /\ (buf["ea"] = <<>> <=> InHand("ea") = 0)
  /\ (got["client"] = <<>> <=> Arrivals("client") = 0)
  /\ (got["app"] = <<>> <=> Arrivals("app") = 0) /\ (cb = <<>> <=> Teed = 0)

\* One item is written to hop g.
LEMMA OneWritten ==
  ASSUME HopTypes, NEW g \in Hops, NEW x \in Items, wire' = Written(wire, g, <<x>>)
  PROVE  /\ wire' \in [Hops -> Seq(Items)]
         /\ \A h \in Hops \ {g} : wire'[h] = wire[h]
         /\ wire'[g] = IF Deaf(g) THEN wire[g] ELSE Append(wire[g], x)
<1>1. /\ wire[g] \o <<x>> = Append(wire[g], x) /\ Append(wire[g], x) \in Seq(Items)
  BY DEF HopTypes
<1>2. wire' = IF Deaf(g) THEN wire ELSE [wire EXCEPT ![g] = Append(wire[g], x)]
  BY <1>1 DEF Written
<1> QED BY <1>1, <1>2 DEF HopTypes

\* Who has left each hop (Deaf).
LEMMA DeafHops ==
  /\ (Deaf("ce") <=> edge = "returned") /\ (Deaf("ae") <=> edge = "returned")
  /\ (Deaf("ea") <=> agent = "returned") /\ (Deaf("la") <=> agent = "returned")
  /\ (Deaf("ec") <=> "client" \in gone) /\ (Deaf("al") <=> "app" \in gone)
BY DEF Deaf

\* Only a stream's hops break with the session.
LEMMA BrokenHops ==
  /\ (Broken("ea") <=> ~session) /\ (Broken("ae") <=> ~session)
  /\ ~Broken("ce") /\ ~Broken("la") /\ ~Broken("ec") /\ ~Broken("al")
BY DEF Broken, StreamHops

\* The parts of StreamTypeOK, and what follows of the lengths.
ControlTypes ==
  /\ kind \in {"framed", "close", "upgrade"} /\ cacheable \in BOOLEAN
  /\ body \in [{"edge", "agent"} -> {"due", "there", "passed"}]
  /\ edge \in {"start", "read", "copy", "tee", "hijack", "drain"} \cup Late
  /\ agent \in {"idle", "dial", "read", "reply", "copy", "switch"} \cup Late
  /\ copy \in [{"ce", "ae", "ea", "la"} -> {"none", "run", "done"}]
  /\ session \in BOOLEAN /\ over \in BOOLEAN
  /\ app \in {"listen", "asked", "body", "done"}
  /\ gone \subseteq {"client", "app"}

DataTypes ==
  /\ fin \in [Hops -> BOOLEAN]
  /\ sent \in [{"client", "app"} -> 0..MaxSent]
  /\ got \in [{"client", "app"} -> Seq(Portions)]
  /\ cb \in Seq(Portions) /\ Teed <= Limit
  /\ stored = None \/ stored \in Seq(Portions)

Room(h) == OnWay(h) \in Nat /\ OnWay(h) <= Window + 1
Rooms == Room("ce") /\ Room("ea") /\ Room("al") /\ Room("la") /\ Room("ae") /\ Room("ec")

Lengths ==
  /\ InHand("ce") \in Nat /\ InHand("la") \in Nat /\ InHand("ae") \in Nat
  /\ Arrivals("client") \in Nat /\ Arrivals("app") \in Nat /\ Teed \in Nat
  /\ sent["client"] \in Nat /\ sent["app"] \in Nat

\* The parts make up StreamTypeOK.
LEMMA TypeParts ==
  StreamTypeOK <=> ControlTypes /\ DataTypes /\ HopTypes /\ Rooms
<1>1. HopTypes => (Rooms <=> \A h \in Hops : Len(wire[h]) <= Window + 1)
  <2> SUFFICES ASSUME HopTypes PROVE Rooms <=> \A h \in Hops : Len(wire[h]) <= Window + 1
    OBVIOUS
  <2>1. \A h \in Hops : Len(wire[h]) \in Nat
    BY DEF HopTypes
  <2> QED BY <2>1 DEF Rooms, Room, Hops, OnWay
<1> QED BY <1>1 DEF StreamTypeOK, ControlTypes, DataTypes, HopTypes, Teed

\* They do so after a step as well.
LEMMA TypePartsPrime ==
  StreamTypeOK' <=> ControlTypes' /\ DataTypes' /\ HopTypes' /\ Rooms'
<1>1. HopTypes' => (Rooms' <=> \A h \in Hops : Len(wire'[h]) <= Window + 1)
  <2> SUFFICES ASSUME HopTypes' PROVE Rooms' <=> \A h \in Hops : Len(wire'[h]) <= Window + 1
    OBVIOUS
  <2>1. \A h \in Hops : Len(wire'[h]) \in Nat
    BY DEF HopTypes
  <2> QED BY <2>1 DEF Rooms, Room, Hops, OnWay
<1> QED BY <1>1 DEF StreamTypeOK, ControlTypes, DataTypes, HopTypes, Teed

\* Lengths follow from the types.
LEMMA TypeLengths == (HopTypes /\ DataTypes => Lengths) /\ (HopTypes' /\ DataTypes' => Lengths')
<1>1. ASSUME HopTypes, DataTypes PROVE Lengths
  <2>1. \A h \in Hops : Len(buf[h]) \in Nat
    BY <1>1 DEF HopTypes
  <2>2. \A x \in {"client", "app"} : Len(got[x]) \in Nat /\ sent[x] \in Nat
    BY <1>1, Sizes DEF DataTypes
  <2>3. Len(cb) \in Nat
    BY <1>1 DEF DataTypes
  <2> QED BY <2>1, <2>2, <2>3 DEF Lengths, Hops, InHand, Arrivals, Teed
<1>2. ASSUME HopTypes', DataTypes' PROVE Lengths'
  <2>1. \A h \in Hops : Len(buf'[h]) \in Nat
    BY <1>2 DEF HopTypes
  <2>2. \A x \in {"client", "app"} : Len(got'[x]) \in Nat /\ sent'[x] \in Nat
    BY <1>2, Sizes DEF DataTypes
  <2>3. Len(cb') \in Nat
    BY <1>2 DEF DataTypes
  <2> QED BY <2>1, <2>2, <2>3 DEF Lengths, Hops, InHand, Arrivals, Teed
<1> QED BY <1>1, <1>2

\* A hop, a reader or a side is empty where its count is zero.
LEMMA TypeZeros == (HopTypes /\ DataTypes => Zeros) /\ (HopTypes' /\ DataTypes' => Zeros')
<1>1. ASSUME HopTypes, DataTypes PROVE Zeros
  <2>1. \A h \in Hops : (wire[h] = <<>> <=> OnWay(h) = 0) /\ (buf[h] = <<>> <=> InHand(h) = 0)
    BY <1>1 DEF HopTypes, OnWay, InHand
  <2>2. \A x \in {"client", "app"} : got[x] = <<>> <=> Arrivals(x) = 0
    BY <1>1 DEF DataTypes, Arrivals
  <2>3. cb = <<>> <=> Teed = 0
    BY <1>1 DEF DataTypes, Teed
  <2> QED BY <2>1, <2>2, <2>3 DEF Zeros, Hops
<1>2. ASSUME HopTypes', DataTypes' PROVE Zeros'
  <2>1. \A h \in Hops : (wire'[h] = <<>> <=> OnWay(h)' = 0) /\ (buf'[h] = <<>> <=> InHand(h)' = 0)
    BY <1>2 DEF HopTypes, OnWay, InHand
  <2>2. \A x \in {"client", "app"} : got'[x] = <<>> <=> Arrivals(x)' = 0
    BY <1>2 DEF DataTypes, Arrivals
  <2>3. cb' = <<>> <=> Teed' = 0
    BY <1>2 DEF DataTypes, Teed
  <2> QED BY <2>1, <2>2, <2>3 DEF Zeros, Hops
<1> QED BY <1>1, <1>2

\* The two parts of what is cut.
LEMMA CutTypes ==
  ASSUME NEW s \in Seq(Items), NEW n \in 0..Len(s)
  PROVE  /\ SubSeq(s, 1, n) \in Seq(Items) /\ Len(SubSeq(s, 1, n)) = n
         /\ SubSeq(s, n + 1, Len(s)) \in Seq(Items)
         /\ Len(SubSeq(s, n + 1, Len(s))) = Len(s) - n
OBVIOUS

-----------------------------------------------------------------------------
(* Places.                                                                 *)

\* What can be at each place.
LEMMA CountAt == \A k \in Int : \A x \in Count[k] : x = k /\ x \in Portions
BY DEF Count

\* Who has been given what Count allows has portions 1, 2, 3 and so on.
LEMMA CountWhole ==
  ASSUME NEW s, Len(s) \in Nat, Along(s, 0, Count)
  PROVE  \A i \in 1..Len(s) : s[i] = i
<1>1. ASSUME NEW i \in 1..Len(s) PROVE s[i] = i
  <2>1. s[i] \in Count[i] /\ i \in Int
    BY DEF Along
  <2> QED BY <2>1, CountAt
<1> QED BY <1>1

\* What the app's answer has at a place: its head first, then portions, then End.
LEMMA SpokenAt ==
  ASSUME DataTypes, NEW k \in Int, NEW x \in Spoken[k]
  PROVE  /\ x \in Portions => x = k /\ k \in 1..sent["app"]
         /\ x = End => app = "done" /\ k = sent["app"] + 1
         /\ k = 0 => x = IF kind = "upgrade" THEN Switch ELSE Ok
         /\ k = 0 => Answered
         /\ k # 0 => x \in Portions \/ x = End
<1>1. 1..sent["app"] \subseteq Portions /\ sent["app"] \in Nat
  BY Sizes DEF DataTypes, Portions
<1>2. CASE k = 0
  <2>1. Answered /\ x = IF kind = "upgrade" THEN Switch ELSE Ok
    BY <1>2 DEF Spoken
  <2> QED BY <1>2, <2>1, HeadTypes
<1>3. CASE k # 0
  <2>1. \/ x = k /\ k \in 1..sent["app"]
        \/ x = End /\ app = "done" /\ k = sent["app"] + 1
    BY <1>3 DEF Spoken
  <2> QED BY <1>1, <1>3, <2>1, HeadTypes
<1> QED BY <1>2, <1>3

\* The edge is told the app's answer, or a 502 and its end.
LEMMA ToldAt ==
  ASSUME NEW k \in Int, NEW x \in Told[k]
  PROVE  /\ Heard => x \in Spoken[k]
         /\ ~Heard => (k = 0 /\ x = Bad) \/ (k = 1 /\ x = End)
BY DEF Told

\* What is read first is in its place, and the rest follows it.
LEMMA UnreadAlong ==
  ASSUME HopTypes, NEW h \in Hops, Unread(h) # <<>>, NEW n \in Int, NEW T,
         Along(Held(h), n, T), Along(wire[h], n + Len(Held(h)), T)
  PROVE  Head(Unread(h)) \in T[n + 1] /\ Head(Unread(h)) \in Items
<1>1. Held(h) \in Seq(Items) /\ wire[h] \in Seq(Items)
  BY DEF Held, HopTypes
<1>2. Unread(h) \in Seq(Items) /\ Along(Unread(h), n, T)
  BY <1>1, AlongConcat DEF Unread
<1> QED BY <1>2, AlongHead

\* A head is read, and what follows it stays in order.
LEMMA ReadHeadAlong ==
  ASSUME HopTypes, NEW h \in Hops, ReadHead(h), NEW n \in Int, NEW T, Along(wire[h], n, T)
  PROVE  /\ HopTypes' /\ wire[h] # <<>> /\ Head(wire[h]) \in T[n + 1] /\ Head(wire[h]) \in Items
         /\ Along(buf'[h], n + 1, T) /\ Along(wire'[h], n + 1 + InHand(h)', T)
         /\ InHand(h)' \in Nat /\ OnWay(h)' \in Nat /\ OnWay(h) \in Nat
         /\ InHand(h)' + OnWay(h)' = OnWay(h) - 1
         /\ \A f \in Hops \ {h} : Kept(f)
<1>1. PICK k \in 1..Len(wire[h]) :
           /\ HopTypes' /\ wire[h] # <<>>
           /\ wire'[h] = SubSeq(wire[h], k + 1, Len(wire[h]))
           /\ Len(wire'[h]) = Len(wire[h]) - k
           /\ buf'[h] = SubSeq(wire[h], 2, k) /\ Len(buf'[h]) = k - 1
           /\ \A f \in Hops \ {h} : wire'[f] = wire[f] /\ buf'[f] = buf[f]
  BY ReadHeadMoves
<1>2. wire[h] \in Seq(Items) /\ Len(wire[h]) \in Nat /\ k \in Nat /\ k >= 1 /\ k <= Len(wire[h])
  BY <1>1 DEF HopTypes
<1>3. Head(wire[h]) \in T[n + 1] /\ Head(wire[h]) \in Items
  BY <1>1, <1>2, AlongHead
<1>4. InHand(h)' = k - 1 /\ OnWay(h)' = OnWay(h) - k /\ OnWay(h) \in Nat /\ k <= OnWay(h)
  BY <1>1, <1>2 DEF InHand, OnWay
<1>5. /\ n + 1 \in Int /\ n + k \in Int /\ n + 1 + (k - 1) = n + k
      /\ k - 1 \in Nat /\ OnWay(h) - k \in Nat /\ (k - 1) + (OnWay(h) - k) = OnWay(h) - 1
  BY <1>2, <1>4
<1>6. Along(SubSeq(wire[h], 2, k), n + 1, T)
  BY <1>2, AlongCut
<1>7. Along(SubSeq(wire[h], k + 1, Len(wire[h])), n + k, T)
  <2>1. /\ k + 1 \in 1..Len(wire[h]) + 1 /\ Len(wire[h]) \in 0..Len(wire[h])
        /\ k + 1 <= Len(wire[h]) + 1 /\ n + k \in Int /\ n + k + 1 = n + (k + 1)
    BY <1>2
  <2> QED BY <1>2, <2>1, AlongCut
<1>8. Along(buf'[h], n + 1, T) /\ Along(wire'[h], n + 1 + InHand(h)', T)
  BY <1>1, <1>4, <1>5, <1>6, <1>7
<1>9. /\ InHand(h)' \in Nat /\ OnWay(h)' \in Nat
      /\ InHand(h)' + OnWay(h)' = OnWay(h) - 1
  BY <1>4, <1>5
<1>10. \A f \in Hops \ {h} : Kept(f)
  BY <1>1, KeptWhere
<1> QED BY <1>1, <1>3, <1>4, <1>8, <1>9, <1>10

\* An item that comes through is the next one, and what follows it stays in order.
LEMMA PassAlong ==
  ASSUME HopTypes, NEW h \in Hops, NEW g \in Hops, g # h, Pass(h, g),
         h \in {"ce", "ea"} => buf[h] = <<>>,
         NEW n \in Int, NEW T, Along(buf[h], n, T), Along(wire[h], n + InHand(h), T)
  PROVE  LET x == Head(Unread(h)) IN
         /\ x \in T[n + 1]
         /\ Along(buf'[h], n + 1, T) /\ Along(wire'[h], n + 1 + InHand(h)', T)
         /\ InHand(h)' \in Nat /\ OnWay(h)' \in Nat
         /\ InHand(h) \in Nat /\ OnWay(h) \in Nat /\ OnWay(h)' <= OnWay(h)
         /\ InHand(h)' + OnWay(h)' = InHand(h) + OnWay(h) - 1
         /\ InHand(h)' <= InHand(h)
         /\ (wire[h] = <<>> => wire'[h] = <<>>) /\ (buf[h] = <<>> => buf'[h] = <<>>)
<1> DEFINE x == Head(Unread(h))
<1>1. /\ HopTypes'
      /\ \/ /\ Held(h) = <<>> /\ wire[h] # <<>> /\ x = Head(wire[h])
            /\ wire'[h] = Tail(wire[h]) /\ buf'[h] = buf[h]
         \/ /\ buf[h] # <<>> /\ x = Head(buf[h])
            /\ wire'[h] = wire[h] /\ buf'[h] = Tail(buf[h])
  BY PassMoves
<1>2. buf[h] \in Seq(Items) /\ wire[h] \in Seq(Items) /\ InHand(h) \in Nat /\ OnWay(h) \in Nat
  BY DEF HopTypes, InHand, OnWay
<1> HIDE DEF x
<1>3. CASE buf[h] = <<>> /\ wire[h] # <<>> /\ x = Head(wire[h])
           /\ wire'[h] = Tail(wire[h]) /\ buf'[h] = buf[h]
  <2>1. InHand(h) = 0
    BY <1>3, LenEmpty DEF InHand
  <2>2. Along(wire[h], n, T)
    BY <2>1
  <2>3. /\ x \in T[n + 1] /\ Along(Tail(wire[h]), n + 1, T)
        /\ Len(Tail(wire[h])) = Len(wire[h]) - 1 /\ Len(wire[h]) > 0
    BY <1>2, <1>3, <2>2, AlongHead
  <2>4. OnWay(h)' = OnWay(h) - 1 /\ OnWay(h) > 0 /\ InHand(h)' = 0
    BY <1>3, <2>1, <2>3 DEF OnWay, InHand
  <2>5. Along(wire'[h], n + 1 + InHand(h)', T) /\ Along(buf'[h], n + 1, T)
    BY <1>3, <2>3, <2>4, AlongEmpty
  <2>6. /\ InHand(h)' \in Nat /\ OnWay(h)' \in Nat /\ OnWay(h)' <= OnWay(h)
        /\ InHand(h)' + OnWay(h)' = InHand(h) + OnWay(h) - 1 /\ InHand(h)' <= InHand(h)
    BY <1>2, <2>1, <2>4
  <2> QED BY <1>2, <1>3, <2>3, <2>5, <2>6 DEF x
<1>4. CASE buf[h] # <<>> /\ x = Head(buf[h]) /\ wire'[h] = wire[h] /\ buf'[h] = Tail(buf[h])
  <2>1. /\ x \in T[n + 1] /\ Along(Tail(buf[h]), n + 1, T)
        /\ Len(Tail(buf[h])) = Len(buf[h]) - 1 /\ Len(buf[h]) > 0
    BY <1>2, <1>4, AlongHead
  <2>2. OnWay(h)' = OnWay(h) /\ InHand(h)' = InHand(h) - 1 /\ InHand(h) > 0
    BY <1>4, <2>1 DEF OnWay, InHand
  <2>3. n + 1 + InHand(h)' = n + InHand(h)
    BY <1>2, <2>2
  <2>4. Along(wire'[h], n + 1 + InHand(h)', T)
    BY <1>4, <2>3
  <2>5. /\ InHand(h)' \in Nat /\ OnWay(h)' \in Nat /\ OnWay(h)' <= OnWay(h)
        /\ InHand(h)' + OnWay(h)' = InHand(h) + OnWay(h) - 1 /\ InHand(h)' <= InHand(h)
    BY <1>2, <2>2
  <2> QED BY <1>2, <1>4, <2>1, <2>4, <2>5 DEF x
<1>5. Held(h) = <<>> => buf[h] = <<>>
  BY DEF Held
<1> QED BY <1>1, <1>3, <1>4, <1>5

\* What is written follows what is there, if its reader is.
LEMMA WrittenAlong ==
  ASSUME HopTypes, NEW g \in Hops, NEW x \in Items, NEW n \in Int, NEW T,
         Along(wire[g], n, T), ~Deaf(g) => x \in T[n + OnWay(g) + 1],
         wire'[g] = IF Deaf(g) THEN wire[g] ELSE Append(wire[g], x)
  PROVE  Along(wire'[g], n, T)
<1>1. wire[g] \in Seq(Items)
  BY DEF HopTypes
<1>2. CASE Deaf(g)
  BY <1>1, <1>2
<1>3. CASE ~Deaf(g)
  <2>1. Along(Append(wire[g], x), n, T)
    BY <1>1, <1>3, AlongAppend DEF OnWay
  <2> QED BY <1>3, <2>1
<1> QED BY <1>2, <1>3

\* There is room for it, where it was waited for.
LEMMA WrittenRoom ==
  ASSUME HopTypes, NEW g \in Hops, NEW x \in Items, CanWrite(g), Room(g),
         wire'[g] = IF Deaf(g) THEN wire[g] ELSE Append(wire[g], x)
  PROVE  /\ Room(g)' /\ (OnWay(g) <= Window => OnWay(g)' <= Window)
         /\ OnWay(g)' = OnWay(g) + (IF Deaf(g) THEN 0 ELSE 1)
<1>1. wire[g] \in Seq(Items)
  BY DEF HopTypes
<1>2. CASE Deaf(g)
  <2>1. OnWay(g)' = OnWay(g)
    BY <1>2 DEF OnWay
  <2> QED BY <1>2, <2>1 DEF Room
<1>3. CASE ~Deaf(g)
  <2>1. Len(Append(wire[g], x)) = Len(wire[g]) + 1
    BY <1>1
  <2>2. OnWay(g)' = OnWay(g) + 1 /\ OnWay(g) < Window
    BY <1>3, <2>1 DEF CanWrite, OnWay
  <2> QED BY <1>3, <2>2, Sizes DEF Room
<1> QED BY <1>2, <1>3

\* What holds of the lengths and of the other hops whatever the order.
LEMMA PassCounts ==
  ASSUME HopTypes, NEW h \in Hops, NEW g \in Hops, g # h, Pass(h, g), Room(h), Room(g),
         h \in {"ce", "ea"} => buf[h] = <<>>
  PROVE  LET x == Head(Unread(h)) IN
         /\ HopTypes' /\ x \in Items
         /\ wire'[g] = IF Deaf(g) THEN wire[g] ELSE Append(wire[g], x)
         /\ buf'[g] = buf[g] /\ InHand(g)' = InHand(g)
         /\ \A f \in Hops \ {h, g} : Kept(f)
         /\ Room(h)' /\ Room(g)'
         /\ OnWay(g)' = OnWay(g) + (IF Deaf(g) THEN 0 ELSE 1)
         /\ OnWay(g) <= Window => OnWay(g)' <= Window
         /\ OnWay(h)' <= OnWay(h) /\ InHand(h)' <= InHand(h) /\ InHand(h)' \in Nat
         /\ InHand(h)' + OnWay(h)' = InHand(h) + OnWay(h) - 1
         /\ (wire[h] = <<>> => wire'[h] = <<>>) /\ (buf[h] = <<>> => buf'[h] = <<>>)
         /\ wire[h] # <<>> \/ buf[h] # <<>>
<1> DEFINE x == Head(Unread(h))
           T == [k \in Int |-> Items]
<1>1. /\ HopTypes' /\ x \in Items /\ CanWrite(g)
      /\ wire'[g] = IF Deaf(g) THEN wire[g] ELSE Append(wire[g], x)
      /\ \A f \in Hops : (f \notin {h, g} => wire'[f] = wire[f]) /\ (f # h => buf'[f] = buf[f])
      /\ wire[h] # <<>> \/ buf[h] # <<>>
  BY PassMoves
<1>2. Along(buf[h], 0, T) /\ Along(wire[h], 0 + InHand(h), T)
  <2>1. buf[h] \in Seq(Items) /\ wire[h] \in Seq(Items) /\ InHand(h) \in Nat
    BY DEF HopTypes, InHand
  <2>2. \A s \in Seq(Items), n \in Nat : \A i \in 1..Len(s) : s[i] \in Items /\ n + i \in Int
    OBVIOUS
  <2> QED BY <2>1, <2>2 DEF Along
<1>3. /\ InHand(h)' \in Nat /\ OnWay(h)' \in Nat
      /\ InHand(h) \in Nat /\ OnWay(h) \in Nat /\ OnWay(h)' <= OnWay(h)
      /\ InHand(h)' + OnWay(h)' = InHand(h) + OnWay(h) - 1
      /\ InHand(h)' <= InHand(h)
      /\ (wire[h] = <<>> => wire'[h] = <<>>) /\ (buf[h] = <<>> => buf'[h] = <<>>)
  <2> SUFFICES ASSUME NEW n \in Int, NEW U, Along(buf[h], n, U), Along(wire[h], n + InHand(h), U)
               PROVE  /\ InHand(h)' \in Nat /\ OnWay(h)' \in Nat
                      /\ InHand(h) \in Nat /\ OnWay(h) \in Nat /\ OnWay(h)' <= OnWay(h)
                      /\ InHand(h)' + OnWay(h)' = InHand(h) + OnWay(h) - 1
                      /\ InHand(h)' <= InHand(h)
                      /\ (wire[h] = <<>> => wire'[h] = <<>>)
                      /\ (buf[h] = <<>> => buf'[h] = <<>>)
    BY <1>2
  <2> QED BY PassAlong
<1>4. \A f \in Hops \ {h, g} : Kept(f)
  BY <1>1, KeptWhere
<1>5. Room(h)'
  BY <1>3, Sizes DEF Room
<1> HIDE DEF x
<1>6. /\ Room(g)' /\ (OnWay(g) <= Window => OnWay(g)' <= Window)
      /\ OnWay(g)' = OnWay(g) + (IF Deaf(g) THEN 0 ELSE 1)
  BY <1>1, WrittenRoom
<1>7. buf'[g] = buf[g] /\ InHand(g)' = InHand(g)
  BY <1>1 DEF InHand
<1> QED BY <1>1, <1>3, <1>4, <1>5, <1>6, <1>7 DEF x

\* Where the client is, does not change by what follows.
LEMMA EcAppend ==
  ASSUME HopTypes, NEW x \in Items, x # Switch, wire'["ec"] = Append(wire["ec"], x),
         Arrivals("client")' = Arrivals("client")
  PROVE  ecAt' = ecAt
<1>1. wire["ec"] \in Seq(Items)
  BY DEF HopTypes, Hops
<1>2. /\ Append(wire["ec"], x) # <<>>
      /\ wire["ec"] = <<>> => Head(Append(wire["ec"], x)) = x
      /\ wire["ec"] # <<>> => Head(Append(wire["ec"], x)) = Head(wire["ec"])
  <2>1. Append(wire["ec"], x) # <<>> /\ Head(Append(wire["ec"], x)) = Append(wire["ec"], x)[1]
    BY <1>1
  <2>2. wire["ec"] = <<>> => Append(wire["ec"], x)[1] = x
    BY <1>1
  <2>3. wire["ec"] # <<>> => 1 \in 1..Len(wire["ec"]) /\ Head(wire["ec"]) = wire["ec"][1]
    BY <1>1
  <2>4. \A i \in 1..Len(wire["ec"]) : Append(wire["ec"], x)[i] = wire["ec"][i]
    BY <1>1
  <2> QED BY <2>1, <2>2, <2>3, <2>4
<1> QED BY <1>2 DEF ecAt

\* The place after all that is on its way to the client is never negative.
LEMMA EcEnd ==
  /\ Zeros /\ Rooms /\ Lengths => ecAt \in Int /\ ecEnd \in Nat
  /\ Zeros' /\ Rooms' /\ Lengths' => ecAt' \in Int /\ ecEnd' \in Nat
<1>1. ASSUME Zeros, Rooms, Lengths PROVE ecAt \in Int /\ ecEnd \in Nat
  <2>1. /\ wire["ec"] = <<>> <=> OnWay("ec") = 0
        /\ OnWay("ec") \in Nat /\ Arrivals("client") \in Nat
    BY <1>1 DEF Zeros, Rooms, Room, Lengths
  <2> QED BY <2>1 DEF ecAt, ecEnd
<1>2. ASSUME Zeros', Rooms', Lengths' PROVE ecAt' \in Int /\ ecEnd' \in Nat
  <2>1. /\ wire'["ec"] = <<>> <=> OnWay("ec")' = 0
        /\ OnWay("ec")' \in Nat /\ Arrivals("client")' \in Nat
    BY <1>2 DEF Zeros, Rooms, Room, Lengths
  <2> QED BY <2>1 DEF ecAt, ecEnd
<1> QED BY <1>1, <1>2

\* writeBadGateway is what the edge reads, or nothing.
LEMMA BadGatewayMoves ==
  ASSUME HopTypes, wire["ae"] = <<>>, Room("ae"),
         NEW from, BadGateway(from), Bad \in Told[0], End \in Told[1]
  PROVE  /\ HopTypes' /\ buf' = buf /\ \A f \in Hops \ {"ae"} : Kept(f)
         /\ InHand("ae")' = InHand("ae") /\ Room("ae")' /\ Along(wire'["ae"], -1, Told)
         /\ edge = "returned" => wire'["ae"] = <<>>
<1> DEFINE s == <<Bad, End>>
<1>1. s \in Seq(Items) /\ Len(s) = 2 /\ s[1] = Bad /\ s[2] = End
  BY HeadTypes
<1>2. Along(s, -1, Told)
  BY <1>1, \A i \in 1..2 : (i = 1 /\ -1 + i = 0) \/ (i = 2 /\ -1 + i = 1) DEF Along
<1>3. buf' = buf /\ wire' = IF Broken("ae") THEN wire ELSE Written(wire, "ae", s)
  BY DEF BadGateway
<1> HIDE DEF s
<1>4. wire["ae"] \o s = s
  BY <1>1
<1>5. /\ HopTypes' /\ \A f \in Hops \ {"ae"} : wire'[f] = wire[f]
      /\ wire'["ae"] = wire["ae"] \/ (wire'["ae"] = s /\ edge # "returned")
  <2>1. CASE Broken("ae")
    BY <1>3, <2>1 DEF HopTypes
  <2>2. CASE ~Broken("ae")
    <3>1. "ae" \in Hops /\ wire \in [Hops -> Seq(Items)] /\ wire' = Written(wire, "ae", s)
      BY <1>3, <2>2 DEF HopTypes, Hops
    <3>2. /\ wire' \in [Hops -> Seq(Items)]
          /\ \A h \in Hops : wire'[h] = IF h = "ae" /\ ~Deaf("ae") THEN wire["ae"] \o s ELSE wire[h]
      BY <1>1, <3>1, WriteMoves
    <3>3. \A h \in Hops \ {"ae"} : wire'[h] = wire[h]
      BY <3>2
    <3>4. wire'["ae"] = wire["ae"] \/ (wire'["ae"] = s /\ edge # "returned")
      BY <1>4, <3>1, <3>2, DeafHops
    <3> QED BY <1>3, <3>2, <3>3, <3>4 DEF HopTypes
  <2> QED BY <2>1, <2>2
<1>6. Along(wire'["ae"], -1, Told)
  BY <1>2, <1>5, AlongEmpty
<1>7. Room("ae")'
  <2>1. CASE wire'["ae"] = s
    <3>1. OnWay("ae")' = 2
      BY <1>1, <2>1 DEF OnWay
    <3> QED BY <3>1, Sizes DEF Room
  <2>2. CASE wire'["ae"] = wire["ae"]
    BY <2>2 DEF Room, OnWay
  <2> QED BY <1>5, <2>1, <2>2
<1>8. InHand("ae")' = InHand("ae")
  BY <1>3 DEF InHand
<1> QED BY <1>3, <1>5, <1>6, <1>7, <1>8, KeptWhere

-----------------------------------------------------------------------------
(* Every step keeps the invariant: forwardLive.                            *)

\* What holds of every reachable state, and is enough to show that it does.
Inv == StreamTypeOK /\ Stages /\ Ends /\ Down /\ Up /\ Losses /\ StoredIsWhole

\* forwardLive opens a stream and writes the request to it, or gives up.
LEMMA WriteRequestKeeps ==
  ASSUME Inv, WriteRequest PROVE Inv'
<1> USE DEF Late, Early, Begun, Joined, Answered, Heard, Kept
<1>1. /\ ControlTypes /\ DataTypes /\ HopTypes /\ Rooms /\ Lengths
      /\ Stages /\ Ends /\ Zeros
      /\ ToClient /\ Captured /\ ToEdge /\ ToAgent /\ ToApp /\ FromClient
      /\ Reasons /\ EdgeCopies /\ AgentCopies /\ Closing /\ StoredIsWhole
  BY TypeParts, TypeLengths, TypeZeros DEF Inv, Down, Up, Losses
<1>0. /\ got' = got => /\ Arrivals("client")' = Arrivals("client")
                       /\ Arrivals("app")' = Arrivals("app")
      /\ cb' = cb => Teed' = Teed
  BY CountsKept
<1>2. /\ UNCHANGED <<kind, cacheable, body, agent, copy, session, buf, fin, app, gone, sent, got,
                      cb, over, stored>>
      /\ edge = "start" /\ edge' \in {"read", "close"} /\ HopTypes'
  <2>1. CASE wire' = Written(wire, "ea", <<Request>>)
    <3>1. wire' \in [Hops -> Seq(Items)]
      BY <1>1, <2>1, HeadTypes, OneWritten DEF Hops
    <3> QED BY <1>1, <3>1 DEF WriteRequest, EdgeGoes, HopTypes, request, choice, peers, tee
  <2>2. CASE wire' = wire
    BY <1>1, <2>2 DEF WriteRequest, EdgeGoes, HopTypes, request, choice, peers, tee
  <2> QED BY <2>1, <2>2 DEF WriteRequest
<1>3. /\ Kept("ce") /\ Kept("al") /\ Kept("la") /\ Kept("ae") /\ Kept("ec")
      /\ OnWay("ea")' \in Nat /\ OnWay("ea")' <= 1
      /\ \/ edge' = "read" /\ session /\ agent = "idle"
         \/ edge' = "close" /\ wire'["ea"] = wire["ea"] /\ ~session
  <2>1. wire["ea"] = <<>> /\ (agent = "idle" \/ (~session /\ agent # "idle"))
    BY <1>1, <1>2 DEF Stages, Requested
  <2>2. Len(Append(<<>>, Request)) = 1 /\ OnWay("ea") = 0
    BY <1>1, <2>1 DEF Zeros
  <2>3. CASE edge' = "close"
    BY <1>2, <2>1, <2>2, <2>3, DeafHops, BrokenHops, KeptWhere DEF WriteRequest,
       EdgeGoes, WriteFails
  <2>4. CASE edge' = "read"
    <3>1. wire' = Written(wire, "ea", <<Request>>) /\ session /\ agent = "idle"
      BY <2>1, <2>4, BrokenHops DEF WriteRequest, EdgeGoes, CanWrite
    <3>2. /\ \A h \in Hops \ {"ea"} : wire'[h] = wire[h]
          /\ wire'["ea"] = Append(<<>>, Request)
      BY <1>1, <2>1, <3>1, HeadTypes, DeafHops, OneWritten DEF Hops
    <3>3. Kept("ce") /\ Kept("al") /\ Kept("la") /\ Kept("ae") /\ Kept("ec")
      BY <1>2, <3>2, KeptWhere DEF Hops
    <3>4. OnWay("ea")' \in Nat /\ OnWay("ea")' <= 1
      <4>1. OnWay("ea")' = 1
        BY <2>2, <3>2 DEF OnWay
      <4> QED BY <4>1
    <3> QED BY <2>4, <3>1, <3>3, <3>4
  <2> QED BY <1>2, <2>3, <2>4
<1>4. ControlTypes' /\ DataTypes' /\ Rooms'
  <2>1. ControlTypes' BY <1>1, <1>2 DEF ControlTypes
  <2>2. DataTypes' BY <1>0, <1>1, <1>2 DEF DataTypes
  <2>3. Rooms' BY <1>1, <1>3, Sizes DEF Rooms, Room
  <2> QED BY <2>1, <2>2, <2>3
<1>5. StreamTypeOK' /\ Lengths' /\ Zeros'
  BY <1>2, <1>4, TypePartsPrime, TypeLengths, TypeZeros
<1>6. Stages'
  <2>1. Relays' BY <1>1, <1>2, <1>3 DEF Stages, Relays, Requested, Replied
  <2>2. Requested' BY <1>0, <1>1, <1>2, <1>3 DEF Stages, Relays, Requested
  <2>3. Replied' BY <1>0, <1>1, <1>2, <1>3 DEF Stages, Relays, Replied
  <2>4. Readers' BY <1>0, <1>1, <1>2, <1>3 DEF Stages, Relays, Readers
  <2> QED BY <2>1, <2>2, <2>3, <2>4 DEF Stages
<1>7. Ends' BY <1>1, <1>2, <1>3 DEF Ends
<1>e. ecAt' = ecAt /\ ecEnd' = ecEnd BY <1>0, <1>2, <1>3 DEF ecAt, ecEnd
<1>8. Down'
  <2>1. Spoken' = Spoken /\ Told' = Told BY <1>2 DEF Spoken, Told
  <2>2. ToClient' BY <1>1, <1>0, <1>2, <1>3, <1>e DEF ToClient, Switched, Count, Portions
  <2>3. Captured' BY <1>1, <1>0, <1>2, <1>3, <1>e DEF Lengths, Captured, Count, Portions
  <2>4. ToEdge'
    BY <1>0, <1>1, <1>2, <1>3, <1>4, <1>5, <2>1, <1>e DEF Lengths, Rooms, Room, Stages,
       Relays, Requested, Replied, ToEdge, aeLive, aeAt
  <2>5. ToAgent'
    BY <1>0, <1>1, <1>2, <1>3, <1>4, <1>5, <2>1, <1>e DEF Lengths, Rooms, Room, Stages,
       Relays, Requested, Replied, ToAgent, aeLive, aeAt, aeEnd, laLive, laAt, AppAt
  <2> QED BY <2>2, <2>3, <2>4, <2>5 DEF Down
<1>9. Up'
  <2>1. ToApp'
    BY <1>0, <1>1, <1>2, <1>3, <1>4, <1>5 DEF Lengths, Rooms, Room, Stages, Relays, Requested,
       ToApp, alAt, alEnd, Asked, Count, Portions
  <2>2. FromClient'
    BY <1>0, <1>1, <1>2, <1>3, <1>4, <1>5 DEF Lengths, Rooms, Room, Stages, Relays,
       FromClient, alAt, alEnd, Count, Portions
  <2> QED BY <2>1, <2>2 DEF Up
<1>10. Losses'
  BY <1>1, <1>2, <1>3 DEF Stages, Relays, Losses, Reasons, EdgeCopies, AgentCopies, Closing,
     Linked
<1>11. StoredIsWhole' BY <1>1, <1>2 DEF StoredIsWhole
<1> QED BY <1>5, <1>6, <1>7, <1>8, <1>9, <1>10, <1>11 DEF Inv

\* r.Write fails on the client's body, or on the stream, and forwardLive ends.
LEMMA RequestFailsKeeps ==
  ASSUME Inv, body["edge"] # "passed", edge = "read", edge' = "close",
         UNCHANGED <<request, agent, copy, session, wire, buf, fin, peers, tee>>
  PROVE  Inv'
<1> USE DEF Late, Early, Begun, Joined, Answered, Heard, Kept
<1>1. /\ ControlTypes /\ DataTypes /\ HopTypes /\ Rooms /\ Lengths
      /\ Stages /\ Ends /\ Zeros
      /\ ToClient /\ Captured /\ ToEdge /\ ToAgent /\ ToApp /\ FromClient
      /\ Reasons /\ EdgeCopies /\ AgentCopies /\ Closing /\ StoredIsWhole
  BY TypeParts, TypeLengths, TypeZeros DEF Inv, Down, Up, Losses
<1>0. /\ got' = got => /\ Arrivals("client")' = Arrivals("client")
                       /\ Arrivals("app")' = Arrivals("app")
      /\ cb' = cb => Teed' = Teed
  BY CountsKept
<1>2. /\ UNCHANGED <<kind, cacheable, body, agent, copy, session, fin, app, gone, sent, got, cb,
                      over, stored>>
      /\ edge = "read" /\ edge' = "close" /\ HopTypes'
      /\ ~Heard /\ ~Begun /\ ~Joined
  BY <1>1 DEF HopTypes, request, choice, peers, tee, Stages, Relays, Replied
<1>3. /\ Kept("ce") /\ Kept("al") /\ Kept("la")
      /\ Kept("ea") /\ Kept("ae") /\ Kept("ec")
  BY KeptWhere
<1>4. ControlTypes' /\ DataTypes' /\ Rooms'
  <2>1. ControlTypes' BY <1>1, <1>2 DEF ControlTypes
  <2>2. DataTypes' BY <1>0, <1>1, <1>2 DEF DataTypes
  <2>3. Rooms' BY <1>1, <1>3, Sizes DEF Rooms, Room
  <2> QED BY <2>1, <2>2, <2>3
<1>5. StreamTypeOK' /\ Lengths' /\ Zeros'
  BY <1>2, <1>4, TypePartsPrime, TypeLengths, TypeZeros
<1>6. Stages'
  <2>1. Relays' BY <1>1, <1>2, <1>3 DEF Stages, Relays, Requested, Replied
  <2>2. Requested' BY <1>0, <1>1, <1>2, <1>3 DEF Stages, Relays, Requested
  <2>3. Replied' BY <1>0, <1>1, <1>2, <1>3 DEF Stages, Relays, Replied
  <2>4. Readers' BY <1>0, <1>1, <1>2, <1>3 DEF Stages, Relays, Readers
  <2> QED BY <2>1, <2>2, <2>3, <2>4 DEF Stages
<1>7. Ends' BY <1>1, <1>2, <1>3 DEF Ends
<1>e. ecAt' = ecAt /\ ecEnd' = ecEnd BY <1>0, <1>2, <1>3 DEF ecAt, ecEnd
<1>8. Down'
  <2>1. Spoken' = Spoken /\ Told' = Told BY <1>2 DEF Spoken, Told
  <2>2. ToClient' BY <1>1, <1>0, <1>2, <1>3, <1>e DEF ToClient, Switched, Count, Portions
  <2>3. Captured' BY <1>1, <1>0, <1>2, <1>3, <1>e DEF Lengths, Captured, Count, Portions
  <2>4. ToEdge'
    BY <1>0, <1>1, <1>2, <1>3, <1>4, <1>5, <2>1, <1>e DEF Lengths, Rooms, Room, Stages,
       Relays, Requested, Replied, ToEdge, aeLive, aeAt
  <2>5. ToAgent'
    BY <1>0, <1>1, <1>2, <1>3, <1>4, <1>5, <2>1, <1>e DEF Lengths, Rooms, Room, Stages,
       Relays, Requested, Replied, ToAgent, aeLive, aeAt, aeEnd, laLive, laAt, AppAt
  <2> QED BY <2>2, <2>3, <2>4, <2>5 DEF Down
<1>9. Up'
  <2>1. ToApp'
    BY <1>0, <1>1, <1>2, <1>3, <1>4, <1>5 DEF Lengths, Rooms, Room, Stages, Relays, Requested,
       ToApp, alAt, alEnd, Asked, Count, Portions
  <2>2. FromClient'
    BY <1>0, <1>1, <1>2, <1>3, <1>4, <1>5 DEF Lengths, Rooms, Room, Stages, Relays,
       FromClient, alAt, alEnd, Count, Portions
  <2> QED BY <2>1, <2>2 DEF Up
<1>10. Losses'
  BY <1>1, <1>2, <1>3 DEF Stages, Relays, Losses, Reasons, EdgeCopies, AgentCopies, Closing,
     Linked
<1>11. StoredIsWhole' BY <1>1, <1>2 DEF StoredIsWhole
<1> QED BY <1>5, <1>6, <1>7, <1>8, <1>9, <1>10, <1>11 DEF Inv

\* forwardLive reads the head of the answer, and decides whether it hijacks,
\* tees or copies; or the stream ends before it.
LEMMA ReadResponseKeeps ==
  ASSUME Inv, ReadResponse PROVE Inv'
<1> USE DEF Late, Early, Begun, Joined, Answered, Heard, Kept
<1>1. /\ ControlTypes /\ DataTypes /\ HopTypes /\ Rooms /\ Lengths
      /\ Stages /\ Ends /\ Zeros
      /\ ToClient /\ Captured /\ ToEdge /\ ToAgent /\ ToApp /\ FromClient
      /\ Reasons /\ EdgeCopies /\ AgentCopies /\ Closing /\ StoredIsWhole
  BY TypeParts, TypeLengths, TypeZeros DEF Inv, Down, Up, Losses
<1>0. /\ got' = got => /\ Arrivals("client")' = Arrivals("client")
                       /\ Arrivals("app")' = Arrivals("app")
      /\ cb' = cb => Teed' = Teed
  BY CountsKept
<1>2. /\ UNCHANGED <<kind, cacheable, body, agent, copy, session, fin, app, gone, sent, got, cb,
                      over, stored>>
      /\ edge = "read" /\ edge' \in {"hijack", "tee", "copy", "close"} /\ HopTypes'
      /\ edge' = "tee" => cacheable /\ Heard
      /\ edge' = "hijack" => Begun
      /\ edge' \in {"tee", "copy"} => ~Begun
      /\ edge' # "close" => wire["ae"] # <<>> /\ agent \notin Early
  <2>1. CASE ReadHead("ae")
    <3>1. HopTypes' /\ wire["ae"] # <<>>
      BY <1>1, <2>1, ReadHeadMoves DEF Hops
    <3>2. edge = "read" /\ UNCHANGED <<request, agent, copy, session, fin, peers, tee>>
      BY DEF ReadResponse, EdgeGoes
    <3>3. buf["ae"] = <<>>
      BY <1>1, <3>2 DEF Stages, Readers
    <3>4. wire["ae"] \in Seq(Items) /\ Along(wire["ae"], -1, Told)
      BY <1>1, <3>2, <3>3 DEF Inv, HopTypes, Hops, Down, ToEdge, aeLive, aeAt, Zeros
    <3>5. Head(wire["ae"]) \in Told[0]
      BY <3>1, <3>4, AlongHead
    <3>6. /\ Head(wire["ae"]) = Ok => Heard /\ kind # "upgrade"
          /\ Head(wire["ae"]) = Switch => Heard /\ kind = "upgrade"
          /\ Heard /\ kind = "upgrade" => Head(wire["ae"]) = Switch
    <4>1. kind = "upgrade" /\ Answered => Heard
      BY <1>1 DEF Stages, Replied
    <4> QED BY <3>5, <4>1, HeadTypes DEF Told, Spoken
    <3>7. edge' = CASE Head(wire["ae"]) = Switch -> "hijack"
                    [] Cacheable(Head(wire["ae"])) -> "tee"
                    [] OTHER -> "copy"
      BY <2>1, <3>1, <3>3 DEF ReadResponse, EdgeGoes, AtEOF, Unread
    <3>8. agent \notin Early
      BY <1>1, <3>1 DEF Stages, Replied
    <3> QED BY <1>1, <3>1, <3>2, <3>6, <3>7, <3>8 DEF Cacheable, Stages, Relays, request, choice, peers, tee
  <2>2. CASE ~ReadHead("ae")
    BY <1>1, <2>2 DEF ReadResponse, EdgeGoes, HopTypes, request, choice, peers, tee
  <2> QED BY <2>1, <2>2
<1>3. /\ Kept("ce") /\ Kept("al") /\ Kept("la") /\ Kept("ea") /\ Kept("ec")
      /\ edge' = "close" => Kept("ae")
      /\ edge' # "close" =>
           /\ Along(buf'["ae"], 0, Told) /\ Along(wire'["ae"], InHand("ae")', Told)
           /\ InHand("ae")' + OnWay("ae")' = OnWay("ae") - 1
      /\ Room("ae")'
  <2>1. CASE ReadHead("ae")
    <3>1. buf["ae"] = <<>>
      BY <1>1, <1>2 DEF Stages, Readers
    <3>2. wire["ae"] \in Seq(Items) /\ Along(wire["ae"], -1, Told)
      BY <1>1, <1>2, <3>1 DEF Inv, HopTypes, Hops, Down, ToEdge, aeLive, aeAt, Zeros
    <3>3. /\ wire["ae"] # <<>> /\ Along(buf'["ae"], 0, Told)
          /\ Along(wire'["ae"], InHand("ae")', Told)
          /\ InHand("ae")' \in Nat /\ OnWay("ae")' \in Nat /\ OnWay("ae") \in Nat
          /\ InHand("ae")' + OnWay("ae")' = OnWay("ae") - 1
          /\ \A f \in Hops \ {"ae"} : Kept(f)
      <4>1. -1 \in Int /\ "ae" \in Hops /\ -1 + 1 = 0
        BY DEF Hops
      <4>2. \A n \in Nat : -1 + 1 + n = n
        OBVIOUS
      <4> QED BY <1>1, <2>1, <3>2, <4>1, <4>2, ReadHeadAlong
    <3>4. edge' # "close"
      BY <2>1, <3>1, <3>3 DEF ReadResponse, EdgeGoes, AtEOF, Unread
    <3>5. Room("ae")'
      BY <1>1, <3>3, Sizes DEF Rooms, Room
    <3>6. Kept("ce") /\ Kept("al") /\ Kept("la") /\ Kept("ea") /\ Kept("ec")
      BY <3>3 DEF Hops
    <3> QED BY <3>3, <3>4, <3>5, <3>6
  <2>2. CASE ~ReadHead("ae")
    <3>1. wire' = wire /\ buf' = buf /\ edge' = "close"
      BY <2>2 DEF ReadResponse, EdgeGoes
    <3> QED BY <1>1, <3>1, KeptWhere DEF Rooms, Room
  <2> QED BY <2>1, <2>2
<1>4. ControlTypes' /\ DataTypes' /\ Rooms'
  <2>1. ControlTypes' BY <1>1, <1>2 DEF ControlTypes
  <2>2. DataTypes' BY <1>0, <1>1, <1>2 DEF DataTypes
  <2>3. Rooms' BY <1>1, <1>3, Sizes DEF Rooms, Room
  <2> QED BY <2>1, <2>2, <2>3
<1>5. StreamTypeOK' /\ Lengths' /\ Zeros'
  BY <1>2, <1>4, TypePartsPrime, TypeLengths, TypeZeros
<1>6. Stages'
  <2>1. Relays' BY <1>1, <1>2, <1>3 DEF Stages, Relays, Requested, Replied
  <2>2. Requested' BY <1>0, <1>1, <1>2, <1>3 DEF Stages, Relays, Requested
  <2>3. Replied' BY <1>0, <1>1, <1>2, <1>3 DEF Stages, Relays, Replied
  <2>4. Readers' BY <1>0, <1>1, <1>2, <1>3 DEF Stages, Relays, Readers
  <2> QED BY <2>1, <2>2, <2>3, <2>4 DEF Stages
<1>7. Ends' BY <1>1, <1>2, <1>3 DEF Ends
<1>e. ecAt' = ecAt /\ ecEnd' = ecEnd BY <1>0, <1>2, <1>3 DEF ecAt, ecEnd
<1>8. Down'
  <2>1. Spoken' = Spoken /\ Told' = Told BY <1>2 DEF Spoken, Told
  <2>2. ToClient' BY <1>1, <1>0, <1>2, <1>3, <1>e DEF ToClient, Switched, Count, Portions
  <2>3. Captured'
    <3>e. wire["ec"] = <<>> /\ got["client"] = <<>> /\ cb = <<>>
      BY <1>1, <1>2 DEF Stages, Readers
    <3>1. ecEnd = 0 /\ Teed = 0
      BY <1>1, <3>e DEF ecEnd, ecAt, Zeros
    <3>2. cb' = cb /\ Teed' = Teed /\ ecEnd' = ecEnd /\ sent' = sent /\ Count' = Count
      BY <1>0, <1>2, <1>e DEF Count, Portions
    <3> QED BY <1>1, <3>1, <3>2 DEF Captured
  <2>4. ToEdge'
    <3>e. wire["ec"] = <<>> /\ got["client"] = <<>> /\ cb = <<>>
      BY <1>1, <1>2 DEF Stages, Readers
    <3>1. ecEnd = 0 /\ Teed = 0
      BY <1>1, <3>e DEF ecEnd, ecAt, Zeros
    <3>2. edge' # "close" => aeAt' = 0
      BY <1>0, <1>2, <1>e, <3>1 DEF aeAt
    <3>3. edge' = "close" => ~aeLive'
      BY <1>1, <1>2 DEF aeLive, Stages, Relays
    <3>4. 0 + InHand("ae")' = InHand("ae")'
      BY <1>5 DEF Lengths
    <3>5. edge' # "close"
            => Along(buf'["ae"], 0, Told) /\ Along(wire'["ae"], 0 + InHand("ae")', Told)
      BY <1>3, <3>4
    <3> QED BY <2>1, <3>2, <3>3, <3>5 DEF ToEdge
  <2>5. ToAgent'
    <3>1. laLive' => edge' # "close" \/ agent \in Early
      BY <1>1, <1>2 DEF laLive, aeLive, Stages, Relays
    <3>2. laLive' => laLive
      BY <1>2 DEF laLive, aeLive
    <3>3. edge' # "close" => aeEnd' = aeEnd
      <4>e. wire["ec"] = <<>> /\ got["client"] = <<>> /\ cb = <<>> /\ buf["ae"] = <<>>
        BY <1>1, <1>2 DEF Stages, Readers
      <4>1. ecEnd = 0 /\ Teed = 0 /\ InHand("ae") = 0
        BY <1>1, <4>e DEF ecEnd, ecAt, Zeros
      <4>2. edge' # "close" => aeAt' = 0
        BY <1>0, <1>2, <1>e, <4>1 DEF aeAt
      <4>3. aeAt = -1
        BY <1>2 DEF aeAt
      <4>4. OnWay("ae") \in Nat
        BY <1>1 DEF Rooms, Room
      <4>5. InHand("ae")' \in Nat /\ OnWay("ae")' \in Nat
        BY <1>4, <1>5 DEF Lengths, Rooms, Room
      <4>6. edge' # "close" => InHand("ae")' + OnWay("ae")' = OnWay("ae") - 1
        BY <1>3
      <4>7. /\ aeEnd = -1 + 0 + OnWay("ae")
            /\ (edge' # "close" => aeEnd' = 0 + InHand("ae")' + OnWay("ae")')
        BY <4>1, <4>2, <4>3 DEF aeEnd
      <4> QED BY <4>4, <4>5, <4>6, <4>7
    <3>4. laLive' => laAt' = laAt
      BY <1>2, <3>1, <3>3 DEF laAt
    <3> QED BY <1>2, <1>3, <2>1, <3>2, <3>4 DEF Inv, Down, ToAgent, AppAt
  <2> QED BY <2>2, <2>3, <2>4, <2>5 DEF Down
<1>9. Up'
  <2>1. ToApp'
    BY <1>0, <1>1, <1>2, <1>3, <1>4, <1>5 DEF Lengths, Rooms, Room, Stages, Relays, Requested,
       ToApp, alAt, alEnd, Asked, Count, Portions
  <2>2. FromClient'
    BY <1>0, <1>1, <1>2, <1>3, <1>4, <1>5 DEF Lengths, Rooms, Room, Stages, Relays,
       FromClient, alAt, alEnd, Count, Portions
  <2> QED BY <2>1, <2>2 DEF Up
<1>10. Losses'
  <2>1. Linked' => UpTotal' = UpTotal /\ DownTotal' = DownTotal
    <3>1. Linked' => edge' = "hijack"
      BY <1>1, <1>2 DEF Linked, Stages, Relays
    <3>2. buf["ae"] = <<>>
      BY <1>1, <1>2 DEF Stages, Readers
    <3>3. ecEnd' = ecEnd /\ ecEnd \in Int
      <4>1. Arrivals("client") \in Nat /\ OnWay("ec") \in Nat
        BY <1>1 DEF Lengths, Rooms, Room
      <4> QED BY <1>e, <4>1 DEF ecEnd, ecAt
    <3>4. UpTotal' = UpTotal
      BY <1>0, <1>2, <1>3 DEF UpTotal
    <3>5. edge' = "hijack" => DownTotal' = DownTotal
      <4>0. InHand("ae") = 0
        BY <1>1, <3>2 DEF Zeros
      <4>1. edge' = "hijack" => InHand("ae")' + OnWay("ae")' = OnWay("ae") - 1
        BY <1>3
      <4>2. /\ InHand("ae") \in Nat /\ OnWay("ae") \in Nat
            /\ InHand("ae")' \in Nat /\ OnWay("ae")' \in Nat
            /\ InHand("la") \in Nat /\ OnWay("la") \in Nat
        BY <1>1, <1>4, <1>5 DEF Lengths, Rooms, Room
      <4>3. InHand("la")' = InHand("la") /\ OnWay("la")' = OnWay("la") /\ edge = "read"
        BY <1>2, <1>3
      <4>4. DownTotal = ecEnd + 0 + OnWay("ae") - 1 + InHand("la") + OnWay("la")
        BY <4>0, <4>3 DEF DownTotal
      <4>5. edge' = "hijack" => DownTotal' = ecEnd + InHand("ae")' + OnWay("ae")' - 0
                                             + InHand("la") + OnWay("la")
        BY <3>3, <4>3 DEF DownTotal
      <4> QED BY <3>3, <4>1, <4>2, <4>4, <4>5
    <3> QED BY <3>1, <3>4, <3>5
  <2>2. Reasons' BY <1>1, <1>2, <1>5, <2>1 DEF Lengths, Reasons, Linked, LostUp, LostDown
  <2>3. EdgeCopies' BY <1>1, <1>2 DEF EdgeCopies, Linked, Stages, Relays
  <2>4. AgentCopies' BY <1>1, <1>2, <1>3, <1>5, <2>1 DEF AgentCopies, Linked, LostUp, LostDown
  <2>5. Closing' BY <1>1, <1>2, <1>3 DEF Stages, Relays, Closing, Linked
  <2> QED BY <2>2, <2>3, <2>4, <2>5 DEF Losses
<1>11. StoredIsWhole' BY <1>1, <1>2 DEF StoredIsWhole
<1> QED BY <1>5, <1>6, <1>7, <1>8, <1>9, <1>10, <1>11 DEF Inv

\* forwardLive's io.Copy ends; what is stored then is whole (storeSnapshot).
LEMMA EndBodyKeeps ==
  ASSUME Inv, EndBody PROVE Inv'
<1> USE DEF Late, Early, Begun, Joined, Answered, Heard, Kept
<1>1. /\ ControlTypes /\ DataTypes /\ HopTypes /\ Rooms /\ Lengths
      /\ Stages /\ Ends /\ Zeros
      /\ ToClient /\ Captured /\ ToEdge /\ ToAgent /\ ToApp /\ FromClient
      /\ Reasons /\ EdgeCopies /\ AgentCopies /\ Closing /\ StoredIsWhole
  BY TypeParts, TypeLengths, TypeZeros DEF Inv, Down, Up, Losses
<1>0. /\ got' = got => /\ Arrivals("client")' = Arrivals("client")
                       /\ Arrivals("app")' = Arrivals("app")
      /\ cb' = cb => Teed' = Teed
  BY CountsKept
<1>2. /\ UNCHANGED <<kind, cacheable, body, agent, copy, session, fin, app, gone, sent, got, cb,
                      over>>
      /\ edge \in {"tee", "copy"} /\ edge' = "close" /\ HopTypes'
      /\ stored' \in {stored, None} \/ (edge = "tee" /\ ~over /\ stored' = cb /\ Complete)
  BY <1>1 DEF EndBody, EdgeGoes, HopTypes, request, choice, peers
<1>3. /\ Kept("ce") /\ Kept("al") /\ Kept("la")
      /\ Kept("ea") /\ Kept("ae") /\ Kept("ec")
  BY KeptWhere DEF EndBody
<1>4. ControlTypes' /\ DataTypes' /\ Rooms'
  <2>1. ControlTypes' BY <1>1, <1>2 DEF ControlTypes
  <2>2. DataTypes' BY <1>0, <1>1, <1>2 DEF DataTypes
  <2>3. Rooms' BY <1>1, <1>3, Sizes DEF Rooms, Room
  <2> QED BY <2>1, <2>2, <2>3
<1>5. StreamTypeOK' /\ Lengths' /\ Zeros'
  BY <1>2, <1>4, TypePartsPrime, TypeLengths, TypeZeros
<1>6. Stages'
  <2>1. Relays' BY <1>1, <1>2, <1>3 DEF Stages, Relays, Requested, Replied
  <2>2. Requested' BY <1>0, <1>1, <1>2, <1>3 DEF Stages, Relays, Requested
  <2>3. Replied' BY <1>0, <1>1, <1>2, <1>3 DEF Stages, Relays, Replied
  <2>4. Readers' BY <1>0, <1>1, <1>2, <1>3 DEF Stages, Relays, Readers
  <2> QED BY <2>1, <2>2, <2>3, <2>4 DEF Stages
<1>7. Ends' BY <1>1, <1>2, <1>3 DEF Ends
<1>e. ecAt' = ecAt /\ ecEnd' = ecEnd BY <1>0, <1>2, <1>3 DEF ecAt, ecEnd
<1>8. Down'
  <2>1. Spoken' = Spoken /\ Told' = Told BY <1>2 DEF Spoken, Told
  <2>2. ToClient' BY <1>1, <1>0, <1>2, <1>3, <1>e DEF ToClient, Switched, Count, Portions
  <2>3. Captured' BY <1>1, <1>0, <1>2, <1>3, <1>e DEF Lengths, Captured, Count, Portions
  <2>4. ToEdge'
    BY <1>0, <1>1, <1>2, <1>3, <1>4, <1>5, <2>1, <1>e DEF Lengths, Rooms, Room, Stages,
       Relays, Requested, Replied, ToEdge, aeLive, aeAt
  <2>5. ToAgent'
    BY <1>0, <1>1, <1>2, <1>3, <1>4, <1>5, <2>1, <1>e DEF Lengths, Rooms, Room, Stages,
       Relays, Requested, Replied, ToAgent, aeLive, aeAt, aeEnd, laLive, laAt, AppAt
  <2> QED BY <2>2, <2>3, <2>4, <2>5 DEF Down
<1>9. Up'
  <2>1. ToApp'
    BY <1>0, <1>1, <1>2, <1>3, <1>4, <1>5 DEF Lengths, Rooms, Room, Stages, Relays, Requested,
       ToApp, alAt, alEnd, Asked, Count, Portions
  <2>2. FromClient'
    BY <1>0, <1>1, <1>2, <1>3, <1>4, <1>5 DEF Lengths, Rooms, Room, Stages, Relays,
       FromClient, alAt, alEnd, Count, Portions
  <2> QED BY <2>1, <2>2 DEF Up
<1>10. Losses'
  <2>1. UpTotal' = UpTotal /\ DownTotal' = DownTotal
    BY <1>0, <1>1, <1>2, <1>3, <1>4, <1>5, <1>8 DEF Lengths, Rooms, Room, UpTotal, DownTotal,
       ecEnd, ecAt
  <2>2. Reasons' BY <1>1, <1>2, <1>5, <2>1 DEF Lengths, Reasons, Linked, LostUp, LostDown
  <2>3. EdgeCopies' BY <1>1, <1>2, <1>3, <1>5, <2>1 DEF EdgeCopies, Linked, LostUp, LostDown
  <2>4. AgentCopies' BY <1>1, <1>2, <1>3, <1>5, <2>1 DEF AgentCopies, Linked, LostUp, LostDown
  <2>5. Closing' BY <1>1, <1>2, <1>3 DEF Stages, Relays, Closing, Linked
  <2> QED BY <2>2, <2>3, <2>4, <2>5 DEF Losses
<1>11. StoredIsWhole'
  <2>1. CASE stored' \in {stored, None}
    BY <1>2, <2>1 DEF Inv, StoredIsWhole
  <2>2. CASE edge = "tee" /\ ~over /\ stored' = cb /\ Complete
    <3>1. cb = [i \in 1..Teed |-> i] /\ Teed <= Limit /\ Teed <= sent["app"]
      <4>1. \A i \in 1..Teed : cb[i] = i
        BY <1>1, CountWhole DEF Inv, Down, Captured, Lengths, Teed
      <4> QED BY <1>1, <4>1 DEF Inv, Down, Captured, DataTypes, Teed
    <3>2. CASE kind = "framed"
      <4>1. Unread("ae") # <<>> /\ Head(Unread("ae")) = End
        BY <2>2, <3>2 DEF Complete
      <4>2. Along(Held("ae"), Teed, Told) /\ Along(wire["ae"], Teed + Len(Held("ae")), Told)
        BY <2>2 DEF Inv, Down, ToEdge, aeLive, aeAt, Held, InHand
      <4>3. End \in Told[Teed + 1] /\ Heard
        <5>1. "ae" \in Hops /\ Teed \in Int /\ Heard
          BY <1>1, <2>2 DEF Lengths, Hops, Stages, Replied
        <5> HIDE DEF Answered, Heard
        <5> QED BY <1>1, <4>1, <4>2, <5>1, UnreadAlong
      <4>4. app = "done" /\ Teed + 1 = sent["app"] + 1
        BY <1>1, <4>3, SpokenAt, ToldAt DEF Lengths
      <4> QED BY <1>1, <1>2, <2>2, <3>1, <3>2, <4>4 DEF StoredIsWhole, Lengths, Teed
    <3>3. CASE kind # "framed"
      BY <1>2, <2>2, <3>1, <3>3 DEF StoredIsWhole, Teed
    <3> QED BY <3>2, <3>3
  <2> QED BY <1>2, <2>1, <2>2
<1> QED BY <1>5, <1>6, <1>7, <1>8, <1>9, <1>10, <1>11 DEF Inv

\* The edge's passthroughUpgrade has the first error of its two goroutines.
LEMMA AwaitFirstKeeps ==
  ASSUME Inv, AwaitFirst PROVE Inv'
<1> USE DEF Late, Early, Begun, Joined, Answered, Heard, Kept
<1>1. /\ ControlTypes /\ DataTypes /\ HopTypes /\ Rooms /\ Lengths
      /\ Stages /\ Ends /\ Zeros
      /\ ToClient /\ Captured /\ ToEdge /\ ToAgent /\ ToApp /\ FromClient
      /\ Reasons /\ EdgeCopies /\ AgentCopies /\ Closing /\ StoredIsWhole
  BY TypeParts, TypeLengths, TypeZeros DEF Inv, Down, Up, Losses
<1>0. /\ got' = got => /\ Arrivals("client")' = Arrivals("client")
                       /\ Arrivals("app")' = Arrivals("app")
      /\ cb' = cb => Teed' = Teed
  BY CountsKept
<1>2. /\ UNCHANGED <<kind, cacheable, body, agent, copy, session, fin, app, gone, sent, got, cb,
                      over, stored>>
      /\ edge = "relay" /\ edge' = "close" /\ (copy["ce"] = "done" \/ copy["ae"] = "done")
      /\ HopTypes'
  BY <1>1 DEF AwaitFirst, EdgeGoes, HopTypes, request, choice, peers, tee
<1>3. /\ Kept("ce") /\ Kept("al") /\ Kept("la")
      /\ Kept("ea") /\ Kept("ae") /\ Kept("ec")
  BY KeptWhere DEF AwaitFirst
<1>4. ControlTypes' /\ DataTypes' /\ Rooms'
  <2>1. ControlTypes' BY <1>1, <1>2 DEF ControlTypes
  <2>2. DataTypes' BY <1>0, <1>1, <1>2 DEF DataTypes
  <2>3. Rooms' BY <1>1, <1>3, Sizes DEF Rooms, Room
  <2> QED BY <2>1, <2>2, <2>3
<1>5. StreamTypeOK' /\ Lengths' /\ Zeros'
  BY <1>2, <1>4, TypePartsPrime, TypeLengths, TypeZeros
<1>6. Stages'
  <2>1. Relays' BY <1>1, <1>2, <1>3 DEF Stages, Relays, Requested, Replied
  <2>2. Requested' BY <1>0, <1>1, <1>2, <1>3 DEF Stages, Relays, Requested
  <2>3. Replied' BY <1>0, <1>1, <1>2, <1>3 DEF Stages, Relays, Replied
  <2>4. Readers' BY <1>0, <1>1, <1>2, <1>3 DEF Stages, Relays, Readers
  <2> QED BY <2>1, <2>2, <2>3, <2>4 DEF Stages
<1>7. Ends' BY <1>1, <1>2, <1>3 DEF Ends
<1>e. ecAt' = ecAt /\ ecEnd' = ecEnd BY <1>0, <1>2, <1>3 DEF ecAt, ecEnd
<1>8. Down'
  <2>1. Spoken' = Spoken /\ Told' = Told BY <1>2 DEF Spoken, Told
  <2>2. ToClient' BY <1>1, <1>0, <1>2, <1>3, <1>e DEF ToClient, Switched, Count, Portions
  <2>3. Captured' BY <1>1, <1>0, <1>2, <1>3, <1>e DEF Lengths, Captured, Count, Portions
  <2>4. ToEdge'
    BY <1>0, <1>1, <1>2, <1>3, <1>4, <1>5, <2>1, <1>e DEF Lengths, Rooms, Room, Stages,
       Relays, Requested, Replied, ToEdge, aeLive, aeAt
  <2>5. ToAgent'
    BY <1>0, <1>1, <1>2, <1>3, <1>4, <1>5, <2>1, <1>e DEF Lengths, Rooms, Room, Stages,
       Relays, Requested, Replied, ToAgent, aeLive, aeAt, aeEnd, laLive, laAt, AppAt
  <2> QED BY <2>2, <2>3, <2>4, <2>5 DEF Down
<1>9. Up'
  <2>1. ToApp'
    BY <1>0, <1>1, <1>2, <1>3, <1>4, <1>5 DEF Lengths, Rooms, Room, Stages, Relays, Requested,
       ToApp, alAt, alEnd, Asked, Count, Portions
  <2>2. FromClient'
    BY <1>0, <1>1, <1>2, <1>3, <1>4, <1>5 DEF Lengths, Rooms, Room, Stages, Relays,
       FromClient, alAt, alEnd, Count, Portions
  <2> QED BY <2>1, <2>2 DEF Up
<1>10. Losses'
  <2>1. UpTotal' = UpTotal /\ DownTotal' = DownTotal
    BY <1>0, <1>1, <1>2, <1>3, <1>4, <1>5, <1>8 DEF Lengths, Rooms, Room, UpTotal, DownTotal,
       ecEnd, ecAt
  <2>2. Reasons' BY <1>1, <1>2, <1>5, <2>1 DEF Lengths, Reasons, Linked, LostUp, LostDown
  <2>3. EdgeCopies' BY <1>1, <1>2, <1>3, <1>5, <2>1 DEF EdgeCopies, Linked, LostUp, LostDown
  <2>4. AgentCopies' BY <1>1, <1>2, <1>3, <1>5, <2>1 DEF AgentCopies, Linked, LostUp, LostDown
  <2>5. Closing'
    <3>1. Linked' => Linked /\ Joined
      BY <1>1, <1>2 DEF Linked, Stages, Relays
    <3>2. Linked => fin["ce"] \/ agent = "returned"
      BY <1>1, <1>2 DEF Inv, Losses, EdgeCopies, Ends
    <3> QED BY <1>1, <1>2, <1>3, <3>1, <3>2 DEF Inv, Losses, Closing
  <2> QED BY <2>2, <2>3, <2>4, <2>5 DEF Losses
<1>11. StoredIsWhole' BY <1>1, <1>2 DEF StoredIsWhole
<1> QED BY <1>5, <1>6, <1>7, <1>8, <1>9, <1>10, <1>11 DEF Inv

\* forwardLive's io.Copy gives the client a portion, and cappedBuffer.Write
\* keeps it while it is within maxTeeBody.
LEMMA CopyPortionKeeps ==
  ASSUME Inv, CopyPortion PROVE Inv'
<1> USE DEF Late, Early, Begun, Joined, Answered, Heard, Kept
<1>1. /\ ControlTypes /\ DataTypes /\ HopTypes /\ Rooms /\ Lengths
      /\ Stages /\ Ends /\ Zeros
      /\ ToClient /\ Captured /\ ToEdge /\ ToAgent /\ ToApp /\ FromClient
      /\ Reasons /\ EdgeCopies /\ AgentCopies /\ Closing /\ StoredIsWhole
  BY TypeParts, TypeLengths, TypeZeros DEF Inv, Down, Up, Losses
<1>0. /\ got' = got => /\ Arrivals("client")' = Arrivals("client")
                       /\ Arrivals("app")' = Arrivals("app")
      /\ cb' = cb => Teed' = Teed
  BY CountsKept
<1> DEFINE x == Head(Unread("ae"))
<1>P. LET h == "ae"  g == "ec" IN
      /\ HopTypes' /\ x \in Items
      /\ wire'[g] = IF Deaf(g) THEN wire[g] ELSE Append(wire[g], x)
      /\ buf'[g] = buf[g] /\ InHand(g)' = InHand(g)
      /\ \A f \in Hops \ {h, g} : Kept(f)
      /\ Room(h)' /\ Room(g)'
      /\ OnWay(g)' = OnWay(g) + (IF Deaf(g) THEN 0 ELSE 1)
      /\ InHand(h)' + OnWay(h)' = InHand(h) + OnWay(h) - 1
      /\ (wire[h] = <<>> => wire'[h] = <<>>)
      /\ wire[h] # <<>> \/ buf[h] # <<>>
  <2>1. /\ Pass("ae", "ec") /\ Room("ae") /\ Room("ec") /\ "ae" \in Hops /\ "ec" \in Hops
        /\ HopTypes
    BY <1>1 DEF CopyPortion, Hops, Rooms
  <2> QED BY <2>1, PassCounts
<1>O. /\ edge \in {"copy", "tee"} /\ x # End
      /\ UNCHANGED <<request, edge, agent, copy, session, fin, peers, stored>>
      /\ \/ edge = "tee" /\ ~over /\ Teed + 1 <= Limit /\ cb' = Append(cb, x) /\ over' = over
         \/ over' = (edge = "tee") /\ cb' = cb
  BY DEF CopyPortion, Teed
<1>A. aeLive =>
      /\ x \in Told[aeAt + 1]
      /\ Along(buf'["ae"], aeAt + 1, Told) /\ Along(wire'["ae"], aeAt + 1 + InHand("ae")', Told)
  <2>1. Pass("ae", "ec") /\ "ae" \in Hops /\ "ec" \in Hops /\ HopTypes
    BY <1>1 DEF CopyPortion, Hops
  <2>2. aeAt \in Int
    BY <1>1, EcEnd DEF aeAt, Lengths
  <2> HIDE DEF x
  <2>3. aeLive => Along(buf["ae"], aeAt, Told) /\ Along(wire["ae"], aeAt + InHand("ae"), Told)
    BY DEF Inv, Down, ToEdge
  <2> QED BY <2>1, <2>2, <2>3, PassAlong DEF x
<1> HIDE DEF x
<1>T. aeAt \in Nat /\ ecEnd \in Nat /\ (edge = "tee" /\ ~over => aeAt = Teed)
      /\ (aeLive /\ "client" \notin gone => aeAt = ecEnd)
  BY <1>1, <1>O, EcEnd DEF aeAt, Lengths, Inv, Down, Captured
<1>D. aeLive => x \in Portions /\ x = aeAt + 1 /\ x <= sent["app"]
  <2>1. aeLive => x \in Spoken[aeAt + 1]
    BY <1>O, <1>A, <1>T, ToldAt
  <2> QED BY <1>1, <1>O, <1>T, <2>1, SpokenAt
<1>2. /\ UNCHANGED <<kind, cacheable, body, edge, agent, copy, session, fin, app, gone, sent, got,
                      stored>>
      /\ edge \in {"copy", "tee"} /\ HopTypes' /\ cb' \in Seq(Portions) /\ Teed' <= Limit
      /\ over' \in BOOLEAN
  <2>1. HopTypes'
    BY <1>P
  <2>2. cb' = cb \/ (x \in Portions /\ cb' = Append(cb, x) /\ Teed + 1 <= Limit)
    BY <1>O, <1>D DEF aeLive
  <2>3. cb' \in Seq(Portions) /\ Teed' <= Limit
    <3>1. cb \in Seq(Portions) /\ Teed <= Limit
      BY <1>1 DEF DataTypes
    <3>2. CASE x \in Portions /\ cb' = Append(cb, x) /\ Teed + 1 <= Limit
      <4>1. Append(cb, x) \in Seq(Portions) /\ Len(Append(cb, x)) = Len(cb) + 1
        BY <3>1, <3>2
      <4> QED BY <3>2, <4>1 DEF Teed
    <3> QED BY <2>2, <3>1, <3>2 DEF Teed
  <2>4. over' \in BOOLEAN
    BY <1>1 DEF CopyPortion, ControlTypes
  <2> QED BY <2>1, <2>3, <2>4 DEF CopyPortion, request, choice, peers
<1>3. /\ Kept("ce") /\ Kept("al") /\ Kept("la") /\ Kept("ea")
      /\ InHand("ec")' = InHand("ec") /\ buf'["ec"] = buf["ec"]
      /\ OnWay("ec")' = OnWay("ec") + (IF "client" \in gone THEN 0 ELSE 1)
      /\ "client" \in gone => wire'["ec"] = wire["ec"]
      /\ Room("ae")' /\ Room("ec")'
      /\ InHand("ae")' + OnWay("ae")' = InHand("ae") + OnWay("ae") - 1
      /\ wire["ae"] = <<>> => wire'["ae"] = <<>>
      /\ wire["ae"] # <<>> \/ buf["ae"] # <<>>
  BY <1>P, DeafHops DEF Hops
<1>4. ControlTypes' /\ DataTypes' /\ Rooms'
  <2>1. ControlTypes' BY <1>1, <1>2 DEF ControlTypes
  <2>2. DataTypes' BY <1>0, <1>1, <1>2 DEF DataTypes
  <2>3. Rooms' BY <1>1, <1>3, Sizes DEF Rooms, Room
  <2> QED BY <2>1, <2>2, <2>3
<1>5. StreamTypeOK' /\ Lengths' /\ Zeros'
  BY <1>2, <1>4, TypePartsPrime, TypeLengths, TypeZeros
<1>6. Stages'
  <2>1. Relays' BY <1>1, <1>2, <1>3 DEF Stages, Relays, Requested, Replied
  <2>2. Requested' BY <1>0, <1>1, <1>2, <1>3 DEF Stages, Relays, Requested
  <2>3. Replied' BY <1>0, <1>1, <1>2, <1>3 DEF Stages, Relays, Replied
  <2>4. Readers' BY <1>0, <1>1, <1>2, <1>3 DEF Stages, Relays, Readers
  <2> QED BY <2>1, <2>2, <2>3, <2>4 DEF Stages
<1>7. Ends' BY <1>1, <1>2, <1>3 DEF Ends
<1>e. ecAt' = ecAt /\ ecEnd' = ecEnd + (IF "client" \in gone THEN 0 ELSE 1)
  <2>1. ecAt' = ecAt
    <3>1. CASE "client" \in gone
      BY <1>0, <1>2, <1>3, <3>1 DEF ecAt
    <3>2. CASE "client" \notin gone
      BY <1>0, <1>1, <1>2, <1>D, <1>O, <1>P, <3>2, DeafHops, EcAppend, HeadTypes DEF aeLive
    <3> QED BY <3>1, <3>2
  <2> QED BY <1>1, <1>3, <2>1, EcEnd DEF ecEnd, Rooms, Room
<1>V. aeLive' => aeLive /\ aeAt' = aeAt + 1
  <2>1. aeLive' => aeLive
    BY <1>O, <1>2 DEF aeLive
  <2>2. CASE cb' = cb /\ over' = (edge = "tee")
    BY <1>O, <1>2, <1>T, <1>e, <2>1, <2>2 DEF aeLive, aeAt
  <2>3. CASE edge = "tee" /\ ~over /\ Teed + 1 <= Limit /\ cb' = Append(cb, x) /\ over' = over
    <3>1. Teed' = Teed + 1
      BY <1>1, <1>D, <2>3 DEF aeLive, DataTypes, Teed
    <3> QED BY <1>2, <1>T, <2>1, <2>3, <3>1 DEF aeAt
  <2> QED BY <1>O, <2>2, <2>3
<1>W. aeLive' => aeEnd' = aeEnd
  <2>1. /\ InHand("ae") \in Nat /\ OnWay("ae") \in Nat /\ InHand("ae")' \in Nat
        /\ OnWay("ae")' \in Nat
        /\ aeAt \in Nat /\ InHand("ae")' + OnWay("ae")' = InHand("ae") + OnWay("ae") - 1
    BY <1>1, <1>3, <1>4, <1>5, <1>T DEF Lengths, Rooms, Room
  <2> QED BY <1>V, <2>1 DEF aeEnd
<1>8. Down'
  <2>1. Spoken' = Spoken /\ Told' = Told BY <1>2 DEF Spoken, Told
  <2>2. ToClient'
    <3>1. /\ Along(wire["ec"], ecAt, Switched) /\ Along(got["client"], 0, Count)
          /\ ecAt = -1 => got["client"] = <<>> /\ kind = "upgrade"
      BY DEF Inv, Down, ToClient
    <3>2. "client" \notin gone => x \in Switched[ecAt + OnWay("ec") + 1]
      BY <1>D, <1>O, <1>T DEF aeLive, ecEnd, Switched, Count, Portions
    <3>3. Along(wire'["ec"], ecAt, Switched)
      BY <1>1, <1>P, <3>1, <3>2, DeafHops, WrittenAlong, EcEnd DEF Hops
    <3> QED BY <1>2, <1>e, <3>1, <3>3 DEF ToClient, Switched, Count, Portions
  <2>3. Captured'
    <3>1. Along(cb, 0, Count) /\ Teed <= sent["app"]
      BY DEF Inv, Down, Captured
    <3>2. CASE cb' = cb /\ over' = (edge = "tee")
      BY <1>0, <1>2, <3>1, <3>2 DEF Captured, Count, Portions
    <3>3. CASE edge = "tee" /\ ~over /\ Teed + 1 <= Limit /\ cb' = Append(cb, x) /\ over' = over
      <4>1. x \in Portions /\ x = Teed + 1 /\ x <= sent["app"]
        BY <1>D, <1>T, <3>3 DEF aeLive
      <4>2. cb \in Seq(Portions) /\ Teed \in Nat
        BY <1>1 DEF DataTypes, Lengths
      <4>3. x \in Count[0 + Len(cb) + 1]
        BY <4>1, <4>2 DEF Count, Portions, Teed
      <4>4. Along(cb', 0, Count) /\ Teed' = Teed + 1
        BY <3>1, <3>3, <4>1, <4>2, <4>3, AlongAppend DEF Teed
      <4>5. "client" \notin gone => ecEnd' = Teed'
        BY <1>T, <1>e, <3>3, <4>4 DEF aeLive
      <4> QED BY <1>2, <4>1, <4>4, <4>5 DEF Captured, Count, Portions
    <3> QED BY <1>O, <3>2, <3>3
  <2>4. ToEdge' BY <1>A, <1>V, <2>1 DEF ToEdge
  <2>5. ToAgent'
    <3>1. laLive' => laLive /\ laAt' = laAt
      BY <1>2, <1>V, <1>W DEF laLive, laAt
    <3> QED BY <1>1, <1>2, <1>3, <2>1, <3>1 DEF ToAgent, AppAt
  <2> QED BY <2>2, <2>3, <2>4, <2>5 DEF Down
<1>9. Up'
  <2>1. ToApp'
    BY <1>0, <1>1, <1>2, <1>3, <1>4, <1>5 DEF Lengths, Rooms, Room, Stages, Relays, Requested,
       ToApp, alAt, alEnd, Asked, Count, Portions
  <2>2. FromClient'
    BY <1>0, <1>1, <1>2, <1>3, <1>4, <1>5 DEF Lengths, Rooms, Room, Stages, Relays,
       FromClient, alAt, alEnd, Count, Portions
  <2> QED BY <2>1, <2>2 DEF Up
<1>10. Losses'
  BY <1>1, <1>2, <1>3 DEF Stages, Relays, Losses, Reasons, EdgeCopies, AgentCopies, Closing,
     Linked
<1>11. StoredIsWhole' BY <1>1, <1>2 DEF StoredIsWhole
<1> QED BY <1>5, <1>6, <1>7, <1>8, <1>9, <1>10, <1>11 DEF Inv

\* forwardLive returns: its deferred Closes drop what it has not read, and may
\* lose the last of what it wrote to the client.
LEMMA CloseBothKeeps ==
  ASSUME Inv, CloseBoth PROVE Inv'
<1> USE DEF Late, Early, Begun, Joined, Answered, Heard, Kept
<1>1. /\ ControlTypes /\ DataTypes /\ HopTypes /\ Rooms /\ Lengths
      /\ Stages /\ Ends /\ Zeros
      /\ ToClient /\ Captured /\ ToEdge /\ ToAgent /\ ToApp /\ FromClient
      /\ Reasons /\ EdgeCopies /\ AgentCopies /\ Closing /\ StoredIsWhole
  BY TypeParts, TypeLengths, TypeZeros DEF Inv, Down, Up, Losses
<1>0. /\ got' = got => /\ Arrivals("client")' = Arrivals("client")
                       /\ Arrivals("app")' = Arrivals("app")
      /\ cb' = cb => Teed' = Teed
  BY CountsKept
<1>M. /\ HopTypes' /\ fin' \in [Hops -> BOOLEAN]
      /\ \A f \in Hops : fin'[f] = (f \in {"ea", "ec"} \/ fin[f])
      /\ \A f \in Hops \ {"ae", "ce", "ec"} : wire'[f] = wire[f]
      /\ wire'["ae"] = <<>> /\ wire'["ce"] = <<>>
      /\ \E n \in 0..Len(wire["ec"]) :
           /\ wire["ce"] = <<>> => n = Len(wire["ec"])
           /\ wire'["ec"] = SubSeq(wire["ec"], 1, n) /\ Len(wire'["ec"]) = n
  BY <1>1, CloseMoves DEF CloseBoth, Hops, DataTypes
<1>2. /\ UNCHANGED <<kind, cacheable, body, agent, copy, session, app, gone, sent, got, cb, over,
                      stored>>
      /\ edge = "close" /\ edge' = "returned" /\ HopTypes' /\ fin' \in [Hops -> BOOLEAN]
  BY <1>M DEF CloseBoth, EdgeGoes, request, choice, peers, tee
<1>3. /\ Kept("al") /\ Kept("la") /\ Kept("ea")
      /\ buf' = buf /\ InHand("ce")' = InHand("ce") /\ InHand("ae")' = InHand("ae")
      /\ wire'["ae"] = <<>> /\ wire'["ce"] = <<>> /\ OnWay("ce")' = 0 /\ OnWay("ae")' = 0
      /\ OnWay("ec")' \in Nat /\ OnWay("ec")' <= OnWay("ec")
      /\ wire["ce"] = <<>> => Kept("ec")
      /\ wire["ec"] = <<>> => wire'["ec"] = <<>>
      /\ wire'["ec"] # <<>> => Head(wire'["ec"]) = Head(wire["ec"])
      /\ \A n \in Int : \A T : Along(wire["ec"], n, T) => Along(wire'["ec"], n, T)
      /\ fin'["ce"] = fin["ce"] /\ fin'["la"] = fin["la"] /\ fin'["ae"] = fin["ae"]
      /\ fin'["ea"]
  <2>1. PICK n \in 0..Len(wire["ec"]) :
          /\ wire["ce"] = <<>> => n = Len(wire["ec"])
          /\ wire'["ec"] = SubSeq(wire["ec"], 1, n) /\ Len(wire'["ec"]) = n
    BY <1>M
  <2>2. wire["ec"] \in Seq(Items)
    BY <1>1 DEF HopTypes, Hops
  <2>3. /\ n = Len(wire["ec"]) => wire'["ec"] = wire["ec"]
        /\ wire["ec"] = <<>> => wire'["ec"] = <<>>
        /\ wire'["ec"] # <<>> => Head(wire'["ec"]) = Head(wire["ec"])
    BY <2>1, <2>2
  <2>4. ASSUME NEW m \in Int, NEW T, Along(wire["ec"], m, T) PROVE Along(wire'["ec"], m, T)
    BY <2>1, <2>2, <2>4, AlongPrefix
  <2>5. OnWay("ec")' \in Nat /\ OnWay("ec")' <= OnWay("ec")
    BY <2>1 DEF OnWay
  <2>6. wire'["ae"] = <<>> /\ wire'["ce"] = <<>> /\ OnWay("ce")' = 0 /\ OnWay("ae")' = 0
    BY <1>M, LenEmpty DEF OnWay
  <2>7. buf' = buf /\ InHand("ce")' = InHand("ce") /\ InHand("ae")' = InHand("ae")
    BY DEF CloseBoth, InHand
  <2>8. Kept("al") /\ Kept("la") /\ Kept("ea") /\ (wire["ce"] = <<>> => Kept("ec"))
    BY <1>M, <2>1, <2>3, <2>7, KeptWhere DEF Hops
  <2>9. fin'["ce"] = fin["ce"] /\ fin'["la"] = fin["la"] /\ fin'["ae"] = fin["ae"] /\ fin'["ea"]
    BY <1>1, <1>M DEF Hops, DataTypes
  <2> QED BY <2>3, <2>4, <2>5, <2>6, <2>7, <2>8, <2>9
<1>4. ControlTypes' /\ DataTypes' /\ Rooms'
  <2>1. ControlTypes' BY <1>1, <1>2 DEF ControlTypes
  <2>2. DataTypes' BY <1>0, <1>1, <1>2 DEF DataTypes
  <2>3. Rooms' BY <1>1, <1>3, Sizes DEF Rooms, Room
  <2> QED BY <2>1, <2>2, <2>3
<1>5. StreamTypeOK' /\ Lengths' /\ Zeros'
  BY <1>2, <1>4, TypePartsPrime, TypeLengths, TypeZeros
<1>6. Stages'
  <2>1. Relays' BY <1>1, <1>2, <1>3 DEF Stages, Relays, Requested, Replied
  <2>2. Requested' BY <1>0, <1>1, <1>2, <1>3 DEF Stages, Relays, Requested
  <2>3. Replied' BY <1>0, <1>1, <1>2, <1>3 DEF Stages, Relays, Replied
  <2>4. Readers' BY <1>1, <1>2, <1>3, Sizes DEF Stages, Relays, Readers
  <2> QED BY <2>1, <2>2, <2>3, <2>4 DEF Stages
<1>7. Ends' BY <1>1, <1>2, <1>3 DEF Ends
<1>e. /\ wire'["ec"] # <<>> => ecAt' = ecAt
      /\ ecEnd' <= ecEnd /\ ecEnd' \in Nat /\ ecEnd \in Nat
      /\ (wire["ce"] = <<>> => ecEnd' = ecEnd)
  <2>1. wire'["ec"] # <<>> => ecAt' = ecAt
    BY <1>0, <1>2, <1>3 DEF ecAt
  <2>2. ecAt \in Int /\ ecEnd \in Nat /\ ecEnd' \in Nat
    BY <1>1, <1>4, <1>5, EcEnd
  <2>3. wire["ce"] = <<>> => ecEnd' = ecEnd
    BY <1>0, <1>2, <1>3 DEF ecAt, ecEnd
  <2>4. CASE wire'["ec"] # <<>>
    BY <1>1, <1>3, <2>1, <2>2, <2>3, <2>4 DEF ecEnd, Rooms, Room
  <2>5. CASE wire'["ec"] = <<>>
    <3>1. ecEnd' = Arrivals("client") /\ Arrivals("client") \in Nat
      BY <1>0, <1>1, <1>2, <1>5, <2>5 DEF ecEnd, ecAt, Zeros, Lengths
    <3>2. ecAt = -1 => Arrivals("client") = 0
      BY <1>1 DEF Inv, Down, ToClient, Zeros
    <3>3. ecAt # -1 => ecAt = Arrivals("client")
      BY DEF ecAt
    <3>4. Arrivals("client") <= ecEnd
      BY <1>1, <2>2, <3>1, <3>2, <3>3 DEF ecEnd, Rooms, Room
    <3> QED BY <2>2, <2>3, <2>5, <3>1, <3>4
  <2> QED BY <2>4, <2>5
<1>8. Down'
  <2>1. Spoken' = Spoken /\ Told' = Told BY <1>2 DEF Spoken, Told
  <2>2. ToClient'
    <3>1. /\ Along(wire["ec"], ecAt, Switched) /\ Along(got["client"], 0, Count)
          /\ ecAt = -1 => got["client"] = <<>> /\ kind = "upgrade"
      BY DEF Inv, Down, ToClient
    <3>2. ecAt \in Int
      BY <1>1, EcEnd
    <3>3. Along(wire'["ec"], ecAt', Switched)
      BY <1>3, <1>e, <3>1, <3>2, AlongEmpty
    <3>4. ecAt' = -1 => got["client"] = <<>> /\ kind = "upgrade"
      BY <1>0, <1>1, <1>2, <1>e, <3>1 DEF ecAt, Lengths
    <3> QED BY <1>2, <3>1, <3>3, <3>4 DEF ToClient, Switched, Count, Portions
  <2>3. Captured' BY <1>1, <1>0, <1>2, <1>3, <1>e DEF Lengths, Captured, Count, Portions
  <2>4. ToEdge' BY <1>2 DEF ToEdge, aeLive
  <2>5. ToAgent'
    <3>1. laLive' => agent \in Early /\ laLive /\ laAt' = laAt
      BY <1>2 DEF laLive, laAt, aeLive
    <3> QED BY <1>2, <1>3, <2>1, <3>1 DEF Inv, Down, ToAgent, AppAt
  <2> QED BY <2>2, <2>3, <2>4, <2>5 DEF Down
<1>9. Up'
  <2>1. ToApp'
    BY <1>0, <1>1, <1>2, <1>3, <1>4, <1>5 DEF Lengths, Rooms, Room, Stages, Relays, Requested,
       ToApp, alAt, alEnd, Asked, Count, Portions
  <2>2. FromClient'
    BY <1>0, <1>1, <1>2, <1>3, <1>4, <1>5 DEF Lengths, Rooms, Room, Stages, Relays,
       FromClient, alAt, alEnd, Count, Portions
  <2> QED BY <2>1, <2>2 DEF Up
<1>10. Losses'
  <2>1. /\ UpTotal' \in Int /\ UpTotal \in Int /\ DownTotal' \in Int /\ DownTotal \in Int
        /\ UpTotal' = UpTotal - OnWay("ce") /\ DownTotal' <= DownTotal
        /\ InHand("ae") > 0 \/ OnWay("ae") > 0 => DownTotal' < DownTotal
        /\ OnWay("ce") = 0 /\ InHand("ae") = 0 /\ OnWay("ae") = 0 => DownTotal' = DownTotal
        /\ OnWay("ce") \in Nat /\ InHand("ae") \in Nat /\ OnWay("ae") \in Nat
    <3>2. /\ ecEnd' <= ecEnd /\ ecEnd' \in Nat /\ ecEnd \in Nat
          /\ (OnWay("ce") = 0 => ecEnd' = ecEnd)
      BY <1>1, <1>e DEF Zeros
    <3>3. /\ OnWay("ce") \in Nat /\ InHand("ae") \in Nat /\ OnWay("ae") \in Nat
          /\ InHand("la") \in Nat
          /\ OnWay("la") \in Nat /\ OnWay("ea") \in Nat /\ OnWay("al") \in Nat
          /\ Arrivals("app") \in Nat
          /\ InHand("ce") \in Nat
      BY <1>1 DEF Lengths, Rooms, Room
    <3>4. UpTotal' = Arrivals("app") + OnWay("al") + OnWay("ea") + InHand("ce") + 0
      BY <1>0, <1>2, <1>3 DEF UpTotal
    <3>5. UpTotal' = UpTotal - OnWay("ce") /\ UpTotal \in Int /\ UpTotal' \in Int
      BY <3>3, <3>4 DEF UpTotal
    <3>6. DownTotal' = ecEnd' + 0 + 0 - 0 + InHand("la") + OnWay("la")
      BY <1>2, <1>3 DEF DownTotal
    <3>7. DownTotal = ecEnd + InHand("ae") + OnWay("ae") - 0 + InHand("la") + OnWay("la")
      BY <1>2 DEF DownTotal
    <3>8. /\ DownTotal' \in Int /\ DownTotal \in Int /\ DownTotal' <= DownTotal
          /\ InHand("ae") > 0 \/ OnWay("ae") > 0 => DownTotal' < DownTotal
          /\ OnWay("ce") = 0 /\ InHand("ae") = 0 /\ OnWay("ae") = 0 => DownTotal' = DownTotal
      BY <3>2, <3>3, <3>6, <3>7
    <3> QED BY <3>3, <3>5, <3>8
  <2>2. Reasons'
    <3> SUFFICES ASSUME Linked' PROVE /\ UpTotal' <= sent["client"] /\ DownTotal' <= sent["app"]
                                      /\ UpTotal' # sent["client"]
                                           => fin["la"] \/ DownTotal' # sent["app"]
                                      /\ DownTotal' # sent["app"]
                                           => fin["ce"] \/ UpTotal' # sent["client"]
      BY <1>2, <1>3 DEF Reasons, LostUp, LostDown
    <3>0. Linked /\ Joined
      BY <1>2 DEF Linked
    <3>1. /\ UpTotal <= sent["client"] /\ DownTotal <= sent["app"]
          /\ UpTotal # sent["client"] => fin["la"] \/ DownTotal # sent["app"]
          /\ DownTotal # sent["app"] => fin["ce"] \/ UpTotal # sent["client"]
      BY <1>1, <3>0 DEF Reasons, LostUp, LostDown
    <3>2. /\ agent \in {"close", "returned"} => fin["la"]
          /\ fin["ce"] \/ agent = "returned"
          /\ copy["ce"] = "done" \/ copy["ae"] = "done"
          /\ "client" \in gone => fin["ce"]
      BY <1>1, <1>2, <3>0 DEF Closing, Stages, Relays, Ends
    <3>3. /\ copy["ce"] = "done" => \/ fin["ce"] /\ OnWay("ce") = 0
                                    \/ agent = "returned" /\ (OnWay("ce") # 0 \/ UpTotal # sent["client"])
          /\ copy["ae"] = "done" =>
               \/ agent = "returned" /\ InHand("ae") = 0 /\ OnWay("ae") = 0
               \/ "client" \in gone /\ (InHand("ae") # 0 \/ OnWay("ae") # 0 \/ DownTotal # sent["app"])
      BY <1>1, <1>2, <3>0 DEF EdgeCopies, LostUp, LostDown, Zeros
    <3>4. sent["client"] \in Nat /\ sent["app"] \in Nat
      BY <1>1 DEF Lengths
    <3>5. /\ UpTotal' <= sent["client"] /\ DownTotal' <= sent["app"]
          /\ OnWay("ce") # 0 \/ UpTotal # sent["client"] => UpTotal' # sent["client"]
          /\ InHand("ae") # 0 \/ OnWay("ae") # 0 \/ DownTotal # sent["app"]
               => DownTotal' # sent["app"]
          /\ OnWay("ce") = 0 => UpTotal' = UpTotal
          /\ OnWay("ce") = 0 /\ InHand("ae") = 0 /\ OnWay("ae") = 0 => DownTotal' = DownTotal
      BY <2>1, <3>1, <3>4
    <3> QED BY <3>1, <3>2, <3>3, <3>5
  <2>3. EdgeCopies' BY <1>2 DEF EdgeCopies
  <2>4. AgentCopies'
    <3>1. sent["app"] \in Nat /\ sent["client"] \in Nat
      BY <1>1 DEF Lengths
    <3>2. Linked' => Linked /\ UpTotal <= sent["client"] /\ DownTotal <= sent["app"]
      BY <1>1, <1>2 DEF Reasons, Linked
    <3>a. UpTotal' <= UpTotal /\ UpTotal' \in Int /\ UpTotal \in Int
      BY <2>1
    <3>3. Linked' /\ LostUp => LostUp'
      BY <1>2, <3>a, <3>1, <3>2 DEF LostUp
    <3> QED BY <1>1, <1>2, <1>3, <3>2, <3>3 DEF AgentCopies
  <2>5. Closing' BY <1>1, <1>2, <1>3 DEF Closing, Linked
  <2> QED BY <2>2, <2>3, <2>4, <2>5 DEF Losses
<1>11. StoredIsWhole' BY <1>1, <1>2 DEF StoredIsWhole
<1> QED BY <1>5, <1>6, <1>7, <1>8, <1>9, <1>10, <1>11 DEF Inv

\* forwardLive takes the client's socket over and writes the 101 to it.
LEMMA HijackKeeps ==
  ASSUME Inv, Hijack PROVE Inv'
<1> USE DEF Late, Early, Begun, Joined, Answered, Heard, Kept
<1>1. /\ ControlTypes /\ DataTypes /\ HopTypes /\ Rooms /\ Lengths
      /\ Stages /\ Ends /\ Zeros
      /\ ToClient /\ Captured /\ ToEdge /\ ToAgent /\ ToApp /\ FromClient
      /\ Reasons /\ EdgeCopies /\ AgentCopies /\ Closing /\ StoredIsWhole
  BY TypeParts, TypeLengths, TypeZeros DEF Inv, Down, Up, Losses
<1>0. /\ got' = got => /\ Arrivals("client")' = Arrivals("client")
                       /\ Arrivals("app")' = Arrivals("app")
      /\ cb' = cb => Teed' = Teed
  BY CountsKept
<1>H. HopTypes'
  <2>1. CASE UNCHANGED <<wire, buf>>
    BY <1>1, <2>1 DEF HopTypes
  <2>2. CASE \E n \in 0..Len(wire["ce"]) :
               /\ buf' = [buf EXCEPT !["ce"] = SubSeq(wire["ce"], 1, n)]
               /\ wire' = Written([wire EXCEPT !["ce"] = SubSeq(@, n + 1, Len(@))], "ec", <<Switch>>)
    <3>1. PICK n \in 0..Len(wire["ce"]) :
               /\ buf' = [buf EXCEPT !["ce"] = SubSeq(wire["ce"], 1, n)]
               /\ wire' = Written([wire EXCEPT !["ce"] = SubSeq(@, n + 1, Len(@))], "ec", <<Switch>>)
      BY <2>2
    <3>2. /\ SubSeq(wire["ce"], 1, n) \in Seq(Items)
          /\ SubSeq(wire["ce"], n + 1, Len(wire["ce"])) \in Seq(Items)
      <4>1. wire["ce"] \in Seq(Items)
        BY <1>1 DEF HopTypes, Hops
      <4> QED BY <3>1, <4>1, CutTypes
    <3>3. [wire EXCEPT !["ce"] = SubSeq(@, n + 1, Len(@))] \in [Hops -> Seq(Items)]
      BY <1>1, <3>2 DEF HopTypes
    <3>4. <<Switch>> \in Seq(Items) /\ "ec" \in Hops
      BY HeadTypes DEF Hops
    <3>5. wire' \in [Hops -> Seq(Items)]
      BY <3>1, <3>3, <3>4, WriteMoves
    <3>6. buf' \in [Hops -> Seq(Items)]
      BY <1>1, <3>1, <3>2 DEF HopTypes
    <3> QED BY <3>5, <3>6 DEF HopTypes
  <2> QED BY <2>1, <2>2 DEF Hijack
<1>2. /\ UNCHANGED <<kind, cacheable, body, agent, copy, session, fin, app, gone, sent, got, cb,
                      over, stored>>
      /\ edge = "hijack" /\ edge' \in {"drain", "close"} /\ HopTypes' /\ Begun /\ ~Joined
      /\ edge' = "close" => "client" \in gone
  BY <1>1, <1>H, DeafHops, BrokenHops DEF Hijack, EdgeGoes, WriteFails, request, choice, peers,
     tee, Stages, Relays
<1>3. /\ Kept("al") /\ Kept("la") /\ Kept("ea") /\ Kept("ae")
      /\ buf'["ec"] = buf["ec"] /\ Room("ce")' /\ Room("ec")'
      /\ InHand("ce")' + OnWay("ce")' = InHand("ce") + OnWay("ce") /\ InHand("ce") = 0
      /\ InHand("ce")' \in Nat /\ InHand("ce")' <= Window /\ OnWay("ce")' <= Window
      /\ edge' = "close" => buf'["ce"] = <<>>
      /\ Along(wire["ce"], 0, Count) =>
           Along(buf'["ce"], 0, Count) /\ Along(wire'["ce"], InHand("ce")', Count)
      /\ \/ wire'["ec"] = <<>> /\ "client" \in gone
         \/ wire'["ec"] # <<>> /\ Head(wire'["ec"]) = Switch /\ OnWay("ec")' = 1 /\ "client" \notin gone
            /\ Along(wire'["ec"], -1, Switched)
  <2>1. wire["ec"] = <<>> /\ InHand("ce") = 0 /\ OnWay("ec") = 0 /\ buf["ce"] = <<>>
    BY <1>1, <1>2 DEF Stages, Readers, Zeros
  <2>2. OnWay("ce") \in Nat /\ OnWay("ce") <= Window
    BY <1>1 DEF Rooms, Room, Stages, Readers
  <2>3. CASE edge' = "close"
    <3>1. wire' = wire /\ buf' = buf /\ "client" \in gone
      BY <1>2, <2>3 DEF Hijack, EdgeGoes
    <3>2. InHand("ce")' = 0 /\ OnWay("ce")' = OnWay("ce") /\ OnWay("ec")' = OnWay("ec")
      BY <2>1, <3>1 DEF InHand, OnWay
    <3>3. Along(wire["ce"], 0, Count) =>
            Along(buf'["ce"], 0, Count) /\ Along(wire'["ce"], InHand("ce")', Count)
      BY <2>1, <3>1, <3>2, AlongEmpty
    <3>4. Kept("al") /\ Kept("la") /\ Kept("ea") /\ Kept("ae")
      BY <3>1, KeptWhere
    <3>5. Room("ce")' /\ Room("ec")' /\ 0 <= Window
      BY <1>1, <3>2, Sizes DEF Rooms, Room
    <3> QED BY <2>1, <2>2, <2>3, <3>1, <3>2, <3>3, <3>4, <3>5
  <2>4. CASE edge' = "drain"
    <3>1. PICK n \in 0..Len(wire["ce"]) :
            /\ wire' = Written([wire EXCEPT !["ce"] = SubSeq(@, n + 1, Len(@))], "ec", <<Switch>>)
            /\ buf' = [buf EXCEPT !["ce"] = SubSeq(wire["ce"], 1, n)]
      BY <1>2, <2>4 DEF Hijack, EdgeGoes
    <3>2. /\ wire["ce"] \in Seq(Items) /\ Len(wire["ce"]) \in Nat /\ n \in Nat
          /\ n <= Len(wire["ce"])
      BY <1>1, <3>1 DEF HopTypes, Hops
    <3>3. /\ wire'["ce"] = SubSeq(wire["ce"], n + 1, Len(wire["ce"]))
          /\ wire'["ec"] = IF "client" \in gone THEN wire["ec"] ELSE wire["ec"] \o <<Switch>>
          /\ \A f \in Hops \ {"ce", "ec"} : wire'[f] = wire[f]
      BY <1>1, <3>1, DeafHops DEF Written, HopTypes, Hops
    <3>4. buf'["ce"] = SubSeq(wire["ce"], 1, n) /\ \A f \in Hops \ {"ce"} : buf'[f] = buf[f]
      BY <1>1, <3>1 DEF HopTypes, Hops
    <3>5. Len(wire'["ce"]) = Len(wire["ce"]) - n /\ Len(buf'["ce"]) = n
      BY <3>2, <3>3, <3>4
    <3>6. Along(wire["ce"], 0, Count) => Along(buf'["ce"], 0, Count) /\ Along(wire'["ce"], n, Count)
      <4>1. Along(wire["ce"], 0, Count) => Along(SubSeq(wire["ce"], 1, n), 0, Count)
        BY <3>2, AlongCut
      <4>2. Along(wire["ce"], 0, Count) => Along(SubSeq(wire["ce"], n + 1, Len(wire["ce"])), n, Count)
        BY <3>2, AlongCut
      <4> QED BY <3>3, <3>4, <4>1, <4>2
    <3>7. OnWay("ce")' = OnWay("ce") - n /\ InHand("ce")' = n /\ n <= OnWay("ce") /\ n \in Nat
      BY <3>2, <3>5 DEF OnWay, InHand
    <3>8. /\ InHand("ce")' + OnWay("ce")' = InHand("ce") + OnWay("ce")
          /\ InHand("ce")' \in Nat /\ InHand("ce")' <= Window /\ OnWay("ce")' <= Window
          /\ Room("ce")'
      BY <2>1, <2>2, <3>7, Sizes DEF Room
    <3>9. Kept("al") /\ Kept("la") /\ Kept("ea") /\ Kept("ae") /\ buf'["ec"] = buf["ec"]
      BY <3>3, <3>4, KeptWhere DEF Hops
    <3>10. CASE "client" \in gone
      <4>1. wire'["ec"] = <<>> /\ Room("ec")'
        BY <2>1, <3>3, <3>10, LenEmpty, Sizes DEF Room, OnWay
      <4> QED BY <2>1, <2>4, <3>6, <3>7, <3>8, <3>9, <3>10, <4>1
    <3>11. CASE "client" \notin gone
      <4>1. wire'["ec"] = Append(<<>>, Switch)
        BY <2>1, <3>3, <3>11
      <4>2. /\ Append(<<>>, Switch) # <<>> /\ Head(Append(<<>>, Switch)) = Switch
            /\ Len(Append(<<>>, Switch)) = 1
        OBVIOUS
      <4>3. Along(Append(<<>>, Switch), -1, Switched)
        <5>1. Len(Append(<<>>, Switch)) = 1 /\ Append(<<>>, Switch)[1] = Switch
          OBVIOUS
        <5>2. Switch \in Switched[0] /\ \A i \in 1..1 : i = 1 /\ -1 + i = 0
          BY DEF Switched
        <5> QED BY <5>1, <5>2 DEF Along
      <4>4. OnWay("ec")' = 1
        BY <4>1, <4>2 DEF OnWay
      <4>5. Room("ec")'
        BY <4>4, Sizes DEF Room
      <4>6. /\ wire'["ec"] # <<>> /\ Head(wire'["ec"]) = Switch
            /\ Along(wire'["ec"], -1, Switched)
        BY <4>1, <4>2, <4>3
      <4> QED BY <2>1, <2>4, <3>6, <3>7, <3>8, <3>9, <3>11, <4>4, <4>5, <4>6
    <3> QED BY <3>10, <3>11
  <2> QED BY <1>2, <2>3, <2>4
<1>4. ControlTypes' /\ DataTypes' /\ Rooms'
  <2>1. ControlTypes' BY <1>1, <1>2 DEF ControlTypes
  <2>2. DataTypes' BY <1>0, <1>1, <1>2 DEF DataTypes
  <2>3. Rooms' BY <1>1, <1>3, Sizes DEF Rooms, Room
  <2> QED BY <2>1, <2>2, <2>3
<1>5. StreamTypeOK' /\ Lengths' /\ Zeros'
  BY <1>2, <1>4, TypePartsPrime, TypeLengths, TypeZeros
<1>6. Stages'
  <2>1. Relays' BY <1>1, <1>2, <1>3 DEF Stages, Relays, Requested, Replied
  <2>2. Requested' BY <1>0, <1>1, <1>2, <1>3 DEF Stages, Relays, Requested
  <2>3. Replied' BY <1>0, <1>1, <1>2, <1>3 DEF Stages, Relays, Replied
  <2>4. Readers' BY <1>1, <1>2, <1>3, Sizes DEF Stages, Relays, Readers
  <2> QED BY <2>1, <2>2, <2>3, <2>4 DEF Stages
<1>7. Ends' BY <1>1, <1>2, <1>3 DEF Ends
<1>e. /\ ecEnd' = 0 /\ ecEnd = 0
      /\ wire'["ec"] = <<>> => ecAt' = 0
      /\ wire'["ec"] # <<>> => ecAt' = -1
  <2>1. /\ wire["ec"] = <<>> /\ Arrivals("client") = 0 /\ OnWay("ec") = 0
        /\ Arrivals("client")' = 0
    BY <1>0, <1>1, <1>2 DEF Stages, Readers, Zeros
  <2>2. wire'["ec"] = <<>> => OnWay("ec")' = 0
    BY <1>5 DEF Zeros
  <2> QED BY <1>3, <2>1, <2>2 DEF ecAt, ecEnd
<1>V. aeLive' => aeLive /\ aeAt' = aeAt /\ aeEnd' = aeEnd
  BY <1>2, <1>3, <1>e DEF aeLive, aeAt, aeEnd
<1>8. Down'
  <2>1. Spoken' = Spoken /\ Told' = Told BY <1>2 DEF Spoken, Told
  <2>2. ToClient'
    <3>1. Along(got["client"], 0, Count) /\ got["client"] = <<>> /\ kind = "upgrade"
      BY <1>1, <1>2 DEF ToClient, Stages, Relays, Readers
    <3>2. Along(wire'["ec"], ecAt', Switched)
      BY <1>3, <1>e, AlongEmpty
    <3> QED BY <1>2, <3>1, <3>2 DEF ToClient, Switched, Count, Portions
  <2>3. Captured' BY <1>1, <1>0, <1>2, <1>3, <1>e DEF Lengths, Captured, Count, Portions
  <2>4. ToEdge' BY <1>1, <1>3, <1>V, <2>1 DEF ToEdge
  <2>5. ToAgent'
    <3>1. laLive' => laLive /\ laAt' = laAt
      BY <1>2, <1>V DEF laLive, laAt
    <3> QED BY <1>1, <1>2, <1>3, <2>1, <3>1 DEF ToAgent, AppAt
  <2> QED BY <2>2, <2>3, <2>4, <2>5 DEF Down
<1>9. Up'
  <2>1. ToApp'
    BY <1>0, <1>1, <1>2, <1>3, <1>4, <1>5 DEF Lengths, Rooms, Room, Stages, Relays, Requested,
       ToApp, alAt, alEnd, Asked, Count, Portions
  <2>2. FromClient'
    <3>1. /\ Along(buf["ce"], 0, Count) /\ Along(wire["ce"], InHand("ce"), Count)
          /\ InHand("ce") + OnWay("ce") = sent["client"]
      BY <1>1, <1>2 DEF FromClient
    <3>2. Along(buf'["ce"], 0, Count) /\ Along(wire'["ce"], InHand("ce")', Count)
      BY <1>3, <3>1
    <3> QED BY <1>2, <1>3, <3>1, <3>2 DEF FromClient, Count, Portions
  <2> QED BY <2>1, <2>2 DEF Up
<1>10. Losses'
  <2>1. Linked' => Linked /\ UpTotal' = UpTotal /\ DownTotal' = DownTotal
    <3>1. Linked' => Linked /\ edge' = "drain"
      BY <1>2 DEF Linked
    <3>2. UpTotal' = UpTotal
      <4>1. /\ Arrivals("app") \in Nat /\ OnWay("al") \in Nat /\ OnWay("ea") \in Nat
            /\ InHand("ce") \in Nat /\ OnWay("ce") \in Nat /\ InHand("ce")' \in Nat
            /\ OnWay("ce")' \in Nat
        BY <1>1, <1>4, <1>5 DEF Lengths, Rooms, Room
      <4>2. UpTotal' = Arrivals("app") + OnWay("al") + OnWay("ea") + InHand("ce")' + OnWay("ce")'
        BY <1>0, <1>2, <1>3 DEF UpTotal
      <4>3. InHand("ce")' + OnWay("ce")' = InHand("ce") + OnWay("ce")
        BY <1>3
      <4> QED BY <4>1, <4>2, <4>3 DEF UpTotal
    <3>3. edge' = "drain" => DownTotal' = DownTotal
      BY <1>2, <1>3, <1>e DEF DownTotal
    <3> QED BY <3>1, <3>2, <3>3
  <2>2. Reasons' BY <1>1, <1>2, <1>5, <2>1 DEF Lengths, Reasons, Linked, LostUp, LostDown
  <2>3. EdgeCopies' BY <1>1, <1>2 DEF EdgeCopies, Stages, Relays
  <2>4. AgentCopies' BY <1>1, <1>2, <1>3, <1>5, <2>1 DEF AgentCopies, Linked, LostUp, LostDown
  <2>5. Closing' BY <1>1, <1>2, <1>3 DEF Stages, Relays, Closing, Linked
  <2> QED BY <2>2, <2>3, <2>4, <2>5 DEF Losses
<1>11. StoredIsWhole' BY <1>1, <1>2 DEF StoredIsWhole
<1> QED BY <1>5, <1>6, <1>7, <1>8, <1>9, <1>10, <1>11 DEF Inv

\* What the hijacked reader holds goes up before the goroutines start.
LEMMA DrainKeeps ==
  ASSUME Inv, Drain PROVE Inv'
<1> USE DEF Late, Early, Begun, Joined, Answered, Heard, Kept
<1>1. /\ ControlTypes /\ DataTypes /\ HopTypes /\ Rooms /\ Lengths
      /\ Stages /\ Ends /\ Zeros
      /\ ToClient /\ Captured /\ ToEdge /\ ToAgent /\ ToApp /\ FromClient
      /\ Reasons /\ EdgeCopies /\ AgentCopies /\ Closing /\ StoredIsWhole
  BY TypeParts, TypeLengths, TypeZeros DEF Inv, Down, Up, Losses
<1>0. /\ got' = got => /\ Arrivals("client")' = Arrivals("client")
                       /\ Arrivals("app")' = Arrivals("app")
      /\ cb' = cb => Teed' = Teed
  BY CountsKept
<1>2. /\ UNCHANGED <<kind, cacheable, body, agent, session, fin, app, gone, sent, got, cb, over,
                      stored>>
      /\ edge = "drain" /\ edge' \in {"relay", "close"} /\ HopTypes' /\ Begun /\ Begun'
      /\ ~Joined
      /\ edge' = "relay" => copy' = [copy EXCEPT !["ce"] = "run", !["ae"] = "run"]
      /\ edge' = "relay" => session \/ buf["ce"] = <<>>
      /\ edge' = "close" => copy' = copy /\ wire' = wire /\ buf' = buf
      /\ copy' \in [{"ce", "ae", "ea", "la"} -> {"none", "run", "done"}]
  <2>1. CASE edge' = "close"
    BY <1>1, <2>1 DEF Drain, EdgeGoes, request, choice, peers, tee, Stages, Relays, HopTypes,
       ControlTypes
  <2>2. CASE edge' = "relay"
    <3>1. /\ edge = "drain" /\ (~Broken("ea") \/ buf["ce"] = <<>>)
          /\ wire' = Written(wire, "ea", buf["ce"])
          /\ buf' = [buf EXCEPT !["ce"] = <<>>]
          /\ copy' = [copy EXCEPT !["ce"] = "run", !["ae"] = "run"]
      BY <2>2 DEF Drain, EdgeGoes
    <3>2. "ea" \in Hops /\ buf["ce"] \in Seq(Items) /\ <<>> \in Seq(Items)
      BY <1>1 DEF HopTypes, Hops
    <3>3. HopTypes'
      BY <1>1, <3>1, <3>2, WriteMoves DEF HopTypes
    <3>4. /\ Begun /\ Begun' /\ ~Joined
          /\ copy' \in [{"ce", "ae", "ea", "la"} -> {"none", "run", "done"}]
      BY <1>1, <3>1 DEF Stages, Relays, ControlTypes
    <3> QED BY <2>2, <3>1, <3>3, <3>4, BrokenHops DEF Drain, request, choice, peers, tee
  <2> QED BY <2>1, <2>2 DEF Drain, EdgeGoes
<1>3. /\ Kept("al") /\ Kept("la") /\ Kept("ae") /\ Kept("ec")
      /\ wire'["ce"] = wire["ce"] /\ OnWay("ce")' = OnWay("ce") /\ wire["ea"] = <<>>
      /\ OnWay("ea") = 0
      /\ buf'["ea"] = buf["ea"]
      /\ edge' = "close" => Kept("ce") /\ Kept("ea")
      /\ edge' = "relay" => buf'["ce"] = <<>> /\ InHand("ce")' = 0
      /\ edge' = "relay" /\ agent = "returned" => Kept("ea")
      /\ edge' = "relay" /\ agent # "returned"
           => wire'["ea"] = buf["ce"] /\ OnWay("ea")' = InHand("ce")
      /\ Room("ea")'
  <2>1. wire["ea"] = <<>> /\ OnWay("ea") = 0 /\ InHand("ce") \in Nat /\ InHand("ce") <= Window
    BY <1>1, <1>2 DEF Stages, Relays, Requested, Readers, Zeros, Lengths
  <2>2. CASE edge' = "close"
    BY <1>1, <1>2, <2>1, <2>2, KeptWhere DEF Rooms, Room
  <2>3. CASE edge' = "relay"
    <3>1. /\ wire' = Written(wire, "ea", buf["ce"])
          /\ buf' = [buf EXCEPT !["ce"] = <<>>]
      BY <1>2, <2>3 DEF Drain, EdgeGoes
    <3>2. "ea" \in Hops /\ buf["ce"] \in Seq(Items)
      BY <1>1 DEF HopTypes, Hops
    <3>3. /\ \A h \in Hops : wire'[h] = IF h = "ea" /\ agent # "returned"
                                     THEN wire["ea"] \o buf["ce"] ELSE wire[h]
          /\ \A h \in Hops \ {"ce"} : buf'[h] = buf[h]
          /\ buf'["ce"] = <<>>
      BY <1>1, <3>1, <3>2, WriteMoves, DeafHops DEF HopTypes, Hops
    <3>4. wire["ea"] \o buf["ce"] = buf["ce"]
      BY <2>1, <3>2
    <3>5. /\ Kept("al") /\ Kept("la") /\ Kept("ae") /\ Kept("ec")
          /\ wire'["ce"] = wire["ce"] /\ OnWay("ce")' = OnWay("ce") /\ buf'["ea"] = buf["ea"]
          /\ agent = "returned" => Kept("ea")
      BY <3>3, KeptWhere DEF Hops, OnWay
    <3>6. buf'["ce"] = <<>> /\ InHand("ce")' = 0
      BY <3>3, LenEmpty DEF InHand
    <3>7. agent # "returned" => wire'["ea"] = buf["ce"] /\ OnWay("ea")' = InHand("ce")
      BY <3>2, <3>3, <3>4 DEF OnWay, InHand
    <3>8. Room("ea")'
      BY <1>1, <2>1, <3>5, <3>7, Sizes DEF Rooms, Room
    <3> QED BY <2>1, <2>3, <3>5, <3>6, <3>7, <3>8
  <2> QED BY <1>2, <2>2, <2>3
<1>4. ControlTypes' /\ DataTypes' /\ Rooms'
  <2>1. ControlTypes' BY <1>1, <1>2 DEF ControlTypes
  <2>2. DataTypes' BY <1>0, <1>1, <1>2 DEF DataTypes
  <2>3. Rooms' BY <1>1, <1>3, Sizes DEF Rooms, Room
  <2> QED BY <2>1, <2>2, <2>3
<1>5. StreamTypeOK' /\ Lengths' /\ Zeros'
  BY <1>2, <1>4, TypePartsPrime, TypeLengths, TypeZeros
<1>6. Stages'
  <2>1. Relays' BY <1>1, <1>2, <1>3 DEF Stages, Relays, Requested, Replied
  <2>2. Requested' BY <1>0, <1>1, <1>2, <1>3 DEF Stages, Relays, Requested
  <2>3. Replied' BY <1>0, <1>1, <1>2, <1>3 DEF Stages, Relays, Replied
  <2>4. Readers' BY <1>1, <1>2, <1>3, Sizes DEF Stages, Relays, Readers
  <2> QED BY <2>1, <2>2, <2>3, <2>4 DEF Stages
<1>7. Ends' BY <1>1, <1>2, <1>3 DEF Ends
<1>e. ecAt' = ecAt /\ ecEnd' = ecEnd BY <1>0, <1>2, <1>3 DEF ecAt, ecEnd
<1>V. aeLive' => aeLive /\ aeAt' = aeAt /\ aeEnd' = aeEnd
  BY <1>2, <1>3, <1>e DEF aeLive, aeAt, aeEnd
<1>L. Linked' => Linked /\ edge' = "relay"
  BY <1>2 DEF Linked
<1>Z. session => alEnd = 0
  <2>1. session => Linked
    BY <1>2 DEF Linked
  <2>2. session => UpTotal <= sent["client"]
    BY <1>1, <2>1 DEF Reasons
  <2>3. InHand("ce") + OnWay("ce") = sent["client"]
    BY <1>1, <1>2 DEF FromClient
  <2>4. /\ Arrivals("app") \in Nat /\ OnWay("al") \in Nat /\ OnWay("ea") \in Nat
        /\ InHand("ce") \in Nat /\ OnWay("ce") \in Nat
    BY <1>1 DEF Lengths, Rooms, Room
  <2>5. session => Arrivals("app") = 0 /\ OnWay("al") = 0
    BY <2>2, <2>3, <2>4 DEF UpTotal
  <2>6. app # "listen"
    BY <1>1, <1>2 DEF Stages, Relays
  <2> QED BY <2>5, <2>6 DEF alEnd, alAt
<1>8. Down'
  <2>1. Spoken' = Spoken /\ Told' = Told BY <1>2 DEF Spoken, Told
  <2>2. ToClient' BY <1>1, <1>0, <1>2, <1>3, <1>e DEF ToClient, Switched, Count, Portions
  <2>3. Captured' BY <1>1, <1>0, <1>2, <1>3, <1>e DEF Lengths, Captured, Count, Portions
  <2>4. ToEdge' BY <1>1, <1>3, <1>V, <2>1 DEF ToEdge
  <2>5. ToAgent'
    <3>1. laLive' => laLive /\ laAt' = laAt
      BY <1>2, <1>V DEF laLive, laAt
    <3> QED BY <1>1, <1>2, <1>3, <2>1, <3>1 DEF ToAgent, AppAt
  <2> QED BY <2>2, <2>3, <2>4, <2>5 DEF Down
<1>9. Up'
  <2>1. ToApp'
    <3>1. alAt' = alAt /\ alEnd' = alEnd
      BY <1>0, <1>2, <1>3 DEF alAt, alEnd
    <3>2. Along(buf["ce"], 0, Count)
      BY <1>1, <1>2 DEF FromClient
    <3>3. edge' = "relay" /\ agent # "returned" => Along(wire'["ea"], alEnd, Count)
      BY <1>2, <1>3, <1>Z, <3>2, AlongEmpty
    <3>4. edge' = "close" \/ agent = "returned" => wire'["ea"] = wire["ea"]
      BY <1>2, <1>3
    <3> QED BY <1>1, <1>2, <1>3, <3>1, <3>3, <3>4 DEF ToApp, Asked, Count, Portions
  <2>2. FromClient'
    <3>1. /\ Along(buf["ce"], 0, Count) /\ Along(wire["ce"], InHand("ce"), Count)
          /\ InHand("ce") + OnWay("ce") = sent["client"]
      BY <1>1, <1>2 DEF FromClient
    <3>2. CASE edge' = "close"
      BY <1>2, <1>3, <3>1, <3>2 DEF FromClient, Count, Portions
    <3>3. CASE edge' = "relay"
      <4>1. alEnd' = alEnd /\ (session => alEnd = 0)
        BY <1>0, <1>2, <1>3, <1>Z DEF alAt, alEnd
      <4>2. InHand("ce") \in Nat /\ OnWay("ce") \in Nat
        BY <1>1 DEF Lengths, Rooms, Room
      <4>3. session /\ agent # "returned" => alEnd' + OnWay("ea")' = InHand("ce")
        BY <1>3, <3>3, <4>1, <4>2
      <4> QED BY <1>2, <1>3, <3>1, <3>3, <4>2, <4>3 DEF FromClient, Count, Portions
    <3> QED BY <1>2, <3>2, <3>3
  <2> QED BY <2>1, <2>2 DEF Up
<1>10. Losses'
  <2>1. /\ edge' = "relay"
             => UpTotal' = UpTotal - (IF agent = "returned" THEN InHand("ce") ELSE 0)
        /\ DownTotal' = DownTotal /\ UpTotal \in Int /\ InHand("ce") \in Nat
    <3>1. /\ Arrivals("app") \in Nat /\ OnWay("al") \in Nat /\ OnWay("ea") \in Nat
          /\ InHand("ce") \in Nat /\ OnWay("ce") \in Nat
      BY <1>1 DEF Lengths, Rooms, Room
    <3>2. edge' = "relay"
            => UpTotal' = Arrivals("app") + OnWay("al") + OnWay("ea")' + 0 + OnWay("ce")
      BY <1>0, <1>2, <1>3 DEF UpTotal
    <3>3. edge' = "relay" => OnWay("ea")' = IF agent = "returned" THEN 0 ELSE InHand("ce")
      BY <1>3
    <3>4. OnWay("ea") = 0
      BY <1>3
    <3>5. DownTotal' = DownTotal
      BY <1>2, <1>3, <1>e DEF DownTotal
    <3> QED BY <3>1, <3>2, <3>3, <3>4, <3>5 DEF UpTotal
  <2>2. Reasons'
    <3> SUFFICES ASSUME Linked' PROVE Reasons'
      BY DEF Reasons
    <3>1. /\ UpTotal <= sent["client"] /\ DownTotal <= sent["app"]
          /\ UpTotal # sent["client"] => fin["la"] \/ DownTotal # sent["app"]
          /\ DownTotal # sent["app"] => fin["ce"] \/ UpTotal # sent["client"]
      BY <1>1, <1>L DEF Reasons, LostUp, LostDown
    <3>2. agent = "returned" => fin["la"]
      BY <1>1, <1>2, <1>L DEF Closing
    <3>3. edge' = "relay" /\ sent["client"] \in Nat
      BY <1>1, <1>L DEF Lengths
    <3>4. /\ UpTotal' <= sent["client"]
          /\ agent # "returned" => UpTotal' = UpTotal
          /\ UpTotal # sent["client"] => UpTotal' # sent["client"]
      BY <2>1, <3>1, <3>3
    <3> QED BY <1>2, <2>1, <3>1, <3>2, <3>4 DEF Reasons, LostUp, LostDown
  <2>3. EdgeCopies' BY <1>2, <1>L DEF EdgeCopies, ControlTypes
  <2>4. AgentCopies'
    <3>1. Linked' => Linked /\ UpTotal <= sent["client"] /\ sent["client"] \in Nat
      BY <1>1, <1>L DEF Reasons, Lengths
    <3>2. Linked' /\ LostUp => LostUp'
      BY <1>2, <1>L, <2>1, <3>1 DEF LostUp
    <3>3. copy'["la"] = copy["la"] /\ copy'["ea"] = copy["ea"]
      BY <1>1, <1>2 DEF ControlTypes
    <3>4. DownTotal' = DownTotal
      BY <2>1
    <3> QED BY <1>1, <1>2, <1>3, <1>L, <3>2, <3>3, <3>4 DEF AgentCopies, LostDown
  <2>5. Closing' BY <1>1, <1>2, <1>3, <1>L DEF Closing
  <2> QED BY <2>2, <2>3, <2>4, <2>5 DEF Losses
<1>11. StoredIsWhole' BY <1>1, <1>2 DEF StoredIsWhole
<1> QED BY <1>5, <1>6, <1>7, <1>8, <1>9, <1>10, <1>11 DEF Inv

-----------------------------------------------------------------------------
(* handleStream.                                                           *)

\* handleStream reads the request, or its stream has ended.
LEMMA ReadRequestKeeps ==
  ASSUME Inv, ReadRequest PROVE Inv'
<1> USE DEF Late, Early, Begun, Joined, Answered, Heard, Kept
<1>1. /\ ControlTypes /\ DataTypes /\ HopTypes /\ Rooms /\ Lengths
      /\ Stages /\ Ends /\ Zeros
      /\ ToClient /\ Captured /\ ToEdge /\ ToAgent /\ ToApp /\ FromClient
      /\ Reasons /\ EdgeCopies /\ AgentCopies /\ Closing /\ StoredIsWhole
  BY TypeParts, TypeLengths, TypeZeros DEF Inv, Down, Up, Losses
<1>0. /\ got' = got => /\ Arrivals("client")' = Arrivals("client")
                       /\ Arrivals("app")' = Arrivals("app")
      /\ cb' = cb => Teed' = Teed
  BY CountsKept
<1>2. /\ UNCHANGED <<kind, cacheable, body, edge, copy, session, fin, app, gone, sent, got, cb,
                      over, stored>>
      /\ agent = "idle" /\ agent' \in {"dial", "close"} /\ HopTypes'
      /\ agent' = "close" => wire["ea"] = <<>> /\ (edge = "returned" \/ ~session)
  <2>1. CASE ReadHead("ea") /\ AgentGoes("idle", "dial")
    <3>1. HopTypes'
      BY <1>1, <2>1, ReadHeadMoves DEF Hops
    <3> QED BY <2>1, <3>1 DEF ReadRequest, AgentGoes, request, choice, peers, tee
  <2>2. CASE AgentGoes("idle", "close") /\ AtEOF("ea") /\ UNCHANGED <<wire, buf>>
    <3>1. Unread("ea") = wire["ea"]
      <4>1. wire["ea"] \in Seq(Items)
        BY <1>1 DEF HopTypes, Hops
      <4> QED BY <4>1 DEF Unread, Held
    <3> QED BY <1>1, <2>2, <3>1, BrokenHops DEF ReadRequest, AgentGoes, AtEOF, HopTypes, Ends,
               request, choice, peers, tee
  <2> QED BY <2>1, <2>2 DEF ReadRequest
<1>3. /\ Kept("ce") /\ Kept("al") /\ Kept("la") /\ Kept("ae") /\ Kept("ec")
      /\ Room("ea")' /\ wire'["ea"] = <<>> /\ buf'["ea"] = <<>>
      /\ agent' = "dial" => wire["ea"] # <<>>
  <2>1. OnWay("ea") <= 1 /\ OnWay("ea") \in Nat /\ buf["ea"] = <<>>
    BY <1>1, <1>2 DEF Stages, Relays, Requested, Readers, Rooms, Room
  <2>2. CASE ReadHead("ea")
    <3>1. PICK n \in 1..Len(wire["ea"]) :
            /\ wire["ea"] # <<>> /\ Len(wire'["ea"]) = Len(wire["ea"]) - n
            /\ Len(buf'["ea"]) = n - 1
            /\ \A f \in Hops \ {"ea"} : wire'[f] = wire[f] /\ buf'[f] = buf[f]
      BY <1>1, <2>2, ReadHeadMoves DEF Hops
    <3>2. /\ n \in Nat /\ n >= 1 /\ n <= OnWay("ea") /\ OnWay("ea")' = OnWay("ea") - n
          /\ InHand("ea")' = n - 1
      BY <2>1, <3>1 DEF OnWay, InHand
    <3>3. OnWay("ea")' = 0 /\ InHand("ea")' = 0
      BY <2>1, <3>2
    <3>4. wire'["ea"] \in Seq(Items) /\ buf'["ea"] \in Seq(Items)
      BY <1>2 DEF HopTypes, Hops
    <3>5. wire'["ea"] = <<>> /\ buf'["ea"] = <<>>
      BY <3>3, <3>4 DEF OnWay, InHand
    <3>6. Room("ea")'
      BY <3>3, Sizes DEF Room
    <3> QED BY <3>1, <3>5, <3>6, KeptWhere DEF Hops
  <2>3. CASE ~ReadHead("ea")
    <3>1. wire' = wire /\ buf' = buf /\ agent' = "close"
      BY <2>3 DEF ReadRequest, AgentGoes
    <3> QED BY <1>1, <1>2, <2>1, <3>1, KeptWhere DEF Rooms, Room, OnWay
  <2> QED BY <2>2, <2>3
<1>4. ControlTypes' /\ DataTypes' /\ Rooms'
  <2>1. ControlTypes' BY <1>1, <1>2 DEF ControlTypes
  <2>2. DataTypes' BY <1>0, <1>1, <1>2 DEF DataTypes
  <2>3. Rooms' BY <1>1, <1>3, Sizes DEF Rooms, Room
  <2> QED BY <2>1, <2>2, <2>3
<1>5. StreamTypeOK' /\ Lengths' /\ Zeros'
  BY <1>2, <1>4, TypePartsPrime, TypeLengths, TypeZeros
<1>6. Stages'
  <2>1. Relays' BY <1>1, <1>2, <1>3 DEF Stages, Relays, Requested, Replied
  <2>2. Requested' BY <1>0, <1>1, <1>2, <1>3 DEF Stages, Relays, Requested
  <2>3. Replied' BY <1>0, <1>1, <1>2, <1>3 DEF Stages, Relays, Replied
  <2>4. Readers' BY <1>0, <1>1, <1>2, <1>3 DEF Stages, Relays, Readers
  <2> QED BY <2>1, <2>2, <2>3, <2>4 DEF Stages
<1>7. Ends' BY <1>1, <1>2, <1>3 DEF Ends
<1>e. ecAt' = ecAt /\ ecEnd' = ecEnd BY <1>0, <1>2, <1>3 DEF ecAt, ecEnd
<1>L. laLive' => laLive /\ laAt' = laAt
  BY <1>1, <1>2 DEF laLive, laAt, Stages, Relays
<1>8. Down'
  <2>1. Spoken' = Spoken /\ Told' = Told BY <1>2 DEF Spoken, Told
  <2>2. ToClient' BY <1>1, <1>0, <1>2, <1>3, <1>e DEF ToClient, Switched, Count, Portions
  <2>3. Captured' BY <1>1, <1>0, <1>2, <1>3, <1>e DEF Lengths, Captured, Count, Portions
  <2>4. ToEdge' BY <1>0, <1>1, <1>2, <1>3, <1>e, <2>1 DEF ToEdge, aeLive, aeAt
  <2>5. ToAgent' BY <1>1, <1>2, <1>3, <1>L, <2>1 DEF ToAgent, AppAt
  <2> QED BY <2>2, <2>3, <2>4, <2>5 DEF Down
<1>9. Up'
  <2>1. ToApp'
    BY <1>0, <1>1, <1>2, <1>3, <1>4, <1>5 DEF Lengths, Rooms, Room, Stages, Relays, Requested,
       ToApp, alAt, alEnd, Asked, Count, Portions
  <2>2. FromClient'
    BY <1>0, <1>1, <1>2, <1>3, <1>4, <1>5 DEF Lengths, Rooms, Room, Stages, Relays,
       FromClient, alAt, alEnd, Count, Portions
  <2> QED BY <2>1, <2>2 DEF Up
<1>10. Losses'
  BY <1>1, <1>2, <1>3 DEF Stages, Relays, Losses, Reasons, EdgeCopies, AgentCopies, Closing,
     Linked
<1>11. StoredIsWhole' BY <1>1, <1>2 DEF StoredIsWhole
<1> QED BY <1>5, <1>6, <1>7, <1>8, <1>9, <1>10, <1>11 DEF Inv

\* handleStream dials the app and writes the request, or answers 502.
LEMMA ForwardKeeps ==
  ASSUME Inv, Forward PROVE Inv'
<1> USE DEF Late, Early, Begun, Joined, Answered, Heard, Kept
<1>1. /\ ControlTypes /\ DataTypes /\ HopTypes /\ Rooms /\ Lengths
      /\ Stages /\ Ends /\ Zeros
      /\ ToClient /\ Captured /\ ToEdge /\ ToAgent /\ ToApp /\ FromClient
      /\ Reasons /\ EdgeCopies /\ AgentCopies /\ Closing /\ StoredIsWhole
  BY TypeParts, TypeLengths, TypeZeros DEF Inv, Down, Up, Losses
<1>0. /\ got' = got => /\ Arrivals("client")' = Arrivals("client")
                       /\ Arrivals("app")' = Arrivals("app")
      /\ cb' = cb => Teed' = Teed
  BY CountsKept
<1>F. /\ agent = "dial" /\ agent' \in {"read", "close"} /\ HopTypes' /\ buf' = buf
      /\ agent' = "read" =>
           /\ \A h \in Hops \ {"al"} : wire'[h] = wire[h]
           /\ wire'["al"] = IF "app" \in gone THEN wire["al"] ELSE Append(wire["al"], Request)
      /\ agent' = "close" =>
           /\ \A f \in Hops \ {"ae"} : Kept(f)
           /\ InHand("ae")' = InHand("ae") /\ Room("ae")' /\ Along(wire'["ae"], -1, Told)
           /\ edge = "returned" => wire'["ae"] = <<>>
  <2>1. CASE BadGateway("dial")
    <3>1. agent = "dial" /\ agent' = "close"
      BY <2>1 DEF BadGateway, AgentGoes
    <3>2. wire["ae"] = <<>> /\ ~Answered
      BY <1>1, <3>1 DEF Stages, Requested, Replied
    <3>3. Bad \in Told[0] /\ End \in Told[1]
      BY <3>2 DEF Told
    <3> QED BY <1>1, <2>1, <3>1, <3>2, <3>3, BadGatewayMoves DEF Rooms
  <2>2. CASE /\ AgentGoes("dial", "read") /\ CanWrite("al") /\ UNCHANGED buf
             /\ wire' = Written(wire, "al", <<Request>>)
    <3>1. /\ wire' \in [Hops -> Seq(Items)]
          /\ \A h \in Hops \ {"al"} : wire'[h] = wire[h]
          /\ wire'["al"] = IF Deaf("al") THEN wire["al"] ELSE Append(wire["al"], Request)
      BY <1>1, <2>2, OneWritten, HeadTypes DEF Hops
    <3> QED BY <1>1, <2>2, <3>1, DeafHops DEF AgentGoes, HopTypes
  <2> QED BY <2>1, <2>2 DEF Forward
<1>2. /\ UNCHANGED <<kind, cacheable, body, edge, copy, session, fin, app, gone, sent, got, cb,
                      over, stored>>
      /\ agent = "dial" /\ agent' \in {"read", "close"} /\ HopTypes' /\ ~Begun /\ ~Joined
      /\ ~Answered
      /\ app = "listen" /\ wire["al"] = <<>> /\ edge # "start"
  <2>1. /\ agent = "dial" /\ ~Begun /\ ~Joined /\ ~Answered /\ app = "listen"
        /\ wire["al"] = <<>> /\ edge # "start"
    BY <1>1, <1>F DEF Stages, Relays, Requested
  <2> QED BY <1>1, <1>F, <2>1 DEF Forward, HopTypes, request, choice, peers, tee
<1>3. /\ Kept("ce") /\ Kept("ea") /\ Kept("la") /\ Kept("ec")
      /\ buf'["al"] = buf["al"] /\ buf'["ae"] = buf["ae"] /\ InHand("ae")' = InHand("ae")
      /\ Room("ae")' /\ Room("al")' /\ OnWay("al")' <= 1
      /\ agent' = "read" => Kept("ae") /\ Along(wire'["al"], -1, Asked)
      /\ agent' = "close" => Kept("al") /\ Along(wire'["ae"], -1, Told)
      /\ agent' = "close" /\ edge = "returned" => wire'["ae"] = <<>>
      /\ "app" \in gone => Kept("al")
  <2>1. wire["al"] = <<>> /\ OnWay("al") = 0 /\ wire["ae"] = <<>>
    BY <1>1, <1>2 DEF Stages, Replied, Zeros
  <2>2. CASE agent' = "close"
    <3>1. Kept("ce") /\ Kept("ea") /\ Kept("la") /\ Kept("ec") /\ Kept("al") /\ buf' = buf
      BY <1>F, <2>2 DEF Hops
    <3>2. Room("al")' /\ OnWay("al")' <= 1
      BY <1>1, <2>1, <3>1 DEF Rooms, Room
    <3> QED BY <1>F, <2>2, <3>1, <3>2
  <2>3. CASE agent' = "read"
    <3>1. /\ \A h \in Hops \ {"al"} : wire'[h] = wire[h]
          /\ wire'["al"] = IF "app" \in gone THEN wire["al"] ELSE Append(wire["al"], Request)
          /\ buf' = buf
      BY <1>F, <2>3
    <3>2. /\ Kept("ce") /\ Kept("ea") /\ Kept("la") /\ Kept("ec") /\ Kept("ae")
          /\ "app" \in gone => Kept("al")
      BY <3>1, KeptWhere DEF Hops
    <3>3. Len(Append(<<>>, Request)) = 1 /\ Append(<<>>, Request)[1] = Request
      OBVIOUS
    <3>4. Along(Append(<<>>, Request), -1, Asked)
      <4>1. Request \in Asked[0] /\ \A i \in 1..1 : i = 1 /\ -1 + i = 0
        BY DEF Asked
      <4> QED BY <3>3, <4>1 DEF Along
    <3>5. Along(wire'["al"], -1, Asked)
      BY <2>1, <3>1, <3>4, AlongEmpty
    <3>6. OnWay("al")' \in {0, 1}
      BY <2>1, <3>1, <3>3, LenEmpty DEF OnWay
    <3>7. Room("al")' /\ OnWay("al")' <= 1
      BY <3>6, Sizes DEF Room
    <3> QED BY <1>1, <2>3, <3>1, <3>2, <3>5, <3>7 DEF Rooms, Room
  <2> QED BY <1>2, <2>2, <2>3
<1>4. ControlTypes' /\ DataTypes' /\ Rooms'
  <2>1. ControlTypes' BY <1>1, <1>2 DEF ControlTypes
  <2>2. DataTypes' BY <1>0, <1>1, <1>2 DEF DataTypes
  <2>3. Rooms' BY <1>1, <1>3, Sizes DEF Rooms, Room
  <2> QED BY <2>1, <2>2, <2>3
<1>5. StreamTypeOK' /\ Lengths' /\ Zeros'
  BY <1>2, <1>4, TypePartsPrime, TypeLengths, TypeZeros
<1>6. Stages'
  <2>1. Relays' BY <1>1, <1>2, <1>3 DEF Stages, Relays, Requested, Replied
  <2>2. Requested' BY <1>0, <1>1, <1>2, <1>3 DEF Stages, Relays, Requested
  <2>3. Replied' BY <1>0, <1>1, <1>2, <1>3 DEF Stages, Relays, Replied
  <2>4. Readers' BY <1>0, <1>1, <1>2, <1>3 DEF Stages, Relays, Readers
  <2> QED BY <2>1, <2>2, <2>3, <2>4 DEF Stages
<1>7. Ends' BY <1>1, <1>2, <1>3 DEF Ends
<1>e. ecAt' = ecAt /\ ecEnd' = ecEnd BY <1>0, <1>2, <1>3 DEF ecAt, ecEnd
<1>L. laLive' => laLive /\ laAt' = laAt
  BY <1>1, <1>2 DEF laLive, laAt, Stages, Relays
<1>8. Down'
  <2>1. Spoken' = Spoken /\ Told' = Told BY <1>2 DEF Spoken, Told
  <2>2. ToClient' BY <1>1, <1>0, <1>2, <1>3, <1>e DEF ToClient, Switched, Count, Portions
  <2>3. Captured' BY <1>1, <1>0, <1>2, <1>3, <1>e DEF Lengths, Captured, Count, Portions
  <2>4. ToEdge'
    <3>1. aeLive' => aeLive /\ edge = "read" /\ aeAt' = -1 /\ aeAt = -1
      BY <1>1, <1>2 DEF aeLive, aeAt, Stages, Relays, Replied
    <3>2. buf'["ae"] = <<>> /\ InHand("ae")' = 0
      BY <1>1, <1>2, <1>3 DEF Stages, Replied, Zeros
    <3>3. agent' = "read" => wire'["ae"] = <<>>
      BY <1>1, <1>2, <1>3 DEF Stages, Replied
    <3>4. Along(wire'["ae"], -1, Told) /\ Along(buf'["ae"], -1, Told)
      BY <1>2, <1>3, <3>2, <3>3, AlongEmpty
    <3> QED BY <2>1, <3>1, <3>2, <3>4 DEF ToEdge
  <2>5. ToAgent' BY <1>1, <1>2, <1>3, <1>L, <2>1 DEF ToAgent, AppAt
  <2> QED BY <2>2, <2>3, <2>4, <2>5 DEF Down
<1>9. Up'
  <2>1. ToApp'
    <3>1. Along(wire'["al"], -1, Asked) /\ Along(got["app"], 0, Count)
      BY <1>1, <1>2, <1>3, AlongEmpty DEF ToApp
    <3> QED BY <1>2, <3>1 DEF ToApp, alAt, Asked, Count, Portions
  <2>2. FromClient'
    BY <1>0, <1>1, <1>2, <1>3, <1>4, <1>5 DEF Lengths, Rooms, Room, Stages, Relays,
       FromClient, alAt, alEnd, Count, Portions
  <2> QED BY <2>1, <2>2 DEF Up
<1>10. Losses'
  BY <1>1, <1>2, <1>3 DEF Stages, Relays, Losses, Reasons, EdgeCopies, AgentCopies, Closing,
     Linked
<1>11. StoredIsWhole' BY <1>1, <1>2 DEF StoredIsWhole
<1> QED BY <1>5, <1>6, <1>7, <1>8, <1>9, <1>10, <1>11 DEF Inv

\* handleStream reads the app's head, or answers 502.
LEMMA ReadAnswerKeeps ==
  ASSUME Inv, ReadAnswer PROVE Inv'
<1> USE DEF Late, Early, Begun, Joined, Answered, Heard, Kept
<1>1. /\ ControlTypes /\ DataTypes /\ HopTypes /\ Rooms /\ Lengths
      /\ Stages /\ Ends /\ Zeros
      /\ ToClient /\ Captured /\ ToEdge /\ ToAgent /\ ToApp /\ FromClient
      /\ Reasons /\ EdgeCopies /\ AgentCopies /\ Closing /\ StoredIsWhole
  BY TypeParts, TypeLengths, TypeZeros DEF Inv, Down, Up, Losses
<1>0. /\ got' = got => /\ Arrivals("client")' = Arrivals("client")
                       /\ Arrivals("app")' = Arrivals("app")
      /\ cb' = cb => Teed' = Teed
  BY CountsKept
<1>F. /\ agent = "read" /\ HopTypes' /\ agent' \in {"switch", "reply", "close"}
      /\ agent' # "close" =>
           /\ Heard /\ agent' = IF kind = "upgrade" THEN "switch" ELSE "reply"
           /\ \A f \in Hops \ {"la"} : Kept(f)
           /\ Along(buf'["la"], 0, Spoken) /\ Along(wire'["la"], 0 + InHand("la")', Spoken)
           /\ InHand("la")' \in Nat /\ OnWay("la")' \in Nat /\ OnWay("la") \in Nat
           /\ InHand("la")' + OnWay("la")' = OnWay("la") - 1
      /\ agent' = "close" =>
           /\ ~Answered /\ fin["la"] /\ buf' = buf
           /\ \A f \in Hops \ {"ae"} : Kept(f)
           /\ InHand("ae")' = InHand("ae") /\ Room("ae")' /\ Along(wire'["ae"], -1, Told)
           /\ edge = "returned" => wire'["ae"] = <<>>
      /\ InHand("la") = 0
  <2>1. /\ agent = "read"
    BY DEF ReadAnswer, AgentGoes, BadGateway
  <2>2. wire["ae"] = <<>> /\ buf["la"] = <<>> /\ InHand("la") = 0 /\ wire["la"] \in Seq(Items)
    BY <1>1, <2>1 DEF Stages, Requested, Replied, Zeros, HopTypes, Hops
  <2>3. Along(wire["la"], -1, Spoken) /\ OnWay("la") = AppAt + 1
    <3>1. /\ Along(wire["la"], -1 + 0, Spoken) /\ -1 + 0 + OnWay("la") = AppAt
      BY <1>1, <2>1, <2>2 DEF ToAgent, laLive, laAt
    <3>2. OnWay("la") \in Nat
      BY <1>1 DEF Rooms, Room
    <3> QED BY <3>1, <3>2
  <2>4. CASE BadGateway("read") /\ AtEOF("la")
    <3>1. agent' = "close"
      BY <2>4 DEF BadGateway, AgentGoes
    <3>2. fin["la"] /\ wire["la"] = <<>>
      BY <2>2, <2>4, BrokenHops DEF AtEOF, Unread, Held
    <3>3. AppAt = -1
      <4>1. OnWay("la") = 0
        BY <1>1, <3>2 DEF Zeros
      <4>2. AppAt \in Int
        BY <1>1 DEF AppAt, Lengths
      <4> QED BY <2>3, <4>1, <4>2
    <3>4. ~Answered
      BY <1>1, <3>3 DEF AppAt, Lengths
    <3>5. Bad \in Told[0] /\ End \in Told[1]
      BY <3>4 DEF Told
    <3> QED BY <1>1, <2>1, <2>2, <2>4, <3>1, <3>2, <3>4, <3>5, BadGatewayMoves DEF Rooms
  <2>5. CASE ReadHead("la") /\ AgentGoes("read", IF Head(wire["la"]) = Switch THEN "switch" ELSE "reply")
    <3>1. "la" \in Hops /\ -1 \in Int /\ -1 + 1 = 0
      BY DEF Hops
    <3>2. /\ HopTypes' /\ Head(wire["la"]) \in Spoken[0]
          /\ Along(buf'["la"], 0, Spoken) /\ Along(wire'["la"], 0 + InHand("la")', Spoken)
          /\ InHand("la")' \in Nat /\ OnWay("la")' \in Nat /\ OnWay("la") \in Nat
          /\ InHand("la")' + OnWay("la")' = OnWay("la") - 1
          /\ \A f \in Hops \ {"la"} : Kept(f)
      BY <1>1, <2>3, <2>5, <3>1, ReadHeadAlong
    <3>3. Heard /\ (Head(wire["la"]) = Switch <=> kind = "upgrade")
      BY <3>2, HeadTypes DEF Spoken, ReadAnswer
    <3> QED BY <2>1, <2>2, <2>5, <3>2, <3>3 DEF AgentGoes
  <2> QED BY <2>4, <2>5 DEF ReadAnswer
<1>2. /\ UNCHANGED <<kind, cacheable, body, edge, copy, session, fin, app, gone, sent, got, cb,
                      over, stored>>
      /\ agent = "read" /\ agent' \in {"switch", "reply", "close"} /\ HopTypes' /\ ~Begun
      /\ ~Joined /\ edge # "start"
      /\ agent' # "close" => Heard
      /\ agent' = "switch" => kind = "upgrade"
      /\ agent' = "reply" => kind # "upgrade"
      /\ agent' = "close" => ~Answered /\ fin["la"]
  BY <1>1, <1>F DEF ReadAnswer, Stages, Relays, Requested, request, choice, peers, tee
<1>3. /\ Kept("ce") /\ Kept("ea") /\ Kept("al") /\ Kept("ec")
      /\ buf'["ae"] = buf["ae"] /\ InHand("ae")' = InHand("ae")
      /\ Room("ae")' /\ Room("la")' /\ OnWay("la")' <= Window
      /\ agent' # "close" => Kept("ae") /\ InHand("la")' < Window
      /\ agent' # "close"
           => Along(buf'["la"], 0, Spoken) /\ Along(wire'["la"], 0 + InHand("la")', Spoken)
      /\ agent' # "close" => InHand("la")' + OnWay("la")' = OnWay("la") - 1
      /\ InHand("la") = 0
      /\ agent' = "close" => Kept("la") /\ Along(wire'["ae"], -1, Told)
      /\ agent' = "close" /\ edge = "returned" => wire'["ae"] = <<>>
  <2>1. CASE agent' = "close"
    <3>1. Kept("ce") /\ Kept("ea") /\ Kept("la") /\ Kept("ec") /\ Kept("al") /\ buf' = buf
      BY <1>F, <2>1 DEF Hops
    <3>2. Room("la")' /\ OnWay("la")' <= Window
      BY <1>1, <3>1 DEF Rooms, Room, Stages, Readers
    <3> QED BY <1>F, <2>1, <3>1, <3>2
  <2>2. CASE agent' # "close"
    <3>1. Kept("ce") /\ Kept("ea") /\ Kept("ae") /\ Kept("ec") /\ Kept("al")
      BY <1>F, <2>2 DEF Hops
    <3>2. /\ InHand("la")' \in Nat /\ OnWay("la")' \in Nat /\ OnWay("la") \in Nat
          /\ InHand("la")' + OnWay("la")' = OnWay("la") - 1 /\ OnWay("la") <= Window
      BY <1>1, <1>F, <2>2 DEF Stages, Readers
    <3>3. /\ Room("la")' /\ OnWay("la")' <= Window /\ InHand("la")' < Window
      BY <3>2, Sizes DEF Room
    <3>4. Room("ae")'
      BY <1>1, <3>1 DEF Rooms, Room
    <3> QED BY <1>F, <2>2, <3>1, <3>2, <3>3, <3>4
  <2> QED BY <2>1, <2>2
<1>4. ControlTypes' /\ DataTypes' /\ Rooms'
  <2>1. ControlTypes' BY <1>1, <1>2 DEF ControlTypes
  <2>2. DataTypes' BY <1>0, <1>1, <1>2 DEF DataTypes
  <2>3. Rooms' BY <1>1, <1>3, Sizes DEF Rooms, Room
  <2> QED BY <2>1, <2>2, <2>3
<1>5. StreamTypeOK' /\ Lengths' /\ Zeros'
  BY <1>2, <1>4, TypePartsPrime, TypeLengths, TypeZeros
<1>6. Stages'
  <2>1. Relays' BY <1>1, <1>2, <1>3 DEF Stages, Relays, Requested, Replied
  <2>2. Requested' BY <1>0, <1>1, <1>2, <1>3 DEF Stages, Relays, Requested
  <2>3. Replied' BY <1>0, <1>1, <1>2, <1>3 DEF Stages, Relays, Replied
  <2>4. Readers' BY <1>1, <1>2, <1>3, <1>5 DEF Stages, Relays, Readers
  <2> QED BY <2>1, <2>2, <2>3, <2>4 DEF Stages
<1>7. Ends' BY <1>1, <1>2, <1>3 DEF Ends
<1>e. ecAt' = ecAt /\ ecEnd' = ecEnd BY <1>0, <1>2, <1>3 DEF ecAt, ecEnd
<1>8. Down'
  <2>1. Spoken' = Spoken /\ Told' = Told BY <1>2 DEF Spoken, Told
  <2>2. ToClient' BY <1>1, <1>0, <1>2, <1>3, <1>e DEF ToClient, Switched, Count, Portions
  <2>3. Captured' BY <1>1, <1>0, <1>2, <1>3, <1>e DEF Lengths, Captured, Count, Portions
  <2>4. ToEdge'
    <3>1. aeLive' => aeLive /\ edge = "read" /\ aeAt' = -1 /\ aeAt = -1
      BY <1>1, <1>2 DEF aeLive, aeAt, Stages, Relays, Replied
    <3>2. buf'["ae"] = <<>> /\ InHand("ae")' = 0
      BY <1>1, <1>2, <1>3 DEF Stages, Replied, Zeros
    <3>3. agent' # "close" => wire'["ae"] = <<>>
      BY <1>1, <1>2, <1>3 DEF Stages, Replied
    <3>4. Along(wire'["ae"], -1, Told) /\ Along(buf'["ae"], -1, Told)
      BY <1>2, <1>3, <3>2, <3>3, AlongEmpty
    <3> QED BY <2>1, <3>1, <3>2, <3>4 DEF ToEdge
  <2>5. ToAgent'
    <3>1. laLive' => agent' # "close" /\ laAt' = 0
      BY <1>1, <1>2 DEF laLive, laAt, Stages, Relays
    <3>2. InHand("la") + OnWay("la") = AppAt + 1 /\ AppAt \in Int
      <4>1. -1 + InHand("la") + OnWay("la") = AppAt
        BY <1>1, <1>2 DEF ToAgent, laLive, laAt
      <4>2. AppAt \in Int /\ InHand("la") \in Nat /\ OnWay("la") \in Nat
        BY <1>1 DEF AppAt, Lengths, Rooms, Room
      <4> QED BY <4>1, <4>2
    <3>3. agent' # "close" => 0 + InHand("la")' + OnWay("la")' = AppAt
      <4>1. /\ InHand("la") = 0 /\ OnWay("la") \in Nat /\ InHand("la")' \in Nat
            /\ OnWay("la")' \in Nat
        BY <1>1, <1>3, <1>4, <1>5 DEF Lengths, Rooms, Room
      <4>2. agent' # "close" => InHand("la")' + OnWay("la")' = OnWay("la") - 1
        BY <1>3
      <4> QED BY <3>2, <4>1, <4>2
    <3>4. AppAt' = AppAt
      BY <1>2 DEF AppAt
    <3> QED BY <1>3, <2>1, <3>1, <3>3, <3>4 DEF ToAgent
  <2> QED BY <2>2, <2>3, <2>4, <2>5 DEF Down
<1>9. Up'
  <2>1. ToApp'
    BY <1>0, <1>1, <1>2, <1>3, <1>4, <1>5 DEF Lengths, Rooms, Room, Stages, Relays, Requested,
       ToApp, alAt, alEnd, Asked, Count, Portions
  <2>2. FromClient'
    BY <1>0, <1>1, <1>2, <1>3, <1>4, <1>5 DEF Lengths, Rooms, Room, Stages, Relays,
       FromClient, alAt, alEnd, Count, Portions
  <2> QED BY <2>1, <2>2 DEF Up
<1>10. Losses'
  BY <1>1, <1>2, <1>3 DEF Stages, Relays, Losses, Reasons, EdgeCopies, AgentCopies, Closing,
     Linked
<1>11. StoredIsWhole' BY <1>1, <1>2 DEF StoredIsWhole
<1> QED BY <1>5, <1>6, <1>7, <1>8, <1>9, <1>10, <1>11 DEF Inv

\* req.Write fails on the stream or on the app, and handleStream answers 502.
LEMMA RefuseKeeps ==
  ASSUME Inv, body["agent"] # "passed", BadGateway("read"),
         UNCHANGED <<request, edge, copy, session, fin, peers, tee>>
  PROVE  Inv'
<1> USE DEF Late, Early, Begun, Joined, Answered, Heard, Kept
<1>1. /\ ControlTypes /\ DataTypes /\ HopTypes /\ Rooms /\ Lengths
      /\ Stages /\ Ends /\ Zeros
      /\ ToClient /\ Captured /\ ToEdge /\ ToAgent /\ ToApp /\ FromClient
      /\ Reasons /\ EdgeCopies /\ AgentCopies /\ Closing /\ StoredIsWhole
  BY TypeParts, TypeLengths, TypeZeros DEF Inv, Down, Up, Losses
<1>0. /\ got' = got => /\ Arrivals("client")' = Arrivals("client")
                       /\ Arrivals("app")' = Arrivals("app")
      /\ cb' = cb => Teed' = Teed
  BY CountsKept
<1>F. /\ agent = "read" /\ agent' = "close" /\ HopTypes' /\ ~Heard /\ buf' = buf
      /\ \A f \in Hops \ {"ae"} : Kept(f)
      /\ InHand("ae")' = InHand("ae") /\ Room("ae")' /\ Along(wire'["ae"], -1, Told)
      /\ edge = "returned" => wire'["ae"] = <<>>
  <2>1. agent = "read" /\ agent' = "close"
    BY DEF BadGateway, AgentGoes
  <2>2. wire["ae"] = <<>>
    BY <1>1, <2>1 DEF Stages, Replied
  <2>3. Bad \in Told[0] /\ End \in Told[1]
    BY DEF Told
  <2> QED BY <1>1, <2>1, <2>2, <2>3, BadGatewayMoves DEF Rooms
<1>2. /\ UNCHANGED <<kind, cacheable, body, edge, copy, session, fin, app, gone, sent, got, cb,
                      over, stored>>
      /\ agent = "read" /\ agent' = "close" /\ HopTypes' /\ ~Heard /\ ~Begun
      /\ ~Joined /\ edge # "start"
  BY <1>1, <1>F DEF Stages, Relays, Requested, request, choice, peers, tee
<1>3. /\ Kept("ce") /\ Kept("ea") /\ Kept("al") /\ Kept("la") /\ Kept("ec")
      /\ buf'["ae"] = buf["ae"] /\ InHand("ae")' = InHand("ae")
      /\ Room("ae")' /\ Along(wire'["ae"], -1, Told)
      /\ edge = "returned" => wire'["ae"] = <<>>
  BY <1>F DEF Hops
<1>4. ControlTypes' /\ DataTypes' /\ Rooms'
  <2>1. ControlTypes' BY <1>1, <1>2 DEF ControlTypes
  <2>2. DataTypes' BY <1>0, <1>1, <1>2 DEF DataTypes
  <2>3. Rooms' BY <1>1, <1>3, Sizes DEF Rooms, Room
  <2> QED BY <2>1, <2>2, <2>3
<1>5. StreamTypeOK' /\ Lengths' /\ Zeros'
  BY <1>2, <1>4, TypePartsPrime, TypeLengths, TypeZeros
<1>6. Stages'
  <2>1. Relays' BY <1>1, <1>2, <1>3 DEF Stages, Relays, Requested, Replied
  <2>2. Requested' BY <1>0, <1>1, <1>2, <1>3 DEF Stages, Relays, Requested
  <2>3. Replied' BY <1>0, <1>1, <1>2, <1>3 DEF Stages, Relays, Replied
  <2>4. Readers' BY <1>1, <1>2, <1>3, <1>5 DEF Stages, Relays, Readers
  <2> QED BY <2>1, <2>2, <2>3, <2>4 DEF Stages
<1>7. Ends' BY <1>1, <1>2, <1>3 DEF Ends
<1>e. ecAt' = ecAt /\ ecEnd' = ecEnd BY <1>0, <1>2, <1>3 DEF ecAt, ecEnd
<1>8. Down'
  <2>1. Spoken' = Spoken /\ Told' = Told BY <1>2 DEF Spoken, Told
  <2>2. ToClient' BY <1>1, <1>0, <1>2, <1>3, <1>e DEF ToClient, Switched, Count, Portions
  <2>3. Captured' BY <1>1, <1>0, <1>2, <1>3, <1>e DEF Lengths, Captured, Count, Portions
  <2>4. ToEdge'
    <3>1. aeLive' => aeLive /\ edge = "read" /\ aeAt' = -1 /\ aeAt = -1
      BY <1>1, <1>2 DEF aeLive, aeAt, Stages, Relays, Replied
    <3>2. buf'["ae"] = <<>> /\ InHand("ae")' = 0
      BY <1>1, <1>2, <1>3 DEF Stages, Replied, Zeros
    <3>3. Along(wire'["ae"], -1, Told) /\ Along(buf'["ae"], -1, Told)
      BY <1>3, <3>2, AlongEmpty
    <3> QED BY <2>1, <3>1, <3>2, <3>3 DEF ToEdge
  <2>5. ToAgent'
    <3>1. ~laLive'
      BY <1>1, <1>2 DEF laLive, Stages, Relays
    <3> QED BY <3>1 DEF ToAgent
  <2> QED BY <2>2, <2>3, <2>4, <2>5 DEF Down
<1>9. Up'
  <2>1. ToApp'
    BY <1>0, <1>1, <1>2, <1>3, <1>4, <1>5 DEF Lengths, Rooms, Room, Stages, Relays, Requested,
       ToApp, alAt, alEnd, Asked, Count, Portions
  <2>2. FromClient'
    BY <1>0, <1>1, <1>2, <1>3, <1>4, <1>5 DEF Lengths, Rooms, Room, Stages, Relays,
       FromClient, alAt, alEnd, Count, Portions
  <2> QED BY <2>1, <2>2 DEF Up
<1>10. Losses'
  BY <1>1, <1>2, <1>3 DEF Stages, Relays, Losses, Reasons, EdgeCopies, AgentCopies, Closing,
     Linked
<1>11. StoredIsWhole' BY <1>1, <1>2 DEF StoredIsWhole
<1> QED BY <1>5, <1>6, <1>7, <1>8, <1>9, <1>10, <1>11 DEF Inv

\* handleStream's resp.Write: the head, then the body as it comes.
LEMMA ReplyKeeps ==
  ASSUME Inv, Reply PROVE Inv'
<1> USE DEF Late, Early, Begun, Joined, Answered, Heard, Kept
<1>1. /\ ControlTypes /\ DataTypes /\ HopTypes /\ Rooms /\ Lengths
      /\ Stages /\ Ends /\ Zeros
      /\ ToClient /\ Captured /\ ToEdge /\ ToAgent /\ ToApp /\ FromClient
      /\ Reasons /\ EdgeCopies /\ AgentCopies /\ Closing /\ StoredIsWhole
  BY TypeParts, TypeLengths, TypeZeros DEF Inv, Down, Up, Losses
<1>0. /\ got' = got => /\ Arrivals("client")' = Arrivals("client")
                       /\ Arrivals("app")' = Arrivals("app")
      /\ cb' = cb => Teed' = Teed
  BY CountsKept
<1> DEFINE x == Head(Unread("la"))
           Begins == /\ agent = "reply" /\ agent' = "copy" /\ buf' = buf /\ HopTypes' /\ Room("ae")'
                     /\ \A f \in Hops \ {"ae"} : wire'[f] = wire[f]
                     /\ wire'["ae"] = IF Deaf("ae") THEN wire["ae"] ELSE Append(wire["ae"], Ok)
                     /\ OnWay("ae")' = OnWay("ae") + (IF Deaf("ae") THEN 0 ELSE 1)
           Goes == /\ agent = "copy" /\ agent' = (IF x = End THEN "close" ELSE "copy") /\ session
                   /\ HopTypes' /\ x \in Items
                   /\ wire'["ae"] = IF Deaf("ae") THEN wire["ae"] ELSE Append(wire["ae"], x)
                   /\ buf'["ae"] = buf["ae"] /\ InHand("ae")' = InHand("ae")
                   /\ \A f \in Hops \ {"la", "ae"} : Kept(f)
                   /\ Room("la")' /\ Room("ae")'
                   /\ OnWay("ae")' = OnWay("ae") + (IF Deaf("ae") THEN 0 ELSE 1)
                   /\ OnWay("la")' <= OnWay("la") /\ InHand("la")' \in Nat
                   /\ InHand("la")' + OnWay("la")' = InHand("la") + OnWay("la") - 1
                   /\ \A n \in Int : \A T :
                        Along(buf["la"], n, T) /\ Along(wire["la"], n + InHand("la"), T) =>
                        /\ x \in T[n + 1]
                        /\ Along(buf'["la"], n + 1, T)
                        /\ Along(wire'["la"], n + 1 + InHand("la")', T)
           Stops == agent \in {"reply", "copy"} /\ agent' = "close" /\ wire' = wire /\ buf' = buf
<1>R. Begins \/ Goes \/ Stops
  <2>0. "la" \in Hops /\ "ae" \in Hops /\ Room("la") /\ Room("ae") /\ HopTypes
    BY <1>1 DEF Hops, Rooms
  <2>1. CASE AgentGoes("reply", "copy") /\ CanWrite("ae") /\ buf' = buf /\ wire' = Written(wire, "ae", <<Ok>>)
    <3>1. /\ wire' \in [Hops -> Seq(Items)] /\ Ok \in Items
          /\ \A h \in Hops \ {"ae"} : wire'[h] = wire[h]
          /\ wire'["ae"] = IF Deaf("ae") THEN wire["ae"] ELSE Append(wire["ae"], Ok)
      BY <2>0, <2>1, OneWritten, HeadTypes
    <3>2. /\ Room("ae")'
          /\ OnWay("ae")' = OnWay("ae") + (IF Deaf("ae") THEN 0 ELSE 1)
      BY <2>0, <2>1, <3>1, WrittenRoom
    <3> QED BY <2>0, <2>1, <3>1, <3>2 DEF AgentGoes, HopTypes
  <2>2. CASE Pass("la", "ae") /\ AgentGoes("copy", IF x = End THEN "close" ELSE "copy")
    <3>1. /\ HopTypes' /\ x \in Items
          /\ wire'["ae"] = IF Deaf("ae") THEN wire["ae"] ELSE Append(wire["ae"], x)
          /\ buf'["ae"] = buf["ae"] /\ InHand("ae")' = InHand("ae")
          /\ \A f \in Hops \ {"la", "ae"} : Kept(f)
          /\ Room("la")' /\ Room("ae")'
          /\ OnWay("ae")' = OnWay("ae") + (IF Deaf("ae") THEN 0 ELSE 1)
          /\ OnWay("la")' <= OnWay("la") /\ InHand("la")' \in Nat
          /\ InHand("la")' + OnWay("la")' = InHand("la") + OnWay("la") - 1
      BY <2>0, <2>2, PassCounts
    <3>2. ASSUME NEW n \in Int, NEW T, Along(buf["la"], n, T), Along(wire["la"], n + InHand("la"), T)
          PROVE  /\ x \in T[n + 1]
                 /\ Along(buf'["la"], n + 1, T) /\ Along(wire'["la"], n + 1 + InHand("la")', T)
      BY <2>0, <2>2, <3>2, PassAlong
    <3>3. session /\ agent = "copy" /\ agent' = (IF x = End THEN "close" ELSE "copy")
      BY <1>1, <2>2, BrokenHops DEF AgentGoes, Pass, CanWrite, ControlTypes
    <3> HIDE DEF x
    <3> QED BY <3>1, <3>2, <3>3
  <2>3. CASE (AgentGoes("reply", "close") \/ AgentGoes("copy", "close")) /\ UNCHANGED <<wire, buf>>
    BY <2>3 DEF AgentGoes
  <2> QED BY <2>1, <2>2, <2>3 DEF Reply, AgentGoes
<1> HIDE DEF x
<1>2. /\ UNCHANGED <<kind, cacheable, body, edge, copy, session, fin, app, gone, sent, got, cb,
                      over, stored>>
      /\ agent \in {"reply", "copy"} /\ agent' \in {"copy", "close"} /\ HopTypes'
      /\ kind # "upgrade" /\ Heard /\ ~Begun /\ ~Joined /\ edge # "start"
  <2>1. agent \in {"reply", "copy"} /\ agent' \in {"copy", "close"} /\ HopTypes'
    BY <1>1, <1>R DEF HopTypes
  <2>2. kind # "upgrade" /\ Heard /\ ~Begun /\ ~Joined /\ edge # "start"
    BY <1>1, <2>1 DEF Stages, Relays, Requested, Replied
  <2> QED BY <2>1, <2>2 DEF Reply, request, choice, peers, tee
<1>3. /\ Kept("ce") /\ Kept("ea") /\ Kept("al") /\ Kept("ec")
      /\ buf'["ae"] = buf["ae"] /\ InHand("ae")' = InHand("ae")
      /\ Room("ae")' /\ Room("la")' /\ OnWay("la")' <= Window
      /\ edge = "returned" => wire'["ae"] = wire["ae"]
  <2>1. OnWay("la") <= Window /\ Room("la") /\ Room("ae")
    BY <1>1 DEF Stages, Readers, Rooms
  <2>2. CASE Begins
    <3>1. Kept("ce") /\ Kept("ea") /\ Kept("al") /\ Kept("ec") /\ Kept("la")
      BY <2>2, KeptWhere DEF Hops
    <3> QED BY <2>1, <2>2, <3>1, DeafHops DEF Room, InHand
  <2>3. CASE Goes
    <3>1. Kept("ce") /\ Kept("ea") /\ Kept("al") /\ Kept("ec")
      BY <2>3 DEF Hops
    <3>2. OnWay("la")' <= Window
      BY <2>1, <2>3, Sizes DEF Room
    <3> QED BY <2>1, <2>3, <3>1, <3>2, DeafHops
  <2>4. CASE Stops
    BY <2>1, <2>4, KeptWhere DEF Room, InHand, OnWay
  <2> QED BY <1>R, <2>2, <2>3, <2>4
<1>4. ControlTypes' /\ DataTypes' /\ Rooms'
  <2>1. ControlTypes' BY <1>1, <1>2 DEF ControlTypes
  <2>2. DataTypes' BY <1>0, <1>1, <1>2 DEF DataTypes
  <2>3. Rooms' BY <1>1, <1>3, Sizes DEF Rooms, Room
  <2> QED BY <2>1, <2>2, <2>3
<1>5. StreamTypeOK' /\ Lengths' /\ Zeros'
  BY <1>2, <1>4, TypePartsPrime, TypeLengths, TypeZeros
<1>6. Stages'
  <2>1. Relays' BY <1>1, <1>2, <1>3 DEF Stages, Relays, Requested, Replied
  <2>2. Requested' BY <1>0, <1>1, <1>2, <1>3 DEF Stages, Relays, Requested
  <2>3. Replied' BY <1>0, <1>1, <1>2, <1>3 DEF Stages, Relays, Replied
  <2>4. Readers' BY <1>0, <1>1, <1>2, <1>3 DEF Stages, Relays, Readers
  <2> QED BY <2>1, <2>2, <2>3, <2>4 DEF Stages
<1>7. Ends' BY <1>1, <1>2, <1>3 DEF Ends
<1>e. ecAt' = ecAt /\ ecEnd' = ecEnd BY <1>0, <1>2, <1>3 DEF ecAt, ecEnd
<1>V. (aeLive' <=> aeLive) /\ aeAt' = aeAt /\ aeAt \in Int /\ (aeLive => ~Deaf("ae"))
  <2>1. aeAt \in Int
    BY <1>1, EcEnd DEF aeAt, Lengths
  <2> QED BY <1>0, <1>2, <1>e, <2>1, DeafHops DEF aeLive, aeAt
<1>W. aeLive => aeEnd' = aeEnd + (IF Stops THEN 0 ELSE 1) /\ aeEnd \in Int
  <2>1. InHand("ae") \in Nat /\ OnWay("ae") \in Nat /\ InHand("ae")' = InHand("ae")
    BY <1>1, <1>3 DEF Lengths, Rooms, Room
  <2>2. aeLive => OnWay("ae")' = OnWay("ae") + (IF Stops THEN 0 ELSE 1)
    <3>1. CASE Stops
      BY <3>1 DEF OnWay, Stops
    <3>2. CASE ~Stops
      BY <1>R, <1>V, <3>2
    <3> QED BY <3>1, <3>2
  <2> QED BY <1>V, <2>1, <2>2 DEF aeEnd
<1>B. Begins => /\ laLive /\ laAt = 0
                /\ aeLive => /\ edge = "read" /\ aeEnd = -1 /\ aeAt = -1
                             /\ InHand("ae") = 0 /\ wire["ae"] = <<>>
  <2>1. Begins
          => wire["ae"] = <<>> /\ buf["ae"] = <<>> /\ edge \in {"start", "read", "close", "returned"}
    BY <1>1 DEF Stages, Replied
  <2>2. Begins => OnWay("ae") = 0 /\ InHand("ae") = 0
    BY <1>1, <2>1 DEF Zeros
  <2>3. Begins /\ aeLive => edge = "read"
    BY <1>2, <2>1 DEF aeLive
  <2>4. Begins /\ aeLive => aeAt = -1
    BY <2>3 DEF aeAt
  <2> QED BY <2>1, <2>2, <2>3, <2>4 DEF aeEnd, laAt, laLive
<1>G. Goes /\ aeLive => /\ laLive /\ laAt = aeEnd /\ x \in Spoken[aeEnd + 1]
                        /\ Along(buf'["la"], aeEnd + 1, Spoken)
                        /\ Along(wire'["la"], aeEnd + 1 + InHand("la")', Spoken)
                        /\ aeEnd + InHand("la") + OnWay("la") = AppAt
  <2> SUFFICES ASSUME Goes, aeLive PROVE /\ laLive /\ laAt = aeEnd /\ x \in Spoken[aeEnd + 1]
                        /\ Along(buf'["la"], aeEnd + 1, Spoken)
                        /\ Along(wire'["la"], aeEnd + 1 + InHand("la")', Spoken)
                        /\ aeEnd + InHand("la") + OnWay("la") = AppAt
    OBVIOUS
  <2>1. laLive /\ laAt = aeEnd
    BY DEF laLive, laAt
  <2>2. Along(buf["la"], aeEnd, Spoken) /\ Along(wire["la"], aeEnd + InHand("la"), Spoken)
        /\ aeEnd + InHand("la") + OnWay("la") = AppAt
    BY <1>1, <2>1 DEF ToAgent
  <2> QED BY <1>W, <2>1, <2>2
<1>8. Down'
  <2>1. Spoken' = Spoken /\ Told' = Told BY <1>2 DEF Spoken, Told
  <2>2. ToClient' BY <1>1, <1>0, <1>2, <1>3, <1>e DEF ToClient, Switched, Count, Portions
  <2>3. Captured' BY <1>1, <1>0, <1>2, <1>3, <1>e DEF Lengths, Captured, Count, Portions
  <2>4. ToEdge'
    <3> SUFFICES ASSUME aeLive
                 PROVE  Along(buf'["ae"], aeAt, Told) /\ Along(wire'["ae"], aeAt + InHand("ae"), Told)
      BY <1>3, <1>V, <2>1 DEF ToEdge
    <3>1. Along(buf["ae"], aeAt, Told) /\ Along(wire["ae"], aeAt + InHand("ae"), Told)
      BY <1>1 DEF ToEdge
    <3>2. aeAt + InHand("ae") \in Int /\ aeAt + InHand("ae") + OnWay("ae") = aeEnd
      BY <1>1, <1>V DEF aeEnd, Lengths
    <3>3. CASE Stops
      BY <3>1, <3>3
    <3>4. CASE Begins
      <4>1. Ok \in Told[0] /\ Ok \in Items
        BY <1>2, HeadTypes DEF Told, Spoken
      <4>2. Ok \in Told[aeAt + InHand("ae") + OnWay("ae") + 1]
        BY <1>B, <3>2, <3>4, <4>1
      <4>3. Along(wire'["ae"], aeAt + InHand("ae"), Told)
        BY <1>1, <3>1, <3>2, <3>4, <4>1, <4>2, WrittenAlong DEF Hops
      <4> QED BY <1>3, <3>1, <4>3
    <3>5. CASE Goes
      <4>1. x \in Told[aeAt + InHand("ae") + OnWay("ae") + 1] /\ x \in Items
        <5>1. x \in Spoken[aeEnd + 1] /\ aeEnd + 1 \in Int
          BY <1>G, <1>W, <3>5
        <5>2. x \in Told[aeEnd + 1]
          BY <1>2, <5>1 DEF Told
        <5> QED BY <3>2, <3>5, <5>2
      <4>2. Along(wire'["ae"], aeAt + InHand("ae"), Told)
        BY <1>1, <3>1, <3>2, <3>5, <4>1, WrittenAlong DEF Hops
      <4> QED BY <1>3, <3>1, <4>2
    <3> QED BY <1>R, <3>3, <3>4, <3>5
  <2>5. ToAgent'
    <3> SUFFICES ASSUME laLive'
                 PROVE  /\ Along(buf'["la"], laAt', Spoken)
                        /\ Along(wire'["la"], laAt' + InHand("la")', Spoken)
                        /\ laAt' + InHand("la")' + OnWay("la")' = AppAt
      BY <1>2, <2>1 DEF ToAgent, AppAt
    <3>1. agent' = "copy" /\ session /\ aeLive /\ laAt' = aeEnd'
      BY <1>2, <1>V DEF laLive, laAt
    <3>2. CASE Begins
      <4>1. laAt' = laAt /\ laLive
        BY <1>B, <1>W, <3>1, <3>2
      <4>2. Kept("la")
        BY <3>2, KeptWhere DEF Hops
      <4> QED BY <1>1, <4>1, <4>2 DEF ToAgent
    <3>3. CASE Goes
      <4>1. laAt' = aeEnd + 1 /\ aeEnd \in Int
        BY <1>W, <3>1, <3>3
      <4>2. /\ InHand("la") \in Nat /\ OnWay("la") \in Nat /\ InHand("la")' \in Nat
            /\ OnWay("la")' \in Nat
            /\ InHand("la")' + OnWay("la")' = InHand("la") + OnWay("la") - 1
            /\ aeEnd + InHand("la") + OnWay("la") = AppAt
        BY <1>1, <1>4, <1>5, <1>G, <3>1, <3>3 DEF Lengths, Rooms, Room
      <4>3. laAt' + InHand("la")' + OnWay("la")' = AppAt
        BY <4>1, <4>2
      <4> QED BY <1>G, <3>1, <3>3, <4>1, <4>3
    <3>4. CASE Stops
      BY <3>1, <3>4
    <3> QED BY <1>R, <3>2, <3>3, <3>4
  <2> QED BY <2>2, <2>3, <2>4, <2>5 DEF Down
<1>9. Up'
  <2>1. ToApp'
    BY <1>0, <1>1, <1>2, <1>3, <1>4, <1>5 DEF Lengths, Rooms, Room, Stages, Relays, Requested,
       ToApp, alAt, alEnd, Asked, Count, Portions
  <2>2. FromClient'
    BY <1>0, <1>1, <1>2, <1>3, <1>4, <1>5 DEF Lengths, Rooms, Room, Stages, Relays,
       FromClient, alAt, alEnd, Count, Portions
  <2> QED BY <2>1, <2>2 DEF Up
<1>10. Losses'
  BY <1>1, <1>2, <1>3 DEF Stages, Relays, Losses, Reasons, EdgeCopies, AgentCopies, Closing,
     Linked
<1>11. StoredIsWhole' BY <1>1, <1>2 DEF StoredIsWhole
<1> QED BY <1>5, <1>6, <1>7, <1>8, <1>9, <1>10, <1>11 DEF Inv

\* The agent's passthroughUpgrade writes the 101 and what localR holds, and
\* its goroutines start.
LEMMA SwitchOverKeeps ==
  ASSUME Inv, SwitchOver PROVE Inv'
<1> USE DEF Late, Early, Begun, Joined, Answered, Heard, Kept
<1>1. /\ ControlTypes /\ DataTypes /\ HopTypes /\ Rooms /\ Lengths
      /\ Stages /\ Ends /\ Zeros
      /\ ToClient /\ Captured /\ ToEdge /\ ToAgent /\ ToApp /\ FromClient
      /\ Reasons /\ EdgeCopies /\ AgentCopies /\ Closing /\ StoredIsWhole
  BY TypeParts, TypeLengths, TypeZeros DEF Inv, Down, Up, Losses
<1>0. /\ got' = got => /\ Arrivals("client")' = Arrivals("client")
                       /\ Arrivals("app")' = Arrivals("app")
      /\ cb' = cb => Teed' = Teed
  BY CountsKept
<1>S. /\ agent = "switch" /\ kind = "upgrade" /\ app = "body" /\ Heard /\ ~Begun /\ ~Joined
      /\ edge \in {"read", "close", "returned"}
  <2>1. agent = "switch"
    BY DEF SwitchOver, AgentGoes
  <2>2. /\ kind = "upgrade" /\ Heard /\ ~Begun /\ ~Joined
        /\ edge \in {"read", "close", "returned"}
    BY <1>1, <2>1 DEF Stages, Relays, Requested, Replied
  <2>3. app = "body"
    BY <1>1, <2>2 DEF Stages, Replied
  <2> QED BY <2>1, <2>2, <2>3
<1>2. /\ UNCHANGED <<kind, cacheable, body, edge, session, fin, app, gone, sent, got, cb, over,
                      stored>>
      /\ agent = "switch" /\ agent' \in {"relay", "close"} /\ HopTypes'
      /\ kind = "upgrade" /\ app = "body" /\ Heard /\ ~Begun /\ ~Joined /\ ~Joined'
      /\ edge \in {"read", "close", "returned"}
      /\ copy' \in [{"ce", "ae", "ea", "la"} -> {"none", "run", "done"}]
      /\ agent' = "relay" => session /\ copy' = [copy EXCEPT !["ea"] = "run", !["la"] = "run"]
      /\ agent' = "close" => copy' = copy /\ wire' = wire /\ buf' = buf
  <2>1. CASE agent' = "close"
    BY <1>1, <1>S, <2>1 DEF SwitchOver, AgentGoes, request, choice, peers, tee, HopTypes, ControlTypes
  <2>2. CASE agent' = "relay"
    <3>1. /\ CanWrite("ae")
          /\ wire' = Written(wire, "ae", <<Switch>> \o buf["la"])
          /\ buf' = [buf EXCEPT !["la"] = <<>>]
          /\ copy' = [copy EXCEPT !["ea"] = "run", !["la"] = "run"]
      BY <2>2 DEF SwitchOver, AgentGoes
    <3>2. "ae" \in Hops /\ <<Switch>> \o buf["la"] \in Seq(Items) /\ <<>> \in Seq(Items)
      <4>1. buf["la"] \in Seq(Items) /\ <<Switch>> \in Seq(Items)
        BY <1>1, HeadTypes DEF HopTypes, Hops
      <4> QED BY <4>1 DEF Hops
    <3>3. HopTypes'
      BY <1>1, <3>1, <3>2, WriteMoves DEF HopTypes
    <3>4. ~Joined' /\ copy' \in [{"ce", "ae", "ea", "la"} -> {"none", "run", "done"}]
      BY <1>1, <1>S, <3>1 DEF ControlTypes
    <3>5. session
      BY <1>1, <3>1, BrokenHops DEF CanWrite, ControlTypes
    <3> QED BY <1>S, <2>2, <3>1, <3>3, <3>4, <3>5 DEF SwitchOver, request, choice, peers, tee
  <2> QED BY <2>1, <2>2 DEF SwitchOver, AgentGoes
<1>3. /\ Kept("ce") /\ Kept("ea") /\ Kept("al") /\ Kept("ec")
      /\ wire["ae"] = <<>> /\ OnWay("ae") = 0 /\ buf["ae"] = <<>> /\ buf'["ae"] = <<>>
      /\ InHand("ae") = 0 /\ InHand("ae")' = 0
      /\ wire'["la"] = wire["la"] /\ OnWay("la")' = OnWay("la")
      /\ agent' = "close" => Kept("la") /\ Kept("ae")
      /\ agent' = "relay" => buf'["la"] = <<>> /\ InHand("la")' = 0
      /\ agent' = "relay" /\ edge = "returned" => Kept("ae")
      /\ agent' = "relay" /\ edge # "returned" =>
           Along(wire'["ae"], -1, Told) /\ wire'["ae"] # <<>> /\ OnWay("ae")' = InHand("la") + 1
      /\ Room("ae")'
  <2>1. /\ wire["ae"] = <<>> /\ OnWay("ae") = 0 /\ buf["ae"] = <<>> /\ InHand("ae") = 0
        /\ InHand("la") \in Nat /\ InHand("la") < Window
    BY <1>1, <1>2 DEF Stages, Replied, Readers, Zeros, Lengths
  <2>2. CASE agent' = "close"
    BY <1>1, <1>2, <2>1, <2>2, KeptWhere DEF Rooms, Room, InHand
  <2>3. CASE agent' = "relay"
    <3> DEFINE s == <<Switch>> \o buf["la"]
    <3>1. /\ wire' = Written(wire, "ae", s)
          /\ buf' = [buf EXCEPT !["la"] = <<>>]
      BY <1>2, <2>3 DEF SwitchOver, AgentGoes
    <3>2. buf["la"] \in Seq(Items) /\ <<Switch>> \in Seq(Items) /\ Len(<<Switch>>) = 1
      BY <1>1, HeadTypes DEF HopTypes, Hops
    <3>3. s \in Seq(Items) /\ Len(s) = 1 + Len(buf["la"])
      BY <3>2
    <3>4. Along(s, -1, Told)
      <4>1. Along(<<Switch>>, -1, Told)
        <5>1. Switch \in Told[0] /\ \A i \in 1..1 : i = 1 /\ -1 + i = 0
          BY <1>2 DEF Told, Spoken
        <5> QED BY <3>2, <5>1 DEF Along
      <4>2. Along(buf["la"], 0, Spoken)
        BY <1>1, <1>2 DEF ToAgent, laLive, laAt
      <4>3. Along(buf["la"], 0, Told)
        <5>1. \A k \in Int : Spoken[k] \subseteq Told[k]
          BY <1>2 DEF Told
        <5> QED BY <3>2, <4>2, <5>1, AlongMore
      <4>4. -1 \in Int /\ -1 + Len(<<Switch>>) = 0
        BY <3>2
      <4> QED BY <3>2, <4>1, <4>3, <4>4, AlongConcat
    <3> HIDE DEF s
    <3>5. /\ \A h \in Hops : wire'[h] = IF h = "ae" /\ edge # "returned" THEN wire["ae"] \o s ELSE wire[h]
          /\ \A h \in Hops \ {"la"} : buf'[h] = buf[h]
          /\ buf'["la"] = <<>>
      BY <1>1, <3>1, <3>3, WriteMoves, DeafHops DEF HopTypes, Hops
    <3>6. wire["ae"] \o s = s
      BY <2>1, <3>3
    <3>7. /\ Kept("ce") /\ Kept("ea") /\ Kept("al") /\ Kept("ec")
          /\ wire'["la"] = wire["la"] /\ OnWay("la")' = OnWay("la") /\ buf'["ae"] = buf["ae"]
          /\ edge = "returned" => Kept("ae")
          /\ InHand("ae")' = InHand("ae")
      BY <3>5, KeptWhere DEF Hops, OnWay, InHand
    <3>8. buf'["la"] = <<>> /\ InHand("la")' = 0
      BY <3>5, LenEmpty DEF InHand
    <3>9. edge # "returned" => wire'["ae"] = s
      BY <3>5, <3>6 DEF Hops
    <3>10. OnWay("ae")' = Len(wire'["ae"]) /\ Len(s) = InHand("la") + 1
      BY <2>1, <3>3 DEF OnWay, InHand
    <3>11. edge # "returned" =>
       Along(wire'["ae"], -1, Told) /\ wire'["ae"] # <<>> /\ OnWay("ae")' = InHand("la") + 1
      BY <2>1, <3>4, <3>9, <3>10, LenEmpty
    <3>12. Room("ae")'
      BY <1>1, <2>1, <3>7, <3>11, Sizes DEF Rooms, Room
    <3> QED BY <2>1, <2>3, <3>7, <3>8, <3>11, <3>12
  <2> QED BY <1>2, <2>2, <2>3
<1>4. ControlTypes' /\ DataTypes' /\ Rooms'
  <2>1. ControlTypes' BY <1>1, <1>2 DEF ControlTypes
  <2>2. DataTypes' BY <1>0, <1>1, <1>2 DEF DataTypes
  <2>3. Rooms' BY <1>1, <1>3, Sizes DEF Rooms, Room
  <2> QED BY <2>1, <2>2, <2>3
<1>5. StreamTypeOK' /\ Lengths' /\ Zeros'
  BY <1>2, <1>4, TypePartsPrime, TypeLengths, TypeZeros
<1>6. Stages'
  <2>1. Relays' BY <1>1, <1>2, <1>3 DEF Stages, Relays, Requested, Replied
  <2>2. Requested' BY <1>0, <1>1, <1>2, <1>3 DEF Stages, Relays, Requested
  <2>3. Replied' BY <1>0, <1>1, <1>2, <1>3 DEF Stages, Relays, Replied
  <2>4. Readers' BY <1>1, <1>2, <1>3 DEF Stages, Relays, Readers
  <2> QED BY <2>1, <2>2, <2>3, <2>4 DEF Stages
<1>7. Ends' BY <1>1, <1>2, <1>3 DEF Ends
<1>e. ecAt' = ecAt /\ ecEnd' = ecEnd BY <1>0, <1>2, <1>3 DEF ecAt, ecEnd
<1>V. (aeLive' <=> aeLive) /\ (aeLive => edge = "read" /\ aeAt' = -1 /\ aeAt = -1)
  BY <1>2 DEF aeLive, aeAt
<1>A. /\ AppAt = sent["app"] /\ InHand("la") + OnWay("la") = sent["app"]
      /\ Along(wire["la"], InHand("la"), Spoken)
  <2>1. laLive /\ laAt = 0 /\ AppAt = sent["app"]
    BY <1>2 DEF laLive, laAt, AppAt
  <2>2. Along(wire["la"], 0 + InHand("la"), Spoken) /\ 0 + InHand("la") + OnWay("la") = AppAt
    BY <1>1, <2>1 DEF ToAgent
  <2>3. InHand("la") \in Nat /\ OnWay("la") \in Nat
    BY <1>1 DEF Lengths, Rooms, Room
  <2> QED BY <2>1, <2>2, <2>3
<1>8. Down'
  <2>1. Spoken' = Spoken /\ Told' = Told BY <1>2 DEF Spoken, Told
  <2>2. ToClient' BY <1>1, <1>0, <1>2, <1>3, <1>e DEF ToClient, Switched, Count, Portions
  <2>3. Captured' BY <1>1, <1>0, <1>2, <1>3, <1>e DEF Lengths, Captured, Count, Portions
  <2>4. ToEdge'
    <3>1. aeLive' => Along(wire'["ae"], -1, Told)
      BY <1>2, <1>3, <1>V, AlongEmpty
    <3>2. Along(buf'["ae"], -1, Told)
      BY <1>3, AlongEmpty
    <3> QED BY <1>3, <1>V, <2>1, <3>1, <3>2 DEF ToEdge
  <2>5. ToAgent'
    <3>1. laLive' => agent' = "relay" /\ aeLive /\ laAt' = aeEnd'
      BY <1>2, <1>V DEF laLive, laAt
    <3>2. laLive' => aeEnd' = InHand("la")
      <4>1. laLive' => aeEnd' = -1 + 0 + (InHand("la") + 1)
        BY <1>2, <1>3, <1>V, <3>1 DEF aeEnd
      <4> QED BY <1>1, <4>1 DEF Lengths
    <3>3. laLive'
            => laAt' = InHand("la") /\ InHand("la")' = 0 /\ buf'["la"] = <<>> /\ InHand("la") \in Nat
                     /\ InHand("la") + 0 = InHand("la")
      BY <1>1, <1>3, <3>1, <3>2 DEF Lengths
    <3>4. laLive' => Along(wire'["la"], laAt' + InHand("la")', Spoken)
      BY <1>3, <1>A, <3>3
    <3>5. laLive' => Along(buf'["la"], laAt', Spoken)
      BY <3>3, AlongEmpty
    <3>6. laLive' => laAt' + InHand("la")' + OnWay("la")' = AppAt /\ AppAt' = AppAt
      BY <1>1, <1>2, <1>3, <1>A, <3>3 DEF AppAt, Rooms, Room
    <3> QED BY <2>1, <3>4, <3>5, <3>6 DEF ToAgent
  <2> QED BY <2>2, <2>3, <2>4, <2>5 DEF Down
<1>9. Up'
  <2>1. ToApp'
    <3>1. wire["ea"] = <<>>
      BY <1>1, <1>2 DEF Stages, Requested
    <3> QED BY <1>0, <1>1, <1>2, <1>3, <3>1, AlongEmpty DEF ToApp, alAt, alEnd, Asked, Count, Portions
  <2>2. FromClient' BY <1>1, <1>2, <1>3 DEF FromClient, Count, Portions
  <2> QED BY <2>1, <2>2 DEF Up
<1>10. Losses'
  <2>1. Linked'
          => edge = "read" /\ agent' = "relay" /\ UpTotal' = sent["client"] /\ DownTotal' = sent["app"]
    <3>1. Linked' => edge = "read" /\ agent' = "relay"
      BY <1>2 DEF Linked
    <3>2. /\ OnWay("al") = 0 /\ OnWay("ea") = 0 /\ Arrivals("app") = 0 /\ OnWay("ec") = 0
          /\ Arrivals("client") = 0
      BY <1>1, <1>2 DEF Stages, Requested, Replied, Zeros
    <3>3. edge = "read" => InHand("ce") + OnWay("ce") = sent["client"]
      BY <1>1, <1>2 DEF FromClient
    <3>4. UpTotal' = 0 + 0 + 0 + InHand("ce") + OnWay("ce")
      BY <1>0, <1>2, <1>3, <3>2 DEF UpTotal
    <3>5. /\ InHand("ce") \in Nat /\ OnWay("ce") \in Nat /\ InHand("la") \in Nat
          /\ OnWay("la") \in Nat
      BY <1>1 DEF Lengths, Rooms, Room
    <3>6. ecEnd = 0
      <4>1. wire["ec"] = <<>>
        BY <1>1, <3>2 DEF Zeros
      <4> QED BY <3>2, <4>1 DEF ecEnd, ecAt
    <3>7. edge = "read" /\ agent' = "relay"
            => DownTotal' = 0 + 0 + (InHand("la") + 1) - 1 + 0 + OnWay("la")
      BY <1>2, <1>3, <1>e, <3>6 DEF DownTotal
    <3>8. edge = "read" /\ agent' = "relay" => DownTotal' = sent["app"]
      BY <1>A, <3>5, <3>7
    <3>9. edge = "read" => UpTotal' = sent["client"]
      BY <3>3, <3>4, <3>5
    <3> QED BY <3>1, <3>8, <3>9
  <2>2. Reasons' BY <1>1, <1>2, <2>1 DEF Lengths, Reasons, LostUp, LostDown
  <2>3. EdgeCopies' BY <1>1, <1>2 DEF EdgeCopies, Stages, Relays
  <2>4. AgentCopies' BY <1>1, <1>2, <2>1 DEF AgentCopies, ControlTypes
  <2>5. Closing' BY <1>1, <1>2, <1>3, <2>1 DEF Closing
  <2> QED BY <2>2, <2>3, <2>4, <2>5 DEF Losses
<1>11. StoredIsWhole' BY <1>1, <1>2 DEF StoredIsWhole
<1> QED BY <1>5, <1>6, <1>7, <1>8, <1>9, <1>10, <1>11 DEF Inv

\* The agent's passthroughUpgrade has the first error of its two goroutines.
LEMMA AgentAwaitFirstKeeps ==
  ASSUME Inv, AgentAwaitFirst PROVE Inv'
<1> USE DEF Late, Early, Begun, Joined, Answered, Heard, Kept
<1>1. /\ ControlTypes /\ DataTypes /\ HopTypes /\ Rooms /\ Lengths
      /\ Stages /\ Ends /\ Zeros
      /\ ToClient /\ Captured /\ ToEdge /\ ToAgent /\ ToApp /\ FromClient
      /\ Reasons /\ EdgeCopies /\ AgentCopies /\ Closing /\ StoredIsWhole
  BY TypeParts, TypeLengths, TypeZeros DEF Inv, Down, Up, Losses
<1>0. /\ got' = got => /\ Arrivals("client")' = Arrivals("client")
                       /\ Arrivals("app")' = Arrivals("app")
      /\ cb' = cb => Teed' = Teed
  BY CountsKept
<1>2. /\ UNCHANGED <<kind, cacheable, body, edge, copy, session, fin, app, gone, sent, got, cb,
                      over, stored>>
      /\ agent = "relay" /\ agent' = "close" /\ (copy["ea"] = "done" \/ copy["la"] = "done")
      /\ HopTypes'
  BY <1>1 DEF AgentAwaitFirst, AgentGoes, HopTypes, request, choice, peers, tee
<1>3. /\ Kept("ce") /\ Kept("al") /\ Kept("la")
      /\ Kept("ea") /\ Kept("ae") /\ Kept("ec")
  BY KeptWhere DEF AgentAwaitFirst
<1>4. ControlTypes' /\ DataTypes' /\ Rooms'
  <2>1. ControlTypes' BY <1>1, <1>2 DEF ControlTypes
  <2>2. DataTypes' BY <1>0, <1>1, <1>2 DEF DataTypes
  <2>3. Rooms' BY <1>1, <1>3, Sizes DEF Rooms, Room
  <2> QED BY <2>1, <2>2, <2>3
<1>5. StreamTypeOK' /\ Lengths' /\ Zeros'
  BY <1>2, <1>4, TypePartsPrime, TypeLengths, TypeZeros
<1>6. Stages'
  <2>1. Relays' BY <1>1, <1>2, <1>3 DEF Stages, Relays, Requested, Replied
  <2>2. Requested' BY <1>0, <1>1, <1>2, <1>3 DEF Stages, Relays, Requested
  <2>3. Replied' BY <1>0, <1>1, <1>2, <1>3 DEF Stages, Relays, Replied
  <2>4. Readers' BY <1>0, <1>1, <1>2, <1>3 DEF Stages, Relays, Readers
  <2> QED BY <2>1, <2>2, <2>3, <2>4 DEF Stages
<1>7. Ends' BY <1>1, <1>2, <1>3 DEF Ends
<1>e. ecAt' = ecAt /\ ecEnd' = ecEnd BY <1>0, <1>2, <1>3 DEF ecAt, ecEnd
<1>8. Down'
  <2>1. Spoken' = Spoken /\ Told' = Told BY <1>2 DEF Spoken, Told
  <2>2. ToClient' BY <1>1, <1>0, <1>2, <1>3, <1>e DEF ToClient, Switched, Count, Portions
  <2>3. Captured' BY <1>1, <1>0, <1>2, <1>3, <1>e DEF Lengths, Captured, Count, Portions
  <2>4. ToEdge'
    BY <1>0, <1>1, <1>2, <1>3, <1>4, <1>5, <2>1, <1>e DEF Lengths, Rooms, Room, Stages,
       Relays, Requested, Replied, ToEdge, aeLive, aeAt
  <2>5. ToAgent'
    BY <1>0, <1>1, <1>2, <1>3, <1>4, <1>5, <2>1, <1>e DEF Lengths, Rooms, Room, Stages,
       Relays, Requested, Replied, ToAgent, aeLive, aeAt, aeEnd, laLive, laAt, AppAt
  <2> QED BY <2>2, <2>3, <2>4, <2>5 DEF Down
<1>9. Up'
  <2>1. ToApp'
    BY <1>0, <1>1, <1>2, <1>3, <1>4, <1>5 DEF Lengths, Rooms, Room, Stages, Relays, Requested,
       ToApp, alAt, alEnd, Asked, Count, Portions
  <2>2. FromClient'
    BY <1>0, <1>1, <1>2, <1>3, <1>4, <1>5 DEF Lengths, Rooms, Room, Stages, Relays,
       FromClient, alAt, alEnd, Count, Portions
  <2> QED BY <2>1, <2>2 DEF Up
<1>10. Losses'
  <2>1. UpTotal' = UpTotal /\ DownTotal' = DownTotal
    BY <1>0, <1>1, <1>2, <1>3, <1>4, <1>5, <1>8 DEF Lengths, Rooms, Room, UpTotal, DownTotal,
       ecEnd, ecAt
  <2>2. Reasons' BY <1>1, <1>2, <1>5, <2>1 DEF Lengths, Reasons, Linked, LostUp, LostDown
  <2>3. EdgeCopies' BY <1>1, <1>2, <1>3, <1>5, <2>1 DEF EdgeCopies, Linked, LostUp, LostDown
  <2>4. AgentCopies' BY <1>1, <1>2, <1>3, <1>5, <2>1 DEF AgentCopies, Linked, LostUp, LostDown
  <2>5. Closing'
    <3>1. Linked' => Linked
      BY <1>1, <1>2 DEF Linked, Stages, Relays
    <3>2. Linked => fin["la"] \/ edge = "returned"
      BY <1>1, <1>2 DEF AgentCopies, Ends
    <3> QED BY <1>1, <1>2, <1>3, <3>1, <3>2 DEF Closing
  <2> QED BY <2>2, <2>3, <2>4, <2>5 DEF Losses
<1>11. StoredIsWhole' BY <1>1, <1>2 DEF StoredIsWhole
<1> QED BY <1>5, <1>6, <1>7, <1>8, <1>9, <1>10, <1>11 DEF Inv

\* handleStream returns: its deferred Closes drop what it has not read, and may
\* lose the last of what it wrote to the app.
LEMMA CloseLocalKeeps ==
  ASSUME Inv, CloseLocal PROVE Inv'
<1> USE DEF Late, Early, Begun, Joined, Answered, Heard, Kept
<1>1. /\ ControlTypes /\ DataTypes /\ HopTypes /\ Rooms /\ Lengths
      /\ Stages /\ Ends /\ Zeros
      /\ ToClient /\ Captured /\ ToEdge /\ ToAgent /\ ToApp /\ FromClient
      /\ Reasons /\ EdgeCopies /\ AgentCopies /\ Closing /\ StoredIsWhole
  BY TypeParts, TypeLengths, TypeZeros DEF Inv, Down, Up, Losses
<1>0. /\ got' = got => /\ Arrivals("client")' = Arrivals("client")
                       /\ Arrivals("app")' = Arrivals("app")
      /\ cb' = cb => Teed' = Teed
  BY CountsKept
<1>M. /\ HopTypes' /\ fin' \in [Hops -> BOOLEAN]
      /\ \A f \in Hops : fin'[f] = (f \in {"ae", "al"} \/ fin[f])
      /\ \A f \in Hops \ {"ea", "la", "al"} : wire'[f] = wire[f]
      /\ wire'["ea"] = <<>> /\ wire'["la"] = <<>>
      /\ \E n \in 0..Len(wire["al"]) :
           /\ wire["la"] = <<>> => n = Len(wire["al"])
           /\ wire'["al"] = SubSeq(wire["al"], 1, n) /\ Len(wire'["al"]) = n
  BY <1>1, CloseMoves DEF CloseLocal, Hops, DataTypes
<1>2. /\ UNCHANGED <<kind, cacheable, body, edge, copy, session, app, gone, sent, got, cb, over,
                      stored>>
      /\ agent = "close" /\ agent' = "returned" /\ HopTypes' /\ fin' \in [Hops -> BOOLEAN]
  BY <1>M DEF CloseLocal, AgentGoes, request, choice, peers, tee
<1>3. /\ Kept("ce") /\ Kept("ae") /\ Kept("ec")
      /\ buf' = buf /\ InHand("la")' = InHand("la")
      /\ wire'["ea"] = <<>> /\ wire'["la"] = <<>> /\ OnWay("ea")' = 0 /\ OnWay("la")' = 0
      /\ OnWay("al")' \in Nat /\ OnWay("al")' <= OnWay("al")
      /\ wire["la"] = <<>> => Kept("al")
      /\ wire["al"] = <<>> => wire'["al"] = <<>>
      /\ \A n \in Int : \A T : Along(wire["al"], n, T) => Along(wire'["al"], n, T)
      /\ fin'["ce"] = fin["ce"] /\ fin'["la"] = fin["la"] /\ fin'["ea"] = fin["ea"]
      /\ fin'["ae"]
  <2>1. PICK n \in 0..Len(wire["al"]) :
          /\ wire["la"] = <<>> => n = Len(wire["al"])
          /\ wire'["al"] = SubSeq(wire["al"], 1, n) /\ Len(wire'["al"]) = n
    BY <1>M
  <2>2. wire["al"] \in Seq(Items)
    BY <1>1 DEF HopTypes, Hops
  <2>3. /\ n = Len(wire["al"]) => wire'["al"] = wire["al"]
        /\ wire["al"] = <<>> => wire'["al"] = <<>>
    BY <2>1, <2>2
  <2>4. ASSUME NEW m \in Int, NEW T, Along(wire["al"], m, T) PROVE Along(wire'["al"], m, T)
    BY <2>1, <2>2, <2>4, AlongCut
  <2>5. OnWay("al")' \in Nat /\ OnWay("al")' <= OnWay("al")
    BY <2>1 DEF OnWay
  <2>6. wire'["ea"] = <<>> /\ wire'["la"] = <<>> /\ OnWay("ea")' = 0 /\ OnWay("la")' = 0
    BY <1>M, LenEmpty DEF OnWay
  <2>7. buf' = buf /\ InHand("la")' = InHand("la")
    BY DEF CloseLocal, InHand
  <2>8. Kept("ce") /\ Kept("ae") /\ Kept("ec") /\ (wire["la"] = <<>> => Kept("al"))
    BY <1>M, <2>1, <2>3, <2>7, KeptWhere DEF Hops
  <2>9. fin'["ce"] = fin["ce"] /\ fin'["la"] = fin["la"] /\ fin'["ea"] = fin["ea"] /\ fin'["ae"]
    BY <1>1, <1>M DEF Hops, DataTypes
  <2> QED BY <2>3, <2>4, <2>5, <2>6, <2>7, <2>8, <2>9
<1>4. ControlTypes' /\ DataTypes' /\ Rooms'
  <2>1. ControlTypes' BY <1>1, <1>2 DEF ControlTypes
  <2>2. DataTypes' BY <1>0, <1>1, <1>2 DEF DataTypes
  <2>3. Rooms' BY <1>1, <1>3, Sizes DEF Rooms, Room
  <2> QED BY <2>1, <2>2, <2>3
<1>5. StreamTypeOK' /\ Lengths' /\ Zeros'
  BY <1>2, <1>4, TypePartsPrime, TypeLengths, TypeZeros
<1>6. Stages'
  <2>1. Relays' BY <1>1, <1>2, <1>3 DEF Stages, Relays, Requested, Replied
  <2>2. Requested' BY <1>0, <1>1, <1>2, <1>3, <1>5 DEF Stages, Relays, Requested, Rooms, Room
  <2>3. Replied' BY <1>0, <1>1, <1>2, <1>3 DEF Stages, Relays, Replied
  <2>4. Readers' BY <1>1, <1>2, <1>3, Sizes DEF Stages, Relays, Readers
  <2> QED BY <2>1, <2>2, <2>3, <2>4 DEF Stages
<1>7. Ends' BY <1>1, <1>2, <1>3 DEF Ends
<1>e. ecAt' = ecAt /\ ecEnd' = ecEnd BY <1>0, <1>2, <1>3 DEF ecAt, ecEnd
<1>8. Down'
  <2>1. Spoken' = Spoken /\ Told' = Told BY <1>2 DEF Spoken, Told
  <2>2. ToClient' BY <1>1, <1>0, <1>2, <1>3, <1>e DEF ToClient, Switched, Count, Portions
  <2>3. Captured' BY <1>1, <1>0, <1>2, <1>3, <1>e DEF Lengths, Captured, Count, Portions
  <2>4. ToEdge' BY <1>1, <1>2, <1>3, <1>e, <2>1, <1>0 DEF ToEdge, aeLive, aeAt
  <2>5. ToAgent' BY <1>2 DEF ToAgent, laLive
  <2> QED BY <2>2, <2>3, <2>4, <2>5 DEF Down
<1>9. Up'
  <2>1. ToApp'
    <3>1. alAt' = alAt /\ alAt \in Int
      BY <1>0, <1>1, <1>2 DEF alAt, Lengths
    <3>2. Along(got["app"], 0, Count) /\ Along(wire'["al"], alAt, Asked)
      BY <1>1, <1>3, <3>1 DEF ToApp
    <3> QED BY <1>2, <3>1, <3>2 DEF ToApp, Asked, Count, Portions
  <2>2. FromClient'
    BY <1>0, <1>1, <1>2, <1>3, <1>4, <1>5 DEF Lengths, Rooms, Room, Stages, Relays,
       FromClient, alAt, alEnd, Count, Portions
  <2> QED BY <2>1, <2>2 DEF Up
<1>10. Losses'
  <2>1. /\ UpTotal' \in Int /\ UpTotal \in Int /\ DownTotal' \in Int /\ DownTotal \in Int
        /\ UpTotal' <= UpTotal /\ DownTotal' = DownTotal - OnWay("la")
        /\ OnWay("ea") > 0 => UpTotal' < UpTotal
        /\ OnWay("la") = 0 /\ OnWay("ea") = 0 => UpTotal' = UpTotal
        /\ OnWay("ea") \in Nat /\ OnWay("la") \in Nat
    <3>3. /\ OnWay("ce") \in Nat /\ InHand("ae") \in Nat /\ OnWay("ae") \in Nat
          /\ InHand("la") \in Nat
          /\ OnWay("la") \in Nat /\ OnWay("ea") \in Nat /\ OnWay("al") \in Nat
          /\ Arrivals("app") \in Nat
          /\ InHand("ce") \in Nat /\ OnWay("al")' \in Nat /\ OnWay("al")' <= OnWay("al")
      BY <1>1, <1>3 DEF Lengths, Rooms, Room
    <3>2. OnWay("la") = 0 => OnWay("al")' = OnWay("al")
      BY <1>1, <1>3 DEF Zeros
    <3>4. UpTotal' = Arrivals("app") + OnWay("al")' + 0 + InHand("ce") + OnWay("ce")
      BY <1>0, <1>2, <1>3 DEF UpTotal
    <3>5. /\ UpTotal' <= UpTotal /\ UpTotal \in Int /\ UpTotal' \in Int
          /\ OnWay("ea") > 0 => UpTotal' < UpTotal
          /\ OnWay("la") = 0 /\ OnWay("ea") = 0 => UpTotal' = UpTotal
      BY <3>2, <3>3, <3>4 DEF UpTotal
    <3>6. /\ DownTotal' = ecEnd + (IF edge = "returned" THEN 0 ELSE InHand("ae")) + OnWay("ae")
                  - (IF edge = "read" THEN 1 ELSE 0) + InHand("la") + 0
      BY <1>2, <1>3, <1>e DEF DownTotal
    <3>7. ecEnd \in Nat
      BY <1>1, EcEnd
    <3>8. /\ DownTotal' \in Int /\ DownTotal \in Int /\ DownTotal' = DownTotal - OnWay("la")
      BY <3>3, <3>6, <3>7 DEF DownTotal
    <3> QED BY <3>3, <3>5, <3>8
  <2>2. Reasons'
    <3> SUFFICES ASSUME Linked' PROVE /\ UpTotal' <= sent["client"] /\ DownTotal' <= sent["app"]
                                      /\ UpTotal' # sent["client"]
                                           => fin["la"] \/ DownTotal' # sent["app"]
                                      /\ DownTotal' # sent["app"]
                                           => fin["ce"] \/ UpTotal' # sent["client"]
      BY <1>2, <1>3 DEF Reasons, LostUp, LostDown
    <3>0. Linked /\ Begun
      BY <1>2 DEF Linked
    <3>1. /\ UpTotal <= sent["client"] /\ DownTotal <= sent["app"]
          /\ UpTotal # sent["client"] => fin["la"] \/ DownTotal # sent["app"]
          /\ DownTotal # sent["app"] => fin["ce"] \/ UpTotal # sent["client"]
      BY <1>1, <3>0 DEF Reasons, LostUp, LostDown
    <3>2. /\ fin["la"] \/ edge = "returned"
          /\ edge = "returned" => fin["ce"]
          /\ copy["ea"] = "done" \/ copy["la"] = "done"
          /\ "app" \in gone => fin["la"]
      BY <1>1, <1>2, <3>0 DEF Closing, Linked, Stages, Relays, Ends
    <3>3. /\ copy["la"] = "done" => \/ fin["la"] /\ OnWay("la") = 0
                                    \/ edge = "returned" /\ (OnWay("la") # 0 \/ DownTotal # sent["app"])
          /\ copy["ea"] = "done" =>
               \/ edge = "returned" /\ OnWay("ea") = 0
               \/ "app" \in gone /\ (OnWay("ea") # 0 \/ UpTotal # sent["client"])
      BY <1>1, <1>2, <3>0 DEF AgentCopies, LostUp, LostDown, Zeros
    <3>4. sent["client"] \in Nat /\ sent["app"] \in Nat
      BY <1>1 DEF Lengths
    <3>5. /\ UpTotal' <= sent["client"] /\ DownTotal' <= sent["app"]
          /\ OnWay("la") # 0 \/ DownTotal # sent["app"] => DownTotal' # sent["app"]
          /\ OnWay("ea") # 0 \/ UpTotal # sent["client"] => UpTotal' # sent["client"]
          /\ OnWay("la") = 0 => DownTotal' = DownTotal
          /\ OnWay("la") = 0 /\ OnWay("ea") = 0 => UpTotal' = UpTotal
      BY <2>1, <3>1, <3>4
    <3> QED BY <3>1, <3>2, <3>3, <3>5
  <2>3. EdgeCopies'
    <3>1. sent["app"] \in Nat /\ sent["client"] \in Nat
      BY <1>1 DEF Lengths
    <3>2. Linked' => Linked /\ UpTotal <= sent["client"] /\ DownTotal <= sent["app"]
      BY <1>1, <1>2 DEF Reasons, Linked
    <3>3. DownTotal' <= DownTotal /\ DownTotal' \in Int /\ DownTotal \in Int
      BY <2>1
    <3>4. Linked' /\ LostDown => LostDown'
      BY <1>2, <3>1, <3>2, <3>3 DEF LostDown
    <3> QED BY <1>1, <1>2, <1>3, <3>2, <3>4 DEF EdgeCopies
  <2>4. AgentCopies' BY <1>2 DEF AgentCopies
  <2>5. Closing' BY <1>1, <1>2, <1>3 DEF Closing, Linked
  <2> QED BY <2>2, <2>3, <2>4, <2>5 DEF Losses
<1>11. StoredIsWhole' BY <1>1, <1>2 DEF StoredIsWhole
<1> QED BY <1>5, <1>6, <1>7, <1>8, <1>9, <1>10, <1>11 DEF Inv

-----------------------------------------------------------------------------
(* The copying goroutines of both relays.                                  *)

\* A copying goroutine ends, with the reason EdgeCopies and AgentCopies keep.
LEMMA CopyEndsKeeps ==
  ASSUME Inv, NEW h \in {"ce", "ae", "ea", "la"}, CopyOne(h), copy' # copy PROVE Inv'
<1> USE DEF Late, Early, Begun, Joined, Answered, Heard, Kept
<1>1. /\ ControlTypes /\ DataTypes /\ HopTypes /\ Rooms /\ Lengths
      /\ Stages /\ Ends /\ Zeros
      /\ ToClient /\ Captured /\ ToEdge /\ ToAgent /\ ToApp /\ FromClient
      /\ Reasons /\ EdgeCopies /\ AgentCopies /\ Closing /\ StoredIsWhole
  BY TypeParts, TypeLengths, TypeZeros DEF Inv, Down, Up, Losses
<1>0. /\ got' = got => /\ Arrivals("client")' = Arrivals("client")
                       /\ Arrivals("app")' = Arrivals("app")
      /\ cb' = cb => Teed' = Teed
  BY CountsKept
<1>2. /\ UNCHANGED <<kind, cacheable, body, edge, agent, session, wire, buf, fin, app, gone, sent,
                      got, cb, over, stored>>
      /\ HopTypes' /\ copy' \in [{"ce", "ae", "ea", "la"} -> {"none", "run", "done"}]
      /\ \A g \in {"ce", "ae", "ea", "la"} :
           (copy'[g] = "none" <=> copy[g] = "none") /\ (copy[g] = "done" => copy'[g] = "done")
      /\ (Begun' <=> Begun) /\ (Joined' <=> Joined)
      /\ copy'["ce"] = "done" /\ copy["ce"] # "done" =>
           \/ wire["ce"] = <<>> /\ fin["ce"]
           \/ edge = "returned" \/ ~session
           \/ wire["ce"] # <<>> /\ agent = "returned"
      /\ copy'["ae"] = "done" /\ copy["ae"] # "done" =>
           \/ buf["ae"] = <<>> /\ wire["ae"] = <<>> /\ fin["ae"]
           \/ edge = "returned" \/ ~session
           \/ (buf["ae"] # <<>> \/ wire["ae"] # <<>>) /\ "client" \in gone
      /\ copy'["ea"] = "done" /\ copy["ea"] # "done" =>
           \/ wire["ea"] = <<>> /\ fin["ea"]
           \/ agent = "returned" \/ ~session
           \/ wire["ea"] # <<>> /\ "app" \in gone
      /\ copy'["la"] = "done" /\ copy["la"] # "done" =>
           \/ wire["la"] = <<>> /\ fin["la"]
           \/ agent = "returned" \/ ~session
           \/ wire["la"] # <<>> /\ edge = "returned"
  <2>1. /\ copy[h] = "run" /\ copy' = [copy EXCEPT ![h] = "done"] /\ wire' = wire /\ buf' = buf
        /\ AtEOF(h) \/ Returned(h) \/ (Unread(h) # <<>> /\ WriteFails(Onward[h]))
    BY DEF CopyOne
  <2>2. /\ HopTypes' /\ copy' \in [{"ce", "ae", "ea", "la"} -> {"none", "run", "done"}]
        /\ \A g \in {"ce", "ae", "ea", "la"} : copy'[g] = IF g = h THEN "done" ELSE copy[g]
    BY <1>1, <2>1 DEF HopTypes, ControlTypes
  <2>3. /\ \A g \in {"ce", "ae", "ea", "la"} :
           (copy'[g] = "none" <=> copy[g] = "none") /\ (copy[g] = "done" => copy'[g] = "done")
        /\ (Begun' <=> Begun) /\ (Joined' <=> Joined)
    BY <2>1, <2>2
  <2>4. /\ Unread("ce") = wire["ce"] /\ Unread("ea") = wire["ea"]
        /\ Unread("ae") = <<>> <=> buf["ae"] = <<>> /\ wire["ae"] = <<>>
        /\ Begun => Unread("la") = wire["la"]
    <3>1. \A f \in Hops : wire[f] \in Seq(Items) /\ buf[f] \in Seq(Items)
      BY <1>1 DEF HopTypes
    <3>2. \A s, t \in Seq(Items) : (s \o t = <<>> <=> s = <<>> /\ t = <<>>) /\ (<<>> \o t = t)
      OBVIOUS
    <3>3. Begun => buf["la"] = <<>>
      BY <1>1 DEF Stages, Readers
    <3> QED BY <3>1, <3>2, <3>3 DEF Unread, Held, Hops
  <2>5. CASE h = "ce"
    <3>1. \/ wire["ce"] = <<>> /\ fin["ce"]
          \/ edge = "returned" \/ ~session
          \/ wire["ce"] # <<>> /\ agent = "returned"
      BY <2>1, <2>4, <2>5, DeafHops, BrokenHops DEF AtEOF, Returned, WriteFails, Onward
    <3> QED BY <2>1, <2>2, <2>3, <2>5, <3>1 DEF CopyOne, request, choice, peers, tee
  <2>6. CASE h = "ae"
    <3>1. \/ buf["ae"] = <<>> /\ wire["ae"] = <<>> /\ fin["ae"]
          \/ edge = "returned" \/ ~session
          \/ (buf["ae"] # <<>> \/ wire["ae"] # <<>>) /\ "client" \in gone
      BY <2>1, <2>4, <2>6, DeafHops, BrokenHops DEF AtEOF, Returned, WriteFails, Onward
    <3> QED BY <2>1, <2>2, <2>3, <2>6, <3>1 DEF CopyOne, request, choice, peers, tee
  <2>7. CASE h = "ea"
    <3>1. \/ wire["ea"] = <<>> /\ fin["ea"]
          \/ agent = "returned" \/ ~session
          \/ wire["ea"] # <<>> /\ "app" \in gone
      BY <2>1, <2>4, <2>7, DeafHops, BrokenHops DEF AtEOF, Returned, WriteFails, Onward
    <3> QED BY <2>1, <2>2, <2>3, <2>7, <3>1 DEF CopyOne, request, choice, peers, tee
  <2>8. CASE h = "la"
    <3>0. Begun
      BY <1>1, <2>1, <2>8 DEF Stages, Relays
    <3>1. \/ wire["la"] = <<>> /\ fin["la"]
          \/ agent = "returned" \/ ~session
          \/ wire["la"] # <<>> /\ edge = "returned"
      BY <2>1, <2>4, <2>8, <3>0, DeafHops, BrokenHops DEF AtEOF, Returned, WriteFails, Onward
    <3> QED BY <2>1, <2>2, <2>3, <2>8, <3>1 DEF CopyOne, request, choice, peers, tee
  <2> QED BY <2>5, <2>6, <2>7, <2>8
<1>3. /\ Kept("ce") /\ Kept("al") /\ Kept("la")
      /\ Kept("ea") /\ Kept("ae") /\ Kept("ec")
  BY <1>2, KeptWhere
<1>4. ControlTypes' /\ DataTypes' /\ Rooms'
  <2>1. ControlTypes' BY <1>1, <1>2 DEF ControlTypes
  <2>2. DataTypes' BY <1>0, <1>1, <1>2 DEF DataTypes
  <2>3. Rooms' BY <1>1, <1>3, Sizes DEF Rooms, Room
  <2> QED BY <2>1, <2>2, <2>3
<1>5. StreamTypeOK' /\ Lengths' /\ Zeros'
  BY <1>2, <1>4, TypePartsPrime, TypeLengths, TypeZeros
<1>6. Stages'
  <2>1. Relays' BY <1>1, <1>2, <1>3 DEF Stages, Relays, Requested, Replied
  <2>2. Requested' BY <1>0, <1>1, <1>2, <1>3 DEF Stages, Relays, Requested
  <2>3. Replied' BY <1>0, <1>1, <1>2, <1>3 DEF Stages, Relays, Replied
  <2>4. Readers' BY <1>0, <1>1, <1>2, <1>3 DEF Stages, Relays, Readers
  <2> QED BY <2>1, <2>2, <2>3, <2>4 DEF Stages
<1>7. Ends' BY <1>1, <1>2, <1>3 DEF Ends
<1>e. ecAt' = ecAt /\ ecEnd' = ecEnd BY <1>0, <1>2, <1>3 DEF ecAt, ecEnd
<1>8. Down'
  <2>1. Spoken' = Spoken /\ Told' = Told BY <1>2 DEF Spoken, Told
  <2>2. ToClient' BY <1>1, <1>0, <1>2, <1>3, <1>e DEF ToClient, Switched, Count, Portions
  <2>3. Captured' BY <1>1, <1>0, <1>2, <1>3, <1>e DEF Lengths, Captured, Count, Portions
  <2>4. ToEdge'
    BY <1>0, <1>1, <1>2, <1>3, <1>4, <1>5, <2>1, <1>e DEF Lengths, Rooms, Room, Stages,
       Relays, Requested, Replied, ToEdge, aeLive, aeAt
  <2>5. ToAgent'
    BY <1>0, <1>1, <1>2, <1>3, <1>4, <1>5, <2>1, <1>e DEF Lengths, Rooms, Room, Stages,
       Relays, Requested, Replied, ToAgent, aeLive, aeAt, aeEnd, laLive, laAt, AppAt
  <2> QED BY <2>2, <2>3, <2>4, <2>5 DEF Down
<1>9. Up'
  <2>1. ToApp'
    BY <1>0, <1>1, <1>2, <1>3, <1>4, <1>5 DEF Lengths, Rooms, Room, Stages, Relays, Requested,
       ToApp, alAt, alEnd, Asked, Count, Portions
  <2>2. FromClient'
    BY <1>0, <1>1, <1>2, <1>3, <1>4, <1>5 DEF Lengths, Rooms, Room, Stages, Relays,
       FromClient, alAt, alEnd, Count, Portions
  <2> QED BY <2>1, <2>2 DEF Up
<1>10. Losses'
  <2>1. UpTotal' = UpTotal /\ DownTotal' = DownTotal
    BY <1>0, <1>1, <1>2, <1>3, <1>4, <1>5, <1>8 DEF Lengths, Rooms, Room, UpTotal, DownTotal,
       ecEnd, ecAt
  <2>2. Reasons' BY <1>1, <1>2, <1>5, <2>1 DEF Lengths, Reasons, Linked, LostUp, LostDown
  <2>3. EdgeCopies'
    <3>1. Linked' => Linked /\ session /\ Begun
      BY <1>2 DEF Linked
    <3>2. fin["ae"] => agent = "returned"
      BY <1>1 DEF Ends
    <3> QED BY <1>1, <1>2, <1>3, <2>1, <3>1, <3>2 DEF EdgeCopies, LostUp, LostDown
  <2>4. AgentCopies'
    <3>1. Linked' => Linked /\ session /\ Begun
      BY <1>2 DEF Linked
    <3>2. fin["ea"] => edge = "returned"
      BY <1>1 DEF Ends
    <3> QED BY <1>1, <1>2, <1>3, <2>1, <3>1, <3>2 DEF AgentCopies, LostUp, LostDown
  <2>5. Closing' BY <1>1, <1>2, <1>3 DEF Stages, Relays, Closing, Linked
  <2> QED BY <2>2, <2>3, <2>4, <2>5 DEF Losses
<1>11. StoredIsWhole' BY <1>1, <1>2 DEF StoredIsWhole
<1> QED BY <1>5, <1>6, <1>7, <1>8, <1>9, <1>10, <1>11 DEF Inv

\* The goroutine that takes the client's bytes to the stream passes one on.
LEMMA CopyCeKeeps ==
  ASSUME Inv, CopyOne("ce"), copy' = copy PROVE Inv'
<1> USE DEF Late, Early, Begun, Joined, Answered, Heard, Kept
<1>1. /\ ControlTypes /\ DataTypes /\ HopTypes /\ Rooms /\ Lengths
      /\ Stages /\ Ends /\ Zeros
      /\ ToClient /\ Captured /\ ToEdge /\ ToAgent /\ ToApp /\ FromClient
      /\ Reasons /\ EdgeCopies /\ AgentCopies /\ Closing /\ StoredIsWhole
  BY TypeParts, TypeLengths, TypeZeros DEF Inv, Down, Up, Losses
<1>0. /\ got' = got => /\ Arrivals("client")' = Arrivals("client")
                       /\ Arrivals("app")' = Arrivals("app")
      /\ cb' = cb => Teed' = Teed
  BY CountsKept
<1> DEFINE x == Head(Unread("ce"))
<1>P. /\ HopTypes' /\ x \in Items /\ CanWrite("ea") /\ copy["ce"] = "run" /\ ~Returned("ce")
      /\ wire'["ea"] = IF Deaf("ea") THEN wire["ea"] ELSE Append(wire["ea"], x)
      /\ buf'["ea"] = buf["ea"] /\ InHand("ea")' = InHand("ea")
      /\ \A f \in Hops \ {"ce", "ea"} : Kept(f)
      /\ Room("ce")' /\ Room("ea")'
      /\ OnWay("ea")' = OnWay("ea") + (IF Deaf("ea") THEN 0 ELSE 1)
      /\ OnWay("ce")' <= OnWay("ce") /\ InHand("ce")' \in Nat
      /\ InHand("ce")' + OnWay("ce")' = InHand("ce") + OnWay("ce") - 1
      /\ (wire["ce"] = <<>> => wire'["ce"] = <<>>) /\ (buf["ce"] = <<>> => buf'["ce"] = <<>>)
      /\ \A n \in Int : \A T :
           Along(buf["ce"], n, T) /\ Along(wire["ce"], n + InHand("ce"), T) =>
           /\ x \in T[n + 1]
           /\ Along(buf'["ce"], n + 1, T) /\ Along(wire'["ce"], n + 1 + InHand("ce")', T)
  <2>1. Pass("ce", "ea") /\ copy["ce"] = "run" /\ ~Returned("ce") /\ CanWrite("ea")
    <3>1. /\ copy["ce"] = "run"
          /\ (copy' = [copy EXCEPT !["ce"] = "done"] \/ (Pass("ce", "ea") /\ ~Returned("ce")))
      BY DEF CopyOne, Onward
    <3> QED BY <1>1, <3>1 DEF ControlTypes, Pass
  <2>2. /\ "ce" \in Hops /\ "ea" \in Hops /\ Room("ce") /\ Room("ea") /\ HopTypes
        /\ "ce" \in {"ce", "ea"} => buf["ce"] = <<>>
    BY <1>1, <2>1 DEF Hops, Rooms, Stages, Readers
  <2>3. /\ HopTypes' /\ x \in Items
        /\ wire'["ea"] = IF Deaf("ea") THEN wire["ea"] ELSE Append(wire["ea"], x)
        /\ buf'["ea"] = buf["ea"] /\ InHand("ea")' = InHand("ea")
        /\ \A f \in Hops \ {"ce", "ea"} : Kept(f)
        /\ Room("ce")' /\ Room("ea")'
        /\ OnWay("ea")' = OnWay("ea") + (IF Deaf("ea") THEN 0 ELSE 1)
        /\ OnWay("ce")' <= OnWay("ce") /\ InHand("ce")' \in Nat
        /\ InHand("ce")' + OnWay("ce")' = InHand("ce") + OnWay("ce") - 1
        /\ (wire["ce"] = <<>> => wire'["ce"] = <<>>) /\ (buf["ce"] = <<>> => buf'["ce"] = <<>>)
    BY <2>1, <2>2, PassCounts
  <2>4. ASSUME NEW n \in Int, NEW T, Along(buf["ce"], n, T), Along(wire["ce"], n + InHand("ce"), T)
        PROVE  /\ x \in T[n + 1]
               /\ Along(buf'["ce"], n + 1, T) /\ Along(wire'["ce"], n + 1 + InHand("ce")', T)
    BY <2>1, <2>2, <2>4, PassAlong
  <2> HIDE DEF x
  <2> QED BY <2>1, <2>3, <2>4
<1> HIDE DEF x

<1>Q. /\ Joined /\ Begun /\ edge \in {"relay", "close"} /\ session /\ copy["ce"] = "run"
      /\ kind = "upgrade"
  <2>1. session
    BY <1>1, <1>P, BrokenHops DEF CanWrite, ControlTypes
  <2> QED BY <1>1, <1>P, <2>1 DEF Stages, Relays, Returned
<1>2. /\ UNCHANGED <<kind, cacheable, body, edge, agent, copy, session, fin, app, gone, sent, got,
                      cb, over, stored>>
      /\ HopTypes' /\ Joined /\ Begun /\ edge \in {"relay", "close"} /\ session
      /\ copy["ce"] = "run" /\ kind = "upgrade"
  <2>1. copy' = copy /\ HopTypes'
    BY <1>P
  <2> QED BY <1>Q, <2>1 DEF CopyOne, request, choice, peers, tee
<1>3. /\ Kept("al") /\ Kept("la") /\ Kept("ae") /\ Kept("ec")
      /\ buf["ce"] = <<>> /\ buf'["ce"] = <<>> /\ buf'["ea"] = buf["ea"]
      /\ InHand("ce")' = 0 /\ InHand("ce") = 0
      /\ Room("ce")' /\ Room("ea")' /\ OnWay("ce")' <= Window
      /\ OnWay("ce")' = OnWay("ce") - 1
      /\ OnWay("ea")' = OnWay("ea") + (IF agent = "returned" THEN 0 ELSE 1)
      /\ agent = "returned" => wire'["ea"] = wire["ea"]
      /\ wire["ea"] # <<>> => wire'["ea"] # <<>>
  <2>1. buf["ce"] = <<>> /\ buf'["ce"] = <<>> /\ InHand("ce")' = 0 /\ InHand("ce") = 0
    <3>1. buf["ce"] = <<>> /\ buf'["ce"] = <<>>
      BY <1>1, <1>2, <1>P DEF Stages, Readers
    <3> QED BY <3>1, LenEmpty DEF InHand
  <2>2. /\ OnWay("ce")' \in Nat /\ OnWay("ce") \in Nat /\ OnWay("ce") <= Window
        /\ OnWay("ce")' <= OnWay("ce")
    BY <1>1, <1>P DEF Stages, Readers, Rooms, Room
  <2>3. OnWay("ce")' <= Window /\ OnWay("ce")' = OnWay("ce") - 1
    BY <1>P, <2>1, <2>2, Sizes
  <2>4. wire["ea"] # <<>> => wire'["ea"] # <<>>
    <3>1. wire["ea"] \in Seq(Items) /\ wire'["ea"] \in Seq(Items)
      BY <1>1, <1>P DEF HopTypes, Hops
    <3> QED BY <1>P, <3>1
  <2>5. Kept("al") /\ Kept("la") /\ Kept("ae") /\ Kept("ec")
    BY <1>P DEF Hops
  <2> QED BY <1>P, <2>1, <2>3, <2>4, <2>5, DeafHops
<1>4. ControlTypes' /\ DataTypes' /\ Rooms'
  <2>1. ControlTypes' BY <1>1, <1>2 DEF ControlTypes
  <2>2. DataTypes' BY <1>0, <1>1, <1>2 DEF DataTypes
  <2>3. Rooms' BY <1>1, <1>3, Sizes DEF Rooms, Room
  <2> QED BY <2>1, <2>2, <2>3
<1>5. StreamTypeOK' /\ Lengths' /\ Zeros'
  BY <1>2, <1>4, TypePartsPrime, TypeLengths, TypeZeros
<1>6. Stages'
  <2>1. Relays' BY <1>1, <1>2, <1>3 DEF Stages, Relays, Requested, Replied
  <2>2. Requested' BY <1>0, <1>1, <1>2, <1>3 DEF Stages, Relays, Requested
  <2>3. Replied' BY <1>0, <1>1, <1>2, <1>3 DEF Stages, Relays, Replied
  <2>4. Readers' BY <1>0, <1>1, <1>2, <1>3 DEF Stages, Relays, Readers
  <2> QED BY <2>1, <2>2, <2>3, <2>4 DEF Stages
<1>7. Ends' BY <1>1, <1>2, <1>3 DEF Ends
<1>e. ecAt' = ecAt /\ ecEnd' = ecEnd BY <1>0, <1>2, <1>3 DEF ecAt, ecEnd
<1>A. agent # "returned" /\ "app" \notin gone =>
        /\ x \in Count[alEnd + OnWay("ea") + 1]
        /\ Along(wire'["ce"], alEnd + OnWay("ea") + 1, Count)
        /\ alEnd + OnWay("ea") + OnWay("ce") = sent["client"]
        /\ alEnd \in Int
  <2> SUFFICES ASSUME agent # "returned", "app" \notin gone
               PROVE  /\ x \in Count[alEnd + OnWay("ea") + 1]
                      /\ Along(wire'["ce"], alEnd + OnWay("ea") + 1, Count)
                      /\ alEnd + OnWay("ea") + OnWay("ce") = sent["client"]
                      /\ alEnd \in Int
    OBVIOUS
  <2>1. /\ Along(wire["ce"], alEnd + OnWay("ea"), Count)
        /\ alEnd + OnWay("ea") + OnWay("ce") = sent["client"]
    BY <1>1, <1>2 DEF FromClient
  <2>2. alEnd \in Int /\ OnWay("ea") \in Nat
    BY <1>1 DEF alEnd, alAt, Lengths, Rooms, Room
  <2>3. alEnd + OnWay("ea") \in Int /\ alEnd + OnWay("ea") + InHand("ce") = alEnd + OnWay("ea")
        /\ alEnd + OnWay("ea") + 1 + InHand("ce")' = alEnd + OnWay("ea") + 1
    BY <1>3, <2>2
  <2>4. Along(buf["ce"], alEnd + OnWay("ea"), Count)
    BY <1>3, AlongEmpty
  <2> QED BY <1>P, <2>1, <2>2, <2>3, <2>4
<1>8. Down'
  <2>1. Spoken' = Spoken /\ Told' = Told BY <1>2 DEF Spoken, Told
  <2>2. ToClient' BY <1>1, <1>0, <1>2, <1>3, <1>e DEF ToClient, Switched, Count, Portions
  <2>3. Captured' BY <1>1, <1>0, <1>2, <1>3, <1>e DEF Lengths, Captured, Count, Portions
  <2>4. ToEdge'
    BY <1>0, <1>1, <1>2, <1>3, <1>4, <1>5, <2>1, <1>e DEF Lengths, Rooms, Room, Stages,
       Relays, Requested, Replied, ToEdge, aeLive, aeAt
  <2>5. ToAgent'
    BY <1>0, <1>1, <1>2, <1>3, <1>4, <1>5, <2>1, <1>e DEF Lengths, Rooms, Room, Stages,
       Relays, Requested, Replied, ToAgent, aeLive, aeAt, aeEnd, laLive, laAt, AppAt
  <2> QED BY <2>2, <2>3, <2>4, <2>5 DEF Down
<1>9. Up'
  <2>1. ToApp'
    <3>1. alAt' = alAt /\ alEnd' = alEnd
      BY <1>0, <1>2, <1>3 DEF alAt, alEnd
    <3>2. agent # "returned" /\ "app" \notin gone => Along(wire'["ea"], alEnd, Count)
      <4> SUFFICES ASSUME agent # "returned", "app" \notin gone
                   PROVE  Along(wire'["ea"], alEnd, Count)
        OBVIOUS
      <4>1. Along(wire["ea"], alEnd, Count)
        BY <1>1, <1>2 DEF ToApp
      <4> QED BY <1>1, <1>A, <1>P, <4>1, WrittenAlong DEF Hops
    <3> QED BY <1>1, <1>2, <1>3, <3>1, <3>2 DEF ToApp, Asked, Count, Portions
  <2>2. FromClient'
    <3>1. alEnd' = alEnd
      BY <1>0, <1>2, <1>3 DEF alAt, alEnd
    <3>2. agent # "returned" /\ "app" \notin gone =>
            /\ Along(wire'["ce"], alEnd + OnWay("ea")', Count)
            /\ alEnd + OnWay("ea")' + OnWay("ce")' = sent["client"]
      <4> SUFFICES ASSUME agent # "returned", "app" \notin gone
                   PROVE  /\ Along(wire'["ce"], alEnd + OnWay("ea")', Count)
                          /\ alEnd + OnWay("ea")' + OnWay("ce")' = sent["client"]
        OBVIOUS
      <4>1. OnWay("ea") \in Nat /\ OnWay("ce") \in Nat /\ alEnd \in Int
        BY <1>1, <1>A DEF Rooms, Room
      <4>2. alEnd + OnWay("ea")' = alEnd + OnWay("ea") + 1
        BY <1>3, <4>1
      <4>3. alEnd + OnWay("ea")' + OnWay("ce")' = alEnd + OnWay("ea") + OnWay("ce")
        BY <1>3, <4>1
      <4> QED BY <1>A, <4>2, <4>3
    <3> QED BY <1>2, <3>1, <3>2 DEF FromClient, Count, Portions
  <2> QED BY <2>1, <2>2 DEF Up
<1>10. Losses'
  <2>1. /\ UpTotal' = UpTotal - (IF agent = "returned" THEN 1 ELSE 0) /\ DownTotal' = DownTotal
        /\ UpTotal \in Int
    <3>1. /\ OnWay("ce") \in Nat /\ OnWay("ea") \in Nat /\ OnWay("al") \in Nat
          /\ Arrivals("app") \in Nat
          /\ InHand("ce") = 0
      BY <1>1, <1>3 DEF Lengths, Rooms, Room
    <3>2. UpTotal' = Arrivals("app") + OnWay("al") + OnWay("ea")' + 0 + (OnWay("ce") - 1)
      BY <1>0, <1>2, <1>3 DEF UpTotal
    <3>3. UpTotal' = UpTotal - (IF agent = "returned" THEN 1 ELSE 0) /\ UpTotal \in Int
      BY <1>3, <3>1, <3>2 DEF UpTotal
    <3>4. DownTotal' = DownTotal
      BY <1>2, <1>3, <1>e DEF DownTotal
    <3> QED BY <3>3, <3>4
  <2>2. Reasons'
    <3> SUFFICES ASSUME Linked
             PROVE  /\ UpTotal' <= sent["client"] /\ DownTotal' <= sent["app"]
                    /\ UpTotal' # sent["client"] => fin["la"] \/ DownTotal' # sent["app"]
                    /\ DownTotal' # sent["app"] => fin["ce"] \/ UpTotal' # sent["client"]
      BY <1>2, <1>3 DEF Reasons, Linked, LostUp, LostDown
    <3>1. /\ UpTotal <= sent["client"] /\ DownTotal <= sent["app"]
          /\ UpTotal # sent["client"] => fin["la"] \/ DownTotal # sent["app"]
          /\ DownTotal # sent["app"] => fin["ce"] \/ UpTotal # sent["client"]
      BY <1>1 DEF Reasons, LostUp, LostDown
    <3>2. agent = "returned" => fin["la"]
      BY <1>1, <1>2 DEF Closing
    <3>3. sent["client"] \in Nat /\ sent["app"] \in Nat
      BY <1>1 DEF Lengths
    <3>4. /\ UpTotal' <= sent["client"] /\ (agent # "returned" => UpTotal' = UpTotal)
          /\ UpTotal # sent["client"] => UpTotal' # sent["client"]
      BY <2>1, <3>1, <3>3
    <3> QED BY <2>1, <3>1, <3>2, <3>4
  <2>3. EdgeCopies' BY <1>1, <1>2, <1>3, <1>5, <2>1 DEF EdgeCopies, Linked, LostUp, LostDown
  <2>4. AgentCopies'
    <3>1. agent # "returned" => UpTotal' = UpTotal
      BY <2>1
    <3> QED BY <1>1, <1>2, <1>3, <2>1, <3>1 DEF AgentCopies, Linked, LostUp, LostDown
  <2>5. Closing' BY <1>1, <1>2, <1>3 DEF Stages, Relays, Closing, Linked
  <2> QED BY <2>2, <2>3, <2>4, <2>5 DEF Losses
<1>11. StoredIsWhole' BY <1>1, <1>2 DEF StoredIsWhole
<1> QED BY <1>5, <1>6, <1>7, <1>8, <1>9, <1>10, <1>11 DEF Inv

\* The goroutine that takes the stream's bytes to the app passes one on.
LEMMA CopyEaKeeps ==
  ASSUME Inv, CopyOne("ea"), copy' = copy PROVE Inv'
<1> USE DEF Late, Early, Begun, Joined, Answered, Heard, Kept
<1>1. /\ ControlTypes /\ DataTypes /\ HopTypes /\ Rooms /\ Lengths
      /\ Stages /\ Ends /\ Zeros
      /\ ToClient /\ Captured /\ ToEdge /\ ToAgent /\ ToApp /\ FromClient
      /\ Reasons /\ EdgeCopies /\ AgentCopies /\ Closing /\ StoredIsWhole
  BY TypeParts, TypeLengths, TypeZeros DEF Inv, Down, Up, Losses
<1>0. /\ got' = got => /\ Arrivals("client")' = Arrivals("client")
                       /\ Arrivals("app")' = Arrivals("app")
      /\ cb' = cb => Teed' = Teed
  BY CountsKept
<1> DEFINE x == Head(Unread("ea"))
<1>P. /\ HopTypes' /\ x \in Items /\ CanWrite("al") /\ copy["ea"] = "run" /\ ~Returned("ea")
      /\ wire'["al"] = IF Deaf("al") THEN wire["al"] ELSE Append(wire["al"], x)
      /\ buf'["al"] = buf["al"] /\ InHand("al")' = InHand("al")
      /\ \A f \in Hops \ {"ea", "al"} : Kept(f)
      /\ Room("ea")' /\ Room("al")'
      /\ OnWay("al")' = OnWay("al") + (IF Deaf("al") THEN 0 ELSE 1)
      /\ OnWay("ea")' <= OnWay("ea") /\ InHand("ea")' \in Nat
      /\ InHand("ea")' + OnWay("ea")' = InHand("ea") + OnWay("ea") - 1
      /\ (wire["ea"] = <<>> => wire'["ea"] = <<>>) /\ (buf["ea"] = <<>> => buf'["ea"] = <<>>)
      /\ \A n \in Int : \A T :
           Along(buf["ea"], n, T) /\ Along(wire["ea"], n + InHand("ea"), T) =>
           /\ x \in T[n + 1]
           /\ Along(buf'["ea"], n + 1, T) /\ Along(wire'["ea"], n + 1 + InHand("ea")', T)
  <2>1. Pass("ea", "al") /\ copy["ea"] = "run" /\ ~Returned("ea") /\ CanWrite("al")
    <3>1. /\ copy["ea"] = "run"
          /\ (copy' = [copy EXCEPT !["ea"] = "done"] \/ (Pass("ea", "al") /\ ~Returned("ea")))
      BY DEF CopyOne, Onward
    <3> QED BY <1>1, <3>1 DEF ControlTypes, Pass
  <2>2. /\ "ea" \in Hops /\ "al" \in Hops /\ Room("ea") /\ Room("al") /\ HopTypes
        /\ "ea" \in {"ce", "ea"} => buf["ea"] = <<>>
    BY <1>1, <2>1 DEF Hops, Rooms, Stages, Readers
  <2>3. /\ HopTypes' /\ x \in Items
        /\ wire'["al"] = IF Deaf("al") THEN wire["al"] ELSE Append(wire["al"], x)
        /\ buf'["al"] = buf["al"] /\ InHand("al")' = InHand("al")
        /\ \A f \in Hops \ {"ea", "al"} : Kept(f)
        /\ Room("ea")' /\ Room("al")'
        /\ OnWay("al")' = OnWay("al") + (IF Deaf("al") THEN 0 ELSE 1)
        /\ OnWay("ea")' <= OnWay("ea") /\ InHand("ea")' \in Nat
        /\ InHand("ea")' + OnWay("ea")' = InHand("ea") + OnWay("ea") - 1
        /\ (wire["ea"] = <<>> => wire'["ea"] = <<>>) /\ (buf["ea"] = <<>> => buf'["ea"] = <<>>)
    BY <2>1, <2>2, PassCounts
  <2>4. ASSUME NEW n \in Int, NEW T, Along(buf["ea"], n, T), Along(wire["ea"], n + InHand("ea"), T)
        PROVE  /\ x \in T[n + 1]
               /\ Along(buf'["ea"], n + 1, T) /\ Along(wire'["ea"], n + 1 + InHand("ea")', T)
    BY <2>1, <2>2, <2>4, PassAlong
  <2> HIDE DEF x
  <2> QED BY <2>1, <2>3, <2>4
<1> HIDE DEF x

<1>Q. /\ Begun /\ agent \in {"relay", "close"} /\ copy["ea"] = "run" /\ kind = "upgrade"
      /\ Answered
  BY <1>1, <1>P DEF Stages, Relays, Returned
<1>2. /\ UNCHANGED <<kind, cacheable, body, edge, agent, copy, session, fin, app, gone, sent, got,
                      cb, over, stored>>
      /\ HopTypes' /\ Begun /\ agent \in {"relay", "close"} /\ copy["ea"] = "run"
      /\ kind = "upgrade" /\ Answered
  <2>1. copy' = copy /\ HopTypes'
    BY <1>P
  <2> QED BY <1>Q, <2>1 DEF CopyOne, request, choice, peers, tee
<1>3. /\ Kept("ce") /\ Kept("la") /\ Kept("ae") /\ Kept("ec")
      /\ buf'["ea"] = <<>> /\ buf'["al"] = buf["al"] /\ InHand("ea") = 0
      /\ InHand("ea")' = 0 /\ buf["ea"] = <<>>
      /\ Room("ea")' /\ Room("al")'
      /\ OnWay("ea")' = OnWay("ea") - 1
      /\ OnWay("al")' = OnWay("al") + (IF "app" \in gone THEN 0 ELSE 1)
      /\ "app" \in gone => wire'["al"] = wire["al"]
      /\ wire["ea"] = <<>> => wire'["ea"] = <<>>
  <2>1. buf["ea"] = <<>> /\ buf'["ea"] = <<>> /\ InHand("ea")' = 0 /\ InHand("ea") = 0
    <3>1. buf["ea"] = <<>> /\ buf'["ea"] = <<>>
      BY <1>1, <1>2, <1>P DEF Stages, Readers
    <3> QED BY <3>1, LenEmpty DEF InHand
  <2>2. OnWay("ea")' \in Nat /\ OnWay("ea") \in Nat
    BY <1>1, <1>P DEF Rooms, Room
  <2>3. OnWay("ea")' = OnWay("ea") - 1
    BY <1>P, <2>1, <2>2
  <2>5. Kept("ce") /\ Kept("la") /\ Kept("ae") /\ Kept("ec")
    BY <1>P DEF Hops
  <2> QED BY <1>P, <2>1, <2>3, <2>5, DeafHops
<1>4. ControlTypes' /\ DataTypes' /\ Rooms'
  <2>1. ControlTypes' BY <1>1, <1>2 DEF ControlTypes
  <2>2. DataTypes' BY <1>0, <1>1, <1>2 DEF DataTypes
  <2>3. Rooms' BY <1>1, <1>3, Sizes DEF Rooms, Room
  <2> QED BY <2>1, <2>2, <2>3
<1>5. StreamTypeOK' /\ Lengths' /\ Zeros'
  BY <1>2, <1>4, TypePartsPrime, TypeLengths, TypeZeros
<1>6. Stages'
  <2>1. Relays' BY <1>1, <1>2, <1>3 DEF Stages, Relays, Requested, Replied
  <2>2. Requested' BY <1>0, <1>1, <1>2, <1>3, <1>5 DEF Stages, Relays, Requested
  <2>3. Replied' BY <1>0, <1>1, <1>2, <1>3 DEF Stages, Relays, Replied
  <2>4. Readers' BY <1>0, <1>1, <1>2, <1>3 DEF Stages, Relays, Readers
  <2> QED BY <2>1, <2>2, <2>3, <2>4 DEF Stages
<1>7. Ends' BY <1>1, <1>2, <1>3 DEF Ends
<1>e. ecAt' = ecAt /\ ecEnd' = ecEnd BY <1>0, <1>2, <1>3 DEF ecAt, ecEnd
<1>A. /\ alAt = Arrivals("app") /\ alAt' = alAt /\ alAt \in Nat /\ alEnd \in Nat
      /\ OnWay("ea") \in Nat
      /\ alEnd' = alEnd + (IF "app" \in gone THEN 0 ELSE 1)
  <2>1. alAt = Arrivals("app") /\ alAt' = alAt /\ alAt \in Nat
    BY <1>0, <1>1, <1>2 DEF alAt, Lengths
  <2>2. OnWay("al") \in Nat /\ OnWay("ea") \in Nat
    BY <1>1 DEF Rooms, Room
  <2> QED BY <1>3, <2>1, <2>2 DEF alEnd
<1>B. "app" \notin gone => x \in Count[alEnd + 1] /\ Along(wire'["ea"], alEnd + 1, Count)
  <2> SUFFICES ASSUME "app" \notin gone
               PROVE  x \in Count[alEnd + 1] /\ Along(wire'["ea"], alEnd + 1, Count)
    OBVIOUS
  <2>1. Along(wire["ea"], alEnd, Count)
    BY <1>1, <1>2 DEF ToApp
  <2>2. alEnd \in Int /\ alEnd + InHand("ea") = alEnd /\ alEnd + 1 + InHand("ea")' = alEnd + 1
    BY <1>3, <1>A
  <2>3. Along(buf["ea"], alEnd, Count)
    BY <1>3, AlongEmpty
  <2> QED BY <1>P, <2>1, <2>2, <2>3
<1>8. Down'
  <2>1. Spoken' = Spoken /\ Told' = Told BY <1>2 DEF Spoken, Told
  <2>2. ToClient' BY <1>1, <1>0, <1>2, <1>3, <1>e DEF ToClient, Switched, Count, Portions
  <2>3. Captured' BY <1>1, <1>0, <1>2, <1>3, <1>e DEF Lengths, Captured, Count, Portions
  <2>4. ToEdge'
    BY <1>0, <1>1, <1>2, <1>3, <1>4, <1>5, <2>1, <1>e DEF Lengths, Rooms, Room, Stages,
       Relays, Requested, Replied, ToEdge, aeLive, aeAt
  <2>5. ToAgent'
    BY <1>0, <1>1, <1>2, <1>3, <1>4, <1>5, <2>1, <1>e DEF Lengths, Rooms, Room, Stages,
       Relays, Requested, Replied, ToAgent, aeLive, aeAt, aeEnd, laLive, laAt, AppAt
  <2> QED BY <2>2, <2>3, <2>4, <2>5 DEF Down
<1>9. Up'
  <2>1. ToApp'
    <3>1. Along(wire["al"], alAt, Asked) /\ Along(got["app"], 0, Count)
      BY <1>1 DEF ToApp
    <3>2. "app" \notin gone => x \in Asked[alAt + OnWay("al") + 1]
      BY <1>A, <1>B DEF Asked, alEnd
    <3>3. Along(wire'["al"], alAt, Asked)
      <4>1. HopTypes /\ "al" \in Hops /\ x \in Items /\ alAt \in Int
        BY <1>1, <1>A, <1>P DEF Hops
      <4>2. ~Deaf("al") => x \in Asked[alAt + OnWay("al") + 1]
        BY <3>2, DeafHops
      <4>3. wire'["al"] = IF Deaf("al") THEN wire["al"] ELSE Append(wire["al"], x)
        BY <1>P
      <4> QED BY <3>1, <4>1, <4>2, <4>3, WrittenAlong
    <3>4. "app" \notin gone => Along(wire'["ea"], alEnd', Count)
      BY <1>A, <1>B
    <3> QED BY <1>2, <1>A, <3>1, <3>3, <3>4 DEF ToApp, Asked, Count, Portions
  <2>2. FromClient'
    <3>1. "app" \notin gone => alEnd' + OnWay("ea")' = alEnd + OnWay("ea")
      BY <1>3, <1>A
    <3> QED BY <1>1, <1>2, <1>3, <3>1 DEF FromClient, Count, Portions
  <2> QED BY <2>1, <2>2 DEF Up
<1>10. Losses'
  <2>1. /\ UpTotal' = UpTotal - (IF "app" \in gone THEN 1 ELSE 0) /\ DownTotal' = DownTotal
        /\ UpTotal \in Int
    <3>1. /\ OnWay("ce") \in Nat /\ OnWay("ea") \in Nat /\ OnWay("al") \in Nat
          /\ Arrivals("app") \in Nat
          /\ InHand("ce") \in Nat
      BY <1>1, <1>3 DEF Lengths, Rooms, Room
    <3>2. UpTotal' = Arrivals("app") + OnWay("al")' + (OnWay("ea") - 1) + InHand("ce") + OnWay("ce")
      BY <1>0, <1>2, <1>3 DEF UpTotal
    <3>3. UpTotal' = UpTotal - (IF "app" \in gone THEN 1 ELSE 0) /\ UpTotal \in Int
      <4>1. UpTotal = Arrivals("app") + OnWay("al") + OnWay("ea") + InHand("ce") + OnWay("ce")
        BY DEF UpTotal
      <4>2. OnWay("al")' = OnWay("al") + (IF "app" \in gone THEN 0 ELSE 1)
        BY <1>3
      <4> QED BY <3>1, <3>2, <4>1, <4>2
    <3>4. DownTotal' = DownTotal
      BY <1>2, <1>3, <1>e DEF DownTotal
    <3> QED BY <3>3, <3>4
  <2>2. Reasons'
    <3> SUFFICES ASSUME Linked
             PROVE  /\ UpTotal' <= sent["client"] /\ DownTotal' <= sent["app"]
                    /\ UpTotal' # sent["client"] => fin["la"] \/ DownTotal' # sent["app"]
                    /\ DownTotal' # sent["app"] => fin["ce"] \/ UpTotal' # sent["client"]
      BY <1>2, <1>3 DEF Reasons, Linked, LostUp, LostDown
    <3>1. /\ UpTotal <= sent["client"] /\ DownTotal <= sent["app"]
          /\ UpTotal # sent["client"] => fin["la"] \/ DownTotal # sent["app"]
          /\ DownTotal # sent["app"] => fin["ce"] \/ UpTotal # sent["client"]
      BY <1>1 DEF Reasons, LostUp, LostDown
    <3>2. "app" \in gone => fin["la"]
      BY <1>1 DEF Ends
    <3>3. sent["client"] \in Nat /\ sent["app"] \in Nat
      BY <1>1 DEF Lengths
    <3>4. /\ UpTotal' <= sent["client"] /\ ("app" \notin gone => UpTotal' = UpTotal)
          /\ UpTotal # sent["client"] => UpTotal' # sent["client"]
      BY <2>1, <3>1, <3>3
    <3> QED BY <2>1, <3>1, <3>2, <3>4
  <2>3. EdgeCopies' BY <1>1, <1>2, <1>3, <1>5, <2>1 DEF EdgeCopies, Linked, LostUp, LostDown
  <2>4. AgentCopies' BY <1>1, <1>2, <1>3, <1>5, <2>1 DEF AgentCopies, Linked, LostUp, LostDown
  <2>5. Closing' BY <1>1, <1>2, <1>3 DEF Stages, Relays, Closing, Linked
  <2> QED BY <2>2, <2>3, <2>4, <2>5 DEF Losses
<1>11. StoredIsWhole' BY <1>1, <1>2 DEF StoredIsWhole
<1> QED BY <1>5, <1>6, <1>7, <1>8, <1>9, <1>10, <1>11 DEF Inv

\* The goroutine that takes the app's bytes to the stream passes one on.
LEMMA CopyLaKeeps ==
  ASSUME Inv, CopyOne("la"), copy' = copy PROVE Inv'
<1> USE DEF Late, Early, Begun, Joined, Answered, Heard, Kept
<1>1. /\ ControlTypes /\ DataTypes /\ HopTypes /\ Rooms /\ Lengths
      /\ Stages /\ Ends /\ Zeros
      /\ ToClient /\ Captured /\ ToEdge /\ ToAgent /\ ToApp /\ FromClient
      /\ Reasons /\ EdgeCopies /\ AgentCopies /\ Closing /\ StoredIsWhole
  BY TypeParts, TypeLengths, TypeZeros DEF Inv, Down, Up, Losses
<1>0. /\ got' = got => /\ Arrivals("client")' = Arrivals("client")
                       /\ Arrivals("app")' = Arrivals("app")
      /\ cb' = cb => Teed' = Teed
  BY CountsKept
<1> DEFINE x == Head(Unread("la"))
<1>P. /\ HopTypes' /\ x \in Items /\ CanWrite("ae") /\ copy["la"] = "run" /\ ~Returned("la")
      /\ wire'["ae"] = IF Deaf("ae") THEN wire["ae"] ELSE Append(wire["ae"], x)
      /\ buf'["ae"] = buf["ae"] /\ InHand("ae")' = InHand("ae")
      /\ \A f \in Hops \ {"la", "ae"} : Kept(f)
      /\ Room("la")' /\ Room("ae")'
      /\ OnWay("ae")' = OnWay("ae") + (IF Deaf("ae") THEN 0 ELSE 1)
      /\ OnWay("la")' <= OnWay("la") /\ InHand("la")' \in Nat
      /\ InHand("la")' + OnWay("la")' = InHand("la") + OnWay("la") - 1
      /\ (wire["la"] = <<>> => wire'["la"] = <<>>) /\ (buf["la"] = <<>> => buf'["la"] = <<>>)
      /\ \A n \in Int : \A T :
           Along(buf["la"], n, T) /\ Along(wire["la"], n + InHand("la"), T) =>
           /\ x \in T[n + 1]
           /\ Along(buf'["la"], n + 1, T) /\ Along(wire'["la"], n + 1 + InHand("la")', T)
  <2>1. Pass("la", "ae") /\ copy["la"] = "run" /\ ~Returned("la") /\ CanWrite("ae")
    <3>1. /\ copy["la"] = "run"
          /\ (copy' = [copy EXCEPT !["la"] = "done"] \/ (Pass("la", "ae") /\ ~Returned("la")))
      BY DEF CopyOne, Onward
    <3> QED BY <1>1, <3>1 DEF ControlTypes, Pass
  <2>2. /\ "la" \in Hops /\ "ae" \in Hops /\ Room("la") /\ Room("ae") /\ HopTypes
        /\ "la" \in {"ce", "ea"} => buf["la"] = <<>>
    BY <1>1, <2>1 DEF Hops, Rooms, Stages, Readers
  <2>3. /\ HopTypes' /\ x \in Items
        /\ wire'["ae"] = IF Deaf("ae") THEN wire["ae"] ELSE Append(wire["ae"], x)
        /\ buf'["ae"] = buf["ae"] /\ InHand("ae")' = InHand("ae")
        /\ \A f \in Hops \ {"la", "ae"} : Kept(f)
        /\ Room("la")' /\ Room("ae")'
        /\ OnWay("ae")' = OnWay("ae") + (IF Deaf("ae") THEN 0 ELSE 1)
        /\ OnWay("la")' <= OnWay("la") /\ InHand("la")' \in Nat
        /\ InHand("la")' + OnWay("la")' = InHand("la") + OnWay("la") - 1
        /\ (wire["la"] = <<>> => wire'["la"] = <<>>) /\ (buf["la"] = <<>> => buf'["la"] = <<>>)
    BY <2>1, <2>2, PassCounts
  <2>4. ASSUME NEW n \in Int, NEW T, Along(buf["la"], n, T), Along(wire["la"], n + InHand("la"), T)
        PROVE  /\ x \in T[n + 1]
               /\ Along(buf'["la"], n + 1, T) /\ Along(wire'["la"], n + 1 + InHand("la")', T)
    BY <2>1, <2>2, <2>4, PassAlong
  <2> HIDE DEF x
  <2> QED BY <2>1, <2>3, <2>4
<1> HIDE DEF x

<1>Q. /\ Begun /\ agent \in {"relay", "close"} /\ session /\ copy["la"] = "run"
      /\ kind = "upgrade" /\ Heard
      /\ edge \notin {"start", "tee"}
  <2>1. session
    BY <1>1, <1>P, BrokenHops DEF CanWrite, ControlTypes
  <2>2. /\ Begun /\ agent \in {"relay", "close"} /\ copy["la"] = "run" /\ kind = "upgrade"
        /\ Heard
    BY <1>1, <1>P DEF Stages, Relays, Returned
  <2> QED BY <1>1, <2>1, <2>2 DEF Stages, Requested, Replied
<1>2. /\ UNCHANGED <<kind, cacheable, body, edge, agent, copy, session, fin, app, gone, sent, got,
                      cb, over, stored>>
      /\ HopTypes' /\ Begun /\ agent \in {"relay", "close"} /\ session /\ copy["la"] = "run"
      /\ kind = "upgrade" /\ Heard
      /\ edge \notin {"start", "tee"}
  <2>1. copy' = copy /\ HopTypes'
    BY <1>P
  <2> QED BY <1>Q, <2>1 DEF CopyOne, request, choice, peers, tee
<1>3. /\ Kept("ce") /\ Kept("ea") /\ Kept("al") /\ Kept("ec")
      /\ buf["la"] = <<>> /\ buf'["la"] = <<>> /\ buf'["ae"] = buf["ae"] /\ InHand("la") = 0
      /\ InHand("la")' = 0
      /\ InHand("ae")' = InHand("ae")
      /\ Room("la")' /\ Room("ae")' /\ OnWay("la")' <= Window
      /\ OnWay("la")' = OnWay("la") - 1
      /\ OnWay("ae")' = OnWay("ae") + (IF edge = "returned" THEN 0 ELSE 1)
      /\ edge = "returned" => wire'["ae"] = wire["ae"]
      /\ edge # "returned" => wire'["ae"] # <<>>
  <2>1. buf["la"] = <<>> /\ buf'["la"] = <<>> /\ InHand("la")' = 0 /\ InHand("la") = 0
    <3>1. buf["la"] = <<>> /\ buf'["la"] = <<>>
      BY <1>1, <1>2, <1>P DEF Stages, Readers
    <3> QED BY <3>1, LenEmpty DEF InHand
  <2>2. /\ OnWay("la")' \in Nat /\ OnWay("la") \in Nat /\ OnWay("la") <= Window
        /\ OnWay("la")' <= OnWay("la")
    BY <1>1, <1>P DEF Stages, Readers, Rooms, Room
  <2>3. OnWay("la")' = OnWay("la") - 1 /\ OnWay("la")' <= Window
    BY <1>P, <2>1, <2>2, Sizes
  <2>4. edge # "returned" => wire'["ae"] # <<>>
    <3>1. wire["ae"] \in Seq(Items)
      BY <1>1 DEF HopTypes, Hops
    <3>2. Append(wire["ae"], x) # <<>>
      BY <3>1
    <3> QED BY <1>P, <3>2, DeafHops
  <2>5. Kept("ce") /\ Kept("ea") /\ Kept("al") /\ Kept("ec")
    BY <1>P DEF Hops
  <2> QED BY <1>P, <2>1, <2>3, <2>4, <2>5, DeafHops
<1>4. ControlTypes' /\ DataTypes' /\ Rooms'
  <2>1. ControlTypes' BY <1>1, <1>2 DEF ControlTypes
  <2>2. DataTypes' BY <1>0, <1>1, <1>2 DEF DataTypes
  <2>3. Rooms' BY <1>1, <1>3, Sizes DEF Rooms, Room
  <2> QED BY <2>1, <2>2, <2>3
<1>5. StreamTypeOK' /\ Lengths' /\ Zeros'
  BY <1>2, <1>4, TypePartsPrime, TypeLengths, TypeZeros
<1>6. Stages'
  <2>1. Relays' BY <1>1, <1>2, <1>3 DEF Stages, Relays, Requested, Replied
  <2>2. Requested' BY <1>0, <1>1, <1>2, <1>3, <1>5 DEF Stages, Relays, Requested
  <2>3. Replied' BY <1>0, <1>1, <1>2, <1>3 DEF Stages, Relays, Replied
  <2>4. Readers' BY <1>0, <1>1, <1>2, <1>3 DEF Stages, Relays, Readers
  <2> QED BY <2>1, <2>2, <2>3, <2>4 DEF Stages
<1>7. Ends' BY <1>1, <1>2, <1>3 DEF Ends
<1>e. ecAt' = ecAt /\ ecEnd' = ecEnd BY <1>0, <1>2, <1>3 DEF ecAt, ecEnd
<1>V. (aeLive' <=> aeLive) /\ aeAt' = aeAt /\ aeAt \in Int /\ (aeLive => edge # "returned")
  <2>1. aeAt \in Int
    BY <1>1, EcEnd DEF aeAt, Lengths
  <2> QED BY <1>0, <1>2, <1>e, <2>1 DEF aeLive, aeAt
<1>W. aeLive => aeEnd' = aeEnd + 1 /\ aeEnd \in Int /\ aeAt + InHand("ae") \in Int
                /\ aeAt + InHand("ae") + OnWay("ae") = aeEnd
  <2>1. InHand("ae") \in Nat /\ OnWay("ae") \in Nat /\ InHand("ae")' = InHand("ae")
    BY <1>1, <1>3 DEF Lengths, Rooms, Room
  <2>2. aeLive => OnWay("ae")' = OnWay("ae") + 1
    BY <1>3, <1>V
  <2> QED BY <1>V, <2>1, <2>2 DEF aeEnd
<1>A. aeLive => /\ x \in Spoken[aeEnd + 1] /\ x \in Told[aeEnd + 1]
                /\ Along(wire'["la"], aeEnd + 1, Spoken)
                /\ aeEnd + OnWay("la") = AppAt
  <2> SUFFICES ASSUME aeLive PROVE /\ x \in Spoken[aeEnd + 1] /\ x \in Told[aeEnd + 1]
                                   /\ Along(wire'["la"], aeEnd + 1, Spoken)
                                   /\ aeEnd + OnWay("la") = AppAt
    OBVIOUS
  <2>1. laLive /\ laAt = aeEnd
    BY <1>2 DEF laLive, laAt
  <2>2. /\ Along(buf["la"], aeEnd, Spoken) /\ Along(wire["la"], aeEnd + InHand("la"), Spoken)
        /\ aeEnd + InHand("la") + OnWay("la") = AppAt
    BY <1>1, <2>1 DEF ToAgent
  <2>3. x \in Spoken[aeEnd + 1] /\ Along(wire'["la"], aeEnd + 1 + InHand("la")', Spoken)
    BY <1>P, <1>W, <2>2
  <2>4. /\ aeEnd + InHand("la") = aeEnd /\ aeEnd + 1 + InHand("la")' = aeEnd + 1
        /\ aeEnd + 1 \in Int
    BY <1>3, <1>W
  <2>5. x \in Told[aeEnd + 1]
    BY <1>2, <2>3, <2>4 DEF Told
  <2> QED BY <2>2, <2>3, <2>4, <2>5
<1>8. Down'
  <2>1. Spoken' = Spoken /\ Told' = Told BY <1>2 DEF Spoken, Told
  <2>2. ToClient' BY <1>1, <1>0, <1>2, <1>3, <1>e DEF ToClient, Switched, Count, Portions
  <2>3. Captured' BY <1>1, <1>0, <1>2, <1>3, <1>e DEF Lengths, Captured, Count, Portions
  <2>4. ToEdge'
    <3> SUFFICES ASSUME aeLive
                 PROVE  Along(buf'["ae"], aeAt, Told) /\ Along(wire'["ae"], aeAt + InHand("ae"), Told)
      BY <1>3, <1>V, <2>1 DEF ToEdge
    <3>1. Along(buf["ae"], aeAt, Told) /\ Along(wire["ae"], aeAt + InHand("ae"), Told)
      BY <1>1 DEF ToEdge
    <3>2. HopTypes /\ "ae" \in Hops /\ x \in Items /\ aeAt + InHand("ae") \in Int
      BY <1>1, <1>P, <1>W DEF Hops
    <3>3. x \in Told[aeAt + InHand("ae") + OnWay("ae") + 1]
      BY <1>A, <1>W
    <3>4. wire'["ae"] = IF Deaf("ae") THEN wire["ae"] ELSE Append(wire["ae"], x)
      BY <1>P
    <3>5. Along(wire'["ae"], aeAt + InHand("ae"), Told)
      BY <3>1, <3>2, <3>3, <3>4, WrittenAlong
    <3> QED BY <1>3, <3>1, <3>5
  <2>5. ToAgent'
    <3> SUFFICES ASSUME laLive'
                 PROVE  /\ Along(buf'["la"], laAt', Spoken)
                        /\ Along(wire'["la"], laAt' + InHand("la")', Spoken)
                        /\ laAt' + InHand("la")' + OnWay("la")' = AppAt
      BY <1>2, <2>1 DEF ToAgent, AppAt
    <3>1. aeLive /\ laAt' = aeEnd'
      BY <1>2, <1>V DEF laLive, laAt
    <3>2. /\ laAt' = aeEnd + 1 /\ aeEnd \in Int /\ OnWay("la") \in Nat
          /\ aeEnd + OnWay("la") = AppAt
      BY <1>1, <1>A, <1>W, <3>1 DEF Rooms, Room
    <3>3. laAt' + InHand("la")' = aeEnd + 1 /\ laAt' + InHand("la")' + OnWay("la")' = AppAt
      BY <1>3, <3>2
    <3> QED BY <1>3, <1>A, <3>1, <3>3, AlongEmpty
  <2> QED BY <2>2, <2>3, <2>4, <2>5 DEF Down
<1>9. Up'
  <2>1. ToApp'
    BY <1>0, <1>1, <1>2, <1>3, <1>4, <1>5 DEF Lengths, Rooms, Room, Stages, Relays, Requested,
       ToApp, alAt, alEnd, Asked, Count, Portions
  <2>2. FromClient'
    BY <1>0, <1>1, <1>2, <1>3, <1>4, <1>5 DEF Lengths, Rooms, Room, Stages, Relays,
       FromClient, alAt, alEnd, Count, Portions
  <2> QED BY <2>1, <2>2 DEF Up
<1>10. Losses'
  <2>1. /\ UpTotal' = UpTotal /\ DownTotal' = DownTotal - (IF edge = "returned" THEN 1 ELSE 0)
        /\ DownTotal \in Int
    <3>1. /\ OnWay("la") \in Nat /\ OnWay("ae") \in Nat /\ InHand("ae") \in Nat
          /\ InHand("la") = 0
          /\ ecEnd \in Nat
      BY <1>1, <1>3, EcEnd DEF Lengths, Rooms, Room
    <3>2. DownTotal' = ecEnd + (IF edge = "returned" THEN 0 ELSE InHand("ae")) + OnWay("ae")'
                  - (IF edge = "read" THEN 1 ELSE 0) + 0 + (OnWay("la") - 1)
      BY <1>2, <1>3, <1>e DEF DownTotal
    <3>3. DownTotal = ecEnd + (IF edge = "returned" THEN 0 ELSE InHand("ae")) + OnWay("ae")
                  - (IF edge = "read" THEN 1 ELSE 0) + 0 + OnWay("la")
      BY <1>3 DEF DownTotal
    <3>4. OnWay("ae")' = OnWay("ae") + (IF edge = "returned" THEN 0 ELSE 1)
      BY <1>3
    <3>5. DownTotal' = DownTotal - (IF edge = "returned" THEN 1 ELSE 0) /\ DownTotal \in Int
      BY <3>1, <3>2, <3>3, <3>4
    <3>6. UpTotal' = UpTotal
      BY <1>0, <1>2, <1>3 DEF UpTotal
    <3> QED BY <3>5, <3>6
  <2>2. Reasons'
    <3> SUFFICES ASSUME Linked
             PROVE  /\ UpTotal' <= sent["client"] /\ DownTotal' <= sent["app"]
                    /\ UpTotal' # sent["client"] => fin["la"] \/ DownTotal' # sent["app"]
                    /\ DownTotal' # sent["app"] => fin["ce"] \/ UpTotal' # sent["client"]
      BY <1>2, <1>3 DEF Reasons, Linked, LostUp, LostDown
    <3>1. /\ UpTotal <= sent["client"] /\ DownTotal <= sent["app"]
          /\ UpTotal # sent["client"] => fin["la"] \/ DownTotal # sent["app"]
          /\ DownTotal # sent["app"] => fin["ce"] \/ UpTotal # sent["client"]
      BY <1>1 DEF Reasons, LostUp, LostDown
    <3>2. edge = "returned" => fin["ce"]
      BY <1>1, <1>2 DEF Closing, Linked
    <3>3. sent["client"] \in Nat /\ sent["app"] \in Nat
      BY <1>1 DEF Lengths
    <3>4. /\ DownTotal' <= sent["app"] /\ (edge # "returned" => DownTotal' = DownTotal)
          /\ DownTotal # sent["app"] => DownTotal' # sent["app"]
      BY <2>1, <3>1, <3>3
    <3> QED BY <2>1, <3>1, <3>2, <3>4
  <2>3. EdgeCopies' BY <1>1, <1>2, <1>3, <2>1 DEF EdgeCopies, Linked, LostUp, LostDown
  <2>4. AgentCopies' BY <1>1, <1>2, <1>3, <1>5, <2>1 DEF AgentCopies, Linked, LostUp, LostDown
  <2>5. Closing' BY <1>1, <1>2, <1>3 DEF Stages, Relays, Closing, Linked
  <2> QED BY <2>2, <2>3, <2>4, <2>5 DEF Losses
<1>11. StoredIsWhole' BY <1>1, <1>2 DEF StoredIsWhole
<1> QED BY <1>5, <1>6, <1>7, <1>8, <1>9, <1>10, <1>11 DEF Inv

\* The goroutine that takes the stream's bytes to the client passes one on.
LEMMA CopyAeKeeps ==
  ASSUME Inv, CopyOne("ae"), copy' = copy PROVE Inv'
<1> USE DEF Late, Early, Begun, Joined, Answered, Heard, Kept
<1>1. /\ ControlTypes /\ DataTypes /\ HopTypes /\ Rooms /\ Lengths
      /\ Stages /\ Ends /\ Zeros
      /\ ToClient /\ Captured /\ ToEdge /\ ToAgent /\ ToApp /\ FromClient
      /\ Reasons /\ EdgeCopies /\ AgentCopies /\ Closing /\ StoredIsWhole
  BY TypeParts, TypeLengths, TypeZeros DEF Inv, Down, Up, Losses
<1>0. /\ got' = got => /\ Arrivals("client")' = Arrivals("client")
                       /\ Arrivals("app")' = Arrivals("app")
      /\ cb' = cb => Teed' = Teed
  BY CountsKept
<1> DEFINE x == Head(Unread("ae"))
<1>P. /\ HopTypes' /\ x \in Items /\ CanWrite("ec") /\ copy["ae"] = "run" /\ ~Returned("ae")
      /\ wire'["ec"] = IF Deaf("ec") THEN wire["ec"] ELSE Append(wire["ec"], x)
      /\ buf'["ec"] = buf["ec"] /\ InHand("ec")' = InHand("ec")
      /\ \A f \in Hops \ {"ae", "ec"} : Kept(f)
      /\ Room("ae")' /\ Room("ec")'
      /\ OnWay("ec")' = OnWay("ec") + (IF Deaf("ec") THEN 0 ELSE 1)
      /\ OnWay("ae")' <= OnWay("ae") /\ InHand("ae")' \in Nat
      /\ InHand("ae")' + OnWay("ae")' = InHand("ae") + OnWay("ae") - 1
      /\ (wire["ae"] = <<>> => wire'["ae"] = <<>>) /\ (buf["ae"] = <<>> => buf'["ae"] = <<>>)
      /\ \A n \in Int : \A T :
           Along(buf["ae"], n, T) /\ Along(wire["ae"], n + InHand("ae"), T) =>
           /\ x \in T[n + 1]
           /\ Along(buf'["ae"], n + 1, T) /\ Along(wire'["ae"], n + 1 + InHand("ae")', T)
  <2>1. Pass("ae", "ec") /\ copy["ae"] = "run" /\ ~Returned("ae") /\ CanWrite("ec")
    <3>1. /\ copy["ae"] = "run"
          /\ (copy' = [copy EXCEPT !["ae"] = "done"] \/ (Pass("ae", "ec") /\ ~Returned("ae")))
      BY DEF CopyOne, Onward
    <3> QED BY <1>1, <3>1 DEF ControlTypes, Pass
  <2>2. /\ "ae" \in Hops /\ "ec" \in Hops /\ Room("ae") /\ Room("ec") /\ HopTypes
        /\ "ae" \in {"ce", "ea"} => buf["ae"] = <<>>
    BY <1>1, <2>1 DEF Hops, Rooms, Stages, Readers
  <2>3. /\ HopTypes' /\ x \in Items
        /\ wire'["ec"] = IF Deaf("ec") THEN wire["ec"] ELSE Append(wire["ec"], x)
        /\ buf'["ec"] = buf["ec"] /\ InHand("ec")' = InHand("ec")
        /\ \A f \in Hops \ {"ae", "ec"} : Kept(f)
        /\ Room("ae")' /\ Room("ec")'
        /\ OnWay("ec")' = OnWay("ec") + (IF Deaf("ec") THEN 0 ELSE 1)
        /\ OnWay("ae")' <= OnWay("ae") /\ InHand("ae")' \in Nat
        /\ InHand("ae")' + OnWay("ae")' = InHand("ae") + OnWay("ae") - 1
        /\ (wire["ae"] = <<>> => wire'["ae"] = <<>>) /\ (buf["ae"] = <<>> => buf'["ae"] = <<>>)
    BY <2>1, <2>2, PassCounts
  <2>4. ASSUME NEW n \in Int, NEW T, Along(buf["ae"], n, T), Along(wire["ae"], n + InHand("ae"), T)
        PROVE  /\ x \in T[n + 1]
               /\ Along(buf'["ae"], n + 1, T) /\ Along(wire'["ae"], n + 1 + InHand("ae")', T)
    BY <2>1, <2>2, <2>4, PassAlong
  <2> HIDE DEF x
  <2> QED BY <2>1, <2>3, <2>4
<1> HIDE DEF x

<1>Q. /\ Joined /\ Begun /\ edge \in {"relay", "close"} /\ copy["ae"] = "run"
      /\ kind = "upgrade" /\ Heard
      /\ app # "done"
  <2>1. /\ Joined /\ Begun /\ edge \in {"relay", "close"} /\ copy["ae"] = "run"
        /\ kind = "upgrade" /\ Heard
    BY <1>1, <1>P DEF Stages, Relays, Returned
  <2> QED BY <1>1, <2>1 DEF Stages, Replied
<1>A. "client" \notin gone =>
      /\ aeLive /\ aeAt = ecEnd /\ ecEnd \in Nat
      /\ x \in Portions /\ x = ecEnd + 1
      /\ Along(buf'["ae"], ecEnd + 1, Told)
      /\ Along(wire'["ae"], ecEnd + 1 + InHand("ae")', Told)
  <2> SUFFICES ASSUME "client" \notin gone
               PROVE  /\ aeLive /\ aeAt = ecEnd /\ ecEnd \in Nat
                      /\ x \in Portions /\ x = ecEnd + 1
                      /\ Along(buf'["ae"], ecEnd + 1, Told)
                      /\ Along(wire'["ae"], ecEnd + 1 + InHand("ae")', Told)
    OBVIOUS
  <2>1. aeLive /\ aeAt = ecEnd /\ ecEnd \in Nat
    BY <1>1, <1>Q, EcEnd DEF aeLive, aeAt
  <2>2. Along(buf["ae"], ecEnd, Told) /\ Along(wire["ae"], ecEnd + InHand("ae"), Told)
    BY <1>1, <2>1 DEF ToEdge
  <2>3. /\ x \in Told[ecEnd + 1]
        /\ Along(buf'["ae"], ecEnd + 1, Told)
        /\ Along(wire'["ae"], ecEnd + 1 + InHand("ae")', Told)
    BY <1>P, <2>1, <2>2
  <2>4. x \in Spoken[ecEnd + 1] /\ ecEnd + 1 \in Int /\ ecEnd + 1 # 0
    BY <1>Q, <2>1, <2>3, ToldAt
  <2>5. x \in Portions /\ x = ecEnd + 1
    BY <1>1, <1>Q, <2>4, SpokenAt
  <2> QED BY <2>1, <2>3, <2>5
<1>2. /\ UNCHANGED <<kind, cacheable, body, edge, agent, copy, session, fin, app, gone, sent, got,
                      cb, over, stored>>
      /\ HopTypes' /\ Joined /\ Begun /\ edge \in {"relay", "close"} /\ copy["ae"] = "run"
      /\ kind = "upgrade" /\ Heard
      /\ app # "done"
  <2>1. copy' = copy /\ HopTypes'
    BY <1>P
  <2> QED BY <1>Q, <2>1 DEF CopyOne, request, choice, peers, tee
<1>3. /\ Kept("ce") /\ Kept("ea") /\ Kept("al") /\ Kept("la")
      /\ buf'["ec"] = buf["ec"] /\ InHand("ec")' = InHand("ec")
      /\ OnWay("ec")' = OnWay("ec") + (IF "client" \in gone THEN 0 ELSE 1)
      /\ "client" \in gone => wire'["ec"] = wire["ec"]
      /\ Room("ae")' /\ Room("ec")'
      /\ InHand("ae")' + OnWay("ae")' = InHand("ae") + OnWay("ae") - 1
      /\ wire["ae"] = <<>> => wire'["ae"] = <<>>
  <2>1. Kept("ce") /\ Kept("ea") /\ Kept("al") /\ Kept("la")
    BY <1>P DEF Hops
  <2> QED BY <1>P, <2>1, DeafHops
<1>4. ControlTypes' /\ DataTypes' /\ Rooms'
  <2>1. ControlTypes' BY <1>1, <1>2 DEF ControlTypes
  <2>2. DataTypes' BY <1>0, <1>1, <1>2 DEF DataTypes
  <2>3. Rooms' BY <1>1, <1>3, Sizes DEF Rooms, Room
  <2> QED BY <2>1, <2>2, <2>3
<1>5. StreamTypeOK' /\ Lengths' /\ Zeros'
  BY <1>2, <1>4, TypePartsPrime, TypeLengths, TypeZeros
<1>6. Stages'
  <2>1. Relays' BY <1>1, <1>2, <1>3 DEF Stages, Relays, Requested, Replied
  <2>2. Requested' BY <1>0, <1>1, <1>2, <1>3, <1>5 DEF Stages, Relays, Requested
  <2>3. Replied' BY <1>0, <1>1, <1>2, <1>3 DEF Stages, Relays, Replied
  <2>4. Readers' BY <1>0, <1>1, <1>2, <1>3, <1>5 DEF Stages, Relays, Readers
  <2> QED BY <2>1, <2>2, <2>3, <2>4 DEF Stages
<1>7. Ends' BY <1>1, <1>2, <1>3 DEF Ends
<1>e. ecAt' = ecAt /\ ecEnd' = ecEnd + (IF "client" \in gone THEN 0 ELSE 1)
  <2>1. ecAt' = ecAt
    <3>1. CASE "client" \in gone
      BY <1>0, <1>2, <1>3, <3>1 DEF ecAt
    <3>2. CASE "client" \notin gone
      <4>1. x \in Items /\ x # Switch /\ wire'["ec"] = Append(wire["ec"], x)
        BY <1>A, <1>P, <3>2, DeafHops, HeadTypes
      <4> QED BY <1>0, <1>1, <1>2, <4>1, EcAppend
    <3> QED BY <3>1, <3>2
  <2> QED BY <1>1, <1>3, <2>1, EcEnd DEF ecEnd, Rooms, Room
<1>V. aeLive'
        => aeLive /\ "client" \notin gone /\ aeAt' = ecEnd + 1 /\ aeAt = ecEnd /\ aeEnd' = aeEnd
  <2>1. aeLive' => aeLive /\ "client" \notin gone
    BY <1>2 DEF aeLive
  <2>2. aeLive' => aeAt' = ecEnd + 1
    BY <1>2, <1>e, <2>1 DEF aeAt
  <2>3. /\ InHand("ae") \in Nat /\ OnWay("ae") \in Nat /\ InHand("ae")' \in Nat
        /\ OnWay("ae")' \in Nat
        /\ InHand("ae")' + OnWay("ae")' = InHand("ae") + OnWay("ae") - 1 /\ ecEnd \in Nat
    BY <1>1, <1>3, <1>4, <1>5, EcEnd DEF Lengths, Rooms, Room
  <2> QED BY <1>A, <2>1, <2>2, <2>3 DEF aeEnd
<1>8. Down'
  <2>1. Spoken' = Spoken /\ Told' = Told BY <1>2 DEF Spoken, Told
  <2>2. ToClient'
    <3>1. /\ Along(wire["ec"], ecAt, Switched) /\ Along(got["client"], 0, Count)
          /\ ecAt = -1 => got["client"] = <<>> /\ kind = "upgrade"
      BY <1>1 DEF ToClient
    <3>2. ~Deaf("ec") => x \in Switched[ecAt + OnWay("ec") + 1]
      BY <1>A, DeafHops DEF ecEnd, Switched, Count, Portions
    <3>3. HopTypes /\ "ec" \in Hops /\ x \in Items /\ ecAt \in Int
      BY <1>1, <1>P, EcEnd DEF Hops
    <3>4. wire'["ec"] = IF Deaf("ec") THEN wire["ec"] ELSE Append(wire["ec"], x)
      BY <1>P
    <3>5. Along(wire'["ec"], ecAt, Switched)
      BY <3>1, <3>2, <3>3, <3>4, WrittenAlong
    <3> QED BY <1>2, <1>e, <3>1, <3>5 DEF ToClient, Switched, Count, Portions
  <2>3. Captured' BY <1>0, <1>1, <1>2 DEF Captured, Count, Portions
  <2>4. ToEdge' BY <1>A, <1>V, <2>1 DEF ToEdge
  <2>5. ToAgent'
    <3>1. laLive' => laLive /\ laAt' = laAt
      BY <1>2, <1>V DEF laLive, laAt
    <3> QED BY <1>1, <1>2, <1>3, <2>1, <3>1 DEF ToAgent, AppAt
  <2> QED BY <2>2, <2>3, <2>4, <2>5 DEF Down
<1>9. Up'
  <2>1. ToApp'
    BY <1>0, <1>1, <1>2, <1>3, <1>4, <1>5 DEF Lengths, Rooms, Room, Stages, Relays, Requested,
       ToApp, alAt, alEnd, Asked, Count, Portions
  <2>2. FromClient'
    BY <1>0, <1>1, <1>2, <1>3, <1>4, <1>5 DEF Lengths, Rooms, Room, Stages, Relays,
       FromClient, alAt, alEnd, Count, Portions
  <2> QED BY <2>1, <2>2 DEF Up
<1>10. Losses'
  <2>1. /\ UpTotal' = UpTotal /\ DownTotal' = DownTotal - (IF "client" \in gone THEN 1 ELSE 0)
        /\ DownTotal \in Int
    <3>1. /\ OnWay("la") \in Nat /\ OnWay("ae") \in Nat /\ InHand("ae") \in Nat
          /\ InHand("la") \in Nat
          /\ OnWay("ae")' \in Nat /\ InHand("ae")' \in Nat /\ ecEnd \in Nat
      BY <1>1, <1>4, <1>5, EcEnd DEF Lengths, Rooms, Room
    <3>2. DownTotal' = ecEnd' + InHand("ae")' + OnWay("ae")' - 0 + InHand("la") + OnWay("la")
      BY <1>2, <1>3 DEF DownTotal
    <3>3. DownTotal = ecEnd + InHand("ae") + OnWay("ae") - 0 + InHand("la") + OnWay("la")
      BY <1>2 DEF DownTotal
    <3>4. InHand("ae")' + OnWay("ae")' = InHand("ae") + OnWay("ae") - 1
      BY <1>3
    <3>5. ecEnd' = ecEnd + (IF "client" \in gone THEN 0 ELSE 1)
      BY <1>e
    <3>6. DownTotal' = DownTotal - (IF "client" \in gone THEN 1 ELSE 0) /\ DownTotal \in Int
      BY <3>1, <3>2, <3>3, <3>4, <3>5
    <3>7. UpTotal' = UpTotal
      BY <1>0, <1>2, <1>3 DEF UpTotal
    <3> QED BY <3>6, <3>7
  <2>2. Reasons'
    <3> SUFFICES ASSUME Linked
             PROVE  /\ UpTotal' <= sent["client"] /\ DownTotal' <= sent["app"]
                    /\ UpTotal' # sent["client"] => fin["la"] \/ DownTotal' # sent["app"]
                    /\ DownTotal' # sent["app"] => fin["ce"] \/ UpTotal' # sent["client"]
      BY <1>2, <1>3 DEF Reasons, Linked, LostUp, LostDown
    <3>1. /\ UpTotal <= sent["client"] /\ DownTotal <= sent["app"]
          /\ UpTotal # sent["client"] => fin["la"] \/ DownTotal # sent["app"]
          /\ DownTotal # sent["app"] => fin["ce"] \/ UpTotal # sent["client"]
      BY <1>1 DEF Reasons, LostUp, LostDown
    <3>2. "client" \in gone => fin["ce"]
      BY <1>1 DEF Ends
    <3>3. sent["client"] \in Nat /\ sent["app"] \in Nat
      BY <1>1 DEF Lengths
    <3>4. /\ DownTotal' <= sent["app"] /\ ("client" \notin gone => DownTotal' = DownTotal)
          /\ DownTotal # sent["app"] => DownTotal' # sent["app"]
      BY <2>1, <3>1, <3>3
    <3> QED BY <2>1, <3>1, <3>2, <3>4
  <2>3. EdgeCopies' BY <1>1, <1>2, <1>3, <2>1 DEF EdgeCopies, Linked, LostUp, LostDown
  <2>4. AgentCopies' BY <1>1, <1>2, <1>3, <2>1 DEF AgentCopies, Linked, LostUp, LostDown
  <2>5. Closing' BY <1>1, <1>2, <1>3 DEF Stages, Relays, Closing, Linked
  <2> QED BY <2>2, <2>3, <2>4, <2>5 DEF Losses
<1>11. StoredIsWhole' BY <1>1, <1>2 DEF StoredIsWhole
<1> QED BY <1>5, <1>6, <1>7, <1>8, <1>9, <1>10, <1>11 DEF Inv

-----------------------------------------------------------------------------
(* Client, app and session.                                                *)

\* The client sends a portion through the upgraded connection.
LEMMA SendClientKeeps ==
  ASSUME Inv, Send("client") PROVE Inv'
<1> USE DEF Late, Early, Begun, Joined, Answered, Heard, Kept
<1>1. /\ ControlTypes /\ DataTypes /\ HopTypes /\ Rooms /\ Lengths
      /\ Stages /\ Ends /\ Zeros
      /\ ToClient /\ Captured /\ ToEdge /\ ToAgent /\ ToApp /\ FromClient
      /\ Reasons /\ EdgeCopies /\ AgentCopies /\ Closing /\ StoredIsWhole
  BY TypeParts, TypeLengths, TypeZeros DEF Inv, Down, Up, Losses
<1>0. /\ got' = got => /\ Arrivals("client")' = Arrivals("client")
                       /\ Arrivals("app")' = Arrivals("app")
      /\ cb' = cb => Teed' = Teed
  BY CountsKept
<1> DEFINE x == sent["client"] + 1
<1>S. /\ HopTypes' /\ x \in Items /\ wire["ce"] \in Seq(Items) /\ buf' = buf
      /\ wire'["ce"] = Append(wire["ce"], x) /\ wire'["ce"] # <<>>
      /\ OnWay("ce")' = OnWay("ce") + 1 /\ OnWay("ce")' <= Window /\ Room("ce")'
      /\ InHand("ce")' = InHand("ce")
      /\ \A f \in Hops \ {"ce"} : Kept(f)
      /\ kind = "upgrade" /\ edge # "returned" /\ ~fin["ce"]
      /\ sent' \in [{"client", "app"} -> 0..MaxSent] /\ sent'["client"] = sent["client"] + 1
      /\ sent'["app"] = sent["app"]
  <2>1. wire["ce"] \in Seq(Items) /\ "ce" \in Hops /\ OnWay("ce") \in Nat
    BY <1>1 DEF HopTypes, Hops, OnWay
  <2>2. /\ x \in Items /\ wire' = [wire EXCEPT !["ce"] = Append(@, x)] /\ buf' = buf
        /\ Len(wire["ce"]) < Window
    <3>1. /\ sent["client"] \in Nat /\ sent["client"] < MaxSent
          /\ wire' = [wire EXCEPT !["ce"] = Append(@, x)]
          /\ Len(wire["ce"]) < Window /\ buf' = buf
      BY <1>1 DEF Send, Outgoing, others, Lengths
    <3> QED BY <3>1, Sizes DEF Items, Portions
  <2>0. /\ kind = "upgrade" /\ edge # "returned" /\ ~fin["ce"]
        /\ sent' \in [{"client", "app"} -> 0..MaxSent]
        /\ sent'["client"] = sent["client"] + 1 /\ sent'["app"] = sent["app"]
    <3>1. /\ kind = "upgrade" /\ edge # "returned" /\ ~fin["ce"] /\ sent["client"] < MaxSent
          /\ sent' = [sent EXCEPT !["client"] = @ + 1]
      BY DEF Send, Outgoing
    <3>2. sent \in [{"client", "app"} -> 0..MaxSent] /\ sent["client"] + 1 \in 0..MaxSent
      BY <1>1, <3>1, Sizes DEF DataTypes
    <3> QED BY <3>1, <3>2
  <2> HIDE DEF x
  <2>3. /\ Append(wire["ce"], x) \in Seq(Items) /\ Append(wire["ce"], x) # <<>>
        /\ Len(Append(wire["ce"], x)) = Len(wire["ce"]) + 1
    BY <2>1, <2>2
  <2>4. HopTypes' /\ wire'["ce"] = Append(wire["ce"], x) /\ \A f \in Hops \ {"ce"} : wire'[f] = wire[f]
    BY <1>1, <2>1, <2>2, <2>3 DEF HopTypes
  <2>5. OnWay("ce")' = OnWay("ce") + 1 /\ OnWay("ce") < Window /\ InHand("ce")' = InHand("ce")
    BY <2>2, <2>3, <2>4 DEF OnWay, InHand
  <2>6. OnWay("ce")' <= Window /\ Room("ce")'
    BY <2>1, <2>5, Sizes DEF Room
  <2> QED BY <2>0, <2>1, <2>2, <2>3, <2>4, <2>5, <2>6, KeptWhere
<1> HIDE DEF x
<1>2. /\ UNCHANGED <<kind, cacheable, body, edge, agent, copy, session, fin, app, gone, got, cb,
                      over, stored>>
      /\ HopTypes' /\ sent' \in [{"client", "app"} -> 0..MaxSent]
      /\ sent'["client"] = sent["client"] + 1 /\ sent'["app"] = sent["app"]
      /\ kind = "upgrade" /\ edge # "returned" /\ ~fin["ce"]
  BY <1>S DEF Send, others, request, choice, tee
<1>3. /\ Kept("la") /\ Kept("al") /\ Kept("ea") /\ Kept("ae") /\ Kept("ec")
      /\ buf'["ce"] = buf["ce"] /\ InHand("ce")' = InHand("ce") /\ wire'["ce"] # <<>>
      /\ OnWay("ce")' = OnWay("ce") + 1 /\ OnWay("ce")' <= Window /\ Room("ce")'
  BY <1>S DEF Hops
<1>4. ControlTypes' /\ DataTypes' /\ Rooms'
  <2>1. ControlTypes' BY <1>1, <1>2 DEF ControlTypes
  <2>2. DataTypes' BY <1>0, <1>1, <1>2 DEF DataTypes
  <2>3. Rooms' BY <1>1, <1>3, Sizes DEF Rooms, Room
  <2> QED BY <2>1, <2>2, <2>3
<1>5. StreamTypeOK' /\ Lengths' /\ Zeros'
  BY <1>2, <1>4, TypePartsPrime, TypeLengths, TypeZeros
<1>6. Stages'
  <2>1. Relays' BY <1>1, <1>2, <1>3 DEF Stages, Relays, Requested, Replied
  <2>2. Requested' BY <1>0, <1>1, <1>2, <1>3 DEF Stages, Relays, Requested
  <2>3. Replied' BY <1>0, <1>1, <1>2, <1>3 DEF Stages, Relays, Replied
  <2>4. Readers' BY <1>0, <1>1, <1>2, <1>3 DEF Stages, Relays, Readers
  <2> QED BY <2>1, <2>2, <2>3, <2>4 DEF Stages
<1>7. Ends' BY <1>1, <1>2, <1>3 DEF Ends
<1>e. ecAt' = ecAt /\ ecEnd' = ecEnd BY <1>0, <1>2, <1>3 DEF ecAt, ecEnd
<1>8. Down'
  <2>1. Spoken' = Spoken /\ Told' = Told
    <3>1. sent'["app"] = sent["app"] /\ kind' = kind /\ app' = app /\ body' = body
      BY <1>2
    <3>2. Spoken' = Spoken
      BY <3>1 DEF Spoken
    <3> QED BY <3>1, <3>2 DEF Told
  <2>2. ToClient' BY <1>1, <1>0, <1>2, <1>3, <1>e DEF ToClient, Switched, Count, Portions
  <2>3. Captured' BY <1>1, <1>0, <1>2, <1>3, <1>e DEF Lengths, Captured, Count, Portions
  <2>4. ToEdge'
    BY <1>0, <1>1, <1>2, <1>3, <1>4, <1>5, <2>1, <1>e DEF Lengths, Rooms, Room, Stages,
       Relays, Requested, Replied, ToEdge, aeLive, aeAt
  <2>5. ToAgent'
    BY <1>0, <1>1, <1>2, <1>3, <1>4, <1>5, <2>1, <1>e DEF Lengths, Rooms, Room, Stages,
       Relays, Requested, Replied, ToAgent, aeLive, aeAt, aeEnd, laLive, laAt, AppAt
  <2> QED BY <2>2, <2>3, <2>4, <2>5 DEF Down
<1>9. Up'
  <2>1. ToApp'
    BY <1>0, <1>1, <1>2, <1>3, <1>4, <1>5 DEF Lengths, Rooms, Room, Stages, Relays, Requested,
       ToApp, alAt, alEnd, Asked, Count, Portions
  <2>2. FromClient'
    <3>1. alEnd' = alEnd
      BY <1>0, <1>2, <1>3 DEF alAt, alEnd
    <3>2. /\ alEnd \in Int /\ OnWay("ea") \in Nat /\ OnWay("ce") \in Nat
          /\ InHand("ce") \in Nat /\ sent["client"] \in Nat
      BY <1>1 DEF alEnd, alAt, Lengths, Rooms, Room
    <3>3. x = sent["client"] + 1 /\ x \in Count[sent["client"] + 1]
      <4>1. sent'["client"] \in Portions
        <5>1. sent'["client"] \in 0..MaxSent /\ sent'["client"] = sent["client"] + 1
          BY <1>2
        <5> QED BY <3>2, <5>1, Sizes DEF Portions
      <4> QED BY <1>2, <3>2, <4>1 DEF x, Count
    <3>4. ~Joined => /\ Along(wire'["ce"], InHand("ce"), Count)
                     /\ InHand("ce") + OnWay("ce")' = sent["client"] + 1
                     /\ Along(buf["ce"], 0, Count)
      <4> SUFFICES ASSUME ~Joined PROVE /\ Along(wire'["ce"], InHand("ce"), Count)
                     /\ InHand("ce") + OnWay("ce")' = sent["client"] + 1
                     /\ Along(buf["ce"], 0, Count)
        OBVIOUS
      <4>1. /\ Along(buf["ce"], 0, Count) /\ Along(wire["ce"], InHand("ce"), Count)
            /\ InHand("ce") + OnWay("ce") = sent["client"]
        BY <1>1, <1>2 DEF FromClient
      <4>2. x \in Count[InHand("ce") + OnWay("ce") + 1]
        BY <3>3, <4>1
      <4>3. Along(wire'["ce"], InHand("ce"), Count)
        <5>1. Along(Append(wire["ce"], x), InHand("ce"), Count)
          <6>1. /\ InHand("ce") \in Int /\ x \in Items /\ wire["ce"] \in Seq(Items)
                /\ Along(wire["ce"], InHand("ce"), Count)
            BY <1>S, <3>2, <4>1
          <6>2. x \in Count[InHand("ce") + Len(wire["ce"]) + 1]
            BY <4>2 DEF OnWay
          <6> QED BY <6>1, <6>2, AlongAppend
        <5> QED BY <1>S, <5>1
      <4> QED BY <1>3, <3>2, <4>1, <4>3
    <3>5. Joined /\ session /\ agent # "returned" /\ "app" \notin gone =>
            /\ Along(wire'["ce"], alEnd + OnWay("ea"), Count)
            /\ alEnd + OnWay("ea") + OnWay("ce")' = sent["client"] + 1
      <4> SUFFICES ASSUME Joined, session, agent # "returned", "app" \notin gone
                   PROVE  /\ Along(wire'["ce"], alEnd + OnWay("ea"), Count)
                          /\ alEnd + OnWay("ea") + OnWay("ce")' = sent["client"] + 1
        OBVIOUS
      <4>1. /\ Along(wire["ce"], alEnd + OnWay("ea"), Count)
            /\ alEnd + OnWay("ea") + OnWay("ce") = sent["client"]
        BY <1>1, <1>2 DEF FromClient
      <4>2. x \in Count[alEnd + OnWay("ea") + OnWay("ce") + 1] /\ alEnd + OnWay("ea") \in Int
        BY <3>2, <3>3, <4>1
      <4>3. Along(wire'["ce"], alEnd + OnWay("ea"), Count)
        <5>1. Along(Append(wire["ce"], x), alEnd + OnWay("ea"), Count)
          BY <1>S, <4>1, <4>2, AlongAppend DEF OnWay
        <5> QED BY <1>S, <5>1
      <4>4. alEnd + OnWay("ea") + OnWay("ce")' = alEnd + OnWay("ea") + OnWay("ce") + 1
        BY <1>3, <3>2
      <4> QED BY <4>1, <4>3, <4>4
    <3> QED BY <1>2, <1>3, <3>1, <3>4, <3>5 DEF FromClient, Count, Portions
  <2> QED BY <2>1, <2>2 DEF Up
<1>10. Losses'
  <2>1. UpTotal' = UpTotal + 1 /\ DownTotal' = DownTotal /\ UpTotal \in Int
    <3>1. /\ OnWay("ce") \in Nat /\ OnWay("ea") \in Nat /\ OnWay("al") \in Nat
          /\ Arrivals("app") \in Nat
          /\ InHand("ce") \in Nat
      BY <1>1 DEF Lengths, Rooms, Room
    <3>2. UpTotal' = Arrivals("app") + OnWay("al") + OnWay("ea") + InHand("ce") + (OnWay("ce") + 1)
      BY <1>0, <1>2, <1>3 DEF UpTotal
    <3>3. UpTotal' = UpTotal + 1 /\ UpTotal \in Int
      BY <3>1, <3>2 DEF UpTotal
    <3>4. DownTotal' = DownTotal
      BY <1>2, <1>3, <1>e DEF DownTotal
    <3> QED BY <3>3, <3>4
  <2>2. Reasons'
    <3>1. sent["client"] \in Nat /\ (LostUp' <=> LostUp) /\ (LostDown' <=> LostDown)
          /\ (UpTotal <= sent["client"] => UpTotal' <= sent'["client"])
      BY <1>1, <1>2, <2>1 DEF LostUp, LostDown, Lengths
    <3> QED BY <1>1, <1>2, <2>1, <3>1 DEF Reasons, Linked
  <2>3. EdgeCopies'
    <3>1. sent["client"] \in Nat /\ (LostUp' <=> LostUp) /\ (LostDown' <=> LostDown)
      BY <1>1, <1>2, <2>1 DEF LostUp, LostDown, Lengths
    <3> QED BY <1>1, <1>2, <1>3, <3>1 DEF EdgeCopies, Linked
  <2>4. AgentCopies'
    <3>1. sent["client"] \in Nat /\ (LostUp' <=> LostUp) /\ (LostDown' <=> LostDown)
      BY <1>1, <1>2, <2>1 DEF LostUp, LostDown, Lengths
    <3> QED BY <1>1, <1>2, <1>3, <3>1 DEF AgentCopies, Linked
  <2>5. Closing' BY <1>1, <1>2, <1>3 DEF Stages, Relays, Closing, Linked
  <2> QED BY <2>2, <2>3, <2>4, <2>5 DEF Losses
<1>11. StoredIsWhole' BY <1>1, <1>2 DEF StoredIsWhole
<1> QED BY <1>5, <1>6, <1>7, <1>8, <1>9, <1>10, <1>11 DEF Inv

\* The app sends a portion.
LEMMA SendAppKeeps ==
  ASSUME Inv, Send("app") PROVE Inv'
<1> USE DEF Late, Early, Begun, Joined, Answered, Heard, Kept
<1>1. /\ ControlTypes /\ DataTypes /\ HopTypes /\ Rooms /\ Lengths
      /\ Stages /\ Ends /\ Zeros
      /\ ToClient /\ Captured /\ ToEdge /\ ToAgent /\ ToApp /\ FromClient
      /\ Reasons /\ EdgeCopies /\ AgentCopies /\ Closing /\ StoredIsWhole
  BY TypeParts, TypeLengths, TypeZeros DEF Inv, Down, Up, Losses
<1>0. /\ got' = got => /\ Arrivals("client")' = Arrivals("client")
                       /\ Arrivals("app")' = Arrivals("app")
      /\ cb' = cb => Teed' = Teed
  BY CountsKept
<1> DEFINE x == sent["app"] + 1
<1>S. /\ HopTypes' /\ x \in Items /\ wire["la"] \in Seq(Items) /\ buf' = buf
      /\ wire'["la"] = Append(wire["la"], x) /\ wire'["la"] # <<>>
      /\ OnWay("la")' = OnWay("la") + 1 /\ OnWay("la")' <= Window /\ Room("la")'
      /\ InHand("la")' = InHand("la")
      /\ \A f \in Hops \ {"la"} : Kept(f)
      /\ app = "body" /\ agent # "returned" /\ ~fin["la"]
      /\ sent' \in [{"client", "app"} -> 0..MaxSent] /\ sent'["app"] = sent["app"] + 1
      /\ sent'["client"] = sent["client"]
  <2>1. wire["la"] \in Seq(Items) /\ "la" \in Hops /\ OnWay("la") \in Nat
    BY <1>1 DEF HopTypes, Hops, OnWay
  <2>2. /\ x \in Items /\ wire' = [wire EXCEPT !["la"] = Append(@, x)] /\ buf' = buf
        /\ Len(wire["la"]) < Window
    <3>1. /\ sent["app"] \in Nat /\ sent["app"] < MaxSent
          /\ wire' = [wire EXCEPT !["la"] = Append(@, x)]
          /\ Len(wire["la"]) < Window /\ buf' = buf
      BY <1>1 DEF Send, Outgoing, others, Lengths
    <3> QED BY <3>1, Sizes DEF Items, Portions
  <2>0. /\ app = "body" /\ agent # "returned" /\ ~fin["la"]
        /\ sent' \in [{"client", "app"} -> 0..MaxSent] /\ sent'["app"] = sent["app"] + 1
        /\ sent'["client"] = sent["client"]
    <3>1. /\ app = "body" /\ agent # "returned" /\ ~fin["la"] /\ sent["app"] < MaxSent
          /\ sent' = [sent EXCEPT !["app"] = @ + 1]
      BY DEF Send, Outgoing
    <3>2. sent \in [{"client", "app"} -> 0..MaxSent] /\ sent["app"] + 1 \in 0..MaxSent
      BY <1>1, <3>1, Sizes DEF DataTypes
    <3> QED BY <3>1, <3>2
  <2> HIDE DEF x
  <2>3. /\ Append(wire["la"], x) \in Seq(Items) /\ Append(wire["la"], x) # <<>>
        /\ Len(Append(wire["la"], x)) = Len(wire["la"]) + 1
    <3>1. x \in Items /\ wire["la"] \in Seq(Items)
      BY <2>1, <2>2
    <3>2. /\ Append(wire["la"], x) \in Seq(Items)
          /\ Len(Append(wire["la"], x)) = Len(wire["la"]) + 1 /\ Len(wire["la"]) \in Nat
      BY <3>1
    <3>3. Append(wire["la"], x) # <<>>
      BY <3>2, LenEmpty
    <3> QED BY <3>2, <3>3
  <2>4. HopTypes' /\ wire'["la"] = Append(wire["la"], x) /\ \A f \in Hops \ {"la"} : wire'[f] = wire[f]
    BY <1>1, <2>1, <2>2, <2>3 DEF HopTypes
  <2>5. OnWay("la")' = OnWay("la") + 1 /\ OnWay("la") < Window /\ InHand("la")' = InHand("la")
    BY <2>2, <2>3, <2>4 DEF OnWay, InHand
  <2>6. OnWay("la")' <= Window /\ Room("la")'
    BY <2>1, <2>5, Sizes DEF Room
  <2> QED BY <2>0, <2>1, <2>2, <2>3, <2>4, <2>5, <2>6, KeptWhere
<1> HIDE DEF x
<1>2. /\ UNCHANGED <<kind, cacheable, body, edge, agent, copy, session, fin, app, gone, got, cb,
                      over, stored>>
      /\ HopTypes' /\ sent' \in [{"client", "app"} -> 0..MaxSent]
      /\ sent'["app"] = sent["app"] + 1 /\ sent'["client"] = sent["client"] /\ app = "body"
      /\ agent # "returned" /\ ~fin["la"]
  BY <1>S DEF Send, others, request, choice, tee
<1>3. /\ Kept("ce") /\ Kept("al") /\ Kept("ea") /\ Kept("ae") /\ Kept("ec")
      /\ buf'["la"] = buf["la"] /\ InHand("la")' = InHand("la") /\ wire'["la"] # <<>>
      /\ OnWay("la")' = OnWay("la") + 1 /\ OnWay("la")' <= Window /\ Room("la")'
  BY <1>S DEF Hops
<1>4. ControlTypes' /\ DataTypes' /\ Rooms'
  <2>1. ControlTypes' BY <1>1, <1>2 DEF ControlTypes
  <2>2. DataTypes' BY <1>0, <1>1, <1>2 DEF DataTypes
  <2>3. Rooms' BY <1>1, <1>3, Sizes DEF Rooms, Room
  <2> QED BY <2>1, <2>2, <2>3
<1>5. StreamTypeOK' /\ Lengths' /\ Zeros'
  BY <1>2, <1>4, TypePartsPrime, TypeLengths, TypeZeros
<1>6. Stages'
  <2>1. Relays' BY <1>1, <1>2, <1>3 DEF Stages, Relays, Requested, Replied
  <2>2. Requested' BY <1>0, <1>1, <1>2, <1>3 DEF Stages, Relays, Requested
  <2>3. Replied' BY <1>0, <1>1, <1>2, <1>3 DEF Stages, Relays, Replied
  <2>4. Readers' BY <1>0, <1>1, <1>2, <1>3 DEF Stages, Relays, Readers
  <2> QED BY <2>1, <2>2, <2>3, <2>4 DEF Stages
<1>7. Ends' BY <1>1, <1>2, <1>3 DEF Ends
<1>e. ecAt' = ecAt /\ ecEnd' = ecEnd BY <1>0, <1>2, <1>3 DEF ecAt, ecEnd
<1>8. Down'
  <2>1. /\ \A k \in Int : Spoken[k] \subseteq Spoken'[k] /\ Told[k] \subseteq Told'[k]
        /\ x \in Spoken'[sent["app"] + 1] /\ sent["app"] \in Nat
    <3>1. /\ sent["app"] \in Nat /\ 1..sent["app"] \subseteq 1..sent'["app"]
          /\ sent["app"] + 1 \in 1..sent'["app"]
      BY <1>1, <1>2 DEF Lengths
    <3>2. /\ \A k \in Int : Spoken[k] \subseteq Spoken'[k]
          /\ x \in Spoken'[sent["app"] + 1]
      BY <1>2, <3>1 DEF Spoken, x
    <3>3. \A k \in Int : \/ Told[k] = Spoken[k] /\ Told'[k] = Spoken'[k]
                         \/ Told'[k] = Told[k]
      BY <1>2 DEF Told
    <3> QED BY <3>1, <3>2, <3>3
  <2>2. ToClient' BY <1>1, <1>0, <1>2, <1>3, <1>e DEF ToClient, Switched, Count, Portions
  <2>3. Captured' BY <1>1, <1>0, <1>2, <1>3, <1>e DEF Lengths, Captured, Count, Portions
  <2>4. ToEdge'
    <3>1. (aeLive' <=> aeLive) /\ aeAt' = aeAt /\ aeAt \in Int
      BY <1>0, <1>1, <1>2, <1>e, EcEnd DEF aeLive, aeAt, Lengths
    <3>2. aeLive => Along(buf["ae"], aeAt, Told) /\ Along(wire["ae"], aeAt + InHand("ae"), Told)
      BY <1>1 DEF ToEdge
    <3>3. buf["ae"] \in Seq(Items) /\ wire["ae"] \in Seq(Items) /\ aeAt + InHand("ae") \in Int
      <4>1. buf["ae"] \in Seq(Items) /\ wire["ae"] \in Seq(Items)
        BY <1>1 DEF HopTypes, Hops
      <4>2. InHand("ae") \in Nat
        BY <1>1 DEF Lengths
      <4> QED BY <3>1, <4>1, <4>2
    <3>4. aeLive => Along(buf["ae"], aeAt, Told') /\ Along(wire["ae"], aeAt + InHand("ae"), Told')
      BY <2>1, <3>1, <3>2, <3>3, AlongMore
    <3> QED BY <1>3, <3>1, <3>4 DEF ToEdge
  <2>5. ToAgent'
    <3>1. /\ (laLive' <=> laLive) /\ laAt' = laAt /\ laAt \in Int /\ AppAt = sent["app"]
          /\ AppAt' = sent["app"] + 1
      <4>1. (aeLive' <=> aeLive) /\ aeAt' = aeAt /\ aeAt \in Int
        BY <1>0, <1>1, <1>2, <1>e, EcEnd DEF aeLive, aeAt, Lengths
      <4>2. aeEnd' = aeEnd /\ aeEnd \in Int
        BY <1>1, <1>3, <4>1 DEF aeEnd, Lengths, Rooms, Room
      <4> QED BY <1>2, <4>1, <4>2 DEF laLive, laAt, AppAt
    <3>2. laLive
            => /\ Along(buf["la"], laAt, Spoken) /\ Along(wire["la"], laAt + InHand("la"), Spoken)
                    /\ laAt + InHand("la") + OnWay("la") = sent["app"]
      BY <1>1, <3>1 DEF ToAgent
    <3>3. /\ buf["la"] \in Seq(Items) /\ wire["la"] \in Seq(Items)
          /\ laAt + InHand("la") \in Int /\ OnWay("la") \in Nat
      <4>1. buf["la"] \in Seq(Items) /\ wire["la"] \in Seq(Items)
        BY <1>1 DEF HopTypes, Hops
      <4>2. InHand("la") \in Nat /\ OnWay("la") \in Nat
        BY <1>1 DEF Lengths, Rooms, Room
      <4> QED BY <3>1, <4>1, <4>2
    <3>4. laLive
            => Along(buf["la"], laAt, Spoken') /\ Along(wire["la"], laAt + InHand("la"), Spoken')
      BY <2>1, <3>1, <3>2, <3>3, AlongMore
    <3>5. laLive => x \in Spoken'[laAt + InHand("la") + OnWay("la") + 1]
      BY <2>1, <3>2
    <3>6. laLive => Along(wire'["la"], laAt + InHand("la"), Spoken')
      <4> SUFFICES ASSUME laLive PROVE Along(wire'["la"], laAt + InHand("la"), Spoken')
        OBVIOUS
      <4>1. Along(Append(wire["la"], x), laAt + InHand("la"), Spoken')
        BY <1>S, <3>3, <3>4, <3>5, AlongAppend DEF OnWay
      <4> QED BY <1>S, <4>1
    <3>7. laLive => laAt + InHand("la") + OnWay("la")' = AppAt'
      BY <1>3, <3>1, <3>2, <3>3
    <3> QED BY <1>3, <3>1, <3>4, <3>6, <3>7 DEF ToAgent
  <2> QED BY <2>2, <2>3, <2>4, <2>5 DEF Down
<1>9. Up'
  <2>1. ToApp'
    BY <1>0, <1>1, <1>2, <1>3, <1>4, <1>5 DEF Lengths, Rooms, Room, Stages, Relays, Requested,
       ToApp, alAt, alEnd, Asked, Count, Portions
  <2>2. FromClient' BY <1>0, <1>1, <1>2, <1>3 DEF FromClient, alAt, alEnd, Count, Portions
  <2> QED BY <2>1, <2>2 DEF Up
<1>10. Losses'
  <2>1. UpTotal' = UpTotal /\ DownTotal' = DownTotal + 1 /\ DownTotal \in Int
    <3>1. /\ OnWay("la") \in Nat /\ OnWay("ae") \in Nat /\ InHand("ae") \in Nat
          /\ InHand("la") \in Nat /\ ecEnd \in Nat
      BY <1>1, EcEnd DEF Lengths, Rooms, Room
    <3>2. DownTotal' = ecEnd + (IF edge = "returned" THEN 0 ELSE InHand("ae")) + OnWay("ae")
                  - (IF edge = "read" THEN 1 ELSE 0) + InHand("la") + (OnWay("la") + 1)
      BY <1>2, <1>3, <1>e DEF DownTotal
    <3>3. DownTotal' = DownTotal + 1 /\ DownTotal \in Int
      BY <3>1, <3>2 DEF DownTotal
    <3>4. UpTotal' = UpTotal
      BY <1>0, <1>2, <1>3 DEF UpTotal
    <3> QED BY <3>3, <3>4
  <2>2. Reasons'
    <3>1. sent["app"] \in Nat /\ (LostUp' <=> LostUp) /\ (LostDown' <=> LostDown)
          /\ (DownTotal <= sent["app"] => DownTotal' <= sent'["app"])
      BY <1>1, <1>2, <2>1 DEF LostUp, LostDown, Lengths
    <3> QED BY <1>1, <1>2, <2>1, <3>1 DEF Reasons, Linked
  <2>3. EdgeCopies'
    <3>1. sent["app"] \in Nat /\ (LostUp' <=> LostUp) /\ (LostDown' <=> LostDown)
      BY <1>1, <1>2, <2>1 DEF LostUp, LostDown, Lengths
    <3> QED BY <1>1, <1>2, <1>3, <3>1 DEF EdgeCopies, Linked
  <2>4. AgentCopies'
    <3>1. sent["app"] \in Nat /\ (LostUp' <=> LostUp) /\ (LostDown' <=> LostDown)
      BY <1>1, <1>2, <2>1 DEF LostUp, LostDown, Lengths
    <3> QED BY <1>1, <1>2, <1>3, <3>1 DEF AgentCopies, Linked
  <2>5. Closing' BY <1>1, <1>2, <1>3 DEF Stages, Relays, Closing, Linked
  <2> QED BY <2>2, <2>3, <2>4, <2>5 DEF Losses
<1>11. StoredIsWhole'
  <2>1. sent["app"] \in Nat /\ sent'["app"] = sent["app"] + 1
    BY <1>1, <1>2 DEF Lengths
  <2>2. stored # None => Len(stored) \in Nat
    BY <1>1 DEF DataTypes
  <2>3. stored # None
          => stored = [i \in 1..Len(stored) |-> i] /\ Len(stored) <= Limit /\ kind # "framed"
    BY <1>1, <1>2 DEF StoredIsWhole
  <2>4. stored # None /\ kind = "close" => Len(stored) <= sent'["app"]
    BY <1>1, <2>1, <2>2 DEF StoredIsWhole
  <2> QED BY <1>2, <2>3, <2>4 DEF StoredIsWhole
<1> QED BY <1>5, <1>6, <1>7, <1>8, <1>9, <1>10, <1>11 DEF Inv

\* The app writes the head of its answer.
LEMMA AnswerHeadKeeps ==
  ASSUME Inv, Answer, app = "asked" PROVE Inv'
<1> USE DEF Late, Early, Begun, Joined, Answered, Heard, Kept
<1>1. /\ ControlTypes /\ DataTypes /\ HopTypes /\ Rooms /\ Lengths
      /\ Stages /\ Ends /\ Zeros
      /\ ToClient /\ Captured /\ ToEdge /\ ToAgent /\ ToApp /\ FromClient
      /\ Reasons /\ EdgeCopies /\ AgentCopies /\ Closing /\ StoredIsWhole
  BY TypeParts, TypeLengths, TypeZeros DEF Inv, Down, Up, Losses
<1>0. /\ got' = got => /\ Arrivals("client")' = Arrivals("client")
                       /\ Arrivals("app")' = Arrivals("app")
      /\ cb' = cb => Teed' = Teed
  BY CountsKept
<1> DEFINE x == IF kind = "upgrade" THEN Switch ELSE Ok
<1>S. /\ HopTypes' /\ x \in Items /\ wire["la"] \in Seq(Items) /\ buf' = buf
      /\ wire'["la"] = Append(wire["la"], x) /\ wire'["la"] # <<>>
      /\ OnWay("la")' = OnWay("la") + 1 /\ OnWay("la")' <= Window /\ Room("la")'
      /\ InHand("la")' = InHand("la")
      /\ \A f \in Hops \ {"la"} : Kept(f)
      /\ app = "asked" /\ app' = "body" /\ ~fin["la"]
  <2>1. wire["la"] \in Seq(Items) /\ "la" \in Hops /\ OnWay("la") \in Nat
    BY <1>1 DEF HopTypes, Hops, OnWay
  <2>2. /\ x \in Items /\ wire' = [wire EXCEPT !["la"] = Append(@, x)] /\ buf' = buf
        /\ Len(wire["la"]) < Window
    BY HeadTypes DEF Answer, others
  <2> HIDE DEF x
  <2>3. /\ Append(wire["la"], x) \in Seq(Items) /\ Append(wire["la"], x) # <<>>
        /\ Len(Append(wire["la"], x)) = Len(wire["la"]) + 1
    <3>1. x \in Items /\ wire["la"] \in Seq(Items)
      BY <2>1, <2>2
    <3>2. /\ Append(wire["la"], x) \in Seq(Items)
          /\ Len(Append(wire["la"], x)) = Len(wire["la"]) + 1 /\ Len(wire["la"]) \in Nat
      BY <3>1
    <3>3. Append(wire["la"], x) # <<>>
      BY <3>2, LenEmpty
    <3> QED BY <3>2, <3>3
  <2>4. HopTypes' /\ wire'["la"] = Append(wire["la"], x) /\ \A f \in Hops \ {"la"} : wire'[f] = wire[f]
    BY <1>1, <2>1, <2>2, <2>3 DEF HopTypes
  <2>5. OnWay("la")' = OnWay("la") + 1 /\ OnWay("la") < Window /\ InHand("la")' = InHand("la")
    BY <2>2, <2>3, <2>4 DEF OnWay, InHand
  <2>6. OnWay("la")' <= Window /\ Room("la")'
    BY <2>1, <2>5, Sizes DEF Room
  <2>0. app = "asked" /\ app' = "body" /\ ~fin["la"]
    BY DEF Answer
  <2> QED BY <2>0, <2>1, <2>2, <2>3, <2>4, <2>5, <2>6, KeptWhere

<1>A. /\ ~Begun /\ ~Joined
      /\ edge \notin {"tee", "hijack", "drain", "relay"}
      /\ agent \in {"read", "close", "returned"}
      /\ body["agent"] = "passed" =>
           agent = "read" /\ wire["ae"] = <<>> /\ buf["ae"] = <<>> /\ edge # "start"
      /\ wire["la"] = <<>> /\ buf["la"] = <<>>
      /\ sent["app"] = 0
  <2>1. ~Heard /\ ~Begun
    BY <1>1, <1>S DEF Stages, Relays
  <2>2. agent \in {"read", "close", "returned"}
    BY <1>1, <1>S, <2>1 DEF Stages, Requested, Replied
  <2>3. body["agent"] = "passed" => agent = "read"
    BY <1>1, <1>S, <2>2 DEF Stages, Requested
  <2> QED BY <1>1, <1>S, <2>1, <2>2, <2>3 DEF Stages, Relays, Requested, Replied
<1> HIDE DEF x
<1>2. /\ UNCHANGED <<kind, cacheable, body, edge, agent, copy, session, fin, gone, sent, got, cb,
                      over, stored>>
      /\ HopTypes' /\ app = "asked" /\ app' = "body" /\ ~Begun /\ ~Joined
      /\ agent \in {"read", "close", "returned"}
      /\ body["agent"] = "passed" => agent = "read" /\ edge # "start"
      /\ ~fin["la"]
      /\ edge \notin {"tee", "hijack", "drain", "relay"} /\ sent["app"] = 0
  BY <1>S, <1>A DEF Answer, others, request, choice, tee
<1>3. /\ Kept("ce") /\ Kept("al") /\ Kept("ea") /\ Kept("ae") /\ Kept("ec")
      /\ buf'["la"] = <<>> /\ InHand("la")' = 0
      /\ body["agent"] = "passed" => wire["ae"] = <<>> /\ buf["ae"] = <<>>
      /\ OnWay("la")' = 1 /\ OnWay("la")' <= Window /\ Room("la")'
      /\ wire'["la"] = Append(<<>>, x)
  <2>1. OnWay("la") = 0 /\ InHand("la") = 0
    BY <1>1, <1>A DEF Zeros
  <2> QED BY <1>S, <1>A, <2>1 DEF Hops
<1>4. ControlTypes' /\ DataTypes' /\ Rooms'
  <2>1. ControlTypes' BY <1>1, <1>2 DEF ControlTypes
  <2>2. DataTypes' BY <1>0, <1>1, <1>2 DEF DataTypes
  <2>3. Rooms' BY <1>1, <1>3, Sizes DEF Rooms, Room
  <2> QED BY <2>1, <2>2, <2>3
<1>5. StreamTypeOK' /\ Lengths' /\ Zeros'
  BY <1>2, <1>4, TypePartsPrime, TypeLengths, TypeZeros
<1>6. Stages'
  <2>1. Relays' BY <1>1, <1>2, <1>3 DEF Stages, Relays, Requested, Replied
  <2>2. Requested' BY <1>0, <1>1, <1>2, <1>3 DEF Stages, Relays, Requested
  <2>3. Replied' BY <1>0, <1>1, <1>2, <1>3 DEF Stages, Relays, Replied
  <2>4. Readers' BY <1>0, <1>1, <1>2, <1>3 DEF Stages, Relays, Readers
  <2> QED BY <2>1, <2>2, <2>3, <2>4 DEF Stages
<1>7. Ends' BY <1>1, <1>2, <1>3 DEF Ends
<1>e. ecAt' = ecAt /\ ecEnd' = ecEnd BY <1>0, <1>2, <1>3 DEF ecAt, ecEnd
<1>8. Down'
  <2>1. x \in Spoken'[0] BY <1>2 DEF Spoken, x
  <2>2. ToClient' BY <1>1, <1>0, <1>2, <1>3, <1>e DEF ToClient, Switched, Count, Portions
  <2>3. Captured' BY <1>1, <1>0, <1>2, <1>3, <1>e DEF Lengths, Captured, Count, Portions
  <2>4. ToEdge'
    <3>1. (aeLive' <=> aeLive) /\ aeAt' = aeAt
      BY <1>0, <1>2, <1>e DEF aeLive, aeAt
    <3>2. CASE body["agent"] = "passed"
      <4>1. buf'["ae"] = <<>> /\ wire'["ae"] = <<>>
        BY <1>3, <3>2
      <4> QED BY <4>1, AlongEmpty DEF ToEdge
    <3>3. CASE body["agent"] # "passed"
      <4>1. Told' = Told
        BY <1>2, <3>3 DEF Told
      <4> QED BY <1>1, <1>3, <3>1, <4>1 DEF ToEdge
    <3> QED BY <3>2, <3>3
  <2>5. ToAgent'
    <3>0. CASE agent # "read"
      <4>1. ~laLive'
        BY <1>2, <3>0 DEF laLive
      <4> QED BY <4>1 DEF ToAgent
    <3>R. SUFFICES ASSUME agent = "read" PROVE ToAgent'
      BY <3>0
    <3>1. laAt' = -1 /\ AppAt' = 0
      BY <1>2, <3>R DEF laAt, AppAt
    <3>2. Along(wire'["la"], -1, Spoken')
      <4>1. Len(Append(<<>>, x)) = 1 /\ Append(<<>>, x)[1] = x
        OBVIOUS
      <4>2. \A i \in 1..1 : i = 1 /\ -1 + i = 0
        OBVIOUS
      <4>3. Along(Append(<<>>, x), -1, Spoken')
        BY <2>1, <4>1, <4>2 DEF Along
      <4> QED BY <1>3, <4>3
    <3>3. Along(buf'["la"], -1, Spoken')
      BY <1>3, AlongEmpty
    <3>4. laAt' + InHand("la")' = -1 /\ laAt' + InHand("la")' + OnWay("la")' = 0
      BY <1>3, <3>1
    <3> QED BY <3>1, <3>2, <3>3, <3>4 DEF ToAgent
  <2> QED BY <2>2, <2>3, <2>4, <2>5 DEF Down
<1>9. Up'
  <2>1. ToApp'
    BY <1>0, <1>1, <1>2, <1>3, <1>4, <1>5 DEF Lengths, Rooms, Room, Stages, Relays, Requested,
       ToApp, alAt, alEnd, Asked, Count, Portions
  <2>2. FromClient'
    BY <1>0, <1>1, <1>2, <1>3, <1>4, <1>5 DEF Lengths, Rooms, Room, Stages, Relays,
       FromClient, alAt, alEnd, Count, Portions
  <2> QED BY <2>1, <2>2 DEF Up
<1>10. Losses'
  BY <1>1, <1>2, <1>3 DEF Stages, Relays, Losses, Reasons, EdgeCopies, AgentCopies, Closing,
     Linked
<1>11. StoredIsWhole'
  <2>1. stored # None => kind # "framed"
    BY <1>1, <1>2 DEF StoredIsWhole
  <2> QED BY <1>1, <1>2, <2>1 DEF StoredIsWhole
<1> QED BY <1>5, <1>6, <1>7, <1>8, <1>9, <1>10, <1>11 DEF Inv

\* The app writes the end of a body that has one.
LEMMA AnswerEndKeeps ==
  ASSUME Inv, Answer, app = "body" PROVE Inv'
<1> USE DEF Late, Early, Begun, Joined, Answered, Heard, Kept
<1>1. /\ ControlTypes /\ DataTypes /\ HopTypes /\ Rooms /\ Lengths
      /\ Stages /\ Ends /\ Zeros
      /\ ToClient /\ Captured /\ ToEdge /\ ToAgent /\ ToApp /\ FromClient
      /\ Reasons /\ EdgeCopies /\ AgentCopies /\ Closing /\ StoredIsWhole
  BY TypeParts, TypeLengths, TypeZeros DEF Inv, Down, Up, Losses
<1>0. /\ got' = got => /\ Arrivals("client")' = Arrivals("client")
                       /\ Arrivals("app")' = Arrivals("app")
      /\ cb' = cb => Teed' = Teed
  BY CountsKept
<1> DEFINE x == End
<1>S. /\ HopTypes' /\ x \in Items /\ wire["la"] \in Seq(Items) /\ buf' = buf
      /\ wire'["la"] = Append(wire["la"], x) /\ wire'["la"] # <<>>
      /\ OnWay("la")' = OnWay("la") + 1 /\ OnWay("la")' <= Window /\ Room("la")'
      /\ InHand("la")' = InHand("la")
      /\ \A f \in Hops \ {"la"} : Kept(f)
      /\ app = "body" /\ app' = "done" /\ ~fin["la"] /\ kind = "framed"
  <2>1. wire["la"] \in Seq(Items) /\ "la" \in Hops /\ OnWay("la") \in Nat
    BY <1>1 DEF HopTypes, Hops, OnWay
  <2>0. app' = "done" /\ ~fin["la"] /\ kind = "framed"
    BY DEF Answer
  <2>2. /\ x \in Items /\ wire' = [wire EXCEPT !["la"] = Append(@, x)] /\ buf' = buf
        /\ Len(wire["la"]) < Window
    BY <2>0, HeadTypes DEF Answer, others
  <2> HIDE DEF x
  <2>3. /\ Append(wire["la"], x) \in Seq(Items) /\ Append(wire["la"], x) # <<>>
        /\ Len(Append(wire["la"], x)) = Len(wire["la"]) + 1
    <3>1. x \in Items /\ wire["la"] \in Seq(Items)
      BY <2>1, <2>2
    <3>2. /\ Append(wire["la"], x) \in Seq(Items)
          /\ Len(Append(wire["la"], x)) = Len(wire["la"]) + 1 /\ Len(wire["la"]) \in Nat
      BY <3>1
    <3>3. Append(wire["la"], x) # <<>>
      BY <3>2, LenEmpty
    <3> QED BY <3>2, <3>3
  <2>4. HopTypes' /\ wire'["la"] = Append(wire["la"], x) /\ \A f \in Hops \ {"la"} : wire'[f] = wire[f]
    BY <1>1, <2>1, <2>2, <2>3 DEF HopTypes
  <2>5. OnWay("la")' = OnWay("la") + 1 /\ OnWay("la") < Window /\ InHand("la")' = InHand("la")
    BY <2>2, <2>3, <2>4 DEF OnWay, InHand
  <2>6. OnWay("la")' <= Window /\ Room("la")'
    BY <2>1, <2>5, Sizes DEF Room
  <2> QED BY <2>0, <2>1, <2>2, <2>3, <2>4, <2>5, <2>6, KeptWhere
<1> HIDE DEF x
<1>2. /\ UNCHANGED <<kind, cacheable, body, edge, agent, copy, session, fin, gone, sent, got, cb,
                      over, stored>>
      /\ HopTypes' /\ app = "body" /\ app' = "done" /\ kind = "framed" /\ ~Begun /\ ~Joined
      /\ ~fin["la"] /\ stored = None
  <2>1. ~Begun /\ ~Joined
    BY <1>1, <1>S DEF Stages, Relays
  <2>2. stored = None
    BY <1>1, <1>S DEF StoredIsWhole
  <2> QED BY <1>S, <2>1, <2>2 DEF Answer, others, request, choice, tee
<1>3. /\ Kept("ce") /\ Kept("al") /\ Kept("ea") /\ Kept("ae") /\ Kept("ec")
      /\ buf'["la"] = buf["la"] /\ InHand("la")' = InHand("la")
      /\ OnWay("la")' = OnWay("la") + 1 /\ OnWay("la")' <= Window /\ Room("la")'
      /\ wire'["la"] = Append(wire["la"], x)
  BY <1>S DEF Hops
<1>4. ControlTypes' /\ DataTypes' /\ Rooms'
  <2>1. ControlTypes' BY <1>1, <1>2 DEF ControlTypes
  <2>2. DataTypes' BY <1>0, <1>1, <1>2 DEF DataTypes
  <2>3. Rooms' BY <1>1, <1>3, Sizes DEF Rooms, Room
  <2> QED BY <2>1, <2>2, <2>3
<1>5. StreamTypeOK' /\ Lengths' /\ Zeros'
  BY <1>2, <1>4, TypePartsPrime, TypeLengths, TypeZeros
<1>6. Stages'
  <2>1. Relays' BY <1>1, <1>2, <1>3 DEF Stages, Relays, Requested, Replied
  <2>2. Requested' BY <1>0, <1>1, <1>2, <1>3 DEF Stages, Relays, Requested
  <2>3. Replied' BY <1>0, <1>1, <1>2, <1>3 DEF Stages, Relays, Replied
  <2>4. Readers' BY <1>0, <1>1, <1>2, <1>3 DEF Stages, Relays, Readers
  <2> QED BY <2>1, <2>2, <2>3, <2>4 DEF Stages
<1>7. Ends' BY <1>1, <1>2, <1>3 DEF Ends
<1>e. ecAt' = ecAt /\ ecEnd' = ecEnd BY <1>0, <1>2, <1>3 DEF ecAt, ecEnd
<1>8. Down'
  <2>1. /\ \A k \in Int : Spoken[k] \subseteq Spoken'[k] /\ Told[k] \subseteq Told'[k]
        /\ x \in Spoken'[sent["app"] + 1] /\ sent["app"] \in Nat
    <3>1. sent["app"] \in Nat /\ sent["app"] + 1 # 0
      BY <1>1 DEF Lengths
    <3>2. /\ \A k \in Int : Spoken[k] \subseteq Spoken'[k]
          /\ x \in Spoken'[sent["app"] + 1]
      BY <1>2, <3>1 DEF Spoken, x
    <3>3. \A k \in Int : \/ Told[k] = Spoken[k] /\ Told'[k] = Spoken'[k]
                         \/ Told'[k] = Told[k]
      BY <1>2 DEF Told
    <3> QED BY <3>1, <3>2, <3>3
  <2>2. ToClient' BY <1>1, <1>0, <1>2, <1>3, <1>e DEF ToClient, Switched, Count, Portions
  <2>3. Captured' BY <1>1, <1>0, <1>2, <1>3, <1>e DEF Lengths, Captured, Count, Portions
  <2>4. ToEdge'
    <3>1. (aeLive' <=> aeLive) /\ aeAt' = aeAt /\ aeAt \in Int
      BY <1>0, <1>1, <1>2, <1>e, EcEnd DEF aeLive, aeAt, Lengths
    <3>2. aeLive => Along(buf["ae"], aeAt, Told) /\ Along(wire["ae"], aeAt + InHand("ae"), Told)
      BY <1>1 DEF ToEdge
    <3>3. buf["ae"] \in Seq(Items) /\ wire["ae"] \in Seq(Items) /\ aeAt + InHand("ae") \in Int
      <4>1. buf["ae"] \in Seq(Items) /\ wire["ae"] \in Seq(Items)
        BY <1>1 DEF HopTypes, Hops
      <4>2. InHand("ae") \in Nat
        BY <1>1 DEF Lengths
      <4> QED BY <3>1, <4>1, <4>2
    <3>4. aeLive => Along(buf["ae"], aeAt, Told') /\ Along(wire["ae"], aeAt + InHand("ae"), Told')
      BY <2>1, <3>1, <3>2, <3>3, AlongMore
    <3> QED BY <1>3, <3>1, <3>4 DEF ToEdge
  <2>5. ToAgent'
    <3>1. /\ (laLive' <=> laLive) /\ laAt' = laAt /\ laAt \in Int /\ AppAt = sent["app"]
          /\ AppAt' = sent["app"] + 1
      <4>1. (aeLive' <=> aeLive) /\ aeAt' = aeAt /\ aeAt \in Int
        BY <1>0, <1>1, <1>2, <1>e, EcEnd DEF aeLive, aeAt, Lengths
      <4>2. aeEnd' = aeEnd /\ aeEnd \in Int
        BY <1>1, <1>3, <4>1 DEF aeEnd, Lengths, Rooms, Room
      <4> QED BY <1>2, <4>1, <4>2 DEF laLive, laAt, AppAt
    <3>2. laLive
            => /\ Along(buf["la"], laAt, Spoken) /\ Along(wire["la"], laAt + InHand("la"), Spoken)
                    /\ laAt + InHand("la") + OnWay("la") = sent["app"]
      BY <1>1, <3>1 DEF ToAgent
    <3>3. /\ buf["la"] \in Seq(Items) /\ wire["la"] \in Seq(Items)
          /\ laAt + InHand("la") \in Int /\ OnWay("la") \in Nat
      <4>1. buf["la"] \in Seq(Items) /\ wire["la"] \in Seq(Items)
        BY <1>1 DEF HopTypes, Hops
      <4>2. InHand("la") \in Nat /\ OnWay("la") \in Nat
        BY <1>1 DEF Lengths, Rooms, Room
      <4> QED BY <3>1, <4>1, <4>2
    <3>4. laLive
            => Along(buf["la"], laAt, Spoken') /\ Along(wire["la"], laAt + InHand("la"), Spoken')
      BY <2>1, <3>1, <3>2, <3>3, AlongMore
    <3>5. laLive => x \in Spoken'[laAt + InHand("la") + OnWay("la") + 1]
      BY <2>1, <3>2
    <3>6. laLive => Along(wire'["la"], laAt + InHand("la"), Spoken')
      <4> SUFFICES ASSUME laLive PROVE Along(wire'["la"], laAt + InHand("la"), Spoken')
        OBVIOUS
      <4>1. Along(Append(wire["la"], x), laAt + InHand("la"), Spoken')
        BY <1>S, <3>3, <3>4, <3>5, AlongAppend DEF OnWay
      <4> QED BY <1>S, <4>1
    <3>7. laLive => laAt + InHand("la") + OnWay("la")' = AppAt'
      BY <1>3, <3>1, <3>2, <3>3
    <3> QED BY <1>3, <3>1, <3>4, <3>6, <3>7 DEF ToAgent
  <2> QED BY <2>2, <2>3, <2>4, <2>5 DEF Down
<1>9. Up'
  <2>1. ToApp'
    BY <1>0, <1>1, <1>2, <1>3, <1>4, <1>5 DEF Lengths, Rooms, Room, Stages, Relays, Requested,
       ToApp, alAt, alEnd, Asked, Count, Portions
  <2>2. FromClient'
    BY <1>0, <1>1, <1>2, <1>3, <1>4, <1>5 DEF Lengths, Rooms, Room, Stages, Relays,
       FromClient, alAt, alEnd, Count, Portions
  <2> QED BY <2>1, <2>2 DEF Up
<1>10. Losses'
  BY <1>1, <1>2, <1>3 DEF Stages, Relays, Losses, Reasons, EdgeCopies, AgentCopies, Closing,
     Linked
<1>11. StoredIsWhole' BY <1>1, <1>2 DEF StoredIsWhole
<1> QED BY <1>5, <1>6, <1>7, <1>8, <1>9, <1>10, <1>11 DEF Inv

\* The yamux session breaks, and what is on the stream may not arrive.
LEMMA BreakKeeps ==
  ASSUME Inv, Break PROVE Inv'
<1> USE DEF Late, Early, Begun, Joined, Answered, Heard, Kept
<1>1. /\ ControlTypes /\ DataTypes /\ HopTypes /\ Rooms /\ Lengths
      /\ Stages /\ Ends /\ Zeros
      /\ ToClient /\ Captured /\ ToEdge /\ ToAgent /\ ToApp /\ FromClient
      /\ Reasons /\ EdgeCopies /\ AgentCopies /\ Closing /\ StoredIsWhole
  BY TypeParts, TypeLengths, TypeZeros DEF Inv, Down, Up, Losses
<1>0. /\ got' = got => /\ Arrivals("client")' = Arrivals("client")
                       /\ Arrivals("app")' = Arrivals("app")
      /\ cb' = cb => Teed' = Teed
  BY CountsKept
<1>M. /\ HopTypes' /\ buf' = buf /\ session /\ session' = FALSE
      /\ \A f \in Hops \ {"ea", "ae"} : wire'[f] = wire[f]
      /\ \E n \in 0..Len(wire["ea"]), m \in 0..Len(wire["ae"]) :
           /\ wire'["ea"] = SubSeq(wire["ea"], 1, n) /\ Len(wire'["ea"]) = n
           /\ wire'["ae"] = SubSeq(wire["ae"], 1, m) /\ Len(wire'["ae"]) = m
  <2>1. PICK n \in 0..Len(wire["ea"]), m \in 0..Len(wire["ae"]) :
          wire' = [wire EXCEPT !["ea"] = SubSeq(@, 1, n), !["ae"] = SubSeq(@, 1, m)]
    BY DEF Break
  <2>2. wire["ea"] \in Seq(Items) /\ wire["ae"] \in Seq(Items)
    BY <1>1 DEF HopTypes, Hops
  <2>3. /\ SubSeq(wire["ea"], 1, n) \in Seq(Items) /\ Len(SubSeq(wire["ea"], 1, n)) = n
        /\ SubSeq(wire["ae"], 1, m) \in Seq(Items) /\ Len(SubSeq(wire["ae"], 1, m)) = m
    BY <2>1, <2>2, CutTypes
  <2>4. /\ wire' \in [Hops -> Seq(Items)] /\ \A f \in Hops \ {"ea", "ae"} : wire'[f] = wire[f]
        /\ wire'["ea"] = SubSeq(wire["ea"], 1, n) /\ wire'["ae"] = SubSeq(wire["ae"], 1, m)
    BY <1>1, <2>1, <2>3 DEF HopTypes, Hops
  <2>5. HopTypes' /\ buf' = buf /\ session /\ session' = FALSE
    BY <1>1, <2>4 DEF Break, HopTypes
  <2> QED BY <2>3, <2>4, <2>5
<1>2. /\ UNCHANGED <<kind, cacheable, edge, agent, copy, fin, app, gone, sent, got, cb, over,
                      stored>>
      /\ session /\ session' = FALSE /\ HopTypes'
      /\ body' \in [{"edge", "agent"} -> {"due", "there", "passed"}]
      /\ body'["edge"] = body["edge"]
      /\ body'["agent"] = "passed" <=> body["agent"] = "passed"
      /\ body'["agent"] # "due" => body["agent"] # "due"
  <2>1. body \in [{"edge", "agent"} -> {"due", "there", "passed"}]
    BY <1>1 DEF ControlTypes
  <2> QED BY <1>M, <2>1 DEF Break, choice, peers, tee
<1>3. /\ Kept("ce") /\ Kept("al") /\ Kept("la") /\ Kept("ec")
      /\ buf' = buf /\ InHand("ea")' = InHand("ea") /\ InHand("ae")' = InHand("ae")
      /\ Room("ea")' /\ Room("ae")' /\ OnWay("ea")' <= OnWay("ea")
      /\ OnWay("ae")' <= OnWay("ae")
      /\ wire["ea"] = <<>> => wire'["ea"] = <<>>
      /\ wire["ae"] = <<>> => wire'["ae"] = <<>>
      /\ \A k \in Int : \A T : Along(wire["ea"], k, T) => Along(wire'["ea"], k, T)
      /\ \A k \in Int : \A T : Along(wire["ae"], k, T) => Along(wire'["ae"], k, T)
  <2>1. PICK n \in 0..Len(wire["ea"]), m \in 0..Len(wire["ae"]) :
          /\ wire'["ea"] = SubSeq(wire["ea"], 1, n) /\ Len(wire'["ea"]) = n
          /\ wire'["ae"] = SubSeq(wire["ae"], 1, m) /\ Len(wire'["ae"]) = m
    BY <1>M
  <2>2. wire["ea"] \in Seq(Items) /\ wire["ae"] \in Seq(Items)
    BY <1>1 DEF HopTypes, Hops
  <2>3. /\ wire["ea"] = <<>> => wire'["ea"] = <<>>
        /\ wire["ae"] = <<>> => wire'["ae"] = <<>>
    BY <2>1, <2>2
  <2>4. ASSUME NEW k \in Int, NEW T, Along(wire["ea"], k, T) PROVE Along(wire'["ea"], k, T)
    BY <2>1, <2>2, <2>4, AlongCut
  <2>5. ASSUME NEW k \in Int, NEW T, Along(wire["ae"], k, T) PROVE Along(wire'["ae"], k, T)
    BY <2>1, <2>2, <2>5, AlongCut
  <2>6. /\ OnWay("ea")' \in Nat /\ OnWay("ea")' <= OnWay("ea") /\ OnWay("ae")' \in Nat
        /\ OnWay("ae")' <= OnWay("ae")
    BY <2>1 DEF OnWay
  <2>7. Room("ea")' /\ Room("ae")'
    BY <1>1, <2>6, Sizes DEF Rooms, Room
  <2>8. /\ Kept("ce") /\ Kept("al") /\ Kept("la") /\ Kept("ec")
        /\ InHand("ea")' = InHand("ea") /\ InHand("ae")' = InHand("ae")
    BY <1>M, KeptWhere DEF Hops, InHand
  <2> QED BY <1>M, <2>3, <2>4, <2>5, <2>6, <2>7, <2>8
<1>4. ControlTypes' /\ DataTypes' /\ Rooms'
  <2>1. ControlTypes'
    <3>1. /\ body' \in [{"edge", "agent"} -> {"due", "there", "passed"}]
          /\ kind' = kind /\ cacheable' = cacheable /\ edge' = edge /\ agent' = agent
          /\ copy' = copy
          /\ session' \in BOOLEAN /\ over' = over /\ app' = app /\ gone' = gone
      BY <1>2
    <3> QED BY <1>1, <3>1 DEF ControlTypes
  <2>2. DataTypes' BY <1>0, <1>1, <1>2 DEF DataTypes
  <2>3. Rooms' BY <1>1, <1>3, Sizes DEF Rooms, Room
  <2> QED BY <2>1, <2>2, <2>3
<1>5. StreamTypeOK' /\ Lengths' /\ Zeros'
  BY <1>2, <1>4, TypePartsPrime, TypeLengths, TypeZeros
<1>6. Stages'
  <2>1. Relays' BY <1>1, <1>2, <1>3 DEF Stages, Relays, Requested, Replied
  <2>2. Requested' BY <1>0, <1>1, <1>2, <1>3 DEF Stages, Relays, Requested, Rooms, Room
  <2>3. Replied' BY <1>0, <1>1, <1>2, <1>3 DEF Stages, Relays, Replied
  <2>4. Readers' BY <1>0, <1>1, <1>2, <1>3 DEF Stages, Relays, Readers
  <2> QED BY <2>1, <2>2, <2>3, <2>4 DEF Stages
<1>7. Ends' BY <1>1, <1>2, <1>3 DEF Ends
<1>e. ecAt' = ecAt /\ ecEnd' = ecEnd BY <1>0, <1>2, <1>3 DEF ecAt, ecEnd
<1>8. Down'
  <2>1. Spoken' = Spoken /\ Told' = Told BY <1>2 DEF Spoken, Told
  <2>2. ToClient' BY <1>1, <1>0, <1>2, <1>3, <1>e DEF ToClient, Switched, Count, Portions
  <2>3. Captured' BY <1>1, <1>0, <1>2, <1>3, <1>e DEF Lengths, Captured, Count, Portions
  <2>4. ToEdge'
    <3>1. (aeLive' <=> aeLive) /\ aeAt' = aeAt /\ aeAt \in Int /\ aeAt + InHand("ae") \in Int
      <4>1. (aeLive' <=> aeLive) /\ aeAt' = aeAt
        BY <1>0, <1>2, <1>e DEF aeLive, aeAt
      <4>2. aeAt \in Int /\ InHand("ae") \in Nat
        BY <1>1, EcEnd DEF aeAt, Lengths
      <4> QED BY <4>1, <4>2
    <3>2. aeLive => Along(buf["ae"], aeAt, Told) /\ Along(wire["ae"], aeAt + InHand("ae"), Told)
      BY <1>1 DEF ToEdge
    <3>3. aeLive => Along(wire'["ae"], aeAt + InHand("ae"), Told)
      <4>1. \A k \in Int : \A T : Along(wire["ae"], k, T) => Along(wire'["ae"], k, T)
        BY <1>3
      <4> QED BY <3>1, <3>2, <4>1
    <3>4. buf' = buf /\ InHand("ae")' = InHand("ae")
      BY <1>3
    <3> QED BY <2>1, <3>1, <3>2, <3>3, <3>4 DEF ToEdge
  <2>5. ToAgent'
    <3>1. laLive' => laLive /\ laAt' = laAt
      BY <1>2 DEF laLive, laAt
    <3> QED BY <1>1, <1>2, <1>3, <2>1, <3>1 DEF ToAgent, AppAt
  <2> QED BY <2>2, <2>3, <2>4, <2>5 DEF Down
<1>9. Up'
  <2>1. ToApp'
    <3>1. alAt' = alAt /\ alEnd' = alEnd /\ alEnd \in Int
      <4>1. alAt' = alAt /\ alEnd' = alEnd
        BY <1>0, <1>2, <1>3 DEF alAt, alEnd
      <4> QED BY <1>1, <4>1 DEF alAt, alEnd, Lengths, Rooms, Room
    <3>2. Begun /\ agent # "returned" /\ "app" \notin gone => Along(wire'["ea"], alEnd, Count)
      <4>1. \A k \in Int : \A T : Along(wire["ea"], k, T) => Along(wire'["ea"], k, T)
        BY <1>3
      <4>2. Begun /\ agent # "returned" /\ "app" \notin gone => Along(wire["ea"], alEnd, Count)
        BY <1>1 DEF ToApp
      <4> QED BY <3>1, <4>1, <4>2
    <3>3. wire'["al"] = wire["al"] /\ Count' = Count /\ Asked' = Asked
      BY <1>3 DEF Asked, Count, Portions
    <3>4. Along(got["app"], 0, Count) /\ Along(wire["al"], alAt, Asked)
      BY <1>1 DEF ToApp
    <3> QED BY <1>2, <3>1, <3>2, <3>3, <3>4 DEF ToApp
  <2>2. FromClient' BY <1>1, <1>2, <1>3 DEF FromClient, Count, Portions
  <2> QED BY <2>1, <2>2 DEF Up
<1>10. Losses'
  BY <1>1, <1>2, <1>3 DEF Stages, Relays, Losses, Reasons, EdgeCopies, AgentCopies, Closing,
     Linked
<1>11. StoredIsWhole' BY <1>1, <1>2 DEF StoredIsWhole
<1> QED BY <1>5, <1>6, <1>7, <1>8, <1>9, <1>10, <1>11 DEF Inv

\* The client reads an item.
LEMMA ReceiveClientKeeps ==
  ASSUME Inv, Receive("client") PROVE Inv'
<1> USE DEF Late, Early, Begun, Joined, Answered, Heard, Kept
<1>1. /\ ControlTypes /\ DataTypes /\ HopTypes /\ Rooms /\ Lengths
      /\ Stages /\ Ends /\ Zeros
      /\ ToClient /\ Captured /\ ToEdge /\ ToAgent /\ ToApp /\ FromClient
      /\ Reasons /\ EdgeCopies /\ AgentCopies /\ Closing /\ StoredIsWhole
  BY TypeParts, TypeLengths, TypeZeros DEF Inv, Down, Up, Losses
<1>0. /\ got' = got => /\ Arrivals("client")' = Arrivals("client")
                       /\ Arrivals("app")' = Arrivals("app")
      /\ cb' = cb => Teed' = Teed
  BY CountsKept
<1> DEFINE x == Head(wire["ec"])
<1>P. /\ HopTypes' /\ x \in Items /\ wire["ec"] # <<>> /\ "client" \notin gone /\ buf' = buf
      /\ wire'["ec"] = Tail(wire["ec"]) /\ wire'["ec"] \in Seq(Items)
      /\ OnWay("ec")' = OnWay("ec") - 1 /\ OnWay("ec") > 0 /\ Room("ec")'
      /\ InHand("ec")' = InHand("ec")
      /\ \A f \in Hops \ {"ec"} : Kept(f)
      /\ got' = (IF x \in Portions THEN [got EXCEPT !["client"] = Append(@, x)] ELSE got)
      /\ app' = (IF x = Request THEN "asked" ELSE app)
      /\ \A n \in Int : \A T : Along(wire["ec"], n, T) => x \in T[n + 1] /\ Along(wire'["ec"], n + 1, T)
  <2>1. /\ "ec" \in Hops /\ wire["ec"] \in Seq(Items) /\ wire["ec"] # <<>>
        /\ "client" \notin gone /\ buf' = buf
        /\ wire' = [wire EXCEPT !["ec"] = Tail(@)]
        /\ got' = (IF x \in Portions THEN [got EXCEPT !["client"] = Append(@, x)] ELSE got)
        /\ app' = (IF x = Request THEN "asked" ELSE app)
    BY <1>1 DEF Receive, Incoming, others, HopTypes, Hops
  <2>2. /\ x \in Items /\ Tail(wire["ec"]) \in Seq(Items)
        /\ Len(Tail(wire["ec"])) = Len(wire["ec"]) - 1 /\ Len(wire["ec"]) > 0
    BY <2>1
  <2> HIDE DEF x
  <2>3. HopTypes' /\ wire'["ec"] = Tail(wire["ec"]) /\ \A f \in Hops \ {"ec"} : wire'[f] = wire[f]
    BY <1>1, <2>1, <2>2 DEF HopTypes
  <2>4. OnWay("ec")' = OnWay("ec") - 1 /\ OnWay("ec") > 0 /\ InHand("ec")' = InHand("ec")
    BY <2>1, <2>2, <2>3 DEF OnWay, InHand
  <2>5. Room("ec")'
    BY <1>1, <2>4, Sizes DEF Rooms, Room
  <2>6. ASSUME NEW n \in Int, NEW T, Along(wire["ec"], n, T)
        PROVE  x \in T[n + 1] /\ Along(wire'["ec"], n + 1, T)
    BY <2>1, <2>3, <2>6, AlongHead DEF x
  <2> QED BY <2>1, <2>2, <2>3, <2>4, <2>5, <2>6, KeptWhere
<1> HIDE DEF x

<1>A. /\ Along(got["client"], 0, Count) /\ Along(wire["ec"], ecAt, Switched) /\ ecAt \in Int
      /\ x \in Switched[ecAt + 1] /\ Along(wire'["ec"], ecAt + 1, Switched)
      /\ ecAt = -1 => got["client"] = <<>> /\ Arrivals("client") = 0
  BY <1>1, <1>P, EcEnd DEF ToClient, Zeros
<1>B. \/ x = Switch /\ ecAt = -1
      \/ x \in Portions /\ x = Arrivals("client") + 1 /\ ecAt = Arrivals("client")
  <2>1. CASE x = Switch
    BY <1>P, <2>1 DEF ecAt, x
  <2>2. CASE x # Switch
    <3>1. ecAt = Arrivals("client") /\ Arrivals("client") \in Nat
      BY <1>1, <1>P, <2>2 DEF ecAt, x, Lengths
    <3>2. Switched[ecAt + 1] = Count[ecAt + 1] /\ ecAt + 1 \in Int
      BY <3>1 DEF Switched
    <3> QED BY <1>A, <3>1, <3>2, CountAt
  <2> QED BY <2>1, <2>2
<1>2. /\ UNCHANGED <<kind, cacheable, body, edge, agent, copy, session, fin, app, gone, sent, cb,
                      over, stored>>
      /\ HopTypes' /\ got' \in [{"client", "app"} -> Seq(Portions)]
      /\ got'["app"] = got["app"] /\ Arrivals("app")' = Arrivals("app")
      /\ edge \notin {"start", "read", "hijack"} /\ agent \notin Early /\ "client" \notin gone
  <2>1. app' = app
    BY <1>B, <1>P, HeadTypes
  <2>2. edge \notin {"start", "read", "hijack"} /\ agent \notin Early
    BY <1>1, <1>P DEF Stages, Replied, Readers
  <2>3. /\ got["client"] \in Seq(Portions)
        /\ (x \in Portions => Append(got["client"], x) \in Seq(Portions))
    BY <1>1 DEF DataTypes
  <2>4. got' \in [{"client", "app"} -> Seq(Portions)] /\ got'["app"] = got["app"]
    BY <1>1, <1>P, <2>3 DEF DataTypes
  <2> QED BY <1>P, <2>1, <2>2, <2>4 DEF Receive, others, request, choice, tee, Arrivals
<1>3. /\ Kept("ce") /\ Kept("al") /\ Kept("ea") /\ Kept("ae") /\ Kept("la")
      /\ OnWay("ec")' = OnWay("ec") - 1 /\ Room("ec")' /\ buf' = buf
  BY <1>P DEF Hops
<1>4. ControlTypes' /\ DataTypes' /\ Rooms'
  <2>1. ControlTypes' BY <1>1, <1>2 DEF ControlTypes
  <2>2. DataTypes' BY <1>0, <1>1, <1>2 DEF DataTypes
  <2>3. Rooms' BY <1>1, <1>3, Sizes DEF Rooms, Room
  <2> QED BY <2>1, <2>2, <2>3
<1>5. StreamTypeOK' /\ Lengths' /\ Zeros'
  BY <1>2, <1>4, TypePartsPrime, TypeLengths, TypeZeros
<1>6. Stages'
  <2>1. Relays' BY <1>1, <1>2, <1>3 DEF Stages, Relays, Requested, Replied
  <2>2. Requested' BY <1>0, <1>1, <1>2, <1>3 DEF Stages, Relays, Requested
  <2>3. Replied' BY <1>0, <1>1, <1>2, <1>3 DEF Stages, Relays, Replied
  <2>4. Readers' BY <1>0, <1>1, <1>2, <1>3 DEF Stages, Relays, Readers
  <2> QED BY <2>1, <2>2, <2>3, <2>4 DEF Stages
<1>7. Ends' BY <1>1, <1>2, <1>3 DEF Ends
<1>e. ecAt' = ecAt + 1 /\ ecEnd' = ecEnd /\ ecAt + 1 = Arrivals("client")'
  <2>1. Arrivals("client") \in Nat /\ OnWay("ec") \in Nat
    BY <1>1 DEF Lengths, Rooms, Room
  <2>2. Arrivals("client")' = ecAt + 1
    <3>1. CASE x = Switch /\ ecAt = -1
      <4>1. got' = got
        BY <1>P, <3>1, HeadTypes
      <4> QED BY <1>A, <3>1, <4>1 DEF Arrivals
    <3>2. CASE x \in Portions /\ x = Arrivals("client") + 1 /\ ecAt = Arrivals("client")
      <4>1. got'["client"] = Append(got["client"], x) /\ got["client"] \in Seq(Portions)
        BY <1>1, <1>P, <3>2 DEF DataTypes
      <4>2. Len(got'["client"]) = Len(got["client"]) + 1
        BY <4>1
      <4> QED BY <3>2, <4>2 DEF Arrivals
    <3> QED BY <1>B, <3>1, <3>2
  <2>3. wire'["ec"] # <<>> => Head(wire'["ec"]) # Switch
    <3> SUFFICES ASSUME wire'["ec"] # <<>> PROVE Head(wire'["ec"]) # Switch
      OBVIOUS
    <3>1. ecAt + 1 \in Int /\ ecAt + 1 + 1 \in Int /\ ecAt + 1 + 1 # 0
      BY <1>A, <1>B, <2>1
    <3>2. Head(wire'["ec"]) \in Switched[ecAt + 1 + 1]
      BY <1>A, <1>P, <3>1, AlongHead
    <3>3. Switched[ecAt + 1 + 1] = Count[ecAt + 1 + 1]
      BY <3>1 DEF Switched
    <3> QED BY <3>1, <3>2, <3>3, CountAt, HeadTypes
  <2>4. ecAt' = Arrivals("client")'
    BY <2>3 DEF ecAt
  <2>5. ecEnd' = ecEnd
    BY <1>3, <1>A, <2>1, <2>2, <2>4 DEF ecEnd
  <2> QED BY <2>2, <2>4, <2>5
<1>8. Down'
  <2>1. Spoken' = Spoken /\ Told' = Told BY <1>2 DEF Spoken, Told
  <2>2. ToClient'
    <3>1. Along(got'["client"], 0, Count)
      <4>1. CASE x = Switch /\ ecAt = -1
        <5>1. got' = got
          BY <1>P, <4>1, HeadTypes
        <5> QED BY <1>A, <5>1
      <4>2. CASE x \in Portions /\ x = Arrivals("client") + 1 /\ ecAt = Arrivals("client")
        <5>1. /\ got'["client"] = Append(got["client"], x)
              /\ got["client"] \in Seq(Portions) /\ Arrivals("client") \in Nat
          BY <1>1, <1>P, <4>2 DEF DataTypes, Lengths
        <5>2. x \in Count[0 + Len(got["client"]) + 1] /\ x \in Portions
          BY <4>2, <5>1 DEF Count, Arrivals
          <5>3. Along(Append(got["client"], x), 0, Count)
            <6>1. Along(got["client"], 0, Count) /\ 0 \in Int
              BY <1>A
            <6> QED BY <5>1, <5>2, <6>1, AlongAppend
        <5> QED BY <5>1, <5>3
      <4> QED BY <1>B, <4>1, <4>2
    <3>2. ecAt' # -1 /\ Along(wire'["ec"], ecAt', Switched)
      BY <1>1, <1>A, <1>B, <1>e DEF Lengths
    <3> QED BY <3>1, <3>2 DEF ToClient, Switched, Count, Portions
  <2>3. Captured' BY <1>1, <1>0, <1>2, <1>3, <1>e DEF Lengths, Captured, Count, Portions
  <2>4. ToEdge' BY <1>0, <1>1, <1>2, <1>3, <2>1, <1>e DEF ToEdge, aeLive, aeAt
  <2>5. ToAgent'
    BY <1>0, <1>1, <1>2, <1>3, <1>5, <2>1, <1>e DEF ToAgent, aeLive, aeAt, aeEnd, laLive,
       laAt, AppAt
  <2> QED BY <2>2, <2>3, <2>4, <2>5 DEF Down
<1>9. Up'
  <2>1. ToApp' BY <1>1, <1>2, <1>3 DEF ToApp, alAt, alEnd, Asked, Count, Portions
  <2>2. FromClient' BY <1>1, <1>2, <1>3 DEF FromClient, alAt, alEnd, Count, Portions
  <2> QED BY <2>1, <2>2 DEF Up
<1>10. Losses'
  <2>1. UpTotal' = UpTotal /\ DownTotal' = DownTotal BY <1>2, <1>3, <1>e DEF UpTotal, DownTotal
  <2>2. Reasons' BY <1>1, <1>2, <1>5, <2>1 DEF Lengths, Reasons, Linked, LostUp, LostDown
  <2>3. EdgeCopies' BY <1>1, <1>2, <1>3, <1>5, <2>1 DEF EdgeCopies, Linked, LostUp, LostDown
  <2>4. AgentCopies' BY <1>1, <1>2, <1>3, <1>5, <2>1 DEF AgentCopies, Linked, LostUp, LostDown
  <2>5. Closing' BY <1>1, <1>2, <1>3 DEF Stages, Relays, Closing, Linked
  <2> QED BY <2>2, <2>3, <2>4, <2>5 DEF Losses
<1>11. StoredIsWhole' BY <1>1, <1>2 DEF StoredIsWhole
<1> QED BY <1>5, <1>6, <1>7, <1>8, <1>9, <1>10, <1>11 DEF Inv

\* The app reads an item: the request, or a portion.
LEMMA ReceiveAppKeeps ==
  ASSUME Inv, Receive("app") PROVE Inv'
<1> USE DEF Late, Early, Begun, Joined, Answered, Heard, Kept
<1>1. /\ ControlTypes /\ DataTypes /\ HopTypes /\ Rooms /\ Lengths
      /\ Stages /\ Ends /\ Zeros
      /\ ToClient /\ Captured /\ ToEdge /\ ToAgent /\ ToApp /\ FromClient
      /\ Reasons /\ EdgeCopies /\ AgentCopies /\ Closing /\ StoredIsWhole
  BY TypeParts, TypeLengths, TypeZeros DEF Inv, Down, Up, Losses
<1>0. /\ got' = got => /\ Arrivals("client")' = Arrivals("client")
                       /\ Arrivals("app")' = Arrivals("app")
      /\ cb' = cb => Teed' = Teed
  BY CountsKept
<1> DEFINE x == Head(wire["al"])
<1>P. /\ HopTypes' /\ x \in Items /\ wire["al"] # <<>> /\ "app" \notin gone /\ buf' = buf
      /\ wire'["al"] = Tail(wire["al"]) /\ wire'["al"] \in Seq(Items)
      /\ OnWay("al")' = OnWay("al") - 1 /\ OnWay("al") > 0 /\ Room("al")'
      /\ InHand("al")' = InHand("al")
      /\ \A f \in Hops \ {"al"} : Kept(f)
      /\ got' = (IF x \in Portions THEN [got EXCEPT !["app"] = Append(@, x)] ELSE got)
      /\ app' = (IF x = Request THEN "asked" ELSE app)
      /\ \A n \in Int : \A T : Along(wire["al"], n, T) => x \in T[n + 1] /\ Along(wire'["al"], n + 1, T)
  <2>1. /\ "al" \in Hops /\ wire["al"] \in Seq(Items) /\ wire["al"] # <<>>
        /\ "app" \notin gone /\ buf' = buf
        /\ wire' = [wire EXCEPT !["al"] = Tail(@)]
        /\ got' = (IF x \in Portions THEN [got EXCEPT !["app"] = Append(@, x)] ELSE got)
        /\ app' = (IF x = Request THEN "asked" ELSE app)
    BY <1>1 DEF Receive, Incoming, others, HopTypes, Hops
  <2>2. /\ x \in Items /\ Tail(wire["al"]) \in Seq(Items)
        /\ Len(Tail(wire["al"])) = Len(wire["al"]) - 1 /\ Len(wire["al"]) > 0
    BY <2>1
  <2> HIDE DEF x
  <2>3. HopTypes' /\ wire'["al"] = Tail(wire["al"]) /\ \A f \in Hops \ {"al"} : wire'[f] = wire[f]
    BY <1>1, <2>1, <2>2 DEF HopTypes
  <2>4. OnWay("al")' = OnWay("al") - 1 /\ OnWay("al") > 0 /\ InHand("al")' = InHand("al")
    BY <2>1, <2>2, <2>3 DEF OnWay, InHand
  <2>5. Room("al")'
    BY <1>1, <2>4, Sizes DEF Rooms, Room
  <2>6. ASSUME NEW n \in Int, NEW T, Along(wire["al"], n, T)
        PROVE  x \in T[n + 1] /\ Along(wire'["al"], n + 1, T)
    BY <2>1, <2>3, <2>6, AlongHead DEF x
  <2> QED BY <2>1, <2>2, <2>3, <2>4, <2>5, <2>6, KeptWhere
<1> HIDE DEF x

<1>A. /\ Along(got["app"], 0, Count) /\ alAt \in Int
      /\ x \in Asked[alAt + 1] /\ Along(wire'["al"], alAt + 1, Asked)
      /\ app = "listen" => Arrivals("app") = 0
  <2>1. alAt \in Int
    BY <1>1 DEF alAt, Lengths
  <2>2. app = "listen" => Arrivals("app") = 0
    BY <1>1 DEF Stages, Relays, Requested, Zeros
  <2> QED BY <1>1, <1>P, <2>1, <2>2 DEF ToApp
<1>B. /\ app = "listen" => x = Request /\ alAt = -1
      /\ app # "listen" => x \in Portions /\ x = Arrivals("app") + 1 /\ alAt = Arrivals("app")
  <2>1. CASE app = "listen"
    <3>1. alAt = -1
      BY <2>1 DEF alAt
    <3>2. x \in Asked[0]
      BY <1>A, <3>1
    <3> QED BY <2>1, <3>1, <3>2 DEF Asked
  <2>2. CASE app # "listen"
    <3>1. alAt = Arrivals("app") /\ Arrivals("app") \in Nat
      BY <1>1, <2>2 DEF alAt, Lengths
    <3>2. Asked[alAt + 1] = Count[alAt + 1] /\ alAt + 1 \in Int
      BY <3>1 DEF Asked
    <3> QED BY <1>A, <2>2, <3>1, <3>2, CountAt
  <2> QED BY <2>1, <2>2
<1>C. Arrivals("app")' = alAt + 1
  <2>1. CASE app = "listen"
    <3>1. got' = got
      BY <1>B, <1>P, <2>1, HeadTypes
    <3> QED BY <1>A, <1>B, <2>1, <3>1 DEF Arrivals
  <2>2. CASE app # "listen"
    <3>1. got'["app"] = Append(got["app"], x) /\ got["app"] \in Seq(Portions)
      BY <1>1, <1>B, <1>P, <2>2 DEF DataTypes
    <3>2. Len(got'["app"]) = Len(got["app"]) + 1
      BY <3>1
    <3> QED BY <1>B, <2>2, <3>2 DEF Arrivals
  <2> QED BY <2>1, <2>2
<1>2. /\ UNCHANGED <<kind, cacheable, body, edge, agent, copy, session, fin, gone, sent, cb, over,
                      stored>>
      /\ HopTypes' /\ got' \in [{"client", "app"} -> Seq(Portions)]
      /\ got'["client"] = got["client"] /\ Arrivals("client")' = Arrivals("client")
      /\ app = "listen" => app' = "asked" /\ got' = got /\ ~Begun /\ ~Joined
      /\ app # "listen" => app' = app /\ Begun
      /\ agent \notin {"idle", "dial"} /\ (Answered' <=> Answered)
      /\ (app' = "done" <=> app = "done") /\ app' \in {"asked", "body", "done"}
  <2>1. /\ agent \notin {"idle", "dial"} /\ (app = "listen" => ~Begun /\ ~Joined)
        /\ (app # "listen" => Begun)
    BY <1>1, <1>P DEF Stages, Relays, Requested
  <2>2. app = "listen" => app' = "asked" /\ got' = got
    BY <1>B, <1>P, HeadTypes
  <2>3. app # "listen" => app' = app /\ app \in {"asked", "body", "done"}
    BY <1>1, <1>B, <1>P, HeadTypes DEF ControlTypes
  <2>4. /\ got["app"] \in Seq(Portions)
        /\ (x \in Portions => Append(got["app"], x) \in Seq(Portions))
    BY <1>1 DEF DataTypes
  <2>5. got' \in [{"client", "app"} -> Seq(Portions)] /\ got'["client"] = got["client"]
    BY <1>1, <1>P, <2>4 DEF DataTypes
  <2> QED BY <1>P, <2>1, <2>2, <2>3, <2>5 DEF Receive, others, request, choice, tee, Arrivals
<1>3. /\ Kept("ce") /\ Kept("la") /\ Kept("ea") /\ Kept("ae") /\ Kept("ec")
      /\ OnWay("al")' = OnWay("al") - 1 /\ OnWay("al") > 0 /\ Room("al")' /\ buf' = buf
      /\ wire["al"] # <<>>
  BY <1>P DEF Hops
<1>4. ControlTypes' /\ DataTypes' /\ Rooms'
  <2>1. ControlTypes' BY <1>1, <1>2 DEF ControlTypes
  <2>2. DataTypes' BY <1>0, <1>1, <1>2 DEF DataTypes
  <2>3. Rooms' BY <1>1, <1>3, Sizes DEF Rooms, Room
  <2> QED BY <2>1, <2>2, <2>3
<1>5. StreamTypeOK' /\ Lengths' /\ Zeros'
  BY <1>2, <1>4, TypePartsPrime, TypeLengths, TypeZeros
<1>6. Stages'
  <2>1. Relays' BY <1>1, <1>2, <1>3 DEF Stages, Relays, Requested, Replied
  <2>2. Requested'
    <3>1. app = "listen" => wire'["al"] = <<>>
      <4>1. app = "listen" => OnWay("al") <= 1 /\ OnWay("al") \in Nat
        BY <1>1, <1>2 DEF Stages, Requested, Rooms, Room
      <4>2. app = "listen" => OnWay("al")' = 0
        BY <1>3, <4>1
      <4> QED BY <1>5, <4>2 DEF Zeros
    <3> QED BY <1>0, <1>1, <1>2, <1>3, <3>1 DEF Stages, Relays, Requested
  <2>3. Replied' BY <1>0, <1>1, <1>2, <1>3 DEF Stages, Relays, Replied
  <2>4. Readers' BY <1>0, <1>1, <1>2, <1>3 DEF Stages, Relays, Readers
  <2> QED BY <2>1, <2>2, <2>3, <2>4 DEF Stages
<1>7. Ends' BY <1>1, <1>2, <1>3 DEF Ends
<1>e. ecAt' = ecAt /\ ecEnd' = ecEnd BY <1>0, <1>2, <1>3 DEF ecAt, ecEnd
<1>E. alAt' = alAt + 1 /\ alEnd' = alEnd
  <2>1. alAt' = alAt + 1
    BY <1>2, <1>C DEF alAt
  <2>2. OnWay("al") \in Nat
    BY <1>1 DEF Rooms, Room
  <2> QED BY <1>3, <1>A, <2>1, <2>2 DEF alEnd
<1>8. Down'
  <2>1. Spoken' = Spoken /\ Told' = Told
    <3>1. Spoken' = Spoken
      BY <1>2 DEF Spoken
    <3> QED BY <1>2, <3>1 DEF Told
  <2>2. ToClient' BY <1>1, <1>0, <1>2, <1>3, <1>e DEF ToClient, Switched, Count, Portions
  <2>3. Captured' BY <1>1, <1>0, <1>2, <1>3, <1>e DEF Lengths, Captured, Count, Portions
  <2>4. ToEdge' BY <1>0, <1>1, <1>2, <1>3, <1>e, <2>1 DEF ToEdge, aeLive, aeAt
  <2>5. ToAgent'
    <3>1. AppAt' = AppAt
      BY <1>2 DEF AppAt
    <3> QED BY <1>0, <1>1, <1>2, <1>3, <1>e, <2>1, <3>1 DEF ToAgent, aeLive, aeAt, aeEnd, laLive, laAt
  <2> QED BY <2>2, <2>3, <2>4, <2>5 DEF Down
<1>9. Up'
  <2>1. ToApp'
    <3>1. Along(got'["app"], 0, Count)
      <4>1. CASE app = "listen"
        BY <1>2, <1>A, <4>1
      <4>2. CASE app # "listen"
        <5>1. /\ got'["app"] = Append(got["app"], x) /\ got["app"] \in Seq(Portions)
              /\ Arrivals("app") \in Nat
          BY <1>1, <1>B, <1>P, <4>2 DEF DataTypes, Lengths
        <5>2. x \in Count[0 + Len(got["app"]) + 1] /\ x \in Portions
          BY <1>B, <4>2, <5>1 DEF Count, Arrivals
        <5>3. Along(Append(got["app"], x), 0, Count)
          BY <1>A, <5>1, <5>2, AlongAppend
        <5> QED BY <5>1, <5>3
      <4> QED BY <4>1, <4>2
    <3>2. Along(wire'["al"], alAt', Asked)
      BY <1>A, <1>E
    <3>3. Begun /\ agent # "returned" /\ "app" \notin gone => Along(wire["ea"], alEnd, Count)
      BY <1>1 DEF ToApp
    <3> QED BY <1>2, <1>3, <1>E, <3>1, <3>2, <3>3 DEF ToApp, Asked, Count, Portions
  <2>2. FromClient' BY <1>1, <1>2, <1>3, <1>E DEF FromClient, Count, Portions
  <2> QED BY <2>1, <2>2 DEF Up
<1>10. Losses'
  <2>1. (Begun => UpTotal' = UpTotal) /\ DownTotal' = DownTotal
    <3>1. Begun => Arrivals("app")' = Arrivals("app") + 1
      BY <1>1, <1>2, <1>B, <1>C DEF Stages, Relays
    <3>2. /\ Arrivals("app") \in Nat /\ OnWay("al") \in Nat /\ OnWay("ea") \in Nat
          /\ InHand("ce") \in Nat /\ OnWay("ce") \in Nat
      BY <1>1 DEF Lengths, Rooms, Room
    <3>3. UpTotal' = Arrivals("app")' + OnWay("al")' + OnWay("ea") + InHand("ce") + OnWay("ce")
      BY <1>3 DEF UpTotal
    <3>4. Begun => UpTotal' = UpTotal
      BY <1>3, <3>1, <3>2, <3>3 DEF UpTotal
    <3>5. DownTotal' = DownTotal
      BY <1>2, <1>3, <1>e DEF DownTotal
    <3> QED BY <3>4, <3>5
  <2>2. Reasons' BY <1>1, <1>2, <1>5, <2>1 DEF Lengths, Reasons, Linked, LostUp, LostDown
  <2>3. EdgeCopies' BY <1>1, <1>2, <1>3, <1>5, <2>1 DEF EdgeCopies, Linked, LostUp, LostDown
  <2>4. AgentCopies' BY <1>1, <1>2, <1>3, <1>5, <2>1 DEF AgentCopies, Linked, LostUp, LostDown
  <2>5. Closing' BY <1>1, <1>2, <1>3 DEF Stages, Relays, Closing, Linked
  <2> QED BY <2>2, <2>3, <2>4, <2>5 DEF Losses
<1>11. StoredIsWhole' BY <1>1, <1>2 DEF StoredIsWhole
<1> QED BY <1>5, <1>6, <1>7, <1>8, <1>9, <1>10, <1>11 DEF Inv

\* The client closes its direction, or leaves.
LEMMA FinishClientKeeps ==
  ASSUME Inv, Finish("client") PROVE Inv'
<1> USE DEF Late, Early, Begun, Joined, Answered, Heard, Kept
<1>1. /\ ControlTypes /\ DataTypes /\ HopTypes /\ Rooms /\ Lengths
      /\ Stages /\ Ends /\ Zeros
      /\ ToClient /\ Captured /\ ToEdge /\ ToAgent /\ ToApp /\ FromClient
      /\ Reasons /\ EdgeCopies /\ AgentCopies /\ Closing /\ StoredIsWhole
  BY TypeParts, TypeLengths, TypeZeros DEF Inv, Down, Up, Losses
<1>0. /\ got' = got => /\ Arrivals("client")' = Arrivals("client")
                       /\ Arrivals("app")' = Arrivals("app")
      /\ cb' = cb => Teed' = Teed
  BY CountsKept
<1>M. /\ HopTypes' /\ fin' \in [Hops -> BOOLEAN] /\ fin'["ce"] /\ buf' = buf
      /\ "client" \notin gone
      /\ \A f \in Hops \ {"ce"} : fin'[f] = fin[f]
      /\ \A f \in Hops \ {"ec"} : wire'[f] = wire[f]
      /\ \/ gone' = gone /\ wire' = wire
         \/ gone' = gone \cup {"client"} /\ wire'["ec"] = <<>>
  <2>1. /\ "client" \notin gone /\ fin' = [fin EXCEPT !["ce"] = TRUE] /\ buf' = buf
        /\ \/ gone' = gone /\ wire' = wire
           \/ gone' = gone \cup {"client"} /\ wire' = [wire EXCEPT !["ec"] = <<>>]
    BY DEF Finish, Outgoing, Incoming, others
  <2>2. fin' \in [Hops -> BOOLEAN] /\ fin'["ce"] /\ \A f \in Hops \ {"ce"} : fin'[f] = fin[f]
    BY <1>1, <2>1 DEF DataTypes, Hops
  <2>3. <<>> \in Seq(Items)
    OBVIOUS
  <2>4. /\ wire' \in [Hops -> Seq(Items)]
        /\ \A f \in Hops \ {"ec"} : wire'[f] = wire[f]
        /\ gone' = gone \/ wire'["ec"] = <<>>
    <3>1. wire \in [Hops -> Seq(Items)] /\ "ec" \in Hops
      BY <1>1 DEF HopTypes, Hops
    <3> QED BY <2>1, <2>3, <3>1
  <2>5. HopTypes'
    BY <1>1, <2>1, <2>4 DEF HopTypes
  <2>6. \/ gone' = gone /\ wire' = wire
        \/ gone' = gone \cup {"client"} /\ wire'["ec"] = <<>>
    <3>1. wire \in [Hops -> Seq(Items)] /\ "ec" \in Hops
      BY <1>1 DEF HopTypes, Hops
    <3> QED BY <2>1, <3>1
  <2> QED BY <2>1, <2>2, <2>4, <2>5, <2>6
<1>2. /\ UNCHANGED <<kind, cacheable, body, edge, agent, copy, session, app, sent, got, cb, over,
                      stored>>
      /\ HopTypes' /\ fin' \in [Hops -> BOOLEAN] /\ "client" \notin gone
      /\ gone' = gone \/ gone' = gone \cup {"client"}
      /\ gone' \subseteq {"client", "app"}
      /\ "app" \in gone' <=> "app" \in gone
  BY <1>1, <1>M DEF Finish, others, request, choice, tee, ControlTypes
<1>3. /\ Kept("ce") /\ Kept("al") /\ Kept("ea") /\ Kept("ae") /\ Kept("la")
      /\ buf' = buf /\ fin'["ce"] /\ fin'["la"] = fin["la"] /\ fin'["ae"] = fin["ae"]
      /\ fin'["ea"] = fin["ea"]
      /\ gone' = gone => Kept("ec")
      /\ "client" \in gone' => wire'["ec"] = <<>> /\ OnWay("ec")' = 0
      /\ wire["ec"] = <<>> => wire'["ec"] = <<>>
      /\ Room("ec")' /\ OnWay("ec")' <= OnWay("ec")
  <2>1. Kept("ce") /\ Kept("al") /\ Kept("ea") /\ Kept("ae") /\ Kept("la")
    BY <1>M, KeptWhere DEF Hops
  <2>2. gone' = gone => Kept("ec")
    BY <1>M, KeptWhere
  <2>3. "client" \in gone' => wire'["ec"] = <<>> /\ OnWay("ec")' = 0
    BY <1>M, LenEmpty DEF OnWay
  <2>4. Room("ec")' /\ OnWay("ec")' <= OnWay("ec")
    <3>1. OnWay("ec") \in Nat /\ OnWay("ec") <= Window + 1
      BY <1>1 DEF Rooms, Room
    <3> QED BY <1>M, <2>2, <2>3, <3>1, Sizes DEF Room
  <2>5. wire["ec"] = <<>> => wire'["ec"] = <<>>
    BY <1>M
  <2> QED BY <1>M, <2>1, <2>2, <2>3, <2>4, <2>5 DEF Hops
<1>4. ControlTypes' /\ DataTypes' /\ Rooms'
  <2>1. ControlTypes' BY <1>1, <1>2 DEF ControlTypes
  <2>2. DataTypes' BY <1>0, <1>1, <1>2 DEF DataTypes
  <2>3. Rooms' BY <1>1, <1>3, Sizes DEF Rooms, Room
  <2> QED BY <2>1, <2>2, <2>3
<1>5. StreamTypeOK' /\ Lengths' /\ Zeros'
  BY <1>2, <1>4, TypePartsPrime, TypeLengths, TypeZeros
<1>6. Stages'
  <2>1. Relays' BY <1>1, <1>2, <1>3 DEF Stages, Relays, Requested, Replied
  <2>2. Requested' BY <1>0, <1>1, <1>2, <1>3 DEF Stages, Relays, Requested
  <2>3. Replied' BY <1>0, <1>1, <1>2, <1>3 DEF Stages, Relays, Replied
  <2>4. Readers' BY <1>0, <1>1, <1>2, <1>3 DEF Stages, Relays, Readers
  <2> QED BY <2>1, <2>2, <2>3, <2>4 DEF Stages
<1>7. Ends' BY <1>1, <1>2, <1>3 DEF Ends
<1>e. /\ gone' = gone => ecAt' = ecAt
      /\ "client" \in gone' => ecAt' = Arrivals("client")
      /\ ecEnd' <= ecEnd /\ ecEnd' \in Nat /\ ecEnd \in Nat /\ (gone' = gone => ecEnd' = ecEnd)
  <2>1. gone' = gone => ecAt' = ecAt /\ ecEnd' = ecEnd
    BY <1>0, <1>2, <1>3 DEF ecAt, ecEnd
  <2>2. /\ ecAt \in Int /\ ecEnd \in Nat /\ ecEnd' \in Nat /\ Arrivals("client") \in Nat
        /\ OnWay("ec") \in Nat
    BY <1>1, <1>4, <1>5, EcEnd DEF Lengths, Rooms, Room
  <2>3. CASE gone' = gone
    BY <1>2, <2>1, <2>2, <2>3
  <2>4. CASE "client" \in gone'
    <3>1. ecAt' = Arrivals("client") /\ ecEnd' = Arrivals("client")
      BY <1>0, <1>2, <1>3, <2>2, <2>4 DEF ecEnd, ecAt
    <3>2. ecAt = -1 => Arrivals("client") = 0
      BY <1>1 DEF ToClient, Zeros
    <3>3. ecAt # -1 => ecAt = Arrivals("client")
      BY DEF ecAt
    <3>4. Arrivals("client") <= ecEnd
      BY <2>2, <3>2, <3>3 DEF ecEnd
    <3> QED BY <1>2, <2>1, <2>2, <3>1, <3>4
  <2> QED BY <1>2, <2>3, <2>4
<1>V. aeLive' => aeLive /\ aeAt' = aeAt /\ aeEnd' = aeEnd
  <2>1. aeLive'
          => aeLive /\ (gone' = gone \/ edge \in {"start", "read"} \/ (edge = "tee" /\ ~over))
    BY <1>2 DEF aeLive
  <2>2. aeLive' => aeAt' = aeAt
    BY <1>0, <1>2, <1>e, <2>1 DEF aeAt
  <2> QED BY <1>3, <2>1, <2>2 DEF aeEnd
<1>8. Down'
  <2>1. Spoken' = Spoken /\ Told' = Told BY <1>2 DEF Spoken, Told
  <2>2. ToClient'
    <3>1. /\ Along(wire["ec"], ecAt, Switched) /\ Along(got["client"], 0, Count)
          /\ ecAt = -1 => got["client"] = <<>> /\ kind = "upgrade"
      BY <1>1 DEF ToClient
    <3>2. CASE gone' = gone
      BY <1>2, <1>3, <1>e, <3>1, <3>2 DEF ToClient, Switched, Count, Portions
    <3>3. CASE "client" \in gone'
      <4>1. ecAt' # -1 /\ Along(wire'["ec"], ecAt', Switched)
        BY <1>1, <1>3, <1>e, <3>3, AlongEmpty DEF Lengths
      <4> QED BY <1>2, <3>1, <4>1 DEF ToClient, Switched, Count, Portions
    <3> QED BY <1>2, <3>2, <3>3
  <2>3. Captured' BY <1>1, <1>0, <1>2, <1>3, <1>e DEF Lengths, Captured, Count, Portions
  <2>4. ToEdge' BY <1>1, <1>3, <1>V, <2>1 DEF ToEdge
  <2>5. ToAgent'
    <3>1. laLive' => laLive /\ laAt' = laAt
      BY <1>2, <1>V DEF laLive, laAt
    <3> QED BY <1>1, <1>2, <1>3, <2>1, <3>1 DEF ToAgent, AppAt
  <2> QED BY <2>2, <2>3, <2>4, <2>5 DEF Down
<1>9. Up'
  <2>1. ToApp'
    BY <1>0, <1>1, <1>2, <1>3, <1>4, <1>5 DEF Lengths, Rooms, Room, Stages, Relays, Requested,
       ToApp, alAt, alEnd, Asked, Count, Portions
  <2>2. FromClient'
    BY <1>0, <1>1, <1>2, <1>3, <1>4, <1>5 DEF Lengths, Rooms, Room, Stages, Relays,
       FromClient, alAt, alEnd, Count, Portions
  <2> QED BY <2>1, <2>2 DEF Up
<1>10. Losses'
  <2>1. /\ UpTotal' = UpTotal /\ DownTotal' <= DownTotal /\ DownTotal' \in Int
        /\ DownTotal \in Int
    <3>1. /\ OnWay("la") \in Nat /\ OnWay("ae") \in Nat /\ InHand("ae") \in Nat
          /\ InHand("la") \in Nat
          /\ ecEnd \in Nat /\ ecEnd' \in Nat /\ ecEnd' <= ecEnd
      BY <1>1, <1>e DEF Lengths, Rooms, Room
    <3>2. DownTotal' = ecEnd' + (IF edge = "returned" THEN 0 ELSE InHand("ae")) + OnWay("ae")
                  - (IF edge = "read" THEN 1 ELSE 0) + InHand("la") + OnWay("la")
      BY <1>2, <1>3 DEF DownTotal
    <3>3. DownTotal' <= DownTotal /\ DownTotal' \in Int /\ DownTotal \in Int
      BY <3>1, <3>2 DEF DownTotal
    <3>4. UpTotal' = UpTotal
      BY <1>0, <1>2, <1>3 DEF UpTotal
    <3> QED BY <3>3, <3>4
  <2>2. Reasons'
    <3> SUFFICES ASSUME Linked
             PROVE  /\ UpTotal' <= sent["client"] /\ DownTotal' <= sent["app"]
                    /\ UpTotal' # sent["client"] => fin["la"] \/ DownTotal' # sent["app"]
                    /\ DownTotal' # sent["app"] => fin'["ce"] \/ UpTotal' # sent["client"]
      BY <1>2, <1>3 DEF Reasons, Linked, LostUp, LostDown
    <3>1. /\ UpTotal <= sent["client"] /\ DownTotal <= sent["app"]
          /\ UpTotal # sent["client"] => fin["la"] \/ DownTotal # sent["app"]
      BY <1>1 DEF Reasons, LostUp, LostDown
    <3>3. sent["client"] \in Nat /\ sent["app"] \in Nat
      BY <1>1 DEF Lengths
    <3>4. DownTotal' <= sent["app"] /\ (DownTotal # sent["app"] => DownTotal' # sent["app"])
      BY <2>1, <3>1, <3>3
    <3> QED BY <1>3, <2>1, <3>1, <3>4
  <2>3. EdgeCopies'
    <3>1. Linked => (LostDown => LostDown') /\ (LostUp' <=> LostUp)
      <4>1. sent["app"] \in Nat /\ (Linked => DownTotal <= sent["app"])
        BY <1>1 DEF Reasons, Lengths
      <4> QED BY <1>2, <2>1, <4>1 DEF LostDown, LostUp
    <3> QED BY <1>1, <1>2, <1>3, <3>1 DEF EdgeCopies, Linked
  <2>4. AgentCopies'
    <3>1. Linked => (LostDown => LostDown') /\ (LostUp' <=> LostUp)
      <4>1. sent["app"] \in Nat /\ (Linked => DownTotal <= sent["app"])
        BY <1>1 DEF Reasons, Lengths
      <4> QED BY <1>2, <2>1, <4>1 DEF LostDown, LostUp
    <3> QED BY <1>1, <1>2, <1>3, <3>1 DEF AgentCopies, Linked
  <2>5. Closing' BY <1>1, <1>2, <1>3 DEF Stages, Relays, Closing, Linked
  <2> QED BY <2>2, <2>3, <2>4, <2>5 DEF Losses
<1>11. StoredIsWhole' BY <1>1, <1>2 DEF StoredIsWhole
<1> QED BY <1>5, <1>6, <1>7, <1>8, <1>9, <1>10, <1>11 DEF Inv

\* The app closes its direction, or leaves.
LEMMA FinishAppKeeps ==
  ASSUME Inv, Finish("app") PROVE Inv'
<1> USE DEF Late, Early, Begun, Joined, Answered, Heard, Kept
<1>1. /\ ControlTypes /\ DataTypes /\ HopTypes /\ Rooms /\ Lengths
      /\ Stages /\ Ends /\ Zeros
      /\ ToClient /\ Captured /\ ToEdge /\ ToAgent /\ ToApp /\ FromClient
      /\ Reasons /\ EdgeCopies /\ AgentCopies /\ Closing /\ StoredIsWhole
  BY TypeParts, TypeLengths, TypeZeros DEF Inv, Down, Up, Losses
<1>0. /\ got' = got => /\ Arrivals("client")' = Arrivals("client")
                       /\ Arrivals("app")' = Arrivals("app")
      /\ cb' = cb => Teed' = Teed
  BY CountsKept
<1>M. /\ HopTypes' /\ fin' \in [Hops -> BOOLEAN] /\ fin'["la"] /\ buf' = buf
      /\ "app" \notin gone
      /\ \A f \in Hops \ {"la"} : fin'[f] = fin[f]
      /\ \A f \in Hops \ {"al"} : wire'[f] = wire[f]
      /\ \/ gone' = gone /\ wire' = wire
         \/ gone' = gone \cup {"app"} /\ wire'["al"] = <<>>
  <2>1. /\ "app" \notin gone /\ fin' = [fin EXCEPT !["la"] = TRUE] /\ buf' = buf
        /\ \/ gone' = gone /\ wire' = wire
           \/ gone' = gone \cup {"app"} /\ wire' = [wire EXCEPT !["al"] = <<>>]
    BY DEF Finish, Outgoing, Incoming, others
  <2>2. fin' \in [Hops -> BOOLEAN] /\ fin'["la"] /\ \A f \in Hops \ {"la"} : fin'[f] = fin[f]
    BY <1>1, <2>1 DEF DataTypes, Hops
  <2>3. <<>> \in Seq(Items)
    OBVIOUS
  <2>4. /\ wire' \in [Hops -> Seq(Items)]
        /\ \A f \in Hops \ {"al"} : wire'[f] = wire[f]
        /\ gone' = gone \/ wire'["al"] = <<>>
    <3>1. wire \in [Hops -> Seq(Items)] /\ "al" \in Hops
      BY <1>1 DEF HopTypes, Hops
    <3> QED BY <2>1, <2>3, <3>1
  <2>5. HopTypes'
    BY <1>1, <2>1, <2>4 DEF HopTypes
  <2>6. \/ gone' = gone /\ wire' = wire
        \/ gone' = gone \cup {"app"} /\ wire'["al"] = <<>>
    <3>1. wire \in [Hops -> Seq(Items)] /\ "al" \in Hops
      BY <1>1 DEF HopTypes, Hops
    <3> QED BY <2>1, <3>1
  <2> QED BY <2>1, <2>2, <2>4, <2>5, <2>6
<1>2. /\ UNCHANGED <<kind, cacheable, body, edge, agent, copy, session, app, sent, got, cb, over,
                      stored>>
      /\ HopTypes' /\ fin' \in [Hops -> BOOLEAN] /\ "app" \notin gone
      /\ gone' = gone \/ gone' = gone \cup {"app"}
      /\ gone' \subseteq {"client", "app"}
      /\ "client" \in gone' <=> "client" \in gone
  BY <1>1, <1>M DEF Finish, others, request, choice, tee, ControlTypes
<1>3. /\ Kept("ce") /\ Kept("ec") /\ Kept("ea") /\ Kept("ae") /\ Kept("la")
      /\ buf' = buf /\ fin'["la"] /\ fin'["ce"] = fin["ce"] /\ fin'["ae"] = fin["ae"]
      /\ fin'["ea"] = fin["ea"]
      /\ gone' = gone => Kept("al")
      /\ "app" \in gone' => wire'["al"] = <<>> /\ OnWay("al")' = 0
      /\ wire["al"] = <<>> => wire'["al"] = <<>>
      /\ Room("al")' /\ OnWay("al")' <= OnWay("al")
  <2>1. Kept("ce") /\ Kept("ec") /\ Kept("ea") /\ Kept("ae") /\ Kept("la")
    BY <1>M, KeptWhere DEF Hops
  <2>2. gone' = gone => Kept("al")
    BY <1>M, KeptWhere
  <2>3. "app" \in gone' => wire'["al"] = <<>> /\ OnWay("al")' = 0
    BY <1>M, LenEmpty DEF OnWay
  <2>4. Room("al")' /\ OnWay("al")' <= OnWay("al")
    <3>1. OnWay("al") \in Nat /\ OnWay("al") <= Window + 1
      BY <1>1 DEF Rooms, Room
    <3> QED BY <1>M, <2>2, <2>3, <3>1, Sizes DEF Room
  <2>5. wire["al"] = <<>> => wire'["al"] = <<>>
    BY <1>M
  <2> QED BY <1>M, <2>1, <2>2, <2>3, <2>4, <2>5 DEF Hops
<1>4. ControlTypes' /\ DataTypes' /\ Rooms'
  <2>1. ControlTypes' BY <1>1, <1>2 DEF ControlTypes
  <2>2. DataTypes' BY <1>0, <1>1, <1>2 DEF DataTypes
  <2>3. Rooms' BY <1>1, <1>3, Sizes DEF Rooms, Room
  <2> QED BY <2>1, <2>2, <2>3
<1>5. StreamTypeOK' /\ Lengths' /\ Zeros'
  BY <1>2, <1>4, TypePartsPrime, TypeLengths, TypeZeros
<1>6. Stages'
  <2>1. Relays' BY <1>1, <1>2, <1>3 DEF Stages, Relays, Requested, Replied
  <2>2. Requested' BY <1>0, <1>1, <1>2, <1>3, <1>5 DEF Stages, Relays, Requested, Rooms, Room
  <2>3. Replied' BY <1>0, <1>1, <1>2, <1>3 DEF Stages, Relays, Replied
  <2>4. Readers' BY <1>0, <1>1, <1>2, <1>3 DEF Stages, Relays, Readers
  <2> QED BY <2>1, <2>2, <2>3, <2>4 DEF Stages
<1>7. Ends' BY <1>1, <1>2, <1>3 DEF Ends
<1>e. ecAt' = ecAt /\ ecEnd' = ecEnd BY <1>0, <1>2, <1>3 DEF ecAt, ecEnd
<1>V. /\ aeLive' <=> aeLive
      /\ aeAt' = aeAt /\ aeEnd' = aeEnd /\ laAt' = laAt
  BY <1>0, <1>2, <1>3, <1>e DEF aeLive, aeAt, aeEnd, laAt
<1>E. /\ alAt' = alAt
      /\ gone' = gone => alEnd' = alEnd
  BY <1>0, <1>2, <1>3 DEF alAt, alEnd
<1>8. Down'
  <2>1. Spoken' = Spoken /\ Told' = Told BY <1>2 DEF Spoken, Told
  <2>2. ToClient' BY <1>1, <1>0, <1>2, <1>3, <1>e DEF ToClient, Switched, Count, Portions
  <2>3. Captured' BY <1>1, <1>0, <1>2, <1>3, <1>e DEF Lengths, Captured, Count, Portions
  <2>4. ToEdge' BY <1>1, <1>3, <1>V, <2>1 DEF ToEdge
  <2>5. ToAgent'
    <3>1. laLive' => laLive /\ laAt' = laAt
      BY <1>2, <1>V DEF laLive
    <3> QED BY <1>1, <1>2, <1>3, <2>1, <3>1 DEF ToAgent, AppAt
  <2> QED BY <2>2, <2>3, <2>4, <2>5 DEF Down
<1>9. Up'
  <2>1. ToApp'
    <3>1. Along(got["app"], 0, Count) /\ Along(wire["al"], alAt, Asked)
      BY <1>1 DEF ToApp
    <3>2. Along(wire'["al"], alAt, Asked)
      BY <1>2, <1>3, <3>1, AlongEmpty
    <3>3. "app" \notin gone' => /\ Begun /\ agent # "returned" => Along(wire["ea"], alEnd, Count)
                               /\ gone' = gone
      BY <1>1, <1>2 DEF ToApp
    <3> QED BY <1>2, <1>3, <1>E, <3>1, <3>2, <3>3 DEF ToApp, Asked, Count, Portions
  <2>2. FromClient'
    <3>1. "app" \notin gone' => gone' = gone
      BY <1>2
    <3> QED BY <1>1, <1>2, <1>3, <1>E, <3>1 DEF FromClient, Count, Portions
  <2> QED BY <2>1, <2>2 DEF Up
<1>10. Losses'
  <2>1. /\ DownTotal' = DownTotal /\ UpTotal' <= UpTotal /\ UpTotal' \in Int /\ UpTotal \in Int
    <3>1. /\ OnWay("ce") \in Nat /\ OnWay("ea") \in Nat /\ InHand("ce") \in Nat
          /\ Arrivals("app") \in Nat
          /\ OnWay("al") \in Nat /\ OnWay("al")' \in Nat /\ OnWay("al")' <= OnWay("al")
      BY <1>1, <1>3 DEF Lengths, Rooms, Room
    <3>2. UpTotal' = Arrivals("app") + OnWay("al")' + OnWay("ea") + InHand("ce") + OnWay("ce")
      BY <1>0, <1>2, <1>3 DEF UpTotal
    <3>3. UpTotal' <= UpTotal /\ UpTotal' \in Int /\ UpTotal \in Int
      BY <3>1, <3>2 DEF UpTotal
    <3>4. DownTotal' = DownTotal
      BY <1>2, <1>3, <1>e DEF DownTotal
    <3> QED BY <3>3, <3>4
  <2>2. Reasons'
    <3> SUFFICES ASSUME Linked
             PROVE  /\ UpTotal' <= sent["client"] /\ DownTotal' <= sent["app"]
                    /\ UpTotal' # sent["client"] => fin'["la"] \/ DownTotal' # sent["app"]
                    /\ DownTotal' # sent["app"] => fin["ce"] \/ UpTotal' # sent["client"]
      BY <1>2, <1>3 DEF Reasons, Linked, LostUp, LostDown
    <3>1. /\ UpTotal <= sent["client"] /\ DownTotal <= sent["app"]
          /\ DownTotal # sent["app"] => fin["ce"] \/ UpTotal # sent["client"]
      BY <1>1 DEF Reasons, LostUp, LostDown
    <3>3. sent["client"] \in Nat /\ sent["app"] \in Nat
      BY <1>1 DEF Lengths
    <3>4. UpTotal' <= sent["client"] /\ (UpTotal # sent["client"] => UpTotal' # sent["client"])
      BY <2>1, <3>1, <3>3
    <3> QED BY <1>3, <2>1, <3>1, <3>4
  <2>3. EdgeCopies'
    <3>1. Linked => (LostUp => LostUp') /\ (LostDown' <=> LostDown)
      <4>1. sent["client"] \in Nat /\ (Linked => UpTotal <= sent["client"])
        BY <1>1 DEF Reasons, Lengths
      <4> QED BY <1>2, <2>1, <4>1 DEF LostDown, LostUp
    <3> QED BY <1>1, <1>2, <1>3, <3>1 DEF EdgeCopies, Linked
  <2>4. AgentCopies'
    <3>1. Linked => (LostUp => LostUp') /\ (LostDown' <=> LostDown)
      <4>1. sent["client"] \in Nat /\ (Linked => UpTotal <= sent["client"])
        BY <1>1 DEF Reasons, Lengths
      <4> QED BY <1>2, <2>1, <4>1 DEF LostDown, LostUp
    <3> QED BY <1>1, <1>2, <1>3, <3>1 DEF AgentCopies, Linked
  <2>5. Closing' BY <1>1, <1>2, <1>3 DEF Stages, Relays, Closing, Linked
  <2> QED BY <2>2, <2>3, <2>4, <2>5 DEF Losses
<1>11. StoredIsWhole' BY <1>1, <1>2 DEF StoredIsWhole
<1> QED BY <1>5, <1>6, <1>7, <1>8, <1>9, <1>10, <1>11 DEF Inv

-----------------------------------------------------------------------------
(* All together.                                                           *)

\* Init: every hop is empty and nobody has moved.
LEMMA InitHolds == Init => Inv
<1> SUFFICES ASSUME Init PROVE Inv
  OBVIOUS
<1> USE DEF Late, Early, Begun, Joined, Answered, Heard
<1>1. /\ kind \in {"framed", "close", "upgrade"} /\ cacheable \in BOOLEAN
      /\ kind = "upgrade" => ~cacheable /\ body["agent"] = "passed"
      /\ body \in [{"edge", "agent"} -> {"due", "there", "passed"}]
      /\ body["agent"] # "due" => body["edge"] = "passed"
      /\ edge = "start" /\ agent = "idle" /\ session = TRUE /\ app = "listen" /\ gone = {}
      /\ copy \in [{"ce", "ae", "ea", "la"} -> {"none", "run", "done"}]
      /\ copy["ce"] = "none" /\ copy["ae"] = "none" /\ copy["ea"] = "none"
      /\ copy["la"] = "none"
      /\ cb = <<>> /\ over = FALSE /\ stored = None
  BY DEF Init
<1>2. /\ wire["ce"] = <<>> /\ wire["ea"] = <<>> /\ wire["al"] = <<>>
      /\ wire["la"] = <<>> /\ wire["ae"] = <<>> /\ wire["ec"] = <<>>
      /\ buf["ce"] = <<>> /\ buf["ea"] = <<>> /\ buf["al"] = <<>>
      /\ buf["la"] = <<>> /\ buf["ae"] = <<>> /\ buf["ec"] = <<>>
      /\ fin \in [Hops -> BOOLEAN] /\ \A h \in Hops : ~fin[h]
      /\ HopTypes
  <2>1. <<>> \in Seq(Items)
    OBVIOUS
  <2> QED BY <2>1 DEF Init, Hops, HopTypes
<1>3. /\ sent["client"] = 0 /\ sent["app"] = 0 /\ sent \in [{"client", "app"} -> 0..MaxSent]
      /\ got["client"] = <<>> /\ got["app"] = <<>>
      /\ got \in [{"client", "app"} -> Seq(Portions)]
  BY Sizes DEF Init
<1>4. /\ OnWay("ce") = 0 /\ OnWay("ea") = 0 /\ OnWay("al") = 0
      /\ OnWay("la") = 0 /\ OnWay("ae") = 0 /\ OnWay("ec") = 0
      /\ InHand("ce") = 0 /\ InHand("la") = 0 /\ InHand("ae") = 0
      /\ Arrivals("client") = 0 /\ Arrivals("app") = 0 /\ Teed = 0
  BY <1>1, <1>2, <1>3, LenEmpty DEF OnWay, InHand, Arrivals, Teed
<1>5. StreamTypeOK
  <2>1. ControlTypes
    BY <1>1 DEF ControlTypes
  <2>2. DataTypes
    <3>1. cb \in Seq(Portions) /\ Teed <= Limit
      BY <1>1, <1>4, Sizes
    <3> QED BY <1>1, <1>2, <1>3, <3>1 DEF DataTypes
  <2>3. Rooms
    BY <1>4, Sizes DEF Rooms, Room
  <2> QED BY <1>2, <2>1, <2>2, <2>3, TypeParts
<1>6. Stages
  <2>1. Relays /\ Replied
    BY <1>1, <1>2, <1>3 DEF Relays, Replied
  <2>2. Requested
    BY <1>1, <1>2, <1>3, <1>4 DEF Requested
  <2>3. Readers
    BY <1>1, <1>2, <1>3, <1>4, Sizes DEF Readers
  <2> QED BY <2>1, <2>2, <2>3 DEF Stages
<1>7. Ends
  BY <1>1, <1>2 DEF Ends, Hops
<1>8. Down
  <2>1. ToClient
    BY <1>2, <1>3, <1>4, AlongEmpty DEF ToClient, ecAt
  <2>2. Captured
    BY <1>1, <1>3, <1>4, AlongEmpty DEF Captured
  <2>3. ToEdge
    BY <1>2, AlongEmpty DEF ToEdge
  <2>4. ToAgent
    BY <1>1, <1>2, <1>4, AlongEmpty DEF ToAgent, laAt, AppAt
  <2> QED BY <2>1, <2>2, <2>3, <2>4 DEF Down
<1>9. Up
  <2>1. ToApp
    BY <1>1, <1>2, <1>3, AlongEmpty DEF ToApp
  <2>2. FromClient
    BY <1>1, <1>2, <1>3, <1>4, AlongEmpty DEF FromClient
  <2> QED BY <2>1, <2>2 DEF Up
<1>10. Losses
  BY <1>1 DEF Losses, Reasons, EdgeCopies, AgentCopies, Closing, Linked
<1>11. StoredIsWhole
  BY <1>1 DEF StoredIsWhole
<1> QED BY <1>5, <1>6, <1>7, <1>8, <1>9, <1>10, <1>11 DEF Inv

\* Only the request's body moves on: what the edge reads stays what it is told.
LEMMA BodyKeeps ==
  ASSUME Inv, UNCHANGED <<choice, edge, agent, copy, session, wire, buf, fin, peers, tee>>,
         body' \in [{"edge", "agent"} -> {"due", "there", "passed"}],
         body'["agent"] # "due" => body'["edge"] = "passed",
         \/ body'["agent"] = "passed" <=> body["agent"] = "passed"
         \/ agent = "read" /\ body'["agent"] = "passed"
  PROVE  Inv'
<1> USE DEF Late, Early, Begun, Joined, Answered, Heard
<1>0. /\ kind' = kind /\ cacheable' = cacheable /\ edge' = edge /\ agent' = agent
      /\ copy' = copy
      /\ session' = session /\ wire' = wire /\ buf' = buf /\ fin' = fin /\ app' = app
      /\ gone' = gone
      /\ sent' = sent /\ got' = got /\ cb' = cb /\ over' = over /\ stored' = stored
  BY DEF choice, peers, tee
<1>1. StreamTypeOK'
  BY <1>0 DEF Inv, StreamTypeOK
<1>2. /\ \A h : OnWay(h)' = OnWay(h) /\ InHand(h)' = InHand(h)
      /\ \A x : Arrivals(x)' = Arrivals(x)
      /\ Teed' = Teed
  BY <1>0 DEF OnWay, InHand, Arrivals, Teed
<1>3. Stages'
  BY <1>0, <1>2 DEF Inv, Stages, Relays, Requested, Replied, Readers
<1>4. Ends'
  BY <1>0 DEF Inv, Ends
<1>5. /\ ecAt' = ecAt /\ ecEnd' = ecEnd /\ alAt' = alAt /\ alEnd' = alEnd
      /\ Spoken' = Spoken /\ Asked' = Asked /\ Switched' = Switched
      /\ Count' = Count
  BY <1>0, <1>2 DEF ecAt, ecEnd, alAt, alEnd, Spoken, Asked, Switched, Count, Portions
<1>6. (aeLive' <=> aeLive) /\ aeAt' = aeAt /\ aeEnd' = aeEnd /\ AppAt' = AppAt
  BY <1>0, <1>2, <1>5 DEF aeLive, aeAt, aeEnd, AppAt
<1>7. (laLive' <=> laLive) /\ laAt' = laAt
  BY <1>0, <1>6 DEF laLive, laAt
<1>8. Down'
  <2>1. ToClient' /\ Captured'
    BY <1>0, <1>2, <1>5 DEF Inv, Down, ToClient, Captured
  <2>2. ToAgent'
    BY <1>0, <1>2, <1>5, <1>6, <1>7 DEF Inv, Down, ToAgent
  <2>3. ToEdge'
    <3>1. CASE body'["agent"] = "passed" <=> body["agent"] = "passed"
      <4>1. Told' = Told BY <1>0, <1>5, <3>1 DEF Told
      <4> QED BY <1>0, <1>2, <1>6, <4>1 DEF Inv, Down, ToEdge
    <3>2. CASE agent = "read"
      <4>1. wire["ae"] = <<>> /\ buf["ae"] = <<>>
        BY <3>2 DEF Inv, Stages, Replied
      <4> QED BY <1>0, <4>1, AlongEmpty DEF ToEdge
    <3> QED BY <3>1, <3>2
  <2> QED BY <2>1, <2>2, <2>3 DEF Down
<1>9. Up'
  BY <1>0, <1>2, <1>5 DEF Inv, Up, ToApp, FromClient
<1>10. Losses'
  <2>1. (Linked' <=> Linked) /\ (LostUp' <=> LostUp) /\ (LostDown' <=> LostDown)
        /\ UpTotal' = UpTotal /\ DownTotal' = DownTotal
    BY <1>0, <1>2, <1>5 DEF Linked, LostUp, LostDown, UpTotal, DownTotal
  <2> QED BY <1>0, <2>1 DEF Inv, Losses, Reasons, EdgeCopies, AgentCopies, Closing
<1>11. StoredIsWhole'
  BY <1>0 DEF Inv, StoredIsWhole
<1> QED BY <1>1, <1>3, <1>4, <1>8, <1>9, <1>10, <1>11 DEF Inv

\* A stutter.
LEMMA StutterKeeps == Inv /\ UNCHANGED vars => Inv'
<1> SUFFICES ASSUME Inv, UNCHANGED vars PROVE Inv'
  OBVIOUS
<1>1. /\ body \in [{"edge", "agent"} -> {"due", "there", "passed"}]
      /\ body["agent"] # "due" => body["edge"] = "passed"
  BY DEF Inv, StreamTypeOK, Stages, Replied
<1> QED BY <1>1, BodyKeeps DEF vars, choice, peers, tee

\* The client sends the rest of its request.
LEMMA UploadKeeps ==
  ASSUME Inv, Upload PROVE Inv'
<1>1. /\ body \in [{"edge", "agent"} -> {"due", "there", "passed"}]
      /\ body["agent"] # "due" => body["edge"] = "passed"
  BY DEF Inv, StreamTypeOK, Stages, Replied
<1>2. /\ body["edge"] = "due" /\ body' = [body EXCEPT !["edge"] = "there"]
      /\ UNCHANGED <<choice, edge, agent, copy, session, wire, buf, fin, peers, tee>>
  BY DEF Upload
<1>3. /\ body' \in [{"edge", "agent"} -> {"due", "there", "passed"}]
      /\ body'["agent"] = body["agent"] /\ body["agent"] = "due"
  BY <1>1, <1>2
<1> QED BY <1>2, <1>3, BodyKeeps

\* r.Write copies the request's body to the stream, or fails.
LEMMA WriteBodyKeeps ==
  ASSUME Inv, WriteBody PROVE Inv'
<1>1. /\ body \in [{"edge", "agent"} -> {"due", "there", "passed"}]
      /\ body["agent"] # "due" => body["edge"] = "passed"
  BY DEF Inv, StreamTypeOK, Stages, Replied
<1>2. CASE body["edge"] = "there" /\ body' = [edge |-> "passed", agent |-> "there"]
           /\ UNCHANGED edge
  <2>1. /\ body' \in [{"edge", "agent"} -> {"due", "there", "passed"}]
        /\ body'["agent"] = "there" /\ body'["edge"] = "passed" /\ body["agent"] = "due"
    BY <1>1, <1>2
  <2>2. UNCHANGED <<choice, edge, agent, copy, session, wire, buf, fin, peers, tee>>
    BY <1>2 DEF WriteBody
  <2> QED BY <2>1, <2>2, BodyKeeps
<1>3. CASE /\ body["edge"] # "passed" /\ edge = "read" /\ edge' = "close"
           /\ UNCHANGED <<request, agent, copy, session, wire, buf, fin, peers, tee>>
  BY <1>3, RequestFailsKeeps
<1> QED BY <1>2, <1>3 DEF WriteBody, EdgeGoes, request, choice

\* req.Write copies the request's body to the app, or fails.
LEMMA ForwardBodyKeeps ==
  ASSUME Inv, ForwardBody PROVE Inv'
<1>1. /\ body \in [{"edge", "agent"} -> {"due", "there", "passed"}]
      /\ body["agent"] # "due" => body["edge"] = "passed"
  BY DEF Inv, StreamTypeOK, Stages, Replied
<1>2. CASE /\ body["agent"] = "there" /\ body' = [body EXCEPT !["agent"] = "passed"]
           /\ UNCHANGED <<agent, wire, buf>>
  <2>1. /\ body' \in [{"edge", "agent"} -> {"due", "there", "passed"}]
        /\ body'["agent"] = "passed" /\ body'["edge"] = "passed"
    BY <1>1, <1>2
  <2>2. /\ agent = "read"
        /\ UNCHANGED <<choice, edge, agent, copy, session, wire, buf, fin, peers, tee>>
    BY <1>2 DEF ForwardBody
  <2> QED BY <2>1, <2>2, BodyKeeps
<1>3. CASE body["agent"] # "passed" /\ BadGateway("read") /\ UNCHANGED body
  <2>1. UNCHANGED <<request, edge, copy, session, fin, peers, tee>>
    BY <1>3 DEF ForwardBody, request
  <2> QED BY <1>3, <2>1, RefuseKeeps
<1> QED BY <1>2, <1>3 DEF ForwardBody

\* Each step of forwardLive, handleStream, the copying goroutines, the client,
\* the app and the session keeps the invariant.
LEMMA NextKeeps == Inv /\ [Next]_vars => Inv'
<1> SUFFICES ASSUME Inv, [Next]_vars PROVE Inv'
  OBVIOUS
<1>1. CASE forwardLive
  BY <1>1, WriteRequestKeeps, WriteBodyKeeps, ReadResponseKeeps, CopyPortionKeeps, EndBodyKeeps,
     HijackKeeps, DrainKeeps, AwaitFirstKeeps, CloseBothKeeps DEF forwardLive
<1>2. CASE handleStream
  BY <1>2, ReadRequestKeeps, ForwardKeeps, ForwardBodyKeeps, ReadAnswerKeeps, ReplyKeeps,
     SwitchOverKeeps, AgentAwaitFirstKeeps, CloseLocalKeeps DEF handleStream
<1>3. ASSUME NEW h \in {"ce", "ae", "ea", "la"}, CopyOne(h) PROVE Inv'
  <2>1. CASE copy' # copy
    BY <1>3, <2>1, CopyEndsKeeps
  <2>2. CASE copy' = copy
    BY <1>3, <2>2, CopyCeKeeps, CopyEaKeeps, CopyLaKeeps, CopyAeKeeps
  <2> QED BY <2>1, <2>2
<1>4. CASE Send("client") \/ Receive("client") \/ Finish("client")
  BY <1>4, SendClientKeeps, ReceiveClientKeeps, FinishClientKeeps
<1>5. CASE Send("app") \/ Receive("app") \/ Finish("app")
  BY <1>5, SendAppKeeps, ReceiveAppKeeps, FinishAppKeeps
<1>6. CASE Answer
  <2>1. app = "asked" \/ app = "body"
    BY <1>6 DEF Answer
  <2> QED BY <1>6, <2>1, AnswerHeadKeeps, AnswerEndKeeps
<1>7. CASE Upload \/ Break
  BY <1>7, UploadKeeps, BreakKeeps
<1>8. CASE UNCHANGED vars
  BY <1>8, StutterKeeps
<1> QED BY <1>1, <1>2, <1>3, <1>4, <1>5, <1>6, <1>7, <1>8 DEF Next

\* The invariant holds for ever.
LEMMA InvHolds == Spec => []Inv
BY InitHolds, NextKeeps, PTL DEF Spec

-----------------------------------------------------------------------------
(* Theorems.                                                               *)

\* Every variable has its type: no hop ever carries more than one item beyond
\* its room, and the cappedBuffer never exceeds maxTeeBody (Write).
THEOREM StreamTypeCorrect == Spec => []StreamTypeOK
<1>1. Inv => StreamTypeOK
  BY DEF Inv
<1> QED BY <1>1, InvHolds, PTL

\* storeSnapshot keeps what the app sent and nothing else, and the whole of an
\* answer that says where it ends.
THEOREM SnapshotsAreWhole == Spec => []StoredIsWhole
<1>1. Inv => StoredIsWhole
  BY DEF Inv
<1> QED BY <1>1, InvHolds, PTL

\* Over an upgrade: got in order and once, and all of it when one side closes
\* while the other has nothing under way (both passthroughUpgrades).
THEOREM UpgradesDeliver == Spec => []UpgradeDelivers
<1>1. Inv => UpgradeDelivers
  <2> SUFFICES ASSUME Inv PROVE UpgradeDelivers
    OBVIOUS
  <2>1. ControlTypes /\ DataTypes /\ HopTypes /\ Rooms /\ Lengths /\ Zeros
    BY TypeParts, TypeLengths, TypeZeros DEF Inv
  <2>2. ASSUME NEW x \in {"client", "app"} PROVE got[x] = [i \in 1..Len(got[x]) |-> i]
    <3>1. got[x] \in Seq(Portions) /\ Len(got[x]) \in Nat
      BY <2>1 DEF DataTypes
    <3>2. Along(got[x], 0, Count)
      BY DEF Inv, Down, Up, ToClient, ToApp
    <3>3. \A i \in 1..Len(got[x]) : got[x][i] = i
      BY <3>1, <3>2, CountWhole
    <3> QED BY <3>1, <3>3
  <2>3. ASSUME Over, session
        PROVE  /\ UpTotal = Arrivals("app") /\ DownTotal = Arrivals("client")
                                   /\ Linked
    <3>1. edge = "returned" /\ agent = "returned" /\ Begun /\ Joined
      <4>1. DOMAIN copy = {"ce", "ae", "ea", "la"}
        BY <2>1 DEF ControlTypes
      <4> QED BY <2>3, <4>1 DEF Over, Begun, Joined
    <3>2. wire["ae"] = <<>> /\ wire["ce"] = <<>> /\ wire["ea"] = <<>> /\ wire["la"] = <<>>
      BY <3>1 DEF Inv, Ends
    <3>3. wire["ec"] = <<>> /\ wire["al"] = <<>>
      BY <2>3 DEF Over, Incoming, Inv, Ends
    <3>4. buf["ce"] = <<>> /\ buf["la"] = <<>>
      BY <3>1 DEF Inv, Stages, Readers
    <3>5. /\ OnWay("ce") = 0 /\ OnWay("ea") = 0 /\ OnWay("al") = 0
          /\ OnWay("la") = 0 /\ OnWay("ae") = 0 /\ OnWay("ec") = 0
          /\ InHand("ce") = 0 /\ InHand("la") = 0
      BY <3>2, <3>3, <3>4, LenEmpty DEF OnWay, InHand
    <3>6. ecEnd = Arrivals("client")
      BY <2>1, <3>3, <3>5 DEF ecEnd, ecAt, Lengths
    <3> QED BY <2>1, <2>3, <3>1, <3>5, <3>6 DEF UpTotal, DownTotal, Lengths, Linked
  <2>4. ASSUME Over, session, NEW x \in {"client", "app"}, NEW y \in {"client", "app"}, x # y,
               fin[Outgoing[x]], ~fin[Outgoing[y]], Arrived(y, x)
        PROVE  Arrived(x, y)
    <3>1. /\ Arrivals("app") # sent["client"] => fin["la"] \/ Arrivals("client") # sent["app"]
          /\ Arrivals("client") # sent["app"] => fin["ce"] \/ Arrivals("app") # sent["client"]
      BY <2>3, <2>4 DEF Inv, Losses, Reasons, LostUp, LostDown
    <3>2. CASE x = "client"
      BY <2>4, <3>1, <3>2 DEF Arrived, Arrivals, Outgoing
    <3>3. CASE x = "app"
      BY <2>4, <3>1, <3>3 DEF Arrived, Arrivals, Outgoing
    <3> QED BY <3>2, <3>3
  <2> QED BY <2>2, <2>4 DEF UpgradeDelivers
<1> QED BY <1>1, InvHolds, PTL
=============================================================================
