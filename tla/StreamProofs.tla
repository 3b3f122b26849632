----------------------------- MODULE StreamProofs -----------------------------
(* What the calls of Streams.tla do to a connection, whatever its units are:  *)
(* the lemmas the proofs about EchoTcp, EchoUpload and Talk share.            *)
EXTENDS Streams, TLAPS

Connection(U) == [in : [Sides -> Seq(U)], end : [Sides -> Ends]]

(* The two sides are each other's peers.                                    *)
LEMMA PeerSide ==
    ASSUME NEW s \in Sides
    PROVE  Peer(s) \in Sides /\ Peer(s) # s /\ Peer(Peer(s)) = s
BY DEF Peer, Sides

(* Replacing what waits for one side.                                       *)
LEMMA InConn ==
    ASSUME NEW U, NEW ch \in Connection(U), NEW s \in Sides, NEW u \in Seq(U)
    PROVE  /\ [ch EXCEPT !.in[s] = u] \in Connection(U)
           /\ [ch EXCEPT !.in[s] = u].end = ch.end
           /\ [ch EXCEPT !.in[s] = u].in[s] = u
           /\ \A r \in Sides \ {s} : [ch EXCEPT !.in[s] = u].in[r] = ch.in[r]
BY DEF Connection

(* Changing how one side stands.                                            *)
LEMMA EndConn ==
    ASSUME NEW U, NEW ch \in Connection(U), NEW s \in Sides, NEW e \in Ends
    PROVE  /\ [ch EXCEPT !.end[s] = e] \in Connection(U)
           /\ [ch EXCEPT !.end[s] = e].in = ch.in
           /\ [ch EXCEPT !.end[s] = e].end[s] = e
           /\ \A r \in Sides \ {s} : [ch EXCEPT !.end[s] = e].end[r] = ch.end[r]
BY DEF Connection

(* A send adds to what waits for an open peer and to nothing else; it       *)
(* closes nothing and opens nothing.                                        *)
LEMMA SentConn ==
    ASSUME NEW U, NEW ch \in Connection(U), NEW s \in Sides, NEW ms \in Seq(U)
    PROVE  /\ Sent(ch, s, ms) \in Connection(U)
           /\ \A r \in Sides : Sent(ch, s, ms).end[r] = "open" <=> ch.end[r] = "open"
           /\ Sent(ch, s, ms).in[s] = ch.in[s]
           /\ ch.end[Peer(s)] = "open" =>
                Sent(ch, s, ms).in[Peer(s)] = ch.in[Peer(s)] \o ms
           /\ ch.end[Peer(s)] # "open" =>
                Sent(ch, s, ms).in[Peer(s)] = ch.in[Peer(s)]
<1>1. Peer(s) \in Sides /\ s \in Sides \ {Peer(s)}
  BY PeerSide
<1>2. ch.in[Peer(s)] \o ms \in Seq(U)
  BY <1>1 DEF Connection
<1>3. CASE ch.end[Peer(s)] = "open"
  <2> DEFINE r == Peer(s)
             u == ch.in[r] \o ms
  <2>1. Sent(ch, s, ms) = [ch EXCEPT !.in[r] = u]
    BY <1>3 DEF Sent
  <2>2. r \in Sides /\ u \in Seq(U) /\ s \in Sides \ {r}
    BY <1>1, <1>2
  <2>3. u = ch.in[Peer(s)] \o ms /\ r = Peer(s)
    OBVIOUS
  <2> HIDE DEF r, u
  <2>4. /\ [ch EXCEPT !.in[r] = u] \in Connection(U)
        /\ [ch EXCEPT !.in[r] = u].end = ch.end
        /\ [ch EXCEPT !.in[r] = u].in[r] = u
        /\ \A q \in Sides \ {r} : [ch EXCEPT !.in[r] = u].in[q] = ch.in[q]
    BY <2>2, InConn
  <2> QED
    BY <1>3, <2>1, <2>2, <2>3, <2>4
<1>4. CASE ch.end[Peer(s)] = "fin"
  <2>1. Sent(ch, s, ms) = [ch EXCEPT !.end[Peer(s)] = "gone"]
    BY <1>4 DEF Sent
  <2>2. "gone" \in Ends
    BY DEF Ends
  <2> QED
    BY <1>1, <1>4, <2>1, <2>2, EndConn
<1>5. CASE ch.end[Peer(s)] \notin {"open", "fin"}
  BY <1>5 DEF Sent
<1> QED
  BY <1>3, <1>4, <1>5

(* A receive takes input and leaves the rest alone.                         *)
LEMMA TakenConn ==
    ASSUME NEW U, NEW ch \in Connection(U), NEW s \in Sides, NEW j \in Nat
    PROVE  /\ Taken(ch, s, j) \in Connection(U)
           /\ Taken(ch, s, j).end = ch.end
           /\ Taken(ch, s, j).in[s] = SubSeq(ch.in[s], j + 1, Len(ch.in[s]))
           /\ \A r \in Sides \ {s} : Taken(ch, s, j).in[r] = ch.in[r]
<1>1. ch.in[s] \in Seq(U)
  BY DEF Connection
<1> DEFINE u == SubSeq(ch.in[s], j + 1, Len(ch.in[s]))
<1>2. u \in Seq(U)
  BY <1>1
<1>3. Taken(ch, s, j) = [ch EXCEPT !.in[s] = u]
  BY DEF Taken
<1>4. u = SubSeq(ch.in[s], j + 1, Len(ch.in[s]))
  OBVIOUS
<1> HIDE DEF u
<1>5. /\ [ch EXCEPT !.in[s] = u] \in Connection(U)
      /\ [ch EXCEPT !.in[s] = u].end = ch.end
      /\ [ch EXCEPT !.in[s] = u].in[s] = u
      /\ \A r \in Sides \ {s} : [ch EXCEPT !.in[s] = u].in[r] = ch.in[r]
  BY <1>2, InConn
<1> QED
  BY <1>3, <1>4, <1>5

(* A close ends the side that closes and no other.                          *)
LEMMA ClosedConn ==
    ASSUME NEW U, NEW ch \in Connection(U), NEW s \in Sides, NEW how \in Hows
    PROVE  /\ Closed(ch, s, how) \in Connection(U)
           /\ Closed(ch, s, how).end[s] # "open"
           /\ \A r \in Sides \ {s} : /\ Closed(ch, s, how).end[r] = ch.end[r]
                                     /\ Closed(ch, s, how).in[r] = ch.in[r]
<1>1. PICK e \in Ends \ {"open"} :
        Closed(ch, s, how) = [ch EXCEPT !.end[s] = e, !.in[s] = <<>>]
  BY DEF Hows, Ends, Closed
<1>2. <<>> \in Seq(U)
  OBVIOUS
<1>3. [ch EXCEPT !.end[s] = e, !.in[s] = <<>>] \in Connection(U)
  BY <1>2 DEF Connection
<1> QED
  BY <1>1, <1>2, <1>3 DEF Connection

(* A connection whose listening socket goes away is reset.                  *)
LEMMA RefusedConn ==
    ASSUME NEW U, NEW ch \in Connection(U)
    PROVE  /\ Refused(ch) \in Connection(U)
           /\ Refused(ch).end["s"] # "open"
           /\ Refused(ch).end["c"] = ch.end["c"]
           /\ Refused(ch).in["c"] = ch.in["c"]
<1>1. "rst" \in Ends /\ "s" \in Sides /\ "c" \in Sides /\ "rst" # "open"
  BY DEF Ends, Sides
<1>2. <<>> \in Seq(U)
  OBVIOUS
<1>3. Refused(ch) \in Connection(U)
  BY <1>1, <1>2 DEF Refused, Connection
<1> QED
  BY <1>1, <1>2, <1>3 DEF Refused, Connection
=============================================================================
