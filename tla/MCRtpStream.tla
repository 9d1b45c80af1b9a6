---------------------------- MODULE MCRtpStream -----------------------------
(* RtpStream on short recordings that swing between two levels, of no frame  *)
(* and of two or three whose last is short, of even and of odd length; on    *)
(* one frame of the samples around the edges of the mu-law segments; and     *)
(* with a datagram of each kind that the receiver refuses or cuts.           *)
EXTENDS RtpStream

Edges == {0, 32634, 32635, 32767} \cup UNION {{s - UlawBias - 1, s - UlawBias} :
                                              s \in {SegmentStart[e] : e \in 2 .. 8}}

Swings == UNION {[1 .. n -> {-32768, 900}] : n \in {0, 5, 7}}
          \cup {<<a, a, b, b, c, c, a, b, c, a>> : a, b, c \in {-32768, 900, 32767}}
          \cup {<<s, -s, -s - 1>> : s \in Edges}

Datagram(first, second, payload) == <<first, second>> \o [i \in 1 .. 10 |-> 0] \o payload
Bytes(n) == [i \in 1 .. n |-> 37 * i]

Others ==
  { <<128, 97>>, Datagram(64, 97, Bytes(2)), Datagram(160, 97, Bytes(2)),
    Datagram(128, 5, Bytes(2)), Datagram(128, 97, Bytes(3)), Datagram(128, 225, <<>>),
    Datagram(128, 0, Bytes(6)), Datagram(128, 96, Bytes(3)),
    Datagram(128, 96, <<255, 0, 200, 0, 119, 119, 119, 119, 119, 119, 119, 119, 119>>) }
=============================================================================
