------------------------- MODULE MCFrameDiagnosis -------------------------
(* Bounds for FrameDiagnosis: frames of up to two VLAN tags, every kind of *)
(* network layer, a tunnel, fragments, and every kind of message; honest   *)
(* ones, and ones with a wrong length.  The layer cap is 6 instead of 16.  *)
EXTENDS FrameDiagnosis

Plain(k, len) == Header(k, len, "none", "none", "no", 0)
Summed(k, len, sum, body) == Header(k, len, sum, body, "no", 0)

Tags(n) == [i \in 1..n |-> Plain("VLAN", 4)]

V4(frag, sum) == Header("IPv4", 20, sum, "ok", frag, 0)
V6 == Plain("IPv6", 40)
Fragment(frag) == Header("IPv6Fragment", 8, "none", "none", frag, 0)

Networks4 == {<<V4(f, s)>> : f \in {"no", "first", "later"}, s \in {"right", "wrong"}}
               \cup {<<V6, Plain("GRE", 4), V4("no", "right")>>}
Networks6 == {<<V6>>, <<V6, Plain("IPv6HopByHopOptions", 8)>>,
              <<V6, Fragment("first")>>, <<V6, Fragment("later")>>,
              <<V6, Plain("IPv6Routing", 8), Plain("IPv6DestinationOptions", 8)>>}
Tunnels == {<<V4("no", "right"), Plain("GRE", 4)>> \o inner :
              inner \in {<<V4("no", "right")>>, <<V4("first", "right")>>, <<V6>>}}

Messages == {<<Summed("TCP", 20, "right", "malformed")>>, <<Summed("TCP", 20, "wrong", "ok")>>,
             <<Summed("TCP", 20, "right", "none"), Plain("DNSOverTCP", 2)>>,
             <<Summed("UDP", 8, "wrong", "none"), Summed("DHCP", 24, "none", "malformed")>>,
             <<Summed("UDP", 8, "right", "none"), Summed("DNS", 12, "none", "malformed")>>}
Messages4 == {<<Summed("ICMPv4", 8, s, "none")>> : s \in {"right", "wrong"}}
               \cup {<<Summed("IGMP", 8, "wrong", "malformed")>>}
Messages6 == {<<Summed("ICMPv6", 8, "right", "malformed")>>, <<Summed("ICMPv6", 8, "wrong", "ok")>>}

(* Headers whose IP lengths are what they enclose, and data behind them.   *)
Filled(hs, data) ==
    [i \in 1..Len(hs) |->
        IF hs[i].k \notin Ip THEN hs[i]
        ELSE [hs[i] EXCEPT !.total = Extent(hs, Len(hs)) + data
                 - Extent(hs, IF hs[i].k = "IPv4" THEN i - 1 ELSE i)]]

Build(tags, net, msg, data, pad) ==
    [data |-> data, pad |-> pad,
     hdrs |-> Filled(<<Plain("Ethernet", 14)>> \o Tags(tags) \o net \o msg, data)]

Datagrams == {n \o m : n \in Networks4 \cup Tunnels, m \in Messages \cup Messages4}
               \cup {n \o m : n \in Networks6, m \in Messages \cup Messages6}
               \cup {<<V4("no", "right"), Plain("GRE", 4), V6>> \o m : m \in Messages6}

(* IPv4 headers that do not say what was sent: 0 (offload), less than      *)
(* themselves, or more.                                                    *)
Lying == {[data |-> 3, pad |-> 0,
           hdrs |-> <<Plain("Ethernet", 14), [V4("no", "right") EXCEPT !.total = t],
                      Summed("UDP", 8, "right", "none")>>] : t \in {0, 4, 20, 40}}

OtherFrames == {[data |-> 3, pad |-> 0, hdrs |-> <<Plain("Ethernet", 14)>> \o hs] :
                  hs \in {<<>>, <<Plain("ARP", 28)>>, <<Plain("MPLS", 4)>>,
                          <<Summed("TCP", 20, "wrong", "ok")>>}}

Deep == Build(1, <<V6>> \o [i \in 1..4 |-> Plain("IPv6HopByHopOptions", 8)],
              <<Summed("TCP", 20, "right", "none")>>, 0, 0)

SomeFrames == {Build(0, d, <<>>, 3, 0) : d \in Datagrams}
                \cup {Build(t, d, <<>>, 0, p) : t \in 0..2, p \in {0, 6},
                         d \in {<<V4("no", "right"), Summed("UDP", 8, "right", "none")>>,
                                 <<V6, Summed("ICMPv6", 8, "right", "none")>>}}
                \cup Lying \cup OtherFrames \cup {Deep}
=============================================================================
