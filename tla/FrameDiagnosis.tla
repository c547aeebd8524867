--------------------------- MODULE FrameDiagnosis ---------------------------
(***************************************************************************)
(* From the bytes of a frame to what the user is told of it: decode_frame  *)
(* (decoder.py), the DecodedFrame (frame.py), the screen and NDJSON        *)
(* outputs and the statistics (output.py).                                 *)
(*                                                                         *)
(* A frame on the wire is its headers, the length of what follows them and *)
(* the padding of a short Ethernet frame; cap is how many of its bytes     *)
(* were captured.  The walk along the headers and the checksum arithmetic  *)
(* are the netprotocols library's, which is not in the repository.         *)
(***************************************************************************)
EXTENDS Integers, Sequences, FiniteSets

CONSTANTS
    Frames,     \* frames that may arrive
    Cuts,       \* how many bytes at the end a capture may miss
    MaxFrames,  \* frames in one run
    MaxLayers   \* _MAX_LAYERS

(* A header: its length, its checksum, its options, records or body,       *)
(* whether it heads a fragment, and the length an IP header declares.      *)
Headers == [k : STRING, len : Nat,
            sum : {"right", "wrong", "none"}, body : {"none", "ok", "malformed"},
            frag : {"no", "first", "later"}, total : Nat]

ETHERNET_HEADER_LEN == 14

Ip == {"IPv4", "IPv6"}
Icmp == {"ICMPv4", "ICMPv6"}

(* The headers whose checksum a renderer passes to verify().               *)
Verified == {"IPv4", "TCP", "UDP"} \cup Icmp

(* What can stand in a frame: it starts with the Ethernet header; only     *)
(* IPv4 and the fragment header make fragments; a verified header has a    *)
(* checksum (a UDP datagram sent without one is left out: what verify()    *)
(* says of it is the library's affair); and no network header comes after  *)
(* the transport header.                                                   *)
Chained(hs) ==
    /\ hs # <<>> /\ hs[1].k = "Ethernet" /\ hs[1].len = ETHERNET_HEADER_LEN
    /\ \A i \in 1..Len(hs) :
          /\ hs[i].frag # "no" => hs[i].k \in {"IPv4", "IPv6Fragment"}
          /\ hs[i].k \in Verified => hs[i].sum # "none"
          /\ hs[i].k \in {"TCP", "UDP"} =>
                \A j \in i..Len(hs) : hs[j].k \notin Ip \cup {"IPv6Fragment"}

ASSUME DiagnosisAssumption == /\ Frames \subseteq [data : Nat, pad : Nat, hdrs : Seq(Headers)]
                              /\ \A f \in Frames : Chained(f.hdrs)
                              /\ Cuts \subseteq Nat /\ MaxFrames \in Nat
                              /\ MaxLayers \in Nat \ {0}

VARIABLES
    display,   \* OutputToScreen or OutputToNDJSON
    phase,     \* where run() is with the frame
    wire,      \* the frame as it was sent
    cap,       \* DecodedFrame.length
    layers,    \* DecodedFrame.layers
    error,     \* DecodedFrame.error is not None
    shown,     \* what the display has said of the frame
    stats,     \* the StatsCollector
    told       \* history: what the display has said of all frames

vars == <<display, phase, wire, cap, layers, error, shown, stats, told>>

Header(k, len, sum, body, frag, total) ==
    [k |-> k, len |-> len, sum |-> sum, body |-> body, frag |-> frag, total |-> total]

Nothing == [data |-> 0, pad |-> 0, hdrs |-> <<>>]
Blank == [sections |-> <<>>, flags |-> {}]

(* The bytes of the first n headers.                                       *)
Extent(hs, n) ==
    LET e[i \in 0..n] == IF i = 0 THEN 0 ELSE e[i - 1] + hs[i].len IN e[n]

(* Where the datagram ends and the padding begins.                         *)
Sent(f) == Extent(f.hdrs, Len(f.hdrs)) + f.data

-----------------------------------------------------------------------------
(* netprotocols.decode_frame(lax=True) (external): headers while they are  *)
(* complete; nothing is decoded behind a fragment that is not the first.   *)
(* An ICMP message is one layer, body and all.                             *)
Consumed == Extent(layers, Len(layers))
AtEnd == \/ Len(layers) = Len(wire.hdrs)
         \/ layers # <<>> /\ (layers[Len(layers)].frag = "later"
                              \/ layers[Len(layers)].k \in Icmp)
NextHeader == wire.hdrs[Len(layers) + 1]
CanDecode == ~AtEnd /\ Len(layers) < MaxLayers /\ Consumed + NextHeader.len <= cap

DecodeLayer ==
    /\ phase = "decoding" /\ CanDecode
    /\ layers' = Append(layers,
                        IF NextHeader.k \in Icmp
                        THEN [NextHeader EXCEPT !.len = cap - Consumed]
                        ELSE NextHeader)
    /\ UNCHANGED <<display, phase, wire, cap, error, shown, stats, told>>

(* stopped_by is None when the walk came to its end.                       *)
DecodeEnds ==
    /\ phase = "decoding" /\ ~CanDecode
    /\ error' = ~AtEnd
    /\ phase' = "display"
    /\ UNCHANGED <<display, wire, cap, layers, shown, stats, told>>

-----------------------------------------------------------------------------
(* DecodedFrame.layer: the first of its class (0 for None).                *)
Layer(k) == IF \E i \in 1..Len(layers) : layers[i].k = k
            THEN CHOOSE i \in 1..Len(layers) :
                    layers[i].k = k /\ \A j \in 1..(i - 1) : layers[j].k # k
            ELSE 0

FirstIp == CHOOSE i \in 1..Len(layers) :
              layers[i].k \in Ip /\ \A j \in 1..(i - 1) : layers[j].k \notin Ip
HasIp == \E i \in 1..Len(layers) : layers[i].k \in Ip

DeclaredWithoutHeader == ETHERNET_HEADER_LEN + layers[FirstIp].total

(* _declared_length, of the outermost IP header.                           *)
DeclaredLength ==
    IF layers[FirstIp].k = "IPv4"
    THEN ETHERNET_HEADER_LEN + layers[FirstIp].total
    ELSE ETHERNET_HEADER_LEN + layers[FirstIp].len + layers[FirstIp].total

Truncated == HasIp /\ DeclaredLength > cap

(* _ip_length_malformed; total_length 0 is what segmentation offload       *)
(* leaves.                                                                 *)
MalformedLength == LET i == Layer("IPv4") IN
    i # 0 /\ 0 < layers[i].total /\ layers[i].total < layers[i].len

IsFragmentedByOffset ==
    \/ Layer("IPv4") # 0 /\ layers[Layer("IPv4")].frag = "later"
    \/ \E i \in 1..Len(layers) : layers[i].k = "IPv6Fragment"

(* _is_fragmented.                                                         *)
IsFragmented ==
    \/ Layer("IPv4") # 0 /\ layers[Layer("IPv4")].frag \in {"first", "later"}
    \/ \E i \in 1..Len(layers) : layers[i].k = "IPv6Fragment"

-----------------------------------------------------------------------------
(* netprotocols.verify (external): a checksum is right over the bytes and  *)
(* the pseudo-header it was made from.  What it says of a cut or padded    *)
(* segment is the library's affair.                                        *)
Enclosing(i) == CHOOSE j \in 1..(i - 1) :
                   layers[j].k \in Ip /\ \A m \in (j + 1)..(i - 1) : layers[m].k \notin Ip

(* _trailing_bytes are exactly those that were sent after the header.      *)
TrailingExact == cap = Sent(wire)

Reassembled(i) == \A j \in 1..(i - 1) : layers[j].frag = "no"

Verify(i, ip) ==
    IF TrailingExact /\ Reassembled(i)
    THEN {layers[i].sum = "right" /\ (ip # 0 => ip = Enclosing(i))}
    ELSE BOOLEAN

(* _checksum_note over a transport header: a fragment is not looked at,    *)
(* and what cannot be computed (no IP layer) is no mismatch.               *)
ChecksumNote(i, ip, needsIp) ==
    IF IsFragmented \/ (needsIp /\ ip = 0) THEN {FALSE}
    ELSE {~ok : ok \in Verify(i, ip)}

IcmpNote(i) == IF layers[i].k = "ICMPv4" THEN ChecksumNote(i, 0, FALSE)
               ELSE ChecksumNote(i, Layer("IPv6"), TRUE)

(* frame.layer(IPv4) or frame.layer(IPv6).                                 *)
TcpUdpNote(i) ==
    ChecksumNote(i, IF Layer("IPv4") # 0 THEN Layer("IPv4") ELSE Layer("IPv6"), TRUE)

Ipv4Note(i) == {layers[i].sum # "right"}

(* Renderers that look no further than their header.                       *)
PlainSections == {"Ethernet", "VLAN", "ARP", "IPv6", "IPv6HopByHopOptions",
                  "IPv6DestinationOptions", "IPv6Routing", "IPv6Fragment",
                  "GRE", "DNSOverTCP"}

(* Renderers that parse on: what does not parse is a [!] line of its own   *)
(* (InvalidFieldError is caught), and the section still ends in order.     *)
OptionsSections == {"IPv4", "TCP"}
IgmpSection == {"IGMP"}
NdpSection == {"ICMPv6"}
DnsSection == {"DNS"}
DhcpSection == {"DHCP"}
ParsedSections == UNION {OptionsSections, IgmpSection, NdpSection, DnsSection, DhcpSection}

Section(i, note) ==
    [title |-> IF layers[i].k \in PlainSections \cup ParsedSections \cup {"UDP", "ICMPv4"}
               THEN layers[i].k ELSE "unrendered",
     note |-> note,
     malformed |-> layers[i].k \in ParsedSections /\ layers[i].body = "malformed"]

NoteOf(i) == CASE layers[i].k = "IPv4" -> Ipv4Note(i)
               [] layers[i].k \in {"TCP", "UDP"} -> TcpUdpNote(i)
               [] layers[i].k \in Icmp -> IcmpNote(i)
               [] OTHER -> {FALSE}

(* OutputToScreen.update: one section per layer, then the diagnoses.       *)
ScreenLayer ==
    /\ phase = "display" /\ display = "screen" /\ Len(shown.sections) < Len(layers)
    /\ LET i == Len(shown.sections) + 1 IN
       \E note \in NoteOf(i) :
          shown' = [shown EXCEPT !.sections = Append(@, Section(i, note))]
    /\ UNCHANGED <<display, phase, wire, cap, layers, error, stats, told>>

Flags == {d \in {"error", "truncated", "malformed_length"} :
            \/ d = "error" /\ error
            \/ d = "truncated" /\ Truncated
            \/ d = "malformed_length" /\ MalformedLength}

(* _STATS_BUCKETS. *)
Buckets == {"TCP", "UDP", "ICMPv4", "ICMPv6", "ARP"}

Count(condition) == IF condition THEN 1 ELSE 0

(* The display is done with the frame.                                     *)
Say(said) ==
    LET titles == {said.sections[i].title : i \in 1..Len(said.sections)} IN
    /\ shown' = said
    /\ told' = [malformed |-> told.malformed
                     + Count(said.flags \cap {"error", "malformed_length"} # {}),
                truncated |-> told.truncated + Count("truncated" \in said.flags),
                named |-> told.named + Count(titles \cap Buckets # {})]
    /\ phase' = "stats"

ScreenEnds ==
    /\ phase = "display" /\ display = "screen" /\ Len(shown.sections) = Len(layers)
    /\ Say([shown EXCEPT !.flags = Flags])
    /\ UNCHANGED <<display, wire, cap, layers, error, stats>>

(* OutputToNDJSON.update: the layers' fields, and no verdict on them.      *)
Json ==
    /\ phase = "display" /\ display = "json"
    /\ Say([sections |-> [i \in 1..Len(layers) |->
                [title |-> layers[i].k, note |-> FALSE, malformed |-> FALSE]],
            flags |-> Flags])
    /\ UNCHANGED <<display, wire, cap, layers, error, stats>>

-----------------------------------------------------------------------------
(* The innermost layer that has a bucket.                                  *)
Bucket == LET in == {i \in 1..Len(layers) : layers[i].k \in Buckets} IN
    IF in = {} THEN "other"
    ELSE layers[CHOOSE i \in in : \A j \in in : j <= i].k

CountFrame(malformed) ==
    /\ phase = "stats"
    /\ stats' = [frames |-> stats.frames + 1,
                 malformed |-> stats.malformed + Count(malformed),
                 truncated |-> stats.truncated + Count(Truncated),
                 buckets |-> [stats.buckets EXCEPT ![Bucket] = @ + 1]]
    /\ phase' = "idle"
    /\ wire' = Nothing /\ cap' = 0 /\ layers' = <<>> /\ error' = FALSE /\ shown' = Blank
    /\ UNCHANGED <<display, told>>

StatsErrorsOnly == CountFrame(error)

(* StatsCollector.update (its byte total and its clock left out), the last *)
(* output; then run() asks for a frame.                                    *)
Stats == CountFrame(error \/ MalformedLength)

(* A frame reaches decode_frame.                                           *)
Capture(f, cut) ==
    /\ phase = "idle" /\ stats.frames < MaxFrames /\ cut < Sent(f) + f.pad
    /\ wire' = f /\ cap' = Sent(f) + f.pad - cut
    /\ layers' = <<>> /\ error' = FALSE /\ shown' = Blank
    /\ phase' = "decoding"
    /\ UNCHANGED <<display, stats, told>>

Over == phase = "idle" /\ stats.frames = MaxFrames /\ UNCHANGED vars

Init == /\ display \in {"screen", "json"} /\ phase = "idle"
        /\ wire = Nothing /\ cap = 0 /\ layers = <<>> /\ error = FALSE /\ shown = Blank
        /\ stats = [frames |-> 0, malformed |-> 0, truncated |-> 0,
                    buckets |-> [b \in Buckets \cup {"other"} |-> 0]]
        /\ told = [malformed |-> 0, truncated |-> 0, named |-> 0]

Next == \/ \E f \in Frames, cut \in Cuts : Capture(f, cut)
        \/ DecodeLayer \/ DecodeEnds
        \/ ScreenLayer \/ ScreenEnds \/ Json \/ Stats \/ Over

Spec == Init /\ [][Next]_vars

-----------------------------------------------------------------------------
(* The outermost IP header says what was really sent.                      *)
Honest == HasIp /\ Sent(wire) = Extent(layers, FirstIp - 1) + layers[FirstIp].total
                     + (IF layers[FirstIp].k = "IPv6" THEN layers[FirstIp].len ELSE 0)

Diagnosed == phase = "stats" /\ Honest

Tagged == Extent(layers, FirstIp - 1) - ETHERNET_HEADER_LEN

(* Of a frame whose IP header is honest, decode_frame says "truncated"     *)
(* only if bytes of the datagram are missing (padding is not), and says it *)
(* whenever more are missing than its VLAN tags have (_declared_length).   *)
TruncationExact ==
    Diagnosed => /\ "truncated" \in shown.flags => cap < Sent(wire)
                 /\ cap + Tagged < Sent(wire) => "truncated" \in shown.flags

(* "If the IP layer declares more bytes than were captured,                *)
(* frame.truncated is set": any missing byte counts (_declared_length).    *)
CutIsFlagged == Diagnosed /\ cap < Sent(wire) => "truncated" \in shown.flags

(* The layer has a checksum that is verified (IGMP's and GRE's are not),   *)
(* it is whole and stands in an IP datagram that is whole.                 *)
Verifiable(i) ==
    /\ layers[i].k \in Verified /\ cap = Sent(wire)
    /\ \A j \in 1..(i - 1) : layers[j].frag = "no" /\ layers[j].k # "IPv6Fragment"
    /\ \E j \in 1..(i - 1) : layers[j].k \in IF layers[i].k = "ICMPv6" THEN {"IPv6"} ELSE Ip

(* A mismatch on the screen is a wrong checksum, unless the frame was cut  *)
(* or padded or the layer is in a tunnel; and a wrong checksum of a layer  *)
(* that can be verified is always noted (_checksum_note, _is_fragmented,   *)
(* _trailing_bytes and the renderers that call them).                      *)
NotesTrue ==
    display = "screen" => \A i \in 1..Len(shown.sections) :
        /\ shown.sections[i].note =>
              \/ layers[i].sum = "wrong"
              \/ cap # Sent(wire)
              \/ Cardinality({j \in 1..(i - 1) : layers[j].k \in Ip}) > 1
        /\ layers[i].sum = "wrong" /\ (layers[i].k = "IPv4" \/ Verifiable(i)) =>
              shown.sections[i].note

(* The screen or the NDJSON lines and the final report tell one story: as  *)
(* many frames malformed, as many truncated, as many in a bucket as had a  *)
(* section of that kind; and every frame is in one bucket                  *)
(* (OutputToScreen, OutputToNDJSON and StatsCollector.update).             *)
OutputsAgree ==
    phase = "idle" =>
        /\ stats.malformed = told.malformed
        /\ stats.truncated = told.truncated
        /\ stats.frames = told.named + stats.buckets["other"]
        /\ stats.frames = stats.buckets["TCP"] + stats.buckets["UDP"]
              + stats.buckets["ICMPv4"] + stats.buckets["ICMPv6"]
              + stats.buckets["ARP"] + stats.buckets["other"]
=============================================================================
