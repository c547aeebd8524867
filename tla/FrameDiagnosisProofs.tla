------------------------ MODULE FrameDiagnosisProofs ------------------------
(***************************************************************************)
(* Proofs about FrameDiagnosis, for every set of frames, every way to cut  *)
(* them, any number of frames and any cap on the layers.                   *)
(***************************************************************************)
EXTENDS FrameDiagnosis, Induction, FiniteSetTheorems, TLAPS

-----------------------------------------------------------------------------
(* Extent: f gives the bytes of the first headers.                         *)
Offsets(hs, n, f) == /\ f \in [0..n -> Nat] /\ f[0] = 0
                     /\ \A i \in 1..n : f[i] = f[i - 1] + hs[i].len

(* Header lengths are naturals.                                            *)
LEMMA LenIsNat ==
    ASSUME NEW hs \in Seq(Headers), NEW i \in 1..Len(hs)
    PROVE  hs[i] \in Headers /\ hs[i].len \in Nat
<1>1. hs[i] \in Headers
  OBVIOUS
<1> QED BY <1>1 DEF Headers

(* There are offsets for every number of headers.                          *)
LEMMA OffsetsExist ==
    ASSUME NEW hs \in Seq(Headers), NEW n \in 0..Len(hs)
    PROVE  \E f : Offsets(hs, n, f)
<1> DEFINE S == {m \in Nat : m <= Len(hs) => \E f : Offsets(hs, m, f)}
<1>0. Len(hs) \in Nat
  OBVIOUS
<1>1. 0 \in S
  <2> DEFINE g == [i \in 0..0 |-> 0]
  <2>1. Offsets(hs, 0, g)
    BY DEF Offsets
  <2> QED BY <2>1
<1>2. ASSUME NEW m \in Nat, m \in S PROVE m + 1 \in S
  <2> SUFFICES ASSUME m + 1 <= Len(hs) PROVE \E f : Offsets(hs, m + 1, f)
    OBVIOUS
  <2>1. m <= Len(hs)
    BY <1>0
  <2>2. PICK f : Offsets(hs, m, f)
    BY <1>2, <2>1
  <2>3. m + 1 \in 1..Len(hs)
    BY <1>0
  <2>4. hs[m + 1].len \in Nat
    BY <2>3, LenIsNat
  <2> DEFINE g == [i \in 0..(m + 1) |-> IF i <= m THEN f[i] ELSE f[m] + hs[m + 1].len]
  <2>5. f[m] \in Nat
    BY <2>2 DEF Offsets
  <2>6. g \in [0..(m + 1) -> Nat]
    BY <2>2, <2>4, <2>5 DEF Offsets
  <2>7. g[0] = 0
    BY <2>2 DEF Offsets
  <2>8. ASSUME NEW i \in 1..(m + 1) PROVE g[i] = g[i - 1] + hs[i].len
    <3>1. CASE i <= m
      BY <3>1, <2>2 DEF Offsets
    <3>2. CASE i = m + 1
      BY <3>2
    <3> QED BY <3>1, <3>2
  <2>9. Offsets(hs, m + 1, g)
    BY <2>6, <2>7, <2>8 DEF Offsets
  <2> QED BY <2>9
<1> HIDE DEF S
<1>3. Nat \subseteq S
  BY <1>1, <1>2, SetInduction
<1> QED BY <1>3, <1>0 DEF S

(* Extent is what the offsets say.                                         *)
LEMMA ExtentIs ==
    ASSUME NEW hs \in Seq(Headers), NEW n \in 0..Len(hs), NEW f, Offsets(hs, n, f)
    PROVE  Extent(hs, n) = f[n]
<1> DEFINE Step(e) == [i \in 0..n |-> IF i = 0 THEN 0 ELSE e[i - 1] + hs[i].len]
<1> DEFINE e == CHOOSE g : g = Step(g)
<1>0. n \in Nat
  OBVIOUS
<1>1. Extent(hs, n) = e[n]
  BY DEF Extent
<1>2. f = Step(f)
  BY DEF Offsets
<1>3. e = Step(e)
  <2> HIDE DEF Step
  <2> QED BY <1>2
<1> HIDE DEF e
<1>4. e[0] = 0 /\ \A i \in 1..n : e[i] = e[i - 1] + hs[i].len
  BY <1>3, <1>0
<1> HIDE DEF Step
<1> DEFINE S == {m \in Nat : m <= n => e[m] = f[m]}
<1>5. 0 \in S
  BY <1>4 DEF Offsets
<1>6. ASSUME NEW m \in Nat, m \in S PROVE m + 1 \in S
  <2> SUFFICES ASSUME m + 1 <= n PROVE e[m + 1] = f[m + 1]
    OBVIOUS
  <2>1. e[m] = f[m]
    BY <1>0, <1>6
  <2>2. m + 1 \in 1..n /\ (m + 1) - 1 = m
    BY <1>0
  <2> QED BY <2>1, <2>2, <1>4 DEF Offsets
<1> HIDE DEF S
<1>7. n \in S
  BY <1>0, <1>5, <1>6, SetInduction
<1> QED BY <1>0, <1>1, <1>7 DEF S

(* Extent is a natural.                                                    *)
LEMMA ExtentNat ==
    ASSUME NEW hs \in Seq(Headers), NEW n \in 0..Len(hs)
    PROVE  Extent(hs, n) \in Nat
<1>1. PICK f : Offsets(hs, n, f)
  BY OffsetsExist
<1>2. Extent(hs, n) = f[n]
  BY <1>1, ExtentIs
<1> QED BY <1>1, <1>2 DEF Offsets

(* Extent covers at least the first header.                                *)
LEMMA ExtentCoversFirst ==
    ASSUME NEW hs \in Seq(Headers), NEW n \in 1..Len(hs)
    PROVE  hs[1].len <= Extent(hs, n)
<1>0. n \in Nat /\ n >= 1 /\ n \in 0..Len(hs) /\ 1 \in 1..Len(hs)
  OBVIOUS
<1>1. PICK f : Offsets(hs, n, f)
  BY <1>0, OffsetsExist
<1>2. Extent(hs, n) = f[n]
  BY <1>0, <1>1, ExtentIs
<1>3. hs[1].len \in Nat
  BY <1>0, LenIsNat
<1> DEFINE S == {m \in Nat : m + 1 <= n => hs[1].len <= f[m + 1]}
<1>4. 0 \in S
  BY <1>0, <1>1, <1>3 DEF Offsets
<1>5. ASSUME NEW m \in Nat, m \in S PROVE m + 1 \in S
  <2> SUFFICES ASSUME m + 2 <= n PROVE hs[1].len <= f[m + 2]
    BY (m + 1) + 1 = m + 2
  <2>1. hs[1].len <= f[m + 1]
    BY <1>0, <1>5
  <2>2. m + 2 \in 1..n /\ (m + 2) - 1 = m + 1 /\ m + 2 \in 1..Len(hs)
    BY <1>0
  <2>3. f[m + 2] = f[m + 1] + hs[m + 2].len
    BY <2>2, <1>1 DEF Offsets
  <2>4. hs[m + 2].len \in Nat /\ f[m + 1] \in Nat
    BY <2>2, <1>0, <1>1, LenIsNat DEF Offsets
  <2> QED BY <2>1, <2>3, <2>4, <1>3
<1> HIDE DEF S
<1>6. n - 1 \in S
  BY <1>0, <1>4, <1>5, SetInduction
<1> QED BY <1>0, <1>2, <1>6 DEF S

-----------------------------------------------------------------------------
(* The inductive invariant.                                                *)
Diagnoses == {"error", "truncated", "malformed_length"}
Sections == [title : STRING \cup {"unrendered"}, note : BOOLEAN, malformed : BOOLEAN]

DiagTypes ==
    /\ display \in {"screen", "json"}
    /\ phase \in {"idle", "decoding", "display", "stats"}
    /\ wire \in [data : Nat, pad : Nat, hdrs : Seq(Headers)]
    /\ cap \in Nat /\ layers \in Seq(Headers) /\ error \in BOOLEAN
    /\ shown \in [sections : Seq(Sections), flags : SUBSET Diagnoses]
    /\ stats \in [frames : Nat, malformed : Nat, truncated : Nat,
                  buckets : [Buckets \cup {"other"} -> Nat]]
    /\ told \in [malformed : Nat, truncated : Nat, named : Nat]

(* A layer is a header of the frame, but for the length of an ICMP message.*)
Decoded(l, h) == /\ l.k = h.k /\ l.sum = h.sum /\ l.frag = h.frag
                 /\ l.k \notin Icmp => l = h

(* The layers are the first headers of the frame; ICMP ends the walk.      *)
LayersInv ==
    /\ Len(layers) <= Len(wire.hdrs)
    /\ IF phase = "idle" THEN layers = <<>> ELSE wire \in Frames
    /\ \A i \in 1..Len(layers) : Decoded(layers[i], wire.hdrs[i])
    /\ \A i \in 1..Len(layers) : layers[i].k \in Icmp => i = Len(layers)

(* Each section on the screen was rendered from its layer.                 *)
ScreenInv ==
    /\ phase \in {"idle", "decoding"} => shown = Blank
    /\ phase = "display" /\ display = "json" => shown = Blank
    /\ display = "screen" =>
          /\ Len(shown.sections) <= Len(layers)
          /\ \A i \in 1..Len(shown.sections) :
                \E note \in NoteOf(i) : shown.sections[i] = Section(i, note)

Named == \E i \in 1..Len(layers) : layers[i].k \in Buckets

(* The display is one frame ahead of the statistics while they have the    *)
(* frame, and not a frame ahead at other times.                            *)
CountInv ==
    LET ahead == phase = "stats" IN
    /\ told.malformed = stats.malformed + Count(ahead /\ (error \/ MalformedLength))
    /\ told.truncated = stats.truncated + Count(ahead /\ Truncated)
    /\ told.named + stats.buckets["other"] = stats.frames + Count(ahead /\ Named)
    /\ stats.frames = stats.buckets["TCP"] + stats.buckets["UDP"]
          + stats.buckets["ICMPv4"] + stats.buckets["ICMPv6"]
          + stats.buckets["ARP"] + stats.buckets["other"]

FlagsInv == phase = "stats" => shown.flags = Flags

DiagInv == DiagTypes /\ LayersInv /\ ScreenInv /\ FlagsInv /\ CountInv

LEMMA BlankType == Blank \in [sections : Seq(Sections), flags : SUBSET Diagnoses]
<1>1. <<>> \in Seq(Sections)
  OBVIOUS
<1> QED BY <1>1 DEF Blank

LEMMA DiagInit == Init => DiagInv
<1> SUFFICES ASSUME Init PROVE DiagInv
  OBVIOUS
<1>1. <<>> \in Seq(Headers) /\ Len(<<>>) = 0
  OBVIOUS
<1>2. DiagTypes
  BY <1>1, BlankType DEF Init, DiagTypes, Nothing, Buckets
<1>3. LayersInv
  BY DEF Init, LayersInv, Nothing
<1>4. ScreenInv
  BY DEF Init, ScreenInv, Blank
<1>5. FlagsInv
  BY DEF Init, FlagsInv
<1>6. CountInv
  BY DEF Init, CountInv, Count, Buckets
<1> QED BY <1>2, <1>3, <1>4, <1>5, <1>6 DEF DiagInv

(* What a capture makes of a frame's length is a natural.                  *)
LEMMA SentNat ==
    ASSUME NEW f \in [data : Nat, pad : Nat, hdrs : Seq(Headers)]
    PROVE  Sent(f) \in Nat /\ f.pad \in Nat
<1>1. f.hdrs \in Seq(Headers) /\ f.data \in Nat /\ f.pad \in Nat
  OBVIOUS
<1>2. Len(f.hdrs) \in 0..Len(f.hdrs)
  BY <1>1
<1>3. Extent(f.hdrs, Len(f.hdrs)) \in Nat
  BY <1>1, <1>2, ExtentNat
<1> QED BY <1>1, <1>3 DEF Sent

LEMMA CaptureStep ==
    ASSUME DiagInv, NEW f \in Frames, NEW cut \in Cuts, Capture(f, cut)
    PROVE  DiagInv'
<1> USE DEF Capture
<1>1. f \in [data : Nat, pad : Nat, hdrs : Seq(Headers)] /\ cut \in Nat
  BY DiagnosisAssumption
<1>2. Sent(f) \in Nat /\ f.pad \in Nat
  BY <1>1, SentNat
<1>3. <<>> \in Seq(Headers) /\ Len(<<>>) = 0
  OBVIOUS
<1>4. cap' \in Nat
  BY <1>1, <1>2
<1>5. DiagTypes'
  BY <1>1, <1>3, <1>4, BlankType DEF DiagInv, DiagTypes
<1>6. LayersInv'
  <2>1. Len(f.hdrs) \in Nat
    BY <1>1
  <2> QED BY <1>3, <2>1 DEF LayersInv
<1>7. ScreenInv'
  BY <1>3 DEF ScreenInv, Blank, DiagInv, LayersInv
<1>8. FlagsInv'
  BY DEF FlagsInv
<1>9. CountInv'
  BY DEF DiagInv, CountInv, Count
<1> QED BY <1>5, <1>6, <1>7, <1>8, <1>9 DEF DiagInv

(* The header the walk comes to is one of the frame's.                     *)
LEMMA DecodeStep == DiagInv /\ DecodeLayer => DiagInv'
<1> SUFFICES ASSUME DiagInv, DecodeLayer PROVE DiagInv'
  OBVIOUS
<1> DEFINE n == Len(layers) + 1
<1> DEFINE h == NextHeader
<1> DEFINE l == IF h.k \in Icmp THEN [h EXCEPT !.len = cap - Consumed] ELSE h
<1>1. /\ phase = "decoding" /\ ~AtEnd /\ Consumed + h.len <= cap
      /\ layers' = Append(layers, l)
      /\ UNCHANGED <<display, phase, wire, cap, error, shown, stats, told>>
  BY DEF DecodeLayer, CanDecode
<1>2. /\ layers \in Seq(Headers) /\ wire.hdrs \in Seq(Headers) /\ cap \in Nat
      /\ Len(layers) \in Nat /\ Len(wire.hdrs) \in Nat /\ Len(layers) <= Len(wire.hdrs)
      /\ wire \in Frames
  BY <1>1 DEF DiagInv, DiagTypes, LayersInv
<1>3. n \in 1..Len(wire.hdrs) /\ n \in Nat
  BY <1>1, <1>2 DEF AtEnd
<1>4. h = wire.hdrs[n] /\ h \in Headers
  BY <1>2, <1>3 DEF NextHeader
<1>5. Consumed \in Nat
  <2>1. Len(layers) \in 0..Len(layers)
    BY <1>2
  <2> QED BY <1>2, <2>1, ExtentNat DEF Consumed
<1> HIDE DEF h, n
<1>6. l \in Headers /\ Decoded(l, h)
  <2>1. h.len \in Nat
    BY <1>4 DEF Headers
  <2>2. cap - Consumed \in Nat
    BY <1>1, <1>2, <1>5, <2>1
  <2>3. CASE h.k \in Icmp
    BY <1>4, <2>2, <2>3 DEF Headers, Decoded
  <2>4. CASE h.k \notin Icmp
    BY <1>4, <2>4 DEF Headers, Decoded
  <2> QED BY <2>3, <2>4
<1> HIDE DEF l
<1>7. /\ layers' \in Seq(Headers) /\ Len(layers') = n /\ n = Len(layers) + 1
      /\ layers'[n] = l /\ \A i \in 1..Len(layers) : layers'[i] = layers[i]
  BY <1>1, <1>2, <1>6 DEF n
<1>8. DiagTypes'
  BY <1>1, <1>7 DEF DiagInv, DiagTypes
<1>9. LayersInv'
  <2>1. ASSUME NEW i \in 1..n PROVE Decoded(layers'[i], wire.hdrs[i])
    <3>1. CASE i = n
      BY <3>1, <1>4, <1>6, <1>7
    <3>2. CASE i \in 1..Len(layers)
      BY <3>2, <1>7 DEF DiagInv, LayersInv
    <3> QED BY <3>1, <3>2, <1>2, <1>7
  <2>2. ASSUME NEW i \in 1..n, layers'[i].k \in Icmp PROVE i = n
    <3>1. CASE i \in 1..Len(layers)
      <4>1. i = Len(layers) /\ layers[i].k \in Icmp
        BY <3>1, <2>2, <1>7 DEF DiagInv, LayersInv
      <4>2. layers # <<>>
        BY <4>1, <1>2
      <4> QED BY <4>1, <4>2, <1>1 DEF AtEnd
    <3> QED BY <3>1, <1>2, <1>7
  <2> QED BY <1>1, <1>2, <1>3, <1>7, <2>1, <2>2 DEF LayersInv
<1>10. ScreenInv'
  <2>1. shown' = Blank
    BY <1>1 DEF DiagInv, ScreenInv
  <2> QED BY <2>1, <1>1, <1>2, <1>7 DEF ScreenInv, Blank
<1>11. FlagsInv'
  BY <1>1 DEF FlagsInv
<1>12. CountInv'
  BY <1>1 DEF DiagInv, CountInv, Count
<1> QED BY <1>8, <1>9, <1>10, <1>11, <1>12 DEF DiagInv

LEMMA DecodeEndsStep == DiagInv /\ DecodeEnds => DiagInv'
<1> SUFFICES ASSUME DiagInv, DecodeEnds PROVE DiagInv'
  OBVIOUS
<1>1. /\ phase = "decoding" /\ phase' = "display" /\ error' = ~AtEnd
      /\ UNCHANGED <<display, wire, cap, layers, shown, stats, told>>
  BY DEF DecodeEnds
<1>2. error' \in BOOLEAN
  BY <1>1
<1>3. DiagTypes'
  BY <1>1, <1>2 DEF DiagInv, DiagTypes
<1>4. LayersInv'
  BY <1>1 DEF DiagInv, LayersInv
<1>5. ScreenInv'
  <2>1. shown' = Blank
    BY <1>1 DEF DiagInv, ScreenInv
  <2>3. Len(layers') \in Nat
    BY <1>3 DEF DiagTypes
  <2> QED BY <2>1, <2>3, <1>1 DEF ScreenInv, Blank
<1>6. FlagsInv'
  BY <1>1 DEF FlagsInv
<1>7. CountInv'
  BY <1>1 DEF DiagInv, CountInv, Count
<1> QED BY <1>3, <1>4, <1>5, <1>6, <1>7 DEF DiagInv

-----------------------------------------------------------------------------
(* What is said of a layer depends on the frame alone.                     *)
LEMMA SameNotes ==
    ASSUME UNCHANGED <<wire, cap, layers>>, NEW i
    PROVE  NoteOf(i)' = NoteOf(i) /\ \A note : Section(i, note)' = Section(i, note)
<1>1. ASSUME NEW k PROVE Layer(k)' = Layer(k)
  BY DEF Layer
<1>2. IsFragmented' = IsFragmented
  BY <1>1 DEF IsFragmented
<1>3. Enclosing(i)' = Enclosing(i)
  BY DEF Enclosing
<1>4. (TrailingExact /\ Reassembled(i))' = (TrailingExact /\ Reassembled(i))
  BY DEF TrailingExact, Reassembled, Sent
<1>5. ASSUME NEW ip PROVE Verify(i, ip)' = Verify(i, ip)
  BY <1>3, <1>4 DEF Verify
<1>6. ASSUME NEW ip, NEW needs PROVE ChecksumNote(i, ip, needs)' = ChecksumNote(i, ip, needs)
  BY <1>2, <1>5 DEF ChecksumNote
<1>7. TcpUdpNote(i)' = TcpUdpNote(i)
  BY <1>1, <1>6 DEF TcpUdpNote
<1>8. IcmpNote(i)' = IcmpNote(i)
  BY <1>1, <1>6 DEF IcmpNote
<1>9. NoteOf(i)' = NoteOf(i)
  BY <1>7, <1>8 DEF NoteOf, Ipv4Note
<1> QED BY <1>9 DEF Section

(* A note is there or not.                                                 *)
LEMMA NoteBoolean == ASSUME NEW i PROVE NoteOf(i) \subseteq BOOLEAN
<1>1. ASSUME NEW ip PROVE Verify(i, ip) \subseteq BOOLEAN
  BY DEF Verify
<1>2. ASSUME NEW ip, NEW needs PROVE ChecksumNote(i, ip, needs) \subseteq BOOLEAN
  BY <1>1 DEF ChecksumNote
<1>3. TcpUdpNote(i) \subseteq BOOLEAN /\ IcmpNote(i) \subseteq BOOLEAN
  BY <1>2 DEF TcpUdpNote, IcmpNote
<1>4. Ipv4Note(i) \subseteq BOOLEAN
  BY DEF Ipv4Note
<1> HIDE DEF TcpUdpNote, IcmpNote, Ipv4Note
<1> QED BY <1>3, <1>4 DEF NoteOf

(* A section is titled by the kind of its layer, if that has a bucket.     *)
LEMMA SectionTitle ==
    ASSUME DiagInv, NEW i \in 1..Len(layers), NEW note \in BOOLEAN
    PROVE  /\ Section(i, note) \in Sections
           /\ Section(i, note).title \in Buckets <=> layers[i].k \in Buckets
<1>1. layers[i] \in Headers
  BY DEF DiagInv, DiagTypes
<1>2. layers[i].k \in STRING
  BY <1>1 DEF Headers
<1> DEFINE Rendered == PlainSections \cup ParsedSections \cup {"UDP", "ICMPv4"}
<1>3. Buckets \subseteq Rendered
  BY DEF Buckets, PlainSections, ParsedSections, OptionsSections, NdpSection
<1>4. "unrendered" \notin Buckets
  BY DEF Buckets
<1>5. Section(i, note).title = IF layers[i].k \in Rendered THEN layers[i].k ELSE "unrendered"
  BY DEF Section
<1>6. Section(i, note) \in Sections
  <2> DEFINE title == Section(i, note).title
  <2> DEFINE malformed == layers[i].k \in ParsedSections /\ layers[i].body = "malformed"
  <2>1. title \in STRING \cup {"unrendered"}
    <3> HIDE DEF Rendered
    <3>1. CASE layers[i].k \in Rendered
      BY <1>2, <1>5, <3>1
    <3>2. CASE layers[i].k \notin Rendered
      BY <1>5, <3>2
    <3> QED BY <3>1, <3>2
  <2>2. Section(i, note) = [title |-> title, note |-> note, malformed |-> malformed]
    BY DEF Section
  <2>3. malformed \in BOOLEAN
    OBVIOUS
  <2> HIDE DEF title, malformed
  <2> QED BY <2>1, <2>2, <2>3 DEF Sections
<1> HIDE DEF Rendered
<1> QED BY <1>3, <1>4, <1>5, <1>6

LEMMA ScreenLayerStep == DiagInv /\ ScreenLayer => DiagInv'
<1> SUFFICES ASSUME DiagInv, ScreenLayer PROVE DiagInv'
  OBVIOUS
<1> DEFINE n == Len(shown.sections) + 1
<1>1. PICK note \in NoteOf(n) :
         /\ phase = "display" /\ display = "screen" /\ Len(shown.sections) < Len(layers)
         /\ shown' = [shown EXCEPT !.sections = Append(@, Section(n, note))]
         /\ UNCHANGED <<display, phase, wire, cap, layers, error, stats, told>>
  BY DEF ScreenLayer
<1>2. /\ shown \in [sections : Seq(Sections), flags : SUBSET Diagnoses]
      /\ shown.sections \in Seq(Sections)
      /\ Len(layers) \in Nat /\ Len(shown.sections) \in Nat
      /\ \A i \in 1..Len(shown.sections) :
            \E x \in NoteOf(i) : shown.sections[i] = Section(i, x)
  BY <1>1 DEF DiagInv, DiagTypes, ScreenInv
<1>3. n \in 1..Len(layers) /\ note \in BOOLEAN
  BY <1>1, <1>2, NoteBoolean
<1>4. Section(n, note) \in Sections
  BY <1>3, SectionTitle
<1>5. DiagTypes'
  <2>1. Append(shown.sections, Section(n, note)) \in Seq(Sections)
    BY <1>2, <1>4
  <2>2. shown' \in [sections : Seq(Sections), flags : SUBSET Diagnoses]
    BY <1>1, <1>2, <2>1
  <2> QED BY <1>1, <2>2 DEF DiagInv, DiagTypes
<1>6. LayersInv'
  BY <1>1 DEF DiagInv, LayersInv
<1>7. ScreenInv'
  <2> DEFINE s == Section(n, note)
  <2>1. shown'.sections = Append(shown.sections, s)
    BY <1>1, <1>2
  <2> HIDE DEF s
  <2>2. /\ shown'.sections \in Seq(Sections) /\ Len(shown'.sections) = n
        /\ shown'.sections[n] = s
        /\ \A i \in 1..Len(shown.sections) : shown'.sections[i] = shown.sections[i]
    BY <2>1, <1>2, <1>4 DEF s
  <2>3. ASSUME NEW i \in 1..n
        PROVE  \E x \in NoteOf(i) : shown'.sections[i] = Section(i, x)
    <3>1. CASE i = n
      BY <3>1, <1>1, <2>2 DEF s
    <3>2. CASE i \in 1..Len(shown.sections)
      BY <3>2, <1>2, <2>2
    <3> QED BY <3>1, <3>2, <1>2
  <2>4. ASSUME NEW i \in 1..n
        PROVE  \E x \in NoteOf(i)' : shown'.sections[i] = Section(i, x)'
    BY <1>1, <2>3, SameNotes
  <2> QED BY <1>1, <1>2, <1>3, <2>2, <2>4 DEF ScreenInv
<1>8. FlagsInv'
  BY <1>1 DEF FlagsInv
<1>9. CountInv'
  BY <1>1 DEF DiagInv, CountInv, Count
<1> QED BY <1>5, <1>6, <1>7, <1>8, <1>9 DEF DiagInv

-----------------------------------------------------------------------------
(* The diagnoses depend on the frame alone.                                *)
LEMMA SameFlags ==
    ASSUME UNCHANGED <<cap, layers, error>>
    PROVE  /\ MalformedLength' = MalformedLength /\ Truncated' = Truncated
           /\ Named' = Named /\ Flags' = Flags
<1>1. Layer("IPv4")' = Layer("IPv4")
  BY DEF Layer
<1>2. MalformedLength' = MalformedLength
  BY <1>1 DEF MalformedLength
<1>3. FirstIp' = FirstIp /\ HasIp' = HasIp
  BY DEF FirstIp, HasIp
<1>4. Truncated' = Truncated
  BY <1>3 DEF Truncated, DeclaredLength
<1>5. Named' = Named
  BY DEF Named
<1> QED BY <1>2, <1>4, <1>5 DEF Flags

(* What the flags say.                                                     *)
LEMMA FlagsSay ==
    /\ Flags \in SUBSET Diagnoses
    /\ Flags \cap {"error", "malformed_length"} # {} <=> (error \/ MalformedLength)
    /\ "truncated" \in Flags <=> Truncated
<1> DEFINE M == MalformedLength
<1> DEFINE T == Truncated
<1>1. Flags = {d \in {"error", "truncated", "malformed_length"} :
                 \/ d = "error" /\ error
                 \/ d = "truncated" /\ T
                 \/ d = "malformed_length" /\ M}
  BY DEF Flags
<1> HIDE DEF M, T
<1>2. Flags \in SUBSET Diagnoses
  BY <1>1 DEF Diagnoses
<1>3. "truncated" \in Flags <=> T
  BY <1>1
<1>4. "error" \in Flags <=> error
  BY <1>1
<1>5. "malformed_length" \in Flags <=> M
  BY <1>1
<1>6. Flags \cap {"error", "malformed_length"} # {}
         <=> "error" \in Flags \/ "malformed_length" \in Flags
  OBVIOUS
<1> QED BY <1>2, <1>3, <1>4, <1>5, <1>6 DEF M, T

(* The display puts one frame more on its account.                         *)
LEMMA SayCounts ==
    ASSUME DiagInv, phase = "display", NEW said,
           said \in [sections : Seq(Sections), flags : SUBSET Diagnoses],
           said.flags = Flags,
           Len(said.sections) = Len(layers),
           \A i \in 1..Len(layers) :
              said.sections[i].title \in Buckets <=> layers[i].k \in Buckets,
           Say(said), UNCHANGED <<display, wire, cap, layers, error, stats>>
    PROVE  DiagTypes' /\ LayersInv' /\ FlagsInv' /\ CountInv' /\ phase' = "stats" /\ shown' = said
<1> DEFINE titles == {said.sections[i].title : i \in 1..Len(said.sections)}
<1>1. /\ phase' = "stats" /\ shown' = said
      /\ told' = [malformed |-> told.malformed
                      + Count(said.flags \cap {"error", "malformed_length"} # {}),
                  truncated |-> told.truncated + Count("truncated" \in said.flags),
                  named |-> told.named + Count(titles \cap Buckets # {})]
  BY DEF Say
<1>2. (titles \cap Buckets # {}) <=> Named
  BY DEF Named
<1> HIDE DEF titles
<1> DEFINE M == error \/ MalformedLength
<1> DEFINE T == Truncated
<1> DEFINE N == Named
<1>3. told' = [malformed |-> told.malformed + Count(M),
               truncated |-> told.truncated + Count(T),
               named |-> told.named + Count(N)]
  BY <1>1, <1>2, FlagsSay DEF Count
<1>4. M' = M /\ T' = T /\ N' = N /\ Flags' = Flags
  BY SameFlags
<1> HIDE DEF M, T, N
<1>5. told \in [malformed : Nat, truncated : Nat, named : Nat]
  BY DEF DiagInv, DiagTypes
<1>6. Count(M) \in Nat /\ Count(T) \in Nat /\ Count(N) \in Nat
  BY DEF Count
<1>7. told' \in [malformed : Nat, truncated : Nat, named : Nat]
  BY <1>3, <1>5, <1>6
<1>8. DiagTypes'
  BY <1>1, <1>7 DEF DiagInv, DiagTypes
<1>9. LayersInv'
  BY <1>1 DEF DiagInv, LayersInv
<1>10. FlagsInv'
  BY <1>1, <1>4 DEF FlagsInv
<1>11. CountInv'
  <2>1. /\ told.malformed = stats.malformed /\ told.truncated = stats.truncated
        /\ told.named + stats.buckets["other"] = stats.frames
        /\ stats.frames = stats.buckets["TCP"] + stats.buckets["UDP"]
              + stats.buckets["ICMPv4"] + stats.buckets["ICMPv6"]
              + stats.buckets["ARP"] + stats.buckets["other"]
    <3>1. /\ told.malformed \in Nat /\ told.truncated \in Nat /\ told.named \in Nat
          /\ stats.malformed \in Nat /\ stats.truncated \in Nat /\ stats.frames \in Nat
      BY DEF DiagInv, DiagTypes
    <3> QED BY <3>1 DEF DiagInv, CountInv, Count
  <2>2. (phase = "stats")' /\ stats' = stats
    BY <1>1
  <2>3. /\ stats.buckets["other"] \in Nat /\ stats.frames \in Nat
        /\ told.malformed \in Nat /\ told.truncated \in Nat /\ told.named \in Nat
    BY DEF DiagInv, DiagTypes
  <2>4. /\ told'.malformed = stats'.malformed + Count(M)
        /\ told'.truncated = stats'.truncated + Count(T)
        /\ told'.named + stats'.buckets["other"] = stats'.frames + Count(N)
    BY <2>1, <2>2, <2>3, <1>3, <1>6
  <2>5. /\ Count((phase = "stats" /\ (error \/ MalformedLength))') = Count(M)
        /\ Count((phase = "stats" /\ Truncated)') = Count(T)
        /\ Count((phase = "stats" /\ Named)') = Count(N)
    BY <2>2, <1>4 DEF Count, M, T, N
  <2> QED BY <2>1, <2>2, <2>4, <2>5 DEF CountInv, Count
<1> QED BY <1>1, <1>8, <1>9, <1>10, <1>11

LEMMA ScreenEndsStep == DiagInv /\ ScreenEnds => DiagInv'
<1> SUFFICES ASSUME DiagInv, ScreenEnds PROVE DiagInv'
  OBVIOUS
<1> DEFINE said == [shown EXCEPT !.flags = Flags]
<1>1. /\ phase = "display" /\ display = "screen" /\ Len(shown.sections) = Len(layers)
      /\ Say(said)
      /\ UNCHANGED <<display, wire, cap, layers, error, stats>>
  BY DEF ScreenEnds
<1>2. /\ shown \in [sections : Seq(Sections), flags : SUBSET Diagnoses]
      /\ \A i \in 1..Len(shown.sections) :
            \E x \in NoteOf(i) : shown.sections[i] = Section(i, x)
  BY <1>1 DEF DiagInv, DiagTypes, ScreenInv
<1>3. /\ said \in [sections : Seq(Sections), flags : SUBSET Diagnoses]
      /\ said.flags = Flags /\ said.sections = shown.sections
  BY <1>2, FlagsSay
<1>4. ASSUME NEW i \in 1..Len(layers)
      PROVE  said.sections[i].title \in Buckets <=> layers[i].k \in Buckets
  <2>1. PICK x \in NoteOf(i) : shown.sections[i] = Section(i, x)
    BY <1>1, <1>2
  <2>2. x \in BOOLEAN
    BY NoteBoolean
  <2> QED BY <1>3, <2>1, <2>2, SectionTitle
<1> HIDE DEF said
<1>5. /\ DiagTypes' /\ LayersInv' /\ FlagsInv' /\ CountInv'
      /\ phase' = "stats" /\ shown' = said
  BY <1>1, <1>3, <1>4, SayCounts
<1>6. ScreenInv'
  <2>1. ASSUME NEW i \in 1..Len(shown'.sections)
        PROVE  \E x \in NoteOf(i)' : shown'.sections[i] = Section(i, x)'
    BY <1>1, <1>2, <1>3, <1>5, SameNotes
  <2>2. Len(layers) \in Nat
    BY DEF DiagInv, DiagTypes
  <2> QED BY <1>1, <1>3, <1>5, <2>1, <2>2 DEF ScreenInv
<1> QED BY <1>5, <1>6 DEF DiagInv

LEMMA JsonStep == DiagInv /\ Json => DiagInv'
<1> SUFFICES ASSUME DiagInv, Json PROVE DiagInv'
  OBVIOUS
<1> DEFINE lines == [i \in 1..Len(layers) |->
                       [title |-> layers[i].k, note |-> FALSE, malformed |-> FALSE]]
<1> DEFINE said == [sections |-> lines, flags |-> Flags]
<1>1. /\ phase = "display" /\ display = "json" /\ Say(said)
      /\ UNCHANGED <<display, wire, cap, layers, error, stats>>
  BY DEF Json
<1>2. layers \in Seq(Headers) /\ Len(layers) \in Nat
  BY DEF DiagInv, DiagTypes
<1>3. ASSUME NEW i \in 1..Len(layers)
      PROVE  [title |-> layers[i].k, note |-> FALSE, malformed |-> FALSE] \in Sections
  <2>1. layers[i] \in Headers
    BY <1>2
  <2>2. layers[i].k \in STRING
    BY <2>1 DEF Headers
  <2> QED BY <2>2 DEF Sections
<1>4. lines \in Seq(Sections) /\ Len(lines) = Len(layers)
  BY <1>2, <1>3
<1>5. ASSUME NEW i \in 1..Len(layers)
      PROVE  lines[i].title \in Buckets <=> layers[i].k \in Buckets
  OBVIOUS
<1> HIDE DEF lines
<1>6. /\ said \in [sections : Seq(Sections), flags : SUBSET Diagnoses]
      /\ said.flags = Flags /\ said.sections = lines
  BY <1>4, FlagsSay
<1> HIDE DEF said
<1>7. /\ DiagTypes' /\ LayersInv' /\ FlagsInv' /\ CountInv'
      /\ phase' = "stats" /\ shown' = said
  BY <1>1, <1>4, <1>5, <1>6, SayCounts
<1>8. ScreenInv'
  BY <1>1, <1>7 DEF ScreenInv
<1> QED BY <1>7, <1>8 DEF DiagInv

(* A frame is in the other bucket exactly if no layer has one.             *)
LEMMA BucketOf ==
    ASSUME DiagInv
    PROVE  /\ Bucket \in Buckets \cup {"other"}
           /\ Bucket = "other" <=> ~Named
<1> DEFINE in == {i \in 1..Len(layers) : layers[i].k \in Buckets}
<1>1. Bucket = IF in = {} THEN "other" ELSE layers[CHOOSE i \in in : \A j \in in : j <= i].k
  BY DEF Bucket
<1>2. in = {} <=> ~Named
  BY DEF Named
<1>3. \A i \in in : layers[i].k \in Buckets
  OBVIOUS
<1>4. Len(layers) \in Nat
  BY DEF DiagInv, DiagTypes
<1>5. in \subseteq 0..Len(layers)
  BY <1>4
<1> HIDE DEF in
<1>6. CASE in = {}
  BY <1>1, <1>2, <1>6
<1>7. CASE in # {}
  <2>1. \E i \in in : \A j \in in : j <= i
    BY <1>4, <1>5, <1>7, GreatestOf
  <2>2. (CHOOSE i \in in : \A j \in in : j <= i) \in in
    BY <2>1
  <2>3. Bucket \in Buckets
    BY <1>1, <1>3, <1>7, <2>2
  <2>4. "other" \notin Buckets
    BY DEF Buckets
  <2> QED BY <1>2, <1>7, <2>3, <2>4
<1> QED BY <1>6, <1>7

LEMMA StatsStep == DiagInv /\ Stats => DiagInv'
<1> SUFFICES ASSUME DiagInv, Stats PROVE DiagInv'
  OBVIOUS
<1> DEFINE M == error \/ MalformedLength
<1> DEFINE T == Truncated
<1> DEFINE N == Named
<1> DEFINE b == Bucket
<1>1. /\ phase = "stats" /\ phase' = "idle"
      /\ stats' = [frames |-> stats.frames + 1,
                   malformed |-> stats.malformed + Count(M),
                   truncated |-> stats.truncated + Count(T),
                   buckets |-> [stats.buckets EXCEPT ![b] = @ + 1]]
      /\ wire' = Nothing /\ cap' = 0 /\ layers' = <<>> /\ error' = FALSE /\ shown' = Blank
      /\ UNCHANGED <<display, told>>
  BY DEF Stats, CountFrame
<1>2. /\ told.malformed = stats.malformed + Count(M)
      /\ told.truncated = stats.truncated + Count(T)
      /\ told.named + stats.buckets["other"] = stats.frames + Count(N)
      /\ stats.frames = stats.buckets["TCP"] + stats.buckets["UDP"]
            + stats.buckets["ICMPv4"] + stats.buckets["ICMPv6"]
            + stats.buckets["ARP"] + stats.buckets["other"]
  BY <1>1 DEF DiagInv, CountInv, Count
<1>3. b \in Buckets \cup {"other"} /\ (b = "other" <=> ~N)
  BY BucketOf
<1> HIDE DEF M, T, N, b
<1>4. Count(M) \in Nat /\ Count(T) \in Nat /\ Count(N) \in Nat
  BY DEF Count
<1>5. /\ stats \in [frames : Nat, malformed : Nat, truncated : Nat,
                    buckets : [Buckets \cup {"other"} -> Nat]]
      /\ told \in [malformed : Nat, truncated : Nat, named : Nat]
      /\ display \in {"screen", "json"}
  BY DEF DiagInv, DiagTypes
<1> DEFINE q == stats.buckets
<1> DEFINE r == [q EXCEPT ![b] = @ + 1]
<1>6. q \in [Buckets \cup {"other"} -> Nat] /\ stats.frames \in Nat
      /\ stats.malformed \in Nat /\ stats.truncated \in Nat /\ told.named \in Nat
  BY <1>5
<1> HIDE DEF q
<1>7. r \in [Buckets \cup {"other"} -> Nat]
  BY <1>3, <1>6
<1>8. stats' \in [frames : Nat, malformed : Nat, truncated : Nat,
                  buckets : [Buckets \cup {"other"} -> Nat]]
  <2> DEFINE f == stats.frames + 1
             m == stats.malformed + Count(M)
             t == stats.truncated + Count(T)
  <2>1. stats' = [frames |-> f, malformed |-> m, truncated |-> t, buckets |-> r]
    BY <1>1 DEF q
  <2>2. f \in Nat /\ m \in Nat /\ t \in Nat
    BY <1>4, <1>6
  <2> HIDE DEF f, m, t, r
  <2> QED BY <1>7, <2>1, <2>2
<1>9. <<>> \in Seq(Headers) /\ Len(<<>>) = 0
  OBVIOUS
<1>10. DiagTypes'
  BY <1>1, <1>5, <1>8, <1>9, BlankType DEF DiagTypes, Nothing
<1>11. LayersInv'
  BY <1>1, <1>9 DEF LayersInv, Nothing
<1>12. ScreenInv'
  BY <1>1, <1>9 DEF ScreenInv, Blank
<1>13. FlagsInv'
  BY <1>1 DEF FlagsInv
<1>14. CountInv'
  <2>1. told'.malformed = stats'.malformed /\ told'.truncated = stats'.truncated
    BY <1>1, <1>2
  <2>2. stats'.frames = stats.frames + 1 /\ stats'.buckets = r /\ told' = told
    BY <1>1 DEF q
  <2>3. r["other"] + Count(N) = q["other"] + 1
    BY <1>3, <1>6 DEF Count, Buckets
  <2>4. r["TCP"] + r["UDP"] + r["ICMPv4"] + r["ICMPv6"] + r["ARP"] + r["other"]
          = q["TCP"] + q["UDP"] + q["ICMPv4"] + q["ICMPv6"] + q["ARP"] + q["other"] + 1
    BY <1>3, <1>6 DEF Buckets
  <2>5. q["other"] \in Nat /\ r["other"] \in Nat
    BY <1>6, <1>7
  <2> HIDE DEF r
  <2>6. told'.named + stats'.buckets["other"] = stats'.frames
    BY <2>2, <2>3, <2>5, <1>2, <1>4, <1>6 DEF q
  <2>7. stats'.frames = stats'.buckets["TCP"] + stats'.buckets["UDP"]
            + stats'.buckets["ICMPv4"] + stats'.buckets["ICMPv6"]
            + stats'.buckets["ARP"] + stats'.buckets["other"]
    BY <2>2, <2>4, <1>2, <1>6 DEF q
  <2>8. /\ told'.malformed \in Nat /\ told'.truncated \in Nat /\ stats'.frames \in Nat
        /\ stats'.malformed \in Nat /\ stats'.truncated \in Nat
    BY <1>10 DEF DiagTypes
  <2> QED BY <1>1, <2>1, <2>6, <2>7, <2>8 DEF CountInv, Count
<1> QED BY <1>10, <1>11, <1>12, <1>13, <1>14 DEF DiagInv

LEMMA DiagStutter == DiagInv /\ UNCHANGED vars => DiagInv'
<1> SUFFICES ASSUME DiagInv, UNCHANGED vars PROVE DiagInv'
  OBVIOUS
<1> USE DEF vars
<1>1. DiagTypes' /\ LayersInv'
  BY DEF DiagInv, DiagTypes, LayersInv
<1>2. ScreenInv'
  <2>1. UNCHANGED <<display, phase, shown, layers>>
    OBVIOUS
  <2>2. ASSUME display = "screen", NEW i \in 1..Len(shown'.sections)
        PROVE  \E x \in NoteOf(i)' : shown'.sections[i] = Section(i, x)'
    BY <2>2, SameNotes DEF DiagInv, ScreenInv
  <2> QED BY <2>1, <2>2 DEF DiagInv, ScreenInv
<1>3. FlagsInv' /\ CountInv'
  BY SameFlags DEF DiagInv, FlagsInv, CountInv, Count
<1> QED BY <1>1, <1>2, <1>3 DEF DiagInv

LEMMA DiagInductive == Spec => []DiagInv
<1>1. DiagInv /\ [Next]_vars => DiagInv'
  <2> SUFFICES ASSUME DiagInv, [Next]_vars PROVE DiagInv'
    OBVIOUS
  <2>1. ASSUME NEW f \in Frames, NEW cut \in Cuts, Capture(f, cut) PROVE DiagInv'
    BY <2>1, CaptureStep
  <2>2. CASE Over
    BY <2>2, DiagStutter DEF Over
  <2> QED BY <2>1, <2>2, DecodeStep, DecodeEndsStep, ScreenLayerStep, ScreenEndsStep,
             JsonStep, StatsStep, DiagStutter DEF Next
<1> QED BY <1>1, DiagInit, PTL DEF Spec

-----------------------------------------------------------------------------
(* The display and the final report tell one story, of any frames: as      *)
(* many malformed, truncated and in no bucket, and every frame in one      *)
(* bucket (OutputToScreen, OutputToNDJSON and StatsCollector.update).      *)
THEOREM OneStory == Spec => []OutputsAgree
<1>1. DiagInv => OutputsAgree
  <2> SUFFICES ASSUME DiagInv, phase = "idle" PROVE OutputsAgree
    BY DEF OutputsAgree
  <2>1. /\ told.malformed \in Nat /\ told.truncated \in Nat /\ told.named \in Nat
        /\ stats.malformed \in Nat /\ stats.truncated \in Nat /\ stats.frames \in Nat
    BY DEF DiagInv, DiagTypes
  <2> QED BY <2>1 DEF DiagInv, CountInv, Count, OutputsAgree
<1> QED BY <1>1, DiagInductive, PTL

-----------------------------------------------------------------------------
(* The layers are chained as the headers of the frame are.                 *)
LEMMA LayersChained ==
    ASSUME DiagInv, NEW i \in 1..Len(layers)
    PROVE  /\ layers[i] \in Headers
           /\ layers[1].k = "Ethernet" /\ layers[1].len = ETHERNET_HEADER_LEN
           /\ layers[i].frag # "no" => layers[i].k \in {"IPv4", "IPv6Fragment"}
           /\ layers[i].k \in Verified => layers[i].sum \in {"right", "wrong"}
           /\ layers[i].k \in {"TCP", "UDP"} =>
                 \A j \in i..Len(layers) : layers[j].k \notin Ip \cup {"IPv6Fragment"}
           /\ layers[i].k \in Icmp => i = Len(layers)
<1> DEFINE hs == wire.hdrs
<1>1. /\ layers \in Seq(Headers) /\ hs \in Seq(Headers)
      /\ Len(layers) \in Nat /\ Len(hs) \in Nat /\ Len(layers) <= Len(hs)
      /\ \A j \in 1..Len(layers) : Decoded(layers[j], hs[j])
      /\ \A j \in 1..Len(layers) : layers[j].k \in Icmp => j = Len(layers)
  BY DEF DiagInv, DiagTypes, LayersInv
<1>2. wire \in Frames
  BY DEF DiagInv, LayersInv
<1>3. Chained(hs)
  BY <1>2, DiagnosisAssumption
<1> HIDE DEF hs
<1>4. layers[i] \in Headers /\ i \in 1..Len(hs) /\ 1 \in 1..Len(layers)
  BY <1>1
<1>5. layers[i].sum \in {"right", "wrong", "none"}
  BY <1>4 DEF Headers
<1>6. layers[1].k = "Ethernet" /\ layers[1].len = ETHERNET_HEADER_LEN
  <2>1. Decoded(layers[1], hs[1]) /\ hs[1].k = "Ethernet" /\ hs[1].len = ETHERNET_HEADER_LEN
    BY <1>1, <1>3, <1>4 DEF Chained
  <2> QED BY <2>1 DEF Decoded, Icmp
<1>7. layers[i].k = hs[i].k /\ layers[i].sum = hs[i].sum /\ layers[i].frag = hs[i].frag
  BY <1>1 DEF Decoded
<1>8. /\ hs[i].frag # "no" => hs[i].k \in {"IPv4", "IPv6Fragment"}
      /\ hs[i].k \in Verified => hs[i].sum # "none"
      /\ hs[i].k \in {"TCP", "UDP"} =>
            \A j \in i..Len(hs) : hs[j].k \notin Ip \cup {"IPv6Fragment"}
  BY <1>3, <1>4 DEF Chained
<1>9. ASSUME layers[i].k \in {"TCP", "UDP"}, NEW j \in i..Len(layers)
      PROVE  layers[j].k \notin Ip \cup {"IPv6Fragment"}
  <2>1. j \in i..Len(hs) /\ j \in 1..Len(layers)
    BY <1>1
  <2>2. layers[j].k = hs[j].k
    BY <1>1, <2>1 DEF Decoded
  <2> QED BY <1>7, <1>8, <1>9, <2>1, <2>2
<1> QED BY <1>1, <1>4, <1>5, <1>6, <1>7, <1>8, <1>9

(* The first IP header there is.                                           *)
LEMMA FirstIpIs ==
    ASSUME DiagInv, HasIp
    PROVE  FirstIp \in 1..Len(layers) /\ layers[FirstIp].k \in Ip
<1> DEFINE T == {i \in 1..Len(layers) : layers[i].k \in Ip}
<1>1. T \subseteq Nat /\ T # {} /\ Len(layers) \in Nat
  BY DEF HasIp, DiagInv, DiagTypes
<1>2. PICK x \in T : \A y \in T : x <= y
  <2> HIDE DEF T
  <2> QED BY <1>1, LeastOf
<1>3. x \in 1..Len(layers) /\ layers[x].k \in Ip
  OBVIOUS
<1>4. \A j \in 1..(x - 1) : layers[j].k \notin Ip
  BY <1>1, <1>2
<1> QED BY <1>3, <1>4 DEF FirstIp

(* Of an honest frame, "truncated" means that bytes are missing; and it is *)
(* said whenever more are missing than the VLAN tags have, whatever the    *)
(* frames and the cuts are (decode_frame, _declared_length).               *)
THEOREM TruncationTold == Spec => []TruncationExact
<1>1. DiagInv => TruncationExact
  <2> SUFFICES ASSUME DiagInv, Diagnosed PROVE
        /\ "truncated" \in shown.flags => cap < Sent(wire)
        /\ cap + Tagged < Sent(wire) => "truncated" \in shown.flags
    BY DEF TruncationExact
  <2> DEFINE d == DeclaredLength
  <2> DEFINE x == Extent(layers, FirstIp - 1)
  <2> DEFINE ip == layers[FirstIp]
  <2>1. phase = "stats" /\ HasIp
        /\ Sent(wire) = x + ip.total + (IF ip.k = "IPv6" THEN ip.len ELSE 0)
    BY DEF Diagnosed, Honest
  <2>2. FirstIp \in 1..Len(layers) /\ ip.k \in Ip
    BY <2>1, FirstIpIs
  <2>3. /\ layers \in Seq(Headers) /\ Len(layers) \in Nat /\ cap \in Nat
    BY DEF DiagInv, DiagTypes
  <2>4. layers[1].k = "Ethernet" /\ layers[1].len = 14
    BY <2>2, LayersChained DEF ETHERNET_HEADER_LEN
  <2>5. FirstIp # 1
    BY <2>2, <2>4 DEF Ip
  <2>6. FirstIp - 1 \in 1..Len(layers) /\ FirstIp - 1 \in 0..Len(layers)
    BY <2>2, <2>3, <2>5
  <2>7. x \in Nat /\ 14 <= x
    BY <2>3, <2>4, <2>6, ExtentNat, ExtentCoversFirst
  <2>8. ip \in Headers
    BY <2>2, <2>3
  <2>9. ip.total \in Nat /\ ip.len \in Nat
    BY <2>8 DEF Headers
  <2>10. d = 14 + ip.total + (IF ip.k = "IPv6" THEN ip.len ELSE 0)
    BY <2>2, <2>9 DEF DeclaredLength, ETHERNET_HEADER_LEN, Ip
  <2>11. Tagged = x - 14
    BY DEF Tagged, ETHERNET_HEADER_LEN
  <2>12. "truncated" \in shown.flags <=> d > cap
    BY <2>1, FlagsSay DEF DiagInv, FlagsInv, Truncated
  <2> HIDE DEF d, x, ip
  <2>13. Sent(wire) = d + x - 14 /\ d \in Nat
    BY <2>1, <2>7, <2>9, <2>10
  <2> QED BY <2>3, <2>7, <2>11, <2>12, <2>13
<1> QED BY <1>1, DiagInductive, PTL

-----------------------------------------------------------------------------
(* DecodedFrame.layer finds the first layer of its class, or none.         *)
LEMMA LayerIs ==
    ASSUME DiagInv, NEW k
    PROVE  \/ Layer(k) = 0 /\ \A i \in 1..Len(layers) : layers[i].k # k
           \/ /\ Layer(k) \in 1..Len(layers) /\ Layer(k) # 0 /\ layers[Layer(k)].k = k
              /\ \A j \in 1..(Layer(k) - 1) : layers[j].k # k
<1> DEFINE T == {i \in 1..Len(layers) : layers[i].k = k}
<1>0. Len(layers) \in Nat
  BY DEF DiagInv, DiagTypes
<1>1. CASE T = {}
  BY <1>1 DEF Layer
<1>2. CASE T # {}
  <2>1. PICK x \in T : \A y \in T : x <= y
    <3>1. T \subseteq Nat
      BY <1>0
    <3> HIDE DEF T
    <3> QED BY <1>2, <3>1, LeastOf
  <2>2. x \in 1..Len(layers) /\ layers[x].k = k
    OBVIOUS
  <2>3. \A j \in 1..(x - 1) : layers[j].k # k
    BY <1>0, <2>1
  <2>4. /\ Layer(k) \in 1..Len(layers) /\ layers[Layer(k)].k = k
        /\ \A j \in 1..(Layer(k) - 1) : layers[j].k # k
    BY <2>2, <2>3 DEF Layer
  <2> QED BY <1>0, <2>4
<1> QED BY <1>1, <1>2

(* The nearest IP header in front of a layer.                              *)
LEMMA EnclosingIs ==
    ASSUME DiagInv, NEW i \in 1..Len(layers), \E j \in 1..(i - 1) : layers[j].k \in Ip
    PROVE  Enclosing(i) \in 1..(i - 1) /\ layers[Enclosing(i)].k \in Ip
<1> DEFINE T == {j \in 1..(i - 1) : layers[j].k \in Ip}
<1>0. Len(layers) \in Nat /\ i \in Nat /\ i - 1 \in Nat
  BY DEF DiagInv, DiagTypes
<1>1. PICK x \in T : \A y \in T : y <= x
  <2>1. T \subseteq 0..(i - 1) /\ T # {}
    BY <1>0
  <2> HIDE DEF T
  <2> QED BY <1>0, <2>1, GreatestOf
<1>2. x \in 1..(i - 1) /\ layers[x].k \in Ip
  OBVIOUS
<1>3. \A m \in (x + 1)..(i - 1) : layers[m].k \notin Ip
  BY <1>0, <1>1
<1> QED BY <1>2, <1>3 DEF Enclosing

(* No network header comes behind a transport or ICMP header.              *)
LEMMA NetworkInFront ==
    ASSUME DiagInv, NEW i \in 1..Len(layers), layers[i].k \in Verified \ {"IPv4"},
           NEW j \in 1..Len(layers), layers[j].k \in Ip \cup {"IPv6Fragment"}
    PROVE  j \in 1..(i - 1)
<1>0. Len(layers) \in Nat
  BY DEF DiagInv, DiagTypes
<1>1. i # j
  BY DEF Verified, Icmp, Ip
<1>2. CASE layers[i].k \in Icmp
  BY <1>0, <1>1, <1>2, LayersChained
<1>3. CASE layers[i].k \in {"TCP", "UDP"}
  <2>1. j \notin i..Len(layers)
    BY <1>3, LayersChained
  <2> QED BY <1>0, <2>1
<1> QED BY <1>2, <1>3 DEF Verified

(* Two IP headers in front of a layer are more than one.                   *)
LEMMA OneIp ==
    ASSUME DiagInv, NEW i \in 1..Len(layers),
           ~(Cardinality({j \in 1..(i - 1) : layers[j].k \in Ip}) > 1)
    PROVE  \A a, b \in 1..(i - 1) : layers[a].k \in Ip /\ layers[b].k \in Ip => a = b
<1> DEFINE T == {j \in 1..(i - 1) : layers[j].k \in Ip}
<1>0. i - 1 \in Nat
  BY DEF DiagInv, DiagTypes
<1>1. IsFiniteSet(1..(i - 1))
  BY <1>0, FS_Interval
<1>2. IsFiniteSet(T)
  BY <1>1, FS_Subset
<1> SUFFICES ASSUME NEW a \in T, NEW b \in T, a # b PROVE FALSE
  OBVIOUS
<1> HIDE DEF T
<1>3. IsFiniteSet({a}) /\ Cardinality({a}) = 1
  BY FS_Singleton
<1>4. IsFiniteSet({a} \cup {b}) /\ Cardinality({a} \cup {b}) = 2
  BY <1>3, FS_AddElement, SMTT(30)
<1>5. {a} \cup {b} \subseteq T
  OBVIOUS
<1>6. 2 <= Cardinality(T) /\ Cardinality(T) \in Nat
  BY <1>2, <1>4, <1>5, FS_Subset, FS_CardinalityType
<1> QED BY <1>6 DEF T

(* A noted mismatch over a layer in one whole datagram is real.            *)
LEMMA NoteSound ==
    ASSUME DiagInv, NEW i \in 1..Len(layers), layers[i].k \in Verified \ {"IPv4"},
           NEW ip, ip = 0 \/ (ip \in 1..(i - 1) /\ layers[ip].k \in Ip),
           NEW needs \in BOOLEAN, TRUE \in ChecksumNote(i, ip, needs),
           cap = Sent(wire),
           \A a, b \in 1..(i - 1) : layers[a].k \in Ip /\ layers[b].k \in Ip => a = b
    PROVE  layers[i].sum = "wrong"
<1> SUFFICES ASSUME layers[i].sum # "wrong" PROVE FALSE
  OBVIOUS
<1>0. Len(layers) \in Nat
  BY DEF DiagInv, DiagTypes
<1>1. ~IsFragmented /\ TRUE \in {~ok : ok \in Verify(i, ip)}
  BY DEF ChecksumNote
<1>2. layers[i].sum = "right"
  BY LayersChained
<1>3. Reassembled(i)
  <2> SUFFICES ASSUME NEW j \in 1..(i - 1), layers[j].frag # "no" PROVE FALSE
    BY DEF Reassembled
  <2>0. j \in 1..Len(layers)
    BY <1>0
  <2>1. layers[j].k \in {"IPv4", "IPv6Fragment"} /\ layers[j] \in Headers
    BY <2>0, LayersChained
  <2>2. layers[j].k # "IPv6Fragment"
    BY <1>1, <2>0 DEF IsFragmented
  <2>3. layers[j].k = "IPv4"
    BY <2>1, <2>2
  <2> DEFINE m == Layer("IPv4")
  <2>4. /\ m \in 1..Len(layers) /\ m # 0 /\ layers[m].k = "IPv4"
        /\ \A x \in 1..(m - 1) : layers[x].k # "IPv4"
    BY <2>0, <2>3, LayerIs
  <2>5. layers[m].frag \notin {"first", "later"}
    BY <1>1, <2>4 DEF IsFragmented
  <2> HIDE DEF m
  <2>6. m \in 1..(i - 1)
    BY <1>0, <2>3, <2>4
  <2>7. m = j
    BY <2>3, <2>4, <2>6 DEF Ip
  <2> QED BY <2>1, <2>5, <2>7 DEF Headers
<1>4. ip # 0 => ip = Enclosing(i)
  <2> SUFFICES ASSUME ip # 0 PROVE ip = Enclosing(i)
    OBVIOUS
  <2>1. ip \in 1..(i - 1) /\ layers[ip].k \in Ip
    OBVIOUS
  <2>2. Enclosing(i) \in 1..(i - 1) /\ layers[Enclosing(i)].k \in Ip
    BY <2>1, EnclosingIs
  <2> QED BY <2>1, <2>2
<1>5. Verify(i, ip) = {TRUE}
  BY <1>2, <1>3, <1>4 DEF Verify, TrailingExact
<1> QED BY <1>1, <1>5

(* A wrong checksum over what can be verified is noted.                    *)
LEMMA NoteComplete ==
    ASSUME DiagInv, NEW i \in 1..Len(layers), layers[i].k \in Verified \ {"IPv4"},
           Verifiable(i), layers[i].sum = "wrong",
           NEW ip, NEW needs \in BOOLEAN, needs => ip # 0
    PROVE  ChecksumNote(i, ip, needs) = {TRUE}
<1>1. /\ cap = Sent(wire)
      /\ \A j \in 1..(i - 1) : layers[j].frag = "no" /\ layers[j].k # "IPv6Fragment"
  BY DEF Verifiable
<1>2. ~IsFragmented
  <2>1. ASSUME Layer("IPv4") # 0 PROVE layers[Layer("IPv4")].frag = "no"
    <3>1. Layer("IPv4") \in 1..Len(layers) /\ layers[Layer("IPv4")].k = "IPv4"
      BY <2>1, LayerIs
    <3>2. Layer("IPv4") \in 1..(i - 1)
      BY <3>1, NetworkInFront DEF Ip
    <3> QED BY <3>2, <1>1
  <2>2. ASSUME NEW j \in 1..Len(layers), layers[j].k = "IPv6Fragment" PROVE FALSE
    <3>1. j \in 1..(i - 1)
      BY <2>2, NetworkInFront
    <3> QED BY <3>1, <2>2, <1>1
  <2> QED BY <2>1, <2>2 DEF IsFragmented
<1>3. Verify(i, ip) = {FALSE}
  BY <1>1 DEF Verify, TrailingExact, Reassembled
<1> QED BY <1>2, <1>3 DEF ChecksumNote

(* What the renderer of a transport or ICMP header passes to verify().     *)
LEMMA NoteCall ==
    ASSUME DiagInv, NEW i \in 1..Len(layers), layers[i].k \in Verified \ {"IPv4"}
    PROVE  \E ip, needs :
              /\ NoteOf(i) = ChecksumNote(i, ip, needs) /\ needs \in BOOLEAN
              /\ ip = 0 \/ (ip \in 1..(i - 1) /\ layers[ip].k \in Ip)
              /\ Verifiable(i) => (needs => ip # 0)
<1>0. ASSUME NEW k \in Ip, Layer(k) # 0
      PROVE  Layer(k) \in 1..(i - 1) /\ layers[Layer(k)].k \in Ip
  <2>1. Layer(k) \in 1..Len(layers) /\ layers[Layer(k)].k = k
    BY <1>0, LayerIs
  <2> QED BY <2>1, NetworkInFront
<1>1. ASSUME NEW k, Layer(k) = 0, NEW j \in 1..(i - 1) PROVE layers[j].k # k
  <2>1. j \in 1..Len(layers)
    BY DEF DiagInv, DiagTypes
  <2> QED BY <1>1, <2>1, LayerIs
<1>2. CASE layers[i].k \in {"TCP", "UDP"}
  <2> DEFINE ip == IF Layer("IPv4") # 0 THEN Layer("IPv4") ELSE Layer("IPv6")
  <2>1. NoteOf(i) = ChecksumNote(i, ip, TRUE)
    <3>1. TcpUdpNote(i) = ChecksumNote(i, ip, TRUE)
      BY DEF TcpUdpNote
    <3>2. layers[i].k # "IPv4" /\ layers[i].k \notin Icmp
      BY <1>2 DEF Icmp
    <3>3. NoteOf(i) = TcpUdpNote(i)
      BY <1>2, <3>2 DEF NoteOf
    <3> QED BY <3>1, <3>3
  <2>2. ip = 0 \/ (ip \in 1..(i - 1) /\ layers[ip].k \in Ip)
    BY <1>0 DEF Ip
  <2>3. Verifiable(i) => ip # 0
    <3> SUFFICES ASSUME Verifiable(i), ip = 0 PROVE FALSE
      OBVIOUS
    <3>1. PICK j \in 1..(i - 1) : layers[j].k \in Ip
      BY <1>2 DEF Verifiable
    <3>2. Layer("IPv4") = 0 /\ Layer("IPv6") = 0
      OBVIOUS
    <3> QED BY <3>1, <3>2, <1>1 DEF Ip
  <2> HIDE DEF ip
  <2> QED BY <2>1, <2>2, <2>3
<1>3. CASE layers[i].k = "ICMPv4"
  <2>1. NoteOf(i) = ChecksumNote(i, 0, FALSE)
    BY <1>3 DEF NoteOf, IcmpNote, Icmp
  <2> QED BY <2>1
<1>4. CASE layers[i].k = "ICMPv6"
  <2> DEFINE ip == Layer("IPv6")
  <2>1. NoteOf(i) = ChecksumNote(i, ip, TRUE)
    BY <1>4 DEF NoteOf, IcmpNote, Icmp
  <2>2. ip = 0 \/ (ip \in 1..(i - 1) /\ layers[ip].k \in Ip)
    BY <1>0 DEF Ip
  <2>3. Verifiable(i) => ip # 0
    <3> SUFFICES ASSUME Verifiable(i), ip = 0 PROVE FALSE
      OBVIOUS
    <3>1. PICK j \in 1..(i - 1) : layers[j].k \in {"IPv6"}
      BY <1>4 DEF Verifiable
    <3> QED BY <3>1, <1>1
  <2> HIDE DEF ip
  <2> QED BY <2>1, <2>2, <2>3
<1> QED BY <1>2, <1>3, <1>4 DEF Verified, Icmp

(* A mismatch on the screen is a wrong checksum, unless the frame was cut  *)
(* or padded or the layer is in a tunnel, and a wrong checksum that can be *)
(* verified is noted; whatever the frames are, however deep the layers     *)
(* (_checksum_note, _is_fragmented and the renderers that call them).      *)
THEOREM NotesAreTrue == Spec => []NotesTrue
<1>1. DiagInv => NotesTrue
  <2> SUFFICES ASSUME DiagInv, display = "screen", NEW i \in 1..Len(shown.sections)
               PROVE  /\ shown.sections[i].note =>
                            \/ layers[i].sum = "wrong"
                            \/ cap # Sent(wire)
                            \/ Cardinality({j \in 1..(i - 1) : layers[j].k \in Ip}) > 1
                      /\ layers[i].sum = "wrong" /\ (layers[i].k = "IPv4" \/ Verifiable(i)) =>
                            shown.sections[i].note
    BY DEF NotesTrue
  <2>1. i \in 1..Len(layers)
    <3>1. Len(shown.sections) <= Len(layers)
      BY DEF DiagInv, ScreenInv
    <3>2. Len(shown.sections) \in Nat /\ Len(layers) \in Nat
      BY DEF DiagInv, DiagTypes
    <3> QED BY <3>1, <3>2
  <2>2. PICK note \in NoteOf(i) : shown.sections[i] = Section(i, note)
    BY DEF DiagInv, ScreenInv
  <2>3. shown.sections[i].note = note /\ note \in BOOLEAN
    BY <2>2, NoteBoolean DEF Section
  <2>4. CASE layers[i].k = "IPv4"
    <3>1. note <=> layers[i].sum # "right"
      <4>1. layers[i].k \notin {"TCP", "UDP"} /\ layers[i].k \notin Icmp
        BY <2>4 DEF Icmp
      <4>2. NoteOf(i) = {layers[i].sum # "right"}
        BY <2>4, <4>1 DEF NoteOf, Ipv4Note
      <4> QED BY <2>2, <2>3, <4>2
    <3>2. layers[i].sum \in {"right", "wrong"}
      BY <2>1, <2>4, LayersChained DEF Verified
    <3> QED BY <2>3, <3>1, <3>2
  <2>5. CASE layers[i].k \in Verified \ {"IPv4"}
    <3>1. PICK ip, needs :
              /\ NoteOf(i) = ChecksumNote(i, ip, needs) /\ needs \in BOOLEAN
              /\ ip = 0 \/ (ip \in 1..(i - 1) /\ layers[ip].k \in Ip)
              /\ Verifiable(i) => (needs => ip # 0)
      BY <2>1, <2>5, NoteCall
    <3>2. ASSUME note, cap = Sent(wire),
                 ~(Cardinality({j \in 1..(i - 1) : layers[j].k \in Ip}) > 1)
          PROVE  layers[i].sum = "wrong"
      <4>1. TRUE \in ChecksumNote(i, ip, needs)
        BY <2>2, <2>3, <3>1, <3>2
      <4>2. \A a, b \in 1..(i - 1) : layers[a].k \in Ip /\ layers[b].k \in Ip => a = b
        BY <2>1, <3>2, OneIp
      <4> QED BY <2>1, <2>5, <3>1, <3>2, <4>1, <4>2, NoteSound
    <3>3. ASSUME layers[i].sum = "wrong", Verifiable(i) PROVE note
      <4>1. needs => ip # 0
        BY <3>1, <3>3
      <4>2. ChecksumNote(i, ip, needs) = {TRUE}
        BY <2>1, <2>5, <3>1, <3>3, <4>1, NoteComplete
      <4> QED BY <2>2, <3>1, <4>2
    <3> QED BY <2>3, <2>5, <3>2, <3>3
  <2>6. CASE layers[i].k \notin Verified
    <3>1. NoteOf(i) = {FALSE}
      BY <2>6 DEF NoteOf, Verified, Icmp
    <3>2. ~Verifiable(i) /\ layers[i].k # "IPv4"
      BY <2>6 DEF Verifiable, Verified
    <3> QED BY <2>2, <2>3, <3>1, <3>2
  <2> QED BY <2>4, <2>5, <2>6
<1> QED BY <1>1, DiagInductive, PTL
=============================================================================
