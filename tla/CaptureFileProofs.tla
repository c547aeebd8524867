------------------------- MODULE CaptureFileProofs -------------------------
(***************************************************************************)
(* Proofs about capture files, for any frames from the network, any files  *)
(* of other programs and any limits: what comes out of a file, and what    *)
(* comes back from the file a session has left behind.                     *)
(***************************************************************************)
EXTENDS CaptureFile, Integers, FiniteSetTheorems, SequenceTheorems, TLAPS

(* What files are made of: P is a set of pieces of classic files, B one of *)
(* pcapng blocks.                                                          *)
TypedPieces(P) ==
    /\ Magic \in P /\ Network(ETHERNET) \in P
    /\ \A s, n \in Nat : Stamp(s, n) \in P
    /\ \A n \in Nat : Length(n) \in P
    /\ \A x \in P : /\ x.k # "block"
                    /\ x.k = "stamp" => x.sec \in Nat /\ x.nsec \in Nat
                    /\ x.k = "len" => x.n \in Nat

TypedBlocks(B, P) ==
    \A b \in B : /\ b.k = "block"
                 /\ b.type = "EPB" => /\ b.body.iface \in Nat \ {0}
                                      /\ b.body.time \in Nat
                                      /\ b.body.data \in Seq(P)

FrameOK(f, P) == f.link = ETHERNET /\ f.time \in Nat /\ f.data \in Seq(P)

(* The network delivers Ethernet frames; a foreign file is a sequence of   *)
(* pieces or of blocks, in any order.                                      *)
TypedInputs(P, B) ==
    /\ TypedPieces(P) /\ TypedBlocks(B, P)
    /\ Foreign \subseteq Seq(P) \cup Seq(B)
    /\ \A f \in LiveFrames : FrameOK(f, P)

(* The inputs of CaptureFile are such.                                     *)
LEMMA InputsTyped == TypedInputs(FilePieces, FileBlocks)
<1>1. TypedPieces(FilePieces)
  <2>1. Magic \in FilePieces /\ Network(ETHERNET) \in FilePieces
      BY DEF FilePieces, Magic, Network, ETHERNET
  <2>2. \A s, n \in Nat : Stamp(s, n) \in FilePieces
      BY DEF FilePieces, Stamp
  <2>3. \A n \in Nat : Length(n) \in FilePieces
      BY DEF FilePieces, Length
  <2>4. \A x \in FilePieces : /\ x.k # "block"
                              /\ x.k = "stamp" => x.sec \in Nat /\ x.nsec \in Nat
                              /\ x.k = "len" => x.n \in Nat
      BY DEF FilePieces, Bytes
  <2> QED BY <2>1, <2>2, <2>3, <2>4 DEF TypedPieces
<1>2. Seq(Bytes) \subseteq Seq(FilePieces)
  <2>1. Bytes \subseteq FilePieces
      BY DEF FilePieces
  <2> HIDE DEF Bytes, FilePieces
  <2> QED BY <2>1
<1>3. TypedBlocks(FileBlocks, FilePieces)
  <2> SUFFICES ASSUME NEW b \in FileBlocks
               PROVE  /\ b.k = "block"
                      /\ b.type = "EPB" => /\ b.body.iface \in Nat \ {0}
                                           /\ b.body.time \in Nat
                                           /\ b.body.data \in Seq(FilePieces)
      BY DEF TypedBlocks
  <2> DEFINE E == [iface : Nat \ {0}, time : Nat, data : Seq(Bytes)]
  <2>1. /\ b.k = "block"
        /\ b.type = "EPB" => b.body \in E
      BY DEF FileBlocks, BlocksOf
  <2>2. \A e \in E : /\ e.iface \in Nat \ {0} /\ e.time \in Nat
                     /\ e.data \in Seq(FilePieces)
      BY <1>2
  <2> QED BY <2>1, <2>2
<1>4. \A f \in LiveFrames : FrameOK(f, FilePieces)
    BY <1>2, InputAssumption DEF FrameOK
<1> QED BY <1>1, <1>3, <1>4, InputAssumption DEF TypedInputs

(* A sequence of such frames.                                              *)
FrameSeq(g, P) == \E F : g \in Seq(F) /\ \A f \in F : FrameOK(f, P)

LEMMA FrameSeqFacts ==
    ASSUME NEW P, NEW g, FrameSeq(g, P)
    PROVE  Len(g) \in Nat /\ \A i \in 1..Len(g) : FrameOK(g[i], P)
    BY DEF FrameSeq

LEMMA FrameSeqAppend ==
    ASSUME NEW P, NEW g, FrameSeq(g, P), NEW f, FrameOK(f, P)
    PROVE  /\ FrameSeq(Append(g, f), P)
           /\ Len(Append(g, f)) = Len(g) + 1
           /\ \A i \in 1..Len(g) : Append(g, f)[i] = g[i]
           /\ Append(g, f)[Len(g) + 1] = f
<1>1. PICK F : g \in Seq(F) /\ \A x \in F : FrameOK(x, P)
    BY DEF FrameSeq
<1> DEFINE G == F \cup {f}
<1>2. g \in Seq(G) /\ f \in G /\ \A x \in G : FrameOK(x, P)
    BY <1>1
<1> HIDE DEF G
<1>3. Append(g, f) \in Seq(G)
    BY <1>2
<1>4. FrameSeq(Append(g, f), P)
    BY <1>2, <1>3 DEF FrameSeq
<1> QED BY <1>2, <1>4

LEMMA FrameSeqEmpty ==
    ASSUME NEW P
    PROVE  FrameSeq(<<>>, P)
<1> DEFINE F == {}
<1>1. <<>> \in Seq(F) /\ \A f \in F : FrameOK(f, P)
    OBVIOUS
<1> HIDE DEF F
<1> QED BY <1>1 DEF FrameSeq

LEMMA FrameFacts ==
    ASSUME NEW d, NEW t, NEW l
    PROVE  Frame(d, t, l).data = d /\ Frame(d, t, l).time = t
           /\ Frame(d, t, l).link = l
    BY DEF Frame

-----------------------------------------------------------------------------
(* What reading a file can give out.                                       *)

(* The interfaces in front of block c of the file f are all Ethernet.      *)
Scanned(f, c) == \A i \in 1..(c - 1) :
                     f[i].type = "IDB" /\ f[i].size = "ok" => f[i].body = ETHERNET

(* m starts the section that block c stands in.                            *)
LastSection(f, c, m) == /\ m \in 1..c /\ f[m].type = "SHB"
                        /\ \A i \in (m + 1)..c : f[i].type # "SHB"

(* o is the byte order behind block c, if its section says which.          *)
OrderAfter(f, c, o) ==
    c # 0 => \E m \in 1..c : /\ LastSection(f, c, m)
                             /\ f[m].body = "BOM" => o = f[m].order

OrderAt(f, n, o) == IF f[n].type # "SHB" THEN o
                    ELSE IF f[n].body = "BOM" THEN f[n].order ELSE ">"

Readable(f, n, o) == n <= Len(f) /\ f[n].order = OrderAt(f, n, o) /\ f[n].size # "bad"

(* The library, at block c, has not come further than the scan, which      *)
(* stopped at a block that it could not read in the byte order it had      *)
(* found.                                                                  *)
Walk(f, c, o) == \E stop \in Nat \ {0} :
    /\ Scanned(f, stop) /\ OrderAfter(f, stop - 1, o) /\ ~Readable(f, stop, o)
    /\ c <= stop
    /\ \A i \in 1..(c - 1) : f[i].type = "SHB" => f[i].body = "BOM"

Readers == {"live", "start", "scanning", "reading", "stopped", "eof", "ValueError"}
Ethernets == {ETHERNET}

ReaderInv ==
    /\ reader \in Readers
    /\ cursor \in Nat \ {0}
    /\ links \in Seq(Ethernets)
    /\ reader = "start" => cursor = 1
    /\ reader = "scanning" =>
           Pcapng /\ Scanned(src, cursor) /\ OrderAfter(src, cursor - 1, endian)
    /\ reader = "reading" /\ Classic => src[2].link = ETHERNET
    /\ reader = "reading" /\ Pcapng => Walk(src, cursor, endian)

FileTypes(P, B) ==
    /\ round \in {1, 2}
    /\ src \in Seq(P) \cup Seq(B)
    /\ disk \in Seq(P) /\ buf \in Seq(P)
    /\ FrameSeq(given, P) /\ FrameSeq(taken, P)
    /\ hand # <<>> => hand = <<hand[1]>> /\ FrameOK(hand[1], P)
    /\ writer = "data" => hand # <<>>
    /\ kept \in Nat

(* A section has one start.                                                *)
LEMMA LastSectionUnique ==
    ASSUME NEW f, NEW c \in Nat, NEW m, NEW n, LastSection(f, c, m), LastSection(f, c, n)
    PROVE  m = n
<1>1. m \in Nat /\ n \in Nat /\ m <= c /\ n <= c
    BY DEF LastSection
<1>2. ASSUME m < n PROVE FALSE
  <2>1. n \in (m + 1)..c
      BY <1>1, <1>2
  <2> QED BY <2>1 DEF LastSection
<1>3. ASSUME n < m PROVE FALSE
  <2>1. m \in (n + 1)..c
      BY <1>1, <1>3
  <2> QED BY <2>1 DEF LastSection
<1> QED BY <1>1, <1>2, <1>3

LEMMA SectionOfIs ==
    ASSUME NEW c \in Nat, NEW m, LastSection(src, c, m)
    PROVE  SectionOf(c) = m
<1>1. /\ m \in 1..c /\ src[m].type = "SHB"
      /\ \A i \in (m + 1)..c : src[i].type # "SHB"
    BY DEF LastSection
<1>2. LastSection(src, c, SectionOf(c))
    BY <1>1 DEF LastSection, SectionOf
<1> QED BY <1>2, LastSectionUnique

(* The section goes on with a block that starts none.                      *)
LEMMA LastSectionNext ==
    ASSUME NEW f, NEW c \in Nat \ {0}
    PROVE  /\ f[c].type = "SHB" => LastSection(f, c, c)
           /\ \A m : f[c].type # "SHB" /\ LastSection(f, c - 1, m) => LastSection(f, c, m)
<1>1. c \in 1..c /\ (c + 1)..c = {}
    OBVIOUS
<1>2. f[c].type = "SHB" => LastSection(f, c, c)
    BY <1>1 DEF LastSection
<1>3. ASSUME NEW m, f[c].type # "SHB", LastSection(f, c - 1, m)
      PROVE  LastSection(f, c, m)
  <2>1. m \in 1..(c - 1)
      BY <1>3 DEF LastSection
  <2>2. m \in 1..c /\ \A i \in (m + 1)..c : i = c \/ i \in (m + 1)..(c - 1)
      BY <2>1
  <2> QED BY <1>3, <2>2 DEF LastSection
<1> QED BY <1>2, <1>3

(* One turn of the scan.                                                   *)
LEMMA ScanStep ==
    ASSUME NEW f, NEW c \in Nat \ {0}, NEW o, f[1].type = "SHB",
           Scanned(f, c), OrderAfter(f, c - 1, o),
           f[c].type = "IDB" /\ f[c].size = "ok" => f[c].body = ETHERNET
    PROVE  Scanned(f, c + 1) /\ OrderAfter(f, c, OrderAt(f, c, o))
<1>1. Scanned(f, c + 1)
  <2>1. \A i \in 1..((c + 1) - 1) : i = c \/ i \in 1..(c - 1)
      OBVIOUS
  <2> QED BY <2>1 DEF Scanned
<1>2. CASE f[c].type = "SHB"
  <2>1. c \in 1..c /\ LastSection(f, c, c)
      BY <1>2, LastSectionNext
  <2>2. f[c].body = "BOM" => OrderAt(f, c, o) = f[c].order
      BY <1>2 DEF OrderAt
  <2> QED BY <1>1, <2>1, <2>2 DEF OrderAfter
<1>3. CASE f[c].type # "SHB"
  <2>1. c - 1 # 0
      BY <1>3
  <2>2. PICK m \in 1..(c - 1) : /\ LastSection(f, c - 1, m)
                                /\ f[m].body = "BOM" => o = f[m].order
      BY <2>1 DEF OrderAfter
  <2>3. m \in 1..c /\ LastSection(f, c, m)
      BY <1>3, <2>2, LastSectionNext
  <2>4. OrderAt(f, c, o) = o
      BY <1>3 DEF OrderAt
  <2> QED BY <1>1, <2>2, <2>3, <2>4 DEF OrderAfter
<1> QED BY <1>2, <1>3

(* The library never passes the block where the scan stopped, so every     *)
(* interface it meets is one that the scan has seen.                       *)
LEMMA WalkStep ==
    ASSUME NEW c \in Nat \ {0}, NEW o, src[1].type = "SHB", Walk(src, c, o),
           c <= Len(src), src[c].size = "ok",
           src[c].order = src[SectionOf(c)].order,
           src[c].type = "SHB" => src[c].body = "BOM"
    PROVE  /\ src[c].type = "IDB" => src[c].body = ETHERNET
           /\ Walk(src, c + 1, o)
<1>1. PICK stop \in Nat \ {0} :
        /\ Scanned(src, stop) /\ OrderAfter(src, stop - 1, o) /\ ~Readable(src, stop, o)
        /\ c <= stop
        /\ \A i \in 1..(c - 1) : src[i].type = "SHB" => src[i].body = "BOM"
    BY DEF Walk
<1>2. c # stop
  <2>1. SUFFICES ASSUME c = stop PROVE Readable(src, c, o)
      BY <1>1
  <2>2. CASE src[c].type = "SHB"
      BY <2>2 DEF Readable, OrderAt
  <2>3. CASE src[c].type # "SHB"
    <3>1. c - 1 # 0
        BY <2>3
    <3>2. PICK m \in 1..(c - 1) : /\ LastSection(src, c - 1, m)
                                  /\ src[m].body = "BOM" => o = src[m].order
        BY <1>1, <2>1, <3>1 DEF OrderAfter
    <3>3. LastSection(src, c, m)
        BY <2>3, <3>2, LastSectionNext
    <3>4. SectionOf(c) = m
        BY <3>3, SectionOfIs
    <3>5. src[m].body = "BOM"
        BY <1>1, <3>2 DEF LastSection
    <3> QED BY <2>3, <3>2, <3>4, <3>5 DEF Readable, OrderAt
  <2> QED BY <2>2, <2>3
<1>3. c \in 1..(stop - 1) /\ c + 1 <= stop
    BY <1>1, <1>2
<1>4. src[c].type = "IDB" => src[c].body = ETHERNET
    BY <1>1, <1>3 DEF Scanned
<1>5. \A i \in 1..((c + 1) - 1) : i = c \/ i \in 1..(c - 1)
    OBVIOUS
<1> QED BY <1>1, <1>3, <1>4, <1>5 DEF Walk

LEMMA WalkStart ==
    ASSUME NEW f, NEW s \in Nat \ {0}, NEW o,
           Scanned(f, s), OrderAfter(f, s - 1, o), ~Readable(f, s, o)
    PROVE  Walk(f, 1, o)
<1>1. 1 <= s /\ 1..(1 - 1) = {}
    OBVIOUS
<1> QED BY <1>1 DEF Walk

-----------------------------------------------------------------------------
(* One lemma per action, or group of actions that disturb the same parts.  *)

(* A file is a classic one or a pcapng one, by its first piece or block.   *)
LEMMA KindOfFile ==
    ASSUME NEW P, NEW B, TypedInputs(P, B), src \in Seq(P) \cup Seq(B)
    PROVE  /\ Classic => src \in Seq(P) /\ ~Pcapng
           /\ Pcapng => src \in Seq(B)
<1>1. ASSUME src \in Seq(P), src # <<>> PROVE ~Pcapng
  <2>1. src[1] \in P
      BY <1>1
  <2> QED BY <2>1 DEF TypedInputs, TypedPieces, Pcapng
<1>2. ASSUME src \in Seq(B), src # <<>> PROVE src[1] # Magic
  <2>1. src[1] \in B
      BY <1>2
  <2> QED BY <2>1 DEF TypedInputs, TypedBlocks, Magic
<1> QED BY <1>1, <1>2 DEF Classic, Pcapng

LEMMA GiveTypes ==
    ASSUME NEW P, NEW f, FrameOK(f, P), FrameSeq(given, P), Give(f)
    PROVE  /\ FrameSeq(given', P)
           /\ hand' # <<>> => hand' = <<hand'[1]>> /\ FrameOK(hand'[1], P)
<1>1. FrameSeq(given', P)
    BY FrameSeqAppend DEF Give
<1>2. hand' = <<f>> \/ hand' = <<>>
    BY DEF Give
<1> QED BY <1>1, <1>2

(* The pieces PcapWriter packs, and the parts of a time.                   *)
LEMMA HeaderTypes ==
    ASSUME NEW P, TypedPieces(P)
    PROVE  /\ GlobalHeader \in Seq(P)
           /\ \A f : FrameOK(f, P) => /\ RecordHeader(f) \in Seq(P)
                                      /\ Len(RecordHeader(f)) = 2
<1>1. GlobalHeader \in Seq(P)
    BY DEF GlobalHeader, TypedPieces
<1>2. ASSUME NEW f, FrameOK(f, P)
      PROVE  RecordHeader(f) \in Seq(P) /\ Len(RecordHeader(f)) = 2
  <2>1. f.time \div NsPerSec \in Nat /\ f.time % NsPerSec \in Nat
      BY <1>2, FileAssumption DEF FrameOK
  <2>2. Len(f.data) \in Nat
      BY <1>2 DEF FrameOK
  <2>3. /\ Stamp(f.time \div NsPerSec, f.time % NsPerSec) \in P
        /\ Length(Len(f.data)) \in P
      BY <2>1, <2>2 DEF TypedPieces
  <2> QED BY <2>3 DEF RecordHeader
<1> QED BY <1>1, <1>2

ReadInv(P, B) == FileTypes(P, B) /\ ReaderInv

LEMMA InitRead ==
    ASSUME NEW P, NEW B, TypedInputs(P, B), Init
    PROVE  ReadInv(P, B)
<1>1. FrameSeq(<<>>, P)
    BY FrameSeqEmpty
<1>2. GlobalHeader \in Seq(P) /\ <<>> \in Seq(P) /\ <<>> \in Seq(Ethernets)
    BY HeaderTypes DEF TypedInputs
<1>3. FileTypes(P, B)
    BY <1>1, <1>2 DEF Init, FileTypes, TypedInputs
<1>4. ReaderInv
    BY <1>2 DEF Init, ReaderInv, Readers
<1> QED BY <1>3, <1>4 DEF ReadInv

(* Steps of the writer leave the reader alone.                             *)
LEMMA ReaderUnchanged ==
    ASSUME ReaderInv, UNCHANGED rvars
    PROVE  ReaderInv'
<1>1. (Classic' <=> Classic) /\ (Pcapng' <=> Pcapng)
    BY DEF rvars, Classic, Pcapng
<1> QED BY <1>1 DEF ReaderInv, rvars

LEMMA ReceiveRead ==
    ASSUME NEW P, NEW B, TypedInputs(P, B), ReadInv(P, B),
           NEW f \in LiveFrames, Receive(f)
    PROVE  ReadInv(P, B)'
<1>1. FrameOK(f, P) /\ FrameSeq(given, P) /\ Give(f)
    BY DEF TypedInputs, ReadInv, FileTypes, Receive
<1>2. /\ FrameSeq(given', P)
      /\ hand' # <<>> => hand' = <<hand'[1]>> /\ FrameOK(hand'[1], P)
    BY <1>1, GiveTypes
<1>3. FileTypes(P, B)'
    BY <1>2 DEF ReadInv, FileTypes, Receive, Idle, rvars, wvars
<1>4. ReaderInv'
    BY ReaderUnchanged DEF ReadInv, Receive
<1> QED BY <1>3, <1>4 DEF ReadInv

LEMMA OpenRead ==
    ASSUME NEW P, NEW B, TypedInputs(P, B), ReadInv(P, B),
           OpenClassic \/ OpenOther
    PROVE  ReadInv(P, B)'
<1>1. src' = src /\ links' = links
    BY DEF OpenClassic, OpenOther
<1>2. FileTypes(P, B)'
    BY DEF ReadInv, FileTypes, OpenClassic, OpenOther, wvars
<1>3. (Classic' <=> Classic) /\ (Pcapng' <=> Pcapng) /\ (Classic => ~Pcapng)
    BY <1>1, KindOfFile DEF Classic, Pcapng, ReadInv, FileTypes
<1>4. CASE OpenClassic
    BY <1>1, <1>2, <1>3, <1>4 DEF OpenClassic, ReadInv, ReaderInv, Readers
<1>5. CASE OpenOther
  <2>1. cursor = 1 /\ cursor' = 1
      BY <1>5 DEF OpenOther, ReadInv, ReaderInv
  <2>2. Scanned(src, 1) /\ OrderAfter(src, 1 - 1, "<")
      BY DEF Scanned, OrderAfter
  <2> QED BY <1>1, <1>2, <1>3, <1>5, <2>1, <2>2 DEF OpenOther, ReadInv, ReaderInv, Readers
<1> QED BY <1>4, <1>5

LEMMA ScanRead ==
    ASSUME NEW P, NEW B, TypedInputs(P, B), ReadInv(P, B),
           ScanBlock \/ ScanEnds
    PROVE  ReadInv(P, B)'
<1>1. src' = src /\ links' = links
    BY DEF ScanBlock, ScanTo, ScanEnds
<1>2. FileTypes(P, B)'
    BY DEF ReadInv, FileTypes, ScanBlock, ScanTo, ScanEnds, wvars
<1>3. (Classic' <=> Classic) /\ (Pcapng' <=> Pcapng)
    BY <1>1 DEF Classic, Pcapng
<1>4. /\ Pcapng /\ Scanned(src, cursor) /\ OrderAfter(src, cursor - 1, endian)
      /\ cursor \in Nat \ {0}
      /\ src[1].type = "SHB" /\ ~Classic
    BY KindOfFile DEF ReadInv, FileTypes, ReaderInv, ScanBlock, ScanTo, ScanEnds, Pcapng
<1>5. /\ BlockReadable <=> Readable(src, cursor, endian)
      /\ SectionEndian = OrderAt(src, cursor, endian)
    BY DEF BlockReadable, AtBlock, Readable, OrderAt, SectionEndian
<1>6. CASE ScanBlock
  <2>1. CASE reader' = "ValueError"
      BY <1>1, <1>2, <1>3, <1>4, <1>6, <2>1
      DEF ScanBlock, ScanTo, ReadInv, ReaderInv, Readers
  <2>2. CASE reader' # "ValueError"
    <3>1. /\ src[cursor].type = "IDB" /\ src[cursor].size = "ok" => src[cursor].body = ETHERNET
          /\ reader' = "scanning" /\ cursor' = cursor + 1
          /\ endian' = OrderAt(src, cursor, endian)
        BY <1>5, <1>6, <2>2 DEF ScanBlock, ScanTo
    <3>2. Scanned(src, cursor + 1) /\ OrderAfter(src, cursor, endian')
        BY <1>4, <3>1, ScanStep
    <3>3. cursor' - 1 = cursor /\ cursor' \in Nat \ {0}
        BY <1>4, <3>1
    <3> QED BY <1>1, <1>2, <1>3, <1>4, <3>1, <3>2, <3>3
            DEF ReadInv, ReaderInv, Readers
  <2> QED BY <2>1, <2>2
<1>7. CASE ScanEnds
  <2>1. ~Readable(src, cursor, endian)
      BY <1>5, <1>7 DEF ScanEnds
  <2>2. Walk(src, 1, endian)
      BY <1>4, <2>1, WalkStart
  <2> QED BY <1>1, <1>2, <1>3, <1>4, <1>7, <2>2 DEF ScanEnds, ReadInv, ReaderInv, Readers
<1> QED BY <1>6, <1>7

LEMMA ReadRecordRead ==
    ASSUME NEW P, NEW B, TypedInputs(P, B), ReadInv(P, B), ReadRecord
    PROVE  ReadInv(P, B)'
<1>1. /\ src \in Seq(P) /\ ~Pcapng /\ Classic /\ src[2].link = ETHERNET
      /\ cursor \in Nat \ {0}
    BY KindOfFile DEF ReadInv, FileTypes, ReaderInv, ReadRecord, RecordHere
<1>2. /\ cursor + 1 <= Len(src)
      /\ src[cursor].k = "stamp" /\ src[cursor + 1].k = "len"
      /\ RecordEnd <= Len(src)
    BY DEF ReadRecord, RecordHere
<1>3. src[cursor] \in P /\ src[cursor + 1] \in P
    BY <1>1, <1>2
<1>4. src[cursor].sec \in Nat /\ src[cursor].nsec \in Nat /\ src[cursor + 1].n \in Nat
    BY <1>2, <1>3 DEF TypedInputs, TypedPieces
<1>5. RecordEnd \in Nat
    BY <1>1, <1>4 DEF RecordEnd
<1>6. SubSeq(src, cursor + 2, RecordEnd) \in Seq(P)
    BY <1>1, <1>2, <1>5
<1>7. src[cursor].sec * NsPerSec + src[cursor].nsec \in Nat
    BY <1>4, FileAssumption
<1> DEFINE f == Frame(SubSeq(src, cursor + 2, RecordEnd),
                      src[cursor].sec * NsPerSec + src[cursor].nsec, src[2].link)
<1>8. FrameOK(f, P) /\ Give(f) /\ FrameSeq(given, P)
  <2>1. Give(f) /\ FrameSeq(given, P)
      BY DEF ReadRecord, ReadInv, FileTypes
  <2> DEFINE d == SubSeq(src, cursor + 2, RecordEnd)
             t == src[cursor].sec * NsPerSec + src[cursor].nsec
  <2>2. d \in Seq(P) /\ t \in Nat
      BY <1>6, <1>7
  <2>3. f = Frame(d, t, src[2].link)
      OBVIOUS
  <2> HIDE DEF d, t, f
  <2>4. FrameOK(f, P)
      BY <1>1, <2>2, <2>3, FrameFacts DEF FrameOK
  <2> QED BY <2>1, <2>4
<1> HIDE DEF f
<1>9. /\ FrameSeq(given', P)
      /\ hand' # <<>> => hand' = <<hand'[1]>> /\ FrameOK(hand'[1], P)
    BY <1>8, GiveTypes
<1>10. FileTypes(P, B)'
    BY <1>9 DEF ReadInv, FileTypes, ReadRecord, Idle, wvars
<1>11. cursor' \in Nat \ {0}
    BY <1>5 DEF ReadRecord
<1>12. src' = src /\ reader' = reader /\ links' = links /\ reader = "reading"
    BY DEF ReadRecord
<1>13. (Classic' <=> Classic) /\ (Pcapng' <=> Pcapng)
    BY <1>12 DEF Classic, Pcapng
<1> QED BY <1>1, <1>10, <1>11, <1>12, <1>13 DEF ReadInv, ReaderInv

LEMMA ReadBlockRead ==
    ASSUME NEW P, NEW B, TypedInputs(P, B), ReadInv(P, B), ReadBlock \/ ReadPacket
    PROVE  ReadInv(P, B)'
<1>1. /\ src' = src /\ reader' = reader /\ endian' = endian /\ reader = "reading"
      /\ cursor' = cursor + 1
    BY DEF ReadBlock, ReadPacket
<1>2. /\ Pcapng /\ ~Classic /\ src \in Seq(B) /\ cursor \in Nat \ {0}
      /\ src[1].type = "SHB" /\ Walk(src, cursor, endian)
    BY KindOfFile
    DEF ReadInv, FileTypes, ReaderInv, ReadBlock, ReadPacket, ValidBlock, Pcapng
<1>3. /\ cursor <= Len(src) /\ src[cursor].size = "ok"
      /\ src[cursor].order = src[SectionOf(cursor)].order
      /\ src[cursor].type = "SHB" => src[cursor].body = "BOM"
      /\ src[cursor].type = "EPB" => src[cursor].body.iface <= Len(links)
    BY DEF ReadBlock, ReadPacket, ValidBlock
<1>4. /\ src[cursor].type = "IDB" => src[cursor].body = ETHERNET
      /\ Walk(src, cursor + 1, endian)
    BY <1>2, <1>3, WalkStep
<1>5. (Classic' <=> Classic) /\ (Pcapng' <=> Pcapng)
    BY <1>1 DEF Classic, Pcapng
<1>6. links \in Seq(Ethernets) /\ FrameSeq(given, P)
    BY DEF ReadInv, ReaderInv, FileTypes
<1>7. links' \in Seq(Ethernets)
  <2>1. CASE ReadBlock
    <3>1. src[cursor].type = "IDB" => src[cursor].body \in Ethernets
        BY <1>4 DEF Ethernets
    <3> QED BY <1>6, <2>1, <3>1 DEF ReadBlock
  <2>2. CASE ReadPacket
      BY <1>6, <2>2 DEF ReadPacket
  <2> QED BY <2>1, <2>2
<1>8. cursor' \in Nat \ {0}
    BY <1>1, <1>2
<1>9. ReaderInv'
    BY <1>1, <1>2, <1>4, <1>5, <1>7, <1>8 DEF ReaderInv, Readers
<1>10. FileTypes(P, B)'
  <2>1. CASE ReadBlock
      BY <2>1 DEF ReadInv, FileTypes, ReadBlock, wvars
  <2>2. CASE ReadPacket
    <3> DEFINE b == src[cursor].body
               f == Frame(b.data, b.time, links[b.iface])
    <3>1. src[cursor] \in B
        BY <1>2, <1>3
    <3>2. /\ b.iface \in Nat \ {0} /\ b.time \in Nat /\ b.data \in Seq(P)
          /\ b.iface <= Len(links)
        BY <1>3, <2>2, <3>1 DEF ReadPacket, TypedInputs, TypedBlocks
    <3>3. links[b.iface] = ETHERNET
      <4>1. links[b.iface] \in Ethernets
          BY <1>6, <3>2
      <4> QED BY <4>1 DEF Ethernets
    <3>4. FrameOK(f, P) /\ Give(f)
        BY <2>2, <3>2, <3>3, FrameFacts DEF FrameOK, ReadPacket
    <3> HIDE DEF f
    <3>5. /\ FrameSeq(given', P)
          /\ hand' # <<>> => hand' = <<hand'[1]>> /\ FrameOK(hand'[1], P)
        BY <1>6, <3>4, GiveTypes
    <3> QED BY <2>2, <3>5 DEF ReadInv, FileTypes, ReadPacket, Idle, wvars
  <2> QED BY <2>1, <2>2
<1> QED BY <1>9, <1>10 DEF ReadInv

LEMMA EndRead ==
    ASSUME NEW P, NEW B, ReadInv(P, B), EndSource
    PROVE  ReadInv(P, B)'
<1>1. FileTypes(P, B)'
    BY DEF ReadInv, FileTypes, EndSource, wvars
<1>2. reader' \in {"stopped", "eof", "ValueError"} /\ cursor' = cursor /\ links' = links
    BY DEF EndSource
<1> QED BY <1>1, <1>2 DEF ReadInv, ReaderInv, Readers

(* What reaches the file is made of the buffer and the frame.              *)
LEMMA SpillTypes ==
    ASSUME NEW P, NEW d \in Seq(P), NEW b \in Seq(P), NEW n \in 0..Len(b), NEW m \in Nat
    PROVE  d \o SubSeq(b, 1, n) \in Seq(P) /\ SubSeq(b, m + 1, Len(b)) \in Seq(P)
<1>1. SubSeq(b, 1, n) \in Seq(P) /\ SubSeq(b, m + 1, Len(b)) \in Seq(P)
    OBVIOUS
<1> QED BY <1>1

LEMMA PendingTypes ==
    ASSUME NEW P, NEW B, FileTypes(P, B)
    PROVE  /\ Pending \in Seq(P)
           /\ writer # "data" => Pending = buf
<1>1. CASE writer = "data"
  <2>1. hand[1].data \in Seq(P)
      BY <1>1 DEF FileTypes, FrameOK
  <2>2. SubSeq(hand[1].data, 1, Len(hand[1].data) - 1) \in Seq(P)
      BY <2>1
  <2> QED BY <1>1, <2>2 DEF FileTypes, Pending
<1>2. CASE writer # "data"
    BY <1>2 DEF FileTypes, Pending
<1> QED BY <1>1, <1>2

LEMMA WriterRead ==
    ASSUME NEW P, NEW B, TypedInputs(P, B), ReadInv(P, B), Writing
    PROVE  ReadInv(P, B)'
<1> USE DEF FileTypes
<1>1. FileTypes(P, B)
    BY DEF ReadInv
<1>2. ReaderInv'
  <2>1. UNCHANGED rvars
      BY DEF Writing, WriteHeader, WriteData, StructError, Close, Kill, Flush,
             CloseFails, WriteOSError
  <2> QED BY <2>1, ReaderUnchanged DEF ReadInv
<1>3. CASE WriteHeader
  <2>1. RecordHeader(hand[1]) \in Seq(P)
      BY <1>1, <1>3, HeaderTypes DEF WriteHeader, TypedInputs
  <2>2. buf' \in Seq(P)
      BY <1>1, <1>3, <2>1 DEF WriteHeader
  <2> QED BY <1>1, <1>2, <1>3, <2>2 DEF WriteHeader, ReadInv, rvars
<1>4. CASE WriteData
  <2>1. hand[1].data \in Seq(P)
      BY <1>1, <1>4 DEF WriteData, FrameOK
  <2>2. buf' \in Seq(P) /\ kept' \in Nat
      BY <1>1, <1>4, <2>1 DEF WriteData
  <2> QED BY <1>1, <1>2, <1>4, <2>2 DEF WriteData, ReadInv, rvars
<1>5. CASE StructError \/ Kill
    BY <1>1, <1>2, <1>5 DEF StructError, Kill, ReadInv, rvars
<1>6. ASSUME NEW n \in 0..Len(buf), Spill(n)
      PROVE  disk' \in Seq(P) /\ buf' \in Seq(P)
    BY <1>1, <1>6, SpillTypes DEF Spill
<1>7. CASE Close
  <2>1. Len(buf) \in 0..Len(buf)
      BY <1>1
  <2>2. disk' \in Seq(P) /\ buf' \in Seq(P)
      BY <1>6, <1>7, <2>1 DEF Close
  <2> QED BY <1>1, <1>2, <1>7, <2>2 DEF Close, ReadInv, rvars
<1>8. ASSUME NEW n \in 0..Len(buf), Flush(n) \/ CloseFails(n)
      PROVE  ReadInv(P, B)'
  <2>1. disk' \in Seq(P) /\ buf' \in Seq(P)
      BY <1>6, <1>8 DEF Flush, CloseFails
  <2> QED BY <1>1, <1>2, <1>8, <2>1 DEF Flush, CloseFails, ReadInv, rvars
<1>9. ASSUME NEW n \in 0..Len(Pending), WriteOSError(n)
      PROVE  ReadInv(P, B)'
  <2>1. Pending \in Seq(P) /\ n \in Nat
      BY <1>1, PendingTypes
  <2>2. disk' \in Seq(P) /\ buf' \in Seq(P)
    <3>1. disk \o SubSeq(Pending, 1, n) \in Seq(P)
        BY <1>1, <2>1, SpillTypes
    <3>2. SubSeq(buf, n + 1, Len(buf)) \in Seq(P)
        BY <1>1, <2>1
    <3> QED BY <1>9, <3>1, <3>2 DEF WriteOSError, SpillPending
  <2> QED BY <1>1, <1>2, <1>9, <2>2 DEF WriteOSError, ReadInv, rvars
<1> QED BY <1>3, <1>4, <1>5, <1>7, <1>8, <1>9 DEF Writing

LEMMA ReopenRead ==
    ASSUME NEW P, NEW B, ReadInv(P, B), Reopen
    PROVE  ReadInv(P, B)'
<1>1. FrameSeq(<<>>, P) /\ <<>> \in Seq(P) /\ <<>> \in Seq(Ethernets)
    BY FrameSeqEmpty
<1>2. FileTypes(P, B)'
    BY <1>1 DEF ReadInv, FileTypes, Reopen
<1>3. ReaderInv'
    BY <1>1 DEF ReaderInv, Readers, Reopen
<1> QED BY <1>2, <1>3 DEF ReadInv

LEMMA NextRead ==
    ASSUME NEW P, NEW B, TypedInputs(P, B), ReadInv(P, B), [Next]_vars
    PROVE  ReadInv(P, B)'
<1>1. CASE UNCHANGED vars
  <2>1. ReaderInv'
      BY <1>1, ReaderUnchanged DEF vars, ReadInv
  <2> QED BY <1>1, <2>1 DEF ReadInv, FileTypes, vars, rvars, wvars
<1>2. CASE Source
    BY <1>2, ReceiveRead, OpenRead, ScanRead, ReadRecordRead, ReadBlockRead, EndRead
    DEF Source
<1>3. CASE Writing
    BY <1>3, WriterRead
<1>4. CASE Reopen
    BY <1>4, ReopenRead
<1> QED BY <1>1, <1>2, <1>3, <1>4 DEF Next, Over

LEMMA AlwaysRead == Spec => []ReadInv(FilePieces, FileBlocks)
<1> DEFINE I == ReadInv(FilePieces, FileBlocks)
<1>1. Init => I
    BY InputsTyped, InitRead
<1>2. I /\ [Next]_vars => I'
    BY InputsTyped, NextRead
<1> QED BY <1>1, <1>2, PTL DEF Spec

(* For any file of pieces or blocks in any order and with any byte orders, *)
(* no frame of an interface that is not Ethernet comes out of              *)
(* read_captures: the library never gets past the block at which           *)
(* _pcapng_linktype's scan stopped.                                        *)
THEOREM NothingButEthernet == Spec => []OnlyEthernet
<1> DEFINE P == FilePieces
           B == FileBlocks
<1>1. ReadInv(P, B) => OnlyEthernet
    BY FrameSeqFacts DEF ReadInv, FileTypes, OnlyEthernet, FrameOK
<1> QED BY <1>1, AlwaysRead, PTL

-----------------------------------------------------------------------------
(* What a session leaves in its file.                                      *)

(* The seconds and the rest of a frame's time.                             *)
StampOf(f) == Stamp(f.time \div NsPerSec, f.time % NsPerSec)

(* The record of frame f takes the positions p to q - 1 of the file e.     *)
RecordAt(e, p, q, f) ==
    /\ p >= 3 /\ q = p + 2 + Len(f.data) /\ q <= Len(e) + 1
    /\ e[p] = StampOf(f)
    /\ e[p + 1] = Length(Len(f.data))
    /\ SubSeq(e, p + 2, q - 1) = f.data

(* e is the classic file of the first k frames of fr, whose records start  *)
(* at the positions off.                                                   *)
Encoded(e, off, fr, k) ==
    /\ k \in Nat /\ off \in [1..(k + 1) -> Nat]
    /\ off[1] = 3 /\ off[k + 1] = Len(e) + 1
    /\ Len(e) >= 2 /\ e[1] = Magic /\ e[2] = Network(ETHERNET)
    /\ \A i \in 1..k : RecordAt(e, off[i], off[i + 1], fr[i])

Prefix(f, e) == Len(f) <= Len(e) /\ \A i \in 1..Len(f) : f[i] = e[i]

(* f is what is there of the file e of k frames: the kp that write() has   *)
(* accepted, or one more, which is not complete unless it has no bytes.    *)
LeftBy(f, e, off, k, fr, kp, whole) ==
    /\ Encoded(e, off, fr, k) /\ Prefix(f, e) /\ k <= Len(fr)
    /\ \/ k = kp
       \/ k = kp + 1 /\ (Len(f) < Len(e) \/ fr[k].data = <<>>)
    /\ whole => f = e /\ k = kp

Left(P, f, fr, kp, whole) ==
    \E e \in Seq(P) : \E off, k : LeftBy(f, e, off, k, fr, kp, whole)

LEMMA ConcatFacts ==
    ASSUME NEW P, NEW s \in Seq(P), NEW t \in Seq(P)
    PROVE  /\ s \o t \in Seq(P) /\ Len(s) \in Nat /\ Len(t) \in Nat
           /\ Len(s \o t) = Len(s) + Len(t)
           /\ \A i \in 1..Len(s) : (s \o t)[i] = s[i]
           /\ \A i \in 1..Len(t) : (s \o t)[Len(s) + i] = t[i]
<1>1. /\ s \o t \in Seq(P) /\ Len(s) \in Nat /\ Len(t) \in Nat
      /\ Len(s \o t) = Len(s) + Len(t)
    BY ConcatProperties
<1>2. \A i \in 1..(Len(s) + Len(t)) :
         (s \o t)[i] = IF i <= Len(s) THEN s[i] ELSE t[i - Len(s)]
    BY ConcatProperties
<1>3. \A i \in 1..Len(s) : (s \o t)[i] = s[i]
    BY <1>1, <1>2
<1>4. \A i \in 1..Len(t) : (s \o t)[Len(s) + i] = t[i]
  <2>1. TAKE i \in 1..Len(t)
  <2>2. /\ Len(s) + i \in 1..(Len(s) + Len(t)) /\ ~(Len(s) + i <= Len(s))
        /\ (Len(s) + i) - Len(s) = i
      BY <1>1
  <2> QED BY <1>2, <2>2
<1> QED BY <1>1, <1>3, <1>4

LEMMA PrefixConcat ==
    ASSUME NEW P, NEW d \in Seq(P), NEW s \in Seq(P), NEW t \in Seq(P)
    PROVE  /\ Prefix(s, s) /\ Prefix(s, s \o t)
           /\ Prefix(s, t) => Prefix(d \o s, d \o t)
<1>1. Prefix(s, s) /\ Prefix(s, s \o t)
    BY ConcatProperties DEF Prefix
<1>2. ASSUME Prefix(s, t) PROVE Prefix(d \o s, d \o t)
  <2>1. Len(d \o s) = Len(d) + Len(s) /\ Len(d \o t) = Len(d) + Len(t)
      BY ConcatProperties
  <2>2. ASSUME NEW i \in 1..Len(d \o s) PROVE (d \o s)[i] = (d \o t)[i]
    <3>1. Len(s) <= Len(t) /\ \A j \in 1..Len(s) : s[j] = t[j]
        BY <1>2 DEF Prefix
    <3>2. i \in 1..(Len(d) + Len(s)) /\ i \in 1..(Len(d) + Len(t))
        BY <2>1, <3>1
    <3>3. /\ (d \o s)[i] = IF i <= Len(d) THEN d[i] ELSE s[i - Len(d)]
          /\ (d \o t)[i] = IF i <= Len(d) THEN d[i] ELSE t[i - Len(d)]
        BY <3>2, ConcatProperties
    <3>4. i > Len(d) => i - Len(d) \in 1..Len(s)
        BY <3>2
    <3> QED BY <3>1, <3>2, <3>3, <3>4
  <2> QED BY <1>2, <2>1, <2>2 DEF Prefix
<1> QED BY <1>1, <1>2

LEMMA PrefixTransitive ==
    ASSUME NEW P, NEW f \in Seq(P), NEW g \in Seq(P), NEW h \in Seq(P),
           Prefix(f, g), Prefix(g, h)
    PROVE  Prefix(f, h)
    BY DEF Prefix

(* Moving a part of the buffer to the file changes nothing of the two      *)
(* together.                                                               *)
LEMMA SpillKeeps ==
    ASSUME NEW P, NEW d \in Seq(P), NEW b \in Seq(P), NEW n \in 0..Len(b)
    PROVE  /\ (d \o SubSeq(b, 1, n)) \o SubSeq(b, n + 1, Len(b)) = d \o b
           /\ Prefix(d \o SubSeq(b, 1, n), d \o b)
           /\ d \o SubSeq(b, 1, Len(b)) = d \o b
           /\ Prefix(d, d \o b)
<1> DEFINE x == SubSeq(b, 1, n)
           y == SubSeq(b, n + 1, Len(b))
<1>1. x \in Seq(P) /\ y \in Seq(P)
    OBVIOUS
<1>2. x \o y = b
  <2>1. 1 \in 1..(Len(b) + 1) /\ n \in (1 - 1)..Len(b) /\ Len(b) \in n..Len(b)
      OBVIOUS
  <2>2. x \o y = SubSeq(b, 1, Len(b))
      BY <2>1, ConcatAdjacentSubSeq
  <2> QED BY <2>2, SubSeqFull
<1>3. d \o SubSeq(b, 1, Len(b)) = d \o b /\ Prefix(d, d \o b)
    BY SubSeqFull, PrefixConcat
<1> HIDE DEF x, y
<1>4. (d \o x) \o y = d \o b
  <2>1. (d \o x) \o y = d \o (x \o y)
      BY <1>1, ConcatAssociative, SMTT(30)
  <2> QED BY <1>2, <2>1
<1>5. d \o x \in Seq(P)
    BY <1>1
<1>6. Prefix(d \o x, d \o b)
    BY <1>1, <1>4, <1>5, PrefixConcat
<1> QED BY <1>3, <1>4, <1>6 DEF x, y

(* Files that agree up to a place are the same in front of it.             *)
LEMMA SubSeqAgree ==
    ASSUME NEW P, NEW f \in Seq(P), NEW e \in Seq(P), NEW p \in Nat \ {0}, NEW q \in Nat,
           q <= Len(f), q <= Len(e), \A i \in 1..q : f[i] = e[i]
    PROVE  SubSeq(f, p, q) = SubSeq(e, p, q)
<1>1. \A i \in p..q : f[i] \in P /\ e[i] \in P /\ f[i] = e[i]
    OBVIOUS
<1>2. /\ SubSeq(f, p, q) \in Seq(P) /\ SubSeq(e, p, q) \in Seq(P)
      /\ Len(SubSeq(f, p, q)) = Len(SubSeq(e, p, q))
      /\ Len(SubSeq(f, p, q)) = IF p <= q THEN q - p + 1 ELSE 0
      /\ \A i \in 1..(q - p + 1) : /\ SubSeq(f, p, q)[i] = f[p + i - 1]
                                   /\ SubSeq(e, p, q)[i] = e[p + i - 1]
    BY <1>1, SubSeqProperties
<1>3. \A i \in 1..Len(SubSeq(f, p, q)) : SubSeq(f, p, q)[i] = SubSeq(e, p, q)[i]
  <2>1. TAKE i \in 1..Len(SubSeq(f, p, q))
  <2>2. i \in 1..(q - p + 1) /\ p + i - 1 \in p..q
      BY <1>2
  <2> QED BY <1>1, <1>2, <2>2
<1> QED BY <1>2, <1>3, SeqEqual

LEMMA RecordAtExtends ==
    ASSUME NEW P, NEW e \in Seq(P), NEW x \in Seq(P), Prefix(e, x), NEW f, FrameOK(f, P),
           NEW p \in Nat, NEW q \in Nat, RecordAt(e, p, q, f)
    PROVE  RecordAt(x, p, q, f)
<1>1. /\ Len(e) \in Nat /\ Len(x) \in Nat /\ Len(e) <= Len(x)
      /\ \A i \in 1..Len(e) : x[i] = e[i]
    BY DEF Prefix
<1>2. Len(f.data) \in Nat
    BY DEF FrameOK
<1>3. p >= 3 /\ q = p + 2 + Len(f.data) /\ q <= Len(e) + 1
    BY DEF RecordAt
<1>4. /\ e[p] = StampOf(f) /\ e[p + 1] = Length(Len(f.data))
      /\ SubSeq(e, p + 2, q - 1) = f.data
    BY DEF RecordAt
<1>5. /\ p \in 1..Len(e) /\ p + 1 \in 1..Len(e) /\ p + 2 \in Nat \ {0}
      /\ q - 1 \in Nat /\ q - 1 <= Len(e) /\ q - 1 <= Len(x)
      /\ q <= Len(x) + 1
  <2> DEFINE a == Len(e)
             b == Len(x)
             c == Len(f.data)
  <2>1. /\ a \in Nat /\ b \in Nat /\ a <= b /\ c \in Nat
        /\ p >= 3 /\ q = p + 2 + c /\ q <= a + 1
      BY <1>1, <1>2, <1>3
  <2> HIDE DEF a, b, c
  <2>2. /\ p \in 1..a /\ p + 1 \in 1..a /\ p + 2 \in Nat \ {0}
        /\ q - 1 \in Nat /\ q - 1 <= a /\ q - 1 <= b /\ q <= b + 1
      BY <2>1
  <2> QED BY <2>2 DEF a, b
<1> DEFINE z == q - 1
           y == p + 2
<1>6. z \in Nat /\ z <= Len(e) /\ z <= Len(x) /\ y \in Nat \ {0}
    BY <1>5
<1> HIDE DEF z, y
<1>7. \A i \in 1..z : x[i] = e[i]
    BY <1>1, <1>6
<1>8. SubSeq(x, y, z) = SubSeq(e, y, z)
    BY <1>6, <1>7, SubSeqAgree
<1>9. SubSeq(x, p + 2, q - 1) = f.data
    BY <1>4, <1>8 DEF z, y
<1>10. x[p] = e[p] /\ x[p + 1] = e[p + 1]
    BY <1>1, <1>5
<1> QED BY <1>3, <1>4, <1>5, <1>9, <1>10 DEF RecordAt

LEMMA SubSeqLast ==
    ASSUME NEW P, NEW s \in Seq(P), NEW t \in Seq(P)
    PROVE  SubSeq(s \o t, Len(s) + 1, Len(s) + Len(t)) = t
<1> DEFINE x == s \o t
           p == Len(s) + 1
           q == Len(s) + Len(t)
<1>1. /\ x \in Seq(P) /\ Len(s) \in Nat /\ Len(t) \in Nat /\ Len(x) = q
      /\ \A i \in 1..Len(t) : x[Len(s) + i] = t[i]
    BY ConcatFacts
<1>2. p \in Int /\ q \in Int /\ q - p + 1 = Len(t) /\ p >= 1
    BY <1>1
<1> HIDE DEF x, q
<1>3. \A i \in p..q : x[i] \in P
    BY <1>1, <1>2
<1>4. \A i \in 1..Len(t) : p + i - 1 = Len(s) + i
    BY <1>1
<1> HIDE DEF p
<1>5. /\ SubSeq(x, p, q) \in Seq(P)
      /\ Len(SubSeq(x, p, q)) = IF p <= q THEN q - p + 1 ELSE 0
      /\ \A i \in 1..(q - p + 1) : SubSeq(x, p, q)[i] = x[p + i - 1]
    BY <1>2, <1>3, SubSeqProperties
<1>6. Len(SubSeq(x, p, q)) = Len(t)
    BY <1>1, <1>2, <1>5
<1>7. \A i \in 1..Len(t) : SubSeq(x, p, q)[i] = t[i]
    BY <1>1, <1>2, <1>4, <1>5
<1>8. SubSeq(x, p, q) = t
    BY <1>5, <1>6, <1>7, SeqEqual
<1> QED BY <1>8 DEF x, p, q

(* The bytes write() adds.                                                 *)
LEMMA RecordAppended ==
    ASSUME NEW P, TypedPieces(P), NEW e \in Seq(P), Len(e) >= 2, NEW f, FrameOK(f, P),
           NEW x, x = (e \o RecordHeader(f)) \o f.data
    PROVE  /\ x \in Seq(P) /\ Len(x) = Len(e) + 2 + Len(f.data) /\ Prefix(e, x)
           /\ RecordAt(x, Len(e) + 1, Len(x) + 1, f)
<1> DEFINE h == RecordHeader(f)
           d == f.data
           y == e \o h
<1>1. h \in Seq(P) /\ Len(h) = 2
    BY HeaderTypes
<1>2. h[1] = StampOf(f) /\ h[2] = Length(Len(f.data))
    BY DEF RecordHeader, StampOf
<1>3. d \in Seq(P) /\ Len(d) \in Nat
    BY DEF FrameOK
<1> HIDE DEF h, d
<1>4. /\ y \in Seq(P) /\ Len(y) = Len(e) + 2 /\ Len(e) \in Nat
      /\ \A i \in 1..Len(e) : y[i] = e[i]
      /\ \A i \in 1..2 : y[Len(e) + i] = h[i]
  <2>1. /\ y \in Seq(P) /\ Len(y) = Len(e) + Len(h) /\ Len(e) \in Nat
        /\ \A i \in 1..Len(e) : y[i] = e[i]
        /\ \A i \in 1..Len(h) : y[Len(e) + i] = h[i]
    <3>1. h \in Seq(P)
        BY <1>1
    <3> QED BY <3>1, ConcatFacts
  <2> HIDE DEF y
  <2> QED BY <1>1, <2>1
<1>5. x = y \o d
    BY DEF h, d
<1> HIDE DEF y
<1>6. /\ x \in Seq(P) /\ Len(x) = Len(y) + Len(d) /\ Len(y) \in Nat
      /\ \A i \in 1..Len(y) : x[i] = y[i]
  <2>1. y \in Seq(P)
      BY <1>4
  <2>2. /\ y \o d \in Seq(P) /\ Len(y \o d) = Len(y) + Len(d) /\ Len(y) \in Nat
        /\ \A i \in 1..Len(y) : (y \o d)[i] = y[i]
      BY <1>3, <2>1, ConcatFacts
  <2> QED BY <1>5, <2>2
<1>7. SubSeq(x, Len(y) + 1, Len(y) + Len(d)) = d
    BY <1>3, <1>4, <1>5, SubSeqLast
<1>8. Len(x) = Len(e) + 2 + Len(d)
    BY <1>3, <1>4, <1>6
<1>9. Prefix(e, x)
  <2>1. Len(e) <= Len(x) /\ \A i \in 1..Len(e) : i \in 1..Len(y)
      BY <1>3, <1>4, <1>8
  <2> QED BY <1>4, <1>6, <2>1 DEF Prefix
<1>10. x[Len(e) + 1] = h[1] /\ x[(Len(e) + 1) + 1] = h[2]
  <2>1. /\ 1 \in 1..2 /\ 2 \in 1..2 /\ (Len(e) + 1) + 1 = Len(e) + 2
        /\ Len(e) + 1 \in 1..Len(y) /\ Len(e) + 2 \in 1..Len(y)
      BY <1>4
  <2> QED BY <1>4, <1>6, <2>1
<1>11. /\ Len(e) + 1 >= 3 /\ Len(x) + 1 = (Len(e) + 1) + 2 + Len(d)
       /\ (Len(e) + 1) + 2 = Len(y) + 1 /\ (Len(x) + 1) - 1 = Len(y) + Len(d)
       /\ Len(x) + 1 <= Len(x) + 1
    BY <1>3, <1>4, <1>6, <1>8
<1>12. SubSeq(x, (Len(e) + 1) + 2, (Len(x) + 1) - 1) = d
    BY <1>7, <1>11
<1>13. RecordAt(x, Len(e) + 1, Len(x) + 1, f)
    BY <1>2, <1>10, <1>11, <1>12 DEF RecordAt, d
<1> QED BY <1>6, <1>8, <1>9, <1>13 DEF d

LEMMA EncodedHeader ==
    ASSUME NEW fr
    PROVE  \E off : Encoded(GlobalHeader, off, fr, 0)
<1> DEFINE off == [i \in 1..(0 + 1) |-> 3]
<1>1. off \in [1..(0 + 1) -> Nat] /\ off[1] = 3 /\ off[0 + 1] = 3
    OBVIOUS
<1>2. Len(GlobalHeader) = 2 /\ GlobalHeader[1] = Magic
      /\ GlobalHeader[2] = Network(ETHERNET)
    BY DEF GlobalHeader
<1> HIDE DEF off
<1>3. Encoded(GlobalHeader, off, fr, 0)
    BY <1>1, <1>2 DEF Encoded
<1> QED BY <1>3

(* Frames that come later do not matter.                                   *)
LEMMA EncodedSame ==
    ASSUME NEW e, NEW off, NEW fr, NEW gr, NEW k, Encoded(e, off, fr, k),
           \A i \in 1..k : fr[i] = gr[i]
    PROVE  Encoded(e, off, gr, k)
    BY DEF Encoded

(* write() adds one record.                                                *)
LEMMA EncodedNext ==
    ASSUME NEW P, TypedPieces(P), NEW e \in Seq(P), NEW off, NEW fr, NEW k,
           Encoded(e, off, fr, k), FrameSeq(fr, P), k + 1 <= Len(fr)
    PROVE  \E o : Encoded((e \o RecordHeader(fr[k + 1])) \o fr[k + 1].data, o, fr, k + 1)
<1> DEFINE f == fr[k + 1]
           x == (e \o RecordHeader(f)) \o f.data
           n == Len(x) + 1
           o == [i \in 1..((k + 1) + 1) |-> IF i <= k + 1 THEN off[i] ELSE n]
<1>1. /\ k \in Nat /\ off \in [1..(k + 1) -> Nat]
      /\ off[1] = 3 /\ off[k + 1] = Len(e) + 1
      /\ Len(e) >= 2 /\ e[1] = Magic /\ e[2] = Network(ETHERNET)
      /\ \A i \in 1..k : RecordAt(e, off[i], off[i + 1], fr[i])
    BY DEF Encoded
<1>2. FrameOK(f, P) /\ \A i \in 1..k : FrameOK(fr[i], P)
    BY <1>1, FrameSeqFacts
<1>3. Len(e) \in Nat
    OBVIOUS
<1> HIDE DEF f
<1>4. /\ x \in Seq(P) /\ Len(x) = Len(e) + 2 + Len(f.data) /\ Prefix(e, x)
      /\ RecordAt(x, Len(e) + 1, n, f)
    BY <1>1, <1>2, RecordAppended
<1> HIDE DEF x
<1>5. n \in Nat
  <2>1. x \in Seq(P)
      BY <1>4
  <2>2. Len(x) \in Nat
      BY <2>1
  <2> QED BY <2>2
<1>6. \A i \in 1..k : RecordAt(x, off[i], off[i + 1], fr[i])
  <2>1. TAKE i \in 1..k
  <2>2. off[i] \in Nat /\ off[i + 1] \in Nat
      BY <1>1
  <2> DEFINE p == off[i]
             q == off[i + 1]
             g == fr[i]
  <2>3. p \in Nat /\ q \in Nat /\ RecordAt(e, p, q, g) /\ FrameOK(g, P)
      BY <1>1, <1>2, <2>2
  <2> HIDE DEF p, q, g
  <2>4. RecordAt(x, p, q, g)
      BY <1>4, <2>3, RecordAtExtends
  <2> QED BY <2>4 DEF p, q, g
<1>7. /\ x[1] = Magic /\ x[2] = Network(ETHERNET) /\ Len(x) >= 2 /\ k + 1 \in Nat
  <2>1. Len(e) <= Len(x) /\ Len(x) \in Nat
    <3>1. Prefix(e, x) /\ x \in Seq(P)
        BY <1>4
    <3>2. Len(x) \in Nat
        BY <3>1
    <3> QED BY <3>1, <3>2 DEF Prefix
  <2>2. Len(e) >= 2 /\ Len(e) \in Nat
      BY <1>1, <1>3
  <2>3. 1 \in 1..Len(e) /\ 2 \in 1..Len(e)
      BY <2>2
  <2>4. x[1] = e[1] /\ x[2] = e[2]
      BY <1>4, <2>3 DEF Prefix
  <2>5. Len(x) >= 2 /\ k + 1 \in Nat
      BY <1>1, <2>1, <2>2
  <2> QED BY <1>1, <2>4, <2>5
<1>8. n = Len(x) + 1
    OBVIOUS
<1> HIDE DEF n
<1>9. /\ o \in [1..((k + 1) + 1) -> Nat] /\ o[1] = 3 /\ o[(k + 1) + 1] = n
      /\ \A i \in 1..(k + 1) : o[i] = off[i]
    BY <1>1, <1>5
<1> HIDE DEF o
<1>10. \A i \in 1..(k + 1) : RecordAt(x, o[i], o[i + 1], fr[i])
  <2>1. TAKE i \in 1..(k + 1)
  <2>2. CASE i \in 1..k
    <3>1. i \in 1..(k + 1) /\ i + 1 \in 1..(k + 1)
        BY <1>1, <2>2
    <3>2. o[i] = off[i] /\ o[i + 1] = off[i + 1]
        BY <1>9, <3>1
    <3> QED BY <1>6, <2>2, <3>2
  <2>3. CASE i = k + 1
    <3>1. o[i] = Len(e) + 1 /\ o[i + 1] = n /\ fr[i] = f
        BY <1>1, <1>9, <2>3 DEF f
    <3> QED BY <1>4, <3>1
  <2> QED BY <1>1, <2>2, <2>3
<1>11. Encoded(x, o, fr, k + 1)
    BY <1>7, <1>8, <1>9, <1>10 DEF Encoded
<1> QED BY <1>11 DEF x, f

(* A file that is complete, and one in which the last frame is not.        *)
LEMMA LeftWhole ==
    ASSUME NEW P, NEW e \in Seq(P), NEW off, NEW fr, NEW k, NEW whole,
           Encoded(e, off, fr, k), k <= Len(fr)
    PROVE  Left(P, e, fr, k, whole)
<1>1. Prefix(e, e)
    BY PrefixConcat
<1>2. LeftBy(e, e, off, k, fr, k, whole)
    BY <1>1 DEF LeftBy
<1> QED BY <1>2 DEF Left

LEMMA LeftInData ==
    ASSUME NEW P, NEW e \in Seq(P), NEW off, NEW fr, NEW k \in Nat, NEW f,
           Encoded(e, off, fr, k + 1), k + 1 <= Len(fr), Prefix(f, e),
           Len(f) < Len(e) \/ fr[k + 1].data = <<>>
    PROVE  Left(P, f, fr, k, FALSE)
<1>1. LeftBy(f, e, off, k + 1, fr, k, FALSE)
    BY DEF LeftBy
<1> QED BY <1>1 DEF Left

(* Losing the end of a file costs frames at the end only.                  *)
LEMMA LeftShorter ==
    ASSUME NEW P, NEW f \in Seq(P), NEW g \in Seq(P), NEW fr, NEW kp, NEW whole,
           Left(P, f, fr, kp, whole), Prefix(g, f)
    PROVE  Left(P, g, fr, kp, FALSE)
<1>1. PICK e \in Seq(P) : \E off, k : LeftBy(f, e, off, k, fr, kp, whole)
    BY DEF Left
<1>2. PICK off, k : LeftBy(f, e, off, k, fr, kp, whole)
    BY <1>1
<1>3. Prefix(g, e)
    BY <1>2, PrefixTransitive DEF LeftBy
<1>4. Len(f) < Len(e) => Len(g) < Len(e)
  <2>1. Len(f) \in Nat /\ Len(g) \in Nat /\ Len(e) \in Nat
      OBVIOUS
  <2> QED BY <2>1 DEF Prefix
<1>5. LeftBy(g, e, off, k, fr, kp, FALSE)
    BY <1>2, <1>3, <1>4 DEF LeftBy
<1> QED BY <1>5 DEF Left

(* A frame x larger than the buffer b, of which the last byte at least is  *)
(* not in the file.                                                        *)
AllButLast(b, x) == b \o SubSeq(x, 1, Len(x) - 1)
Torn(d, b, x, n) == (d \o SubSeq(AllButLast(b, x), 1, n)) \o SubSeq(b, n + 1, Len(b))

LEMMA TornFrame ==
    ASSUME NEW P, NEW d \in Seq(P), NEW b \in Seq(P), NEW x \in Seq(P),
           NEW n \in 0..Len(AllButLast(b, x))
    PROVE  /\ Prefix(Torn(d, b, x, n), (d \o b) \o x)
           /\ Len(Torn(d, b, x, n)) < Len((d \o b) \o x) \/ x = <<>>
<1> DEFINE y == SubSeq(x, 1, Len(x) - 1)
           p == b \o y
           u == SubSeq(p, 1, n)
           v == SubSeq(b, n + 1, Len(b))
           f == (d \o u) \o v
           e == (d \o b) \o x
<1>0. SUFFICES Prefix(f, e) /\ (Len(f) < Len(e) \/ x = <<>>)
  <2>1. f = Torn(d, b, x, n) /\ e = (d \o b) \o x
      BY DEF Torn, AllButLast
  <2> HIDE DEF f, e
  <2> QED BY <2>1
<1>1. Len(x) \in Nat /\ Len(b) \in Nat /\ Len(d) \in Nat
    OBVIOUS
<1>2. /\ y \in Seq(P) /\ Prefix(y, x) /\ Len(y) \in Nat
      /\ Len(y) < Len(x) \/ (x = <<>> /\ y = <<>>)
  <2>1. CASE x = <<>>
    <3>1. y = <<>>
        BY <2>1, SubSeqEmpty
    <3> QED BY <2>1, <3>1 DEF Prefix
  <2>2. CASE x # <<>>
    <3>1. Len(x) # 0
        BY <2>2
    <3>2. /\ y \in Seq(P) /\ Len(y) = Len(x) - 1
          /\ \A i \in 1..(Len(x) - 1) : y[i] = x[i]
      <4> DEFINE m == Len(x) - 1
      <4>1. m \in Nat /\ m <= Len(x) /\ 1 \in Int /\ m \in Int /\ m - 1 + 1 = m
          BY <1>1, <3>1
      <4>2. \A i \in 1..m : x[i] \in P /\ 1 + i - 1 = i
          BY <4>1
      <4> HIDE DEF m
      <4>3. /\ SubSeq(x, 1, m) \in Seq(P)
            /\ Len(SubSeq(x, 1, m)) = IF 1 <= m THEN m - 1 + 1 ELSE 0
            /\ \A i \in 1..(m - 1 + 1) : SubSeq(x, 1, m)[i] = x[1 + i - 1]
          BY <4>1, <4>2, SubSeqProperties
      <4>4. /\ SubSeq(x, 1, m) \in Seq(P) /\ Len(SubSeq(x, 1, m)) = m
            /\ \A i \in 1..m : SubSeq(x, 1, m)[i] = x[i]
          BY <4>1, <4>2, <4>3
      <4> QED BY <4>4 DEF m
    <3> HIDE DEF y
    <3> QED BY <1>1, <3>1, <3>2 DEF Prefix
  <2> QED BY <2>1, <2>2
<1> HIDE DEF y
<1>3. p \in Seq(P) /\ Len(p) = Len(b) + Len(y) /\ Prefix(p, b \o x)
    BY <1>2, ConcatFacts, PrefixConcat
<1>4. n \in 0..Len(p)
    BY DEF y, AllButLast
<1>5. /\ d \o b \in Seq(P) /\ e \in Seq(P) /\ Len(d \o b) = Len(d) + Len(b)
      /\ Len(e) = Len(d) + Len(b) + Len(x) /\ Prefix(d \o b, e)
  <2>1. d \o b \in Seq(P) /\ Len(d \o b) = Len(d) + Len(b)
      BY ConcatFacts
  <2> DEFINE s == d \o b
  <2> HIDE DEF s
  <2>2. s \in Seq(P) /\ Len(s) = Len(d) + Len(b)
      BY <2>1 DEF s
  <2>3. s \o x \in Seq(P) /\ Len(s \o x) = Len(s) + Len(x) /\ Prefix(s, s \o x)
      BY <2>2, ConcatFacts, PrefixConcat
  <2> QED BY <1>1, <2>2, <2>3 DEF s
<1>6. CASE n <= Len(b)
  <2>1. u = SubSeq(b, 1, n)
    <3>1. n \in Nat /\ n <= Len(p) /\ \A i \in 1..n : p[i] = b[i]
      <4>1. \A i \in 1..Len(b) : p[i] = b[i]
          BY <1>2, ConcatFacts
      <4> HIDE DEF p
      <4> QED BY <1>1, <1>2, <1>3, <1>6, <4>1
    <3> HIDE DEF p
    <3> QED BY <1>3, <1>6, <3>1, SubSeqAgree
  <2>2. n \in 0..Len(b)
      BY <1>1, <1>4, <1>6
  <2>3. f = d \o b
      BY <2>1, <2>2, SpillKeeps
  <2>4. Len(x) # 0 => Len(f) < Len(e)
    <3> HIDE DEF f, e
    <3> QED BY <1>1, <1>5, <2>3
  <2>5. Len(x) = 0 => x = <<>>
      OBVIOUS
  <2> HIDE DEF f, e
  <2> QED BY <1>5, <2>3, <2>4, <2>5
<1>7. CASE n > Len(b)
  <2> DEFINE w == b \o x
  <2>1. w \in Seq(P)
      BY ConcatFacts
  <2> HIDE DEF p, w
  <2>2. u \in Seq(P) /\ Prefix(u, p) /\ Len(u) = n /\ n \in Nat /\ n <= Len(p)
    <3>1. n \in Nat /\ n <= Len(p)
        BY <1>3, <1>4
    <3>2. u \in Seq(P) /\ Len(u) = n /\ \A i \in 1..n : u[i] = p[i]
        BY <1>3, <3>1
    <3> HIDE DEF u
    <3> QED BY <3>1, <3>2 DEF Prefix
  <2> HIDE DEF u
  <2>3. v = <<>>
    <3>1. n + 1 \in Int /\ Len(b) \in Int /\ Len(b) < n + 1
        BY <1>1, <1>7, <2>2
    <3> QED BY <3>1, SubSeqEmpty
  <2> HIDE DEF v
  <2>4. Prefix(u, w)
      BY <1>3, <2>1, <2>2, PrefixTransitive DEF w
  <2>5. Prefix(d \o u, d \o w)
      BY <2>1, <2>2, <2>4, PrefixConcat
  <2>6. d \o w = e
    <3>1. (d \o b) \o x = d \o (b \o x)
      <4> HIDE DEF e, f
      <4> QED BY ConcatAssociative
    <3> QED BY <3>1 DEF w
  <2>7. f = d \o u /\ Len(d \o u) = Len(d) + n
    <3>1. d \o u \in Seq(P) /\ Len(d \o u) = Len(d) + Len(u)
        BY <2>2, ConcatFacts
    <3>2. (d \o u) \o <<>> = d \o u
        BY <3>1, ConcatEmptySeq
    <3> QED BY <2>2, <2>3, <3>1, <3>2
  <2> HIDE DEF e, f
  <2>8. Len(f) < Len(e) \/ x = <<>>
      BY <1>1, <1>2, <1>3, <1>5, <2>2, <2>7
  <2>9. Prefix(f, e)
      BY <2>5, <2>6, <2>7
  <2> QED BY <2>8, <2>9
<1>8. n <= Len(b) \/ n > Len(b)
    BY <1>1
<1> HIDE DEF e, f
<1> QED BY <1>6, <1>7, <1>8

-----------------------------------------------------------------------------
(* Round 1: the file and the buffer together hold the records of the       *)
(* frames that write() has accepted; while one is being written, they lack *)
(* its bytes.                                                              *)
WriteInv(P) ==
    /\ writer \in {"open", "data", "failed", "closed"}
    /\ writer \in {"open", "data"} =>
          /\ hand = <<>> => Len(given) = kept
          /\ hand # <<>> => Len(given) = kept + 1 /\ hand[1] = given[kept + 1]
    /\ writer = "open" => \E off : Encoded(disk \o buf, off, given, kept)
    /\ writer = "data" =>
          \E off : Encoded((disk \o buf) \o hand[1].data, off, given, kept + 1)
    /\ writer = "failed" => Left(P, disk \o buf, given, kept, intact)
    /\ writer = "closed" => Left(P, disk, given, kept, intact)

LEMMA InitWrite ==
    ASSUME NEW P, TypedPieces(P), Init
    PROVE  WriteInv(P)
<1>1. GlobalHeader \in Seq(P)
    BY HeaderTypes
<1>2. <<>> \o GlobalHeader = GlobalHeader
    BY <1>1, ConcatEmptySeq
<1>3. \E off : Encoded(disk \o buf, off, given, kept)
    BY <1>2, EncodedHeader DEF Init
<1> QED BY <1>3 DEF Init, WriteInv

LEMMA GiveWrite ==
    ASSUME NEW P, NEW B, FileTypes(P, B), WriteInv(P), round = 1, NEW f, FrameOK(f, P),
           Idle, Give(f), UNCHANGED wvars
    PROVE  WriteInv(P)'
<1>1. writer = "open" /\ hand = <<>> /\ Len(given) = kept
    BY DEF Idle, WriteInv
<1>2. hand' = <<f>> /\ given' = Append(given, f)
    BY DEF Give
<1>3. /\ Len(given') = kept + 1 /\ given'[kept + 1] = f
      /\ \A i \in 1..kept : given[i] = given'[i]
    BY <1>1, <1>2, FrameSeqAppend DEF FileTypes
<1>4. PICK off : Encoded(disk \o buf, off, given, kept)
    BY <1>1 DEF WriteInv
<1>5. Encoded(disk \o buf, off, given', kept)
    BY <1>3, <1>4, EncodedSame
<1>6. hand' # <<>> /\ hand'[1] = f
    BY <1>2
<1> QED BY <1>1, <1>3, <1>5, <1>6 DEF WriteInv, wvars

LEMMA WriteUnchanged ==
    ASSUME NEW P, WriteInv(P), UNCHANGED <<hand, given, wvars>>
    PROVE  WriteInv(P)'
    BY DEF WriteInv, wvars

LEMMA WriteHeaderWrite ==
    ASSUME NEW P, NEW B, TypedPieces(P), FileTypes(P, B), WriteInv(P), WriteHeader
    PROVE  WriteInv(P)'
<1>1. /\ writer = "open" /\ hand # <<>> /\ hand' = hand /\ given' = given
      /\ disk' = disk /\ kept' = kept /\ writer' = "data"
      /\ buf' = buf \o RecordHeader(hand[1])
    BY DEF WriteHeader
<1>2. Len(given) = kept + 1 /\ hand[1] = given[kept + 1] /\ FrameOK(hand[1], P)
    BY <1>1 DEF WriteInv, FileTypes
<1>3. PICK off : Encoded(disk \o buf, off, given, kept)
    BY <1>1 DEF WriteInv
<1> DEFINE s == disk \o buf
           h == RecordHeader(hand[1])
<1>4. s \in Seq(P) /\ disk \in Seq(P) /\ buf \in Seq(P)
    BY DEF FileTypes
<1>5. h \in Seq(P)
    BY <1>2, HeaderTypes
<1>6. kept + 1 <= Len(given) /\ FrameSeq(given, P)
    BY <1>2 DEF FileTypes
<1>7. Encoded(s, off, given, kept)
    BY <1>3
<1> HIDE DEF s
<1>8. \E o : Encoded((s \o RecordHeader(given[kept + 1])) \o given[kept + 1].data, o, given, kept + 1)
    BY <1>4, <1>6, <1>7, EncodedNext
<1> HIDE DEF h
<1>9. (disk \o buf) \o h = disk \o (buf \o h)
    BY <1>4, <1>5, ConcatAssociative
<1>10. disk' \o buf' = s \o RecordHeader(given[kept + 1])
    BY <1>1, <1>2, <1>9 DEF s, h
<1>11. \E o : Encoded((disk' \o buf') \o hand'[1].data, o, given', kept' + 1)
    BY <1>1, <1>2, <1>8, <1>10
<1> QED BY <1>1, <1>2, <1>11 DEF WriteInv

LEMMA WriteDataWrite ==
    ASSUME NEW P, NEW B, FileTypes(P, B), WriteInv(P), WriteData
    PROVE  WriteInv(P)'
<1>1. /\ writer = "data" /\ hand' = <<>> /\ given' = given
      /\ disk' = disk /\ kept' = kept + 1 /\ writer' = "open"
      /\ buf' = buf \o hand[1].data
    BY DEF WriteData
<1>2. hand # <<>> /\ Len(given) = kept + 1 /\ FrameOK(hand[1], P)
    BY <1>1 DEF WriteInv, FileTypes
<1>3. PICK off : Encoded((disk \o buf) \o hand[1].data, off, given, kept + 1)
    BY <1>1 DEF WriteInv
<1> DEFINE d == hand[1].data
<1>4. d \in Seq(P) /\ disk \in Seq(P) /\ buf \in Seq(P)
    BY <1>2 DEF FileTypes, FrameOK
<1> HIDE DEF d
<1>5. (disk \o buf) \o d = disk \o (buf \o d)
    BY <1>4, ConcatAssociative
<1>6. Encoded(disk' \o buf', off, given', kept')
    BY <1>1, <1>3, <1>5 DEF d
<1> QED BY <1>1, <1>2, <1>6 DEF WriteInv

LEMMA StructErrorWrite ==
    ASSUME NEW P, NEW B, FileTypes(P, B), WriteInv(P), StructError
    PROVE  WriteInv(P)'
<1>1. /\ writer = "open" /\ hand # <<>>
      /\ UNCHANGED <<given, buf, disk, kept, intact>> /\ writer' = "failed"
    BY DEF StructError
<1>2. kept <= Len(given)
    BY <1>1 DEF WriteInv, FileTypes
<1>3. PICK off : Encoded(disk \o buf, off, given, kept)
    BY <1>1 DEF WriteInv
<1>4. disk \o buf \in Seq(P)
    BY DEF FileTypes
<1>5. Left(P, disk \o buf, given, kept, intact)
    BY <1>2, <1>3, <1>4, LeftWhole
<1> QED BY <1>1, <1>5 DEF WriteInv

(* What the file can be when writing stops.                                *)
LEMMA LeftNow ==
    ASSUME NEW P, NEW B, FileTypes(P, B), WriteInv(P)
    PROVE  /\ writer \in {"open", "failed"} => Left(P, disk \o buf, given, kept, intact)
           /\ writer \in {"open", "data", "failed"} => Left(P, disk, given, kept, FALSE)
<1>1. disk \o buf \in Seq(P) /\ disk \in Seq(P) /\ buf \in Seq(P) /\ kept \in Nat
    BY DEF FileTypes
<1>2. Prefix(disk, disk \o buf)
    BY <1>1, PrefixConcat
<1>3. CASE writer = "open"
  <2>1. PICK off : Encoded(disk \o buf, off, given, kept)
      BY <1>3 DEF WriteInv
  <2>2. kept <= Len(given)
      BY <1>1, <1>3 DEF WriteInv
  <2>3. Left(P, disk \o buf, given, kept, intact)
      BY <1>1, <2>1, <2>2, LeftWhole
  <2> QED BY <1>1, <1>2, <1>3, <2>3, LeftShorter
<1>4. CASE writer = "failed"
    BY <1>1, <1>2, <1>4, LeftShorter DEF WriteInv
<1>5. CASE writer = "data"
  <2> DEFINE s == disk \o buf
             d == hand[1].data
             e == s \o d
  <2>1. Len(given) = kept + 1 /\ hand[1] = given[kept + 1] /\ d \in Seq(P)
      BY <1>5 DEF WriteInv, FileTypes, FrameOK
  <2>2. PICK off : Encoded(e, off, given, kept + 1)
      BY <1>5 DEF WriteInv
  <2>3. s \in Seq(P) /\ Prefix(disk, s)
      BY <1>1, <1>2
  <2> HIDE DEF s, d
  <2>4. /\ e \in Seq(P) /\ Len(e) = Len(s) + Len(d) /\ Prefix(s, e)
        /\ Len(s) \in Nat /\ Len(d) \in Nat
      BY <2>1, <2>3, ConcatFacts, PrefixConcat
  <2>5. Prefix(disk, e)
    <3> HIDE DEF e
    <3> QED BY <1>1, <2>3, <2>4, PrefixTransitive
  <2> HIDE DEF e
  <2>6. Len(disk) < Len(e) \/ d = <<>>
    <3>1. Len(disk) <= Len(s) /\ Len(disk) \in Nat
        BY <1>1, <2>3 DEF Prefix
    <3>2. Len(d) = 0 => d = <<>>
        BY <2>1
    <3> QED BY <2>4, <3>1, <3>2
  <2>7. kept + 1 <= Len(given)
      BY <1>1, <2>1
  <2>8. Len(disk) < Len(e) \/ given[kept + 1].data = <<>>
      BY <2>1, <2>6 DEF d
  <2>9. Left(P, disk, given, kept, FALSE)
      BY <1>1, <2>2, <2>4, <2>5, <2>7, <2>8, LeftInData
  <2> QED BY <1>5, <2>9
<1> QED BY <1>3, <1>4, <1>5

LEMMA FlushWrite ==
    ASSUME NEW P, NEW B, FileTypes(P, B), WriteInv(P), NEW n \in 0..Len(buf), Flush(n)
    PROVE  WriteInv(P)'
<1>1. disk \in Seq(P) /\ buf \in Seq(P)
    BY DEF FileTypes
<1>2. disk' \o buf' = disk \o buf
    BY <1>1, SpillKeeps DEF Flush, Spill
<1>3. UNCHANGED <<hand, given, writer, kept, intact>> /\ writer \in {"open", "data"}
    BY DEF Flush
<1> QED BY <1>2, <1>3 DEF WriteInv

LEMMA CloseWrite ==
    ASSUME NEW P, NEW B, FileTypes(P, B), WriteInv(P),
           Kill \/ Close \/ \E n \in 0..Len(buf) : CloseFails(n)
    PROVE  WriteInv(P)'
<1>1. disk \in Seq(P) /\ buf \in Seq(P) /\ disk \o buf \in Seq(P)
    BY DEF FileTypes
<1>2. CASE Kill
  <2>1. Left(P, disk, given, kept, FALSE)
      BY <1>2, LeftNow DEF Kill
  <2> QED BY <1>2, <2>1 DEF Kill, WriteInv
<1>3. CASE Close
  <2>1. Left(P, disk \o buf, given, kept, intact)
      BY <1>3, LeftNow DEF Close, Closing
  <2>2. Len(buf) \in 0..Len(buf)
      BY <1>1
  <2>3. disk' = disk \o buf
      BY <1>1, <1>3, <2>2, SpillKeeps DEF Close, Spill
  <2> QED BY <1>3, <2>1, <2>3 DEF Close, WriteInv
<1>4. ASSUME NEW n \in 0..Len(buf), CloseFails(n)
      PROVE  WriteInv(P)'
  <2>1. Left(P, disk \o buf, given, kept, intact)
      BY <1>4, LeftNow DEF CloseFails, Closing
  <2>2. disk' \in Seq(P)
      BY <1>1, <1>4, SpillTypes DEF CloseFails, Spill
  <2>3. Prefix(disk', disk \o buf)
      BY <1>1, <1>4, SpillKeeps DEF CloseFails, Spill
  <2>4. Left(P, disk', given, kept, FALSE)
      BY <1>1, <2>1, <2>2, <2>3, LeftShorter
  <2> QED BY <1>4, <2>4 DEF CloseFails, WriteInv
<1> QED BY <1>2, <1>3, <1>4

LEMMA OSErrorWrite ==
    ASSUME NEW P, NEW B, FileTypes(P, B), WriteInv(P),
           NEW n \in 0..Len(Pending), WriteOSError(n)
    PROVE  WriteInv(P)'
<1>1. /\ disk \in Seq(P) /\ buf \in Seq(P) /\ disk \o buf \in Seq(P)
      /\ kept \in Nat
    BY DEF FileTypes
<1>2. /\ UNCHANGED <<given, kept>> /\ writer' = "failed" /\ intact' = FALSE
      /\ disk' = disk \o SubSeq(Pending, 1, n)
      /\ buf' = SubSeq(buf, n + 1, Len(buf))
    BY DEF WriteOSError, SpillPending
<1>3. CASE writer = "open"
  <2>1. Pending = buf
      BY <1>3 DEF Pending
  <2>2. disk' \o buf' = disk \o buf
      BY <1>1, <1>2, <2>1, SpillKeeps
  <2>3. Left(P, disk \o buf, given, kept, intact)
      BY <1>3, LeftNow
  <2>4. Left(P, disk \o buf, given, kept, FALSE)
      BY <1>1, <2>3, LeftShorter, PrefixConcat
  <2> QED BY <1>2, <2>2, <2>4 DEF WriteInv
<1>4. CASE writer = "data"
  <2> DEFINE x == hand[1].data
             e == (disk \o buf) \o x
             f == disk' \o buf'
  <2>1. Len(given) = kept + 1 /\ hand[1] = given[kept + 1] /\ x \in Seq(P)
      BY <1>4 DEF WriteInv, FileTypes, FrameOK
  <2>2. PICK off : Encoded(e, off, given, kept + 1)
      BY <1>4 DEF WriteInv
  <2>3. Pending = buf \o SubSeq(x, 1, Len(x) - 1)
      BY <1>4 DEF Pending
  <2>4. x = <<>> => given[kept + 1].data = <<>>
      BY <2>1
  <2> HIDE DEF x
  <2>5. e \in Seq(P)
      BY <1>1, <2>1
  <2>6. kept + 1 <= Len(given)
      BY <1>1, <2>1
  <2>7. /\ f = (disk \o SubSeq(Pending, 1, n)) \o SubSeq(buf, n + 1, Len(buf))
        /\ e = (disk \o buf) \o x
      BY <1>2
  <2>8. Pending = AllButLast(buf, x) /\ f = Torn(disk, buf, x, n)
      BY <2>3, <2>7 DEF Torn, AllButLast
  <2> HIDE DEF e, f
  <2>9. Prefix(f, e) /\ (Len(f) < Len(e) \/ x = <<>>)
    <3>1. disk \in Seq(P) /\ buf \in Seq(P) /\ x \in Seq(P)
        BY <1>1, <2>1
    <3>2. n \in 0..Len(AllButLast(buf, x))
        BY <2>8
    <3>3. /\ Prefix(Torn(disk, buf, x, n), (disk \o buf) \o x)
          /\ Len(Torn(disk, buf, x, n)) < Len((disk \o buf) \o x) \/ x = <<>>
        BY <3>1, <3>2, TornFrame
    <3> QED BY <2>7, <2>8, <3>3
  <2>10. Left(P, f, given, kept, FALSE)
      BY <1>1, <2>2, <2>4, <2>9, <2>5, <2>6, LeftInData
  <2> QED BY <1>2, <2>10 DEF f, WriteInv
<1> QED BY <1>3, <1>4 DEF WriteOSError

-----------------------------------------------------------------------------
(* Round 2: after n frames the library stands at record n + 1 of the file  *)
(* that the session left, in the coordinates of the complete one.          *)
Replaying(P) ==
    \E e \in Seq(P) : \E off, k :
        /\ LeftBy(src, e, off, k, taken, kept, intact)
        /\ Len(given) <= k
        /\ reader = "reading" /\ Classic => cursor = off[Len(given) + 1]

SameFrames == \A i \in 1..Len(given) : /\ given[i].data = taken[i].data
                                       /\ given[i].time = taken[i].time
                                       /\ i > kept => given[i].data = <<>>

ReplayInv(P) ==
    /\ writer = "none" /\ hand = <<>> /\ src \in Seq(P)
    /\ reader \in {"start", "reading", "eof", "ValueError"}
    /\ reader = "start" => given = <<>>
    /\ Classic \/ given = <<>>
    /\ Replaying(P) /\ SameFrames
    /\ intact => /\ reader # "ValueError"
                 /\ reader = "eof" => Len(given) = kept

(* What the positions c to q - 1 of f say, where those of e are the record *)
(* of frame g.                                                             *)
ReadsAs(f, e, c, q, g) ==
    /\ c >= 3 /\ q = c + 2 + Len(g.data)
    /\ c + 1 <= Len(e) /\ c + 1 + Len(g.data) <= Len(e)
    /\ c + 1 <= Len(f) => f[c] = StampOf(g) /\ f[c + 1] = Length(Len(g.data))
    /\ c + 1 + Len(g.data) <= Len(f) =>
          /\ SubSeq(f, c + 2, c + 1 + Len(g.data)) = g.data
          /\ q = Len(e) + 1 => ~(Len(f) < Len(e))

LEMMA RecordRead ==
    ASSUME NEW P, NEW f \in Seq(P), NEW e \in Seq(P), Prefix(f, e), NEW g, FrameOK(g, P),
           NEW c \in Nat, NEW q \in Nat, RecordAt(e, c, q, g)
    PROVE  ReadsAs(f, e, c, q, g)
<1> DEFINE a == Len(e)
           b == Len(f)
           d == Len(g.data)
<1>1. a \in Nat /\ b \in Nat /\ b <= a /\ \A i \in 1..b : f[i] = e[i]
    BY DEF Prefix
<1>2. d \in Nat
    BY DEF FrameOK
<1>3. c >= 3 /\ q = c + 2 + d /\ q <= a + 1
    BY DEF RecordAt
<1>4. e[c] = StampOf(g) /\ e[c + 1] = Length(d) /\ SubSeq(e, c + 2, q - 1) = g.data
    BY DEF RecordAt
<1> HIDE DEF a, b, d
<1>5. /\ q - 1 = c + 1 + d /\ c + 1 <= a /\ c + 1 + d <= a
      /\ c + 2 \in Nat \ {0} /\ c + 1 + d \in Nat
    BY <1>1, <1>2, <1>3
<1>6. c + 1 <= b => c \in 1..b /\ c + 1 \in 1..b
    BY <1>1, <1>3
<1>7. c + 1 + d <= b /\ q = a + 1 => ~(b < a)
    BY <1>1, <1>2, <1>3
<1>8. c + 1 <= b => f[c] = e[c] /\ f[c + 1] = e[c + 1]
    BY <1>1, <1>6
<1>9. ASSUME c + 1 + d <= b
      PROVE  SubSeq(f, c + 2, c + 1 + d) = g.data
  <2> DEFINE z == c + 1 + d
             y == c + 2
  <2>1. z \in Nat /\ z <= b /\ z <= a /\ y \in Nat \ {0}
      BY <1>5, <1>9
  <2>2. SubSeq(e, y, z) = g.data
      BY <1>4, <1>5
  <2> HIDE DEF z, y
  <2>3. \A i \in 1..z : f[i] = e[i]
      BY <1>1, <2>1
  <2>4. SubSeq(f, y, z) = SubSeq(e, y, z)
      BY <2>1, <2>3, SubSeqAgree DEF a, b
  <2> QED BY <2>2, <2>4 DEF z, y
<1> QED BY <1>3, <1>4, <1>5, <1>7, <1>8, <1>9 DEF a, b, d, ReadsAs

(* The record after n frames is the next frame's, and it is not complete   *)
(* unless write() has accepted that one or it has no bytes.                *)
NextRecord(P, f, e, off, k, fr, kp, n) ==
    /\ k \in Nat /\ off[n + 1] \in Nat /\ k <= Len(fr)
    /\ n = k => off[n + 1] = Len(e) + 1
    /\ n < k => /\ RecordAt(e, off[n + 1], off[n + 2], fr[n + 1])
                /\ off[n + 2] \in Nat /\ FrameOK(fr[n + 1], P)
                /\ n + 1 > kp => /\ off[n + 2] = Len(e) + 1
                                 /\ Len(f) < Len(e) \/ fr[n + 1].data = <<>>

LEMMA RecordOf ==
    ASSUME NEW P, NEW f \in Seq(P), NEW e \in Seq(P), NEW off, NEW k, NEW fr, FrameSeq(fr, P),
           NEW kp \in Nat, NEW whole, LeftBy(f, e, off, k, fr, kp, whole),
           NEW n \in Nat, n <= k
    PROVE  NextRecord(P, f, e, off, k, fr, kp, n)
<1>1. /\ k \in Nat /\ off \in [1..(k + 1) -> Nat] /\ off[k + 1] = Len(e) + 1
      /\ \A i \in 1..k : RecordAt(e, off[i], off[i + 1], fr[i])
      /\ k <= Len(fr)
      /\ k = kp \/ (k = kp + 1 /\ (Len(f) < Len(e) \/ fr[k].data = <<>>))
  <2>1. /\ Encoded(e, off, fr, k) /\ k <= Len(fr)
        /\ k = kp \/ (k = kp + 1 /\ (Len(f) < Len(e) \/ fr[k].data = <<>>))
      BY DEF LeftBy
  <2> QED BY <2>1 DEF Encoded
<1>2. off[n + 1] \in Nat /\ (n = k => off[n + 1] = Len(e) + 1)
    BY <1>1
<1>3. ASSUME n < k
      PROVE  /\ RecordAt(e, off[n + 1], off[n + 2], fr[n + 1])
             /\ off[n + 2] \in Nat /\ FrameOK(fr[n + 1], P)
             /\ n + 1 > kp => /\ off[n + 2] = Len(e) + 1
                              /\ Len(f) < Len(e) \/ fr[n + 1].data = <<>>
  <2>1. n + 1 \in 1..k /\ (n + 1) + 1 = n + 2 /\ n + 2 \in 1..(k + 1)
      BY <1>1, <1>3
  <2>2. RecordAt(e, off[n + 1], off[n + 2], fr[n + 1]) /\ off[n + 2] \in Nat
      BY <1>1, <2>1
  <2>3. FrameOK(fr[n + 1], P)
      BY <1>1, <2>1, FrameSeqFacts
  <2>4. n + 1 > kp => n + 1 = k /\ k # kp /\ n + 2 = k + 1
      BY <1>1, <1>3
  <2> QED BY <1>1, <2>2, <2>3, <2>4
<1> QED BY <1>1, <1>2, <1>3 DEF NextRecord

(* A time goes through the file unchanged.                                 *)
LEMMA TimeKept ==
    ASSUME NEW t \in Nat
    PROVE  (t \div NsPerSec) * NsPerSec + (t % NsPerSec) = t
    BY FileAssumption

TimeOf(y) == y.sec * NsPerSec + y.nsec

LEMMA StampFacts ==
    ASSUME NEW P, NEW f, FrameOK(f, P)
    PROVE  /\ TimeOf(StampOf(f)) = f.time
           /\ StampOf(f).k = "stamp"
<1>1. /\ StampOf(f).sec = f.time \div NsPerSec /\ StampOf(f).nsec = f.time % NsPerSec
      /\ StampOf(f).k = "stamp"
    BY DEF StampOf, Stamp
<1>2. (f.time \div NsPerSec) * NsPerSec + (f.time % NsPerSec) = f.time
    BY TimeKept DEF FrameOK
<1> QED BY <1>1, <1>2 DEF TimeOf

LEMMA LengthFacts == \A n : Length(n).n = n /\ Length(n).k = "len"
    BY DEF Length

LEMMA ReopenReplay ==
    ASSUME NEW P, NEW B, FileTypes(P, B), WriteInv(P), Reopen
    PROVE  ReplayInv(P)'
<1>1. Left(P, disk, given, kept, intact)
    BY DEF Reopen, WriteInv
<1>2. /\ src' = disk /\ taken' = given /\ UNCHANGED <<kept, intact>> /\ given' = <<>>
      /\ reader' = "start" /\ writer' = "none" /\ hand' = <<>>
    BY DEF Reopen
<1>3. PICK e \in Seq(P) : \E off, k : LeftBy(disk, e, off, k, given, kept, intact)
    BY <1>1 DEF Left
<1>4. PICK off, k : LeftBy(disk, e, off, k, given, kept, intact)
    BY <1>3
<1>5. LeftBy(src', e, off, k, taken', kept', intact')
    BY <1>2, <1>4
<1>6. k \in Nat
    BY <1>4 DEF LeftBy, Encoded
<1>7. Len(given') = 0 /\ Len(given') <= k
    BY <1>2, <1>6
<1>8. Replaying(P)'
    BY <1>2, <1>5, <1>7 DEF Replaying
<1>9. SameFrames'
    BY <1>7 DEF SameFrames
<1>10. src' \in Seq(P)
    BY <1>2 DEF FileTypes
<1> QED BY <1>2, <1>8, <1>9, <1>10 DEF ReplayInv

(* A file that is whole is a classic one, of Ethernet.                     *)
LEMMA WholeFile ==
    ASSUME NEW P, ReplayInv(P), intact
    PROVE  Classic /\ src[2].link = ETHERNET
<1>1. PICK e \in Seq(P) : \E off, k : LeftBy(src, e, off, k, taken, kept, intact)
    BY DEF ReplayInv, Replaying
<1>2. PICK off, k : LeftBy(src, e, off, k, taken, kept, intact)
    BY <1>1
<1>3. src = e
    BY <1>2 DEF LeftBy
<1>4. Encoded(e, off, taken, k)
    BY <1>2 DEF LeftBy
<1>5. Len(e) >= 2 /\ e[1] = Magic /\ e[2] = Network(ETHERNET)
    BY <1>4 DEF Encoded
<1>6. Network(ETHERNET).link = ETHERNET
    BY DEF Network
<1> QED BY <1>3, <1>5, <1>6 DEF Classic

LEMMA OpenReplay ==
    ASSUME NEW P, NEW B, TypedPieces(P), ReplayInv(P), OpenClassic \/ OpenOther
    PROVE  ReplayInv(P)'
<1>1. reader = "start" /\ given = <<>> /\ src \in Seq(P)
    BY DEF ReplayInv, OpenClassic, OpenOther
<1>2. UNCHANGED <<src, given, taken, hand, kept, intact, writer>>
    BY DEF OpenClassic, OpenOther, wvars
<1>3. ~Pcapng
  <2>1. src # <<>> => src[1] \in P
      BY <1>1
  <2> QED BY <2>1 DEF TypedPieces, Pcapng
<1>4. Classic' <=> Classic
    BY <1>2 DEF Classic
<1>5. /\ reader' \in {"reading", "ValueError"}
      /\ Classic => cursor' = 3
      /\ intact => reader' # "ValueError"
    BY <1>3, WholeFile DEF OpenClassic, OpenOther
<1>6. Replaying(P)'
  <2>1. PICK e \in Seq(P) : \E off, k :
            LeftBy(src, e, off, k, taken, kept, intact) /\ Len(given) <= k
      BY DEF ReplayInv, Replaying
  <2>2. PICK off, k : LeftBy(src, e, off, k, taken, kept, intact) /\ Len(given) <= k
      BY <2>1
  <2>3. off[1] = 3
      BY <2>2 DEF LeftBy, Encoded
  <2>4. Len(given') + 1 = 1
      BY <1>1, <1>2
  <2>5. Classic => cursor' = off[Len(given') + 1]
      BY <1>5, <2>3, <2>4
  <2>6. LeftBy(src', e, off, k, taken', kept', intact') /\ Len(given') <= k
      BY <1>2, <2>2
  <2> QED BY <1>4, <2>5, <2>6 DEF Replaying
<1>7. SameFrames'
    BY <1>2 DEF ReplayInv, SameFrames
<1>8. Classic' \/ given' = <<>>
    BY <1>1, <1>2
<1> QED BY <1>1, <1>2, <1>5, <1>6, <1>7, <1>8 DEF ReplayInv

LEMMA RecordReplay ==
    ASSUME NEW P, NEW B, FileTypes(P, B), ReplayInv(P), round = 2, ReadRecord
    PROVE  ReplayInv(P)'
<1>1. /\ reader = "reading" /\ RecordHere /\ Classic /\ src \in Seq(P) /\ kept \in Nat
      /\ FrameSeq(taken, P) /\ FrameSeq(given, P)
    BY DEF ReadRecord, RecordHere, ReplayInv, FileTypes
<1>2. /\ UNCHANGED <<src, reader, taken, kept, intact, writer>>
      /\ hand' = <<>> /\ cursor' = RecordEnd + 1
    BY DEF ReadRecord, Give, wvars
<1> DEFINE n == Len(given)
           x == Frame(SubSeq(src, cursor + 2, RecordEnd),
                      src[cursor].sec * NsPerSec + src[cursor].nsec, src[2].link)
<1>3. given' = Append(given, x) /\ n \in Nat
    BY <1>1, FrameSeqFacts DEF ReadRecord, Give
<1>4. PICK e \in Seq(P) : \E off, k :
          /\ LeftBy(src, e, off, k, taken, kept, intact) /\ n <= k
          /\ cursor = off[n + 1]
    BY <1>1 DEF ReplayInv, Replaying
<1>5. PICK off, k : /\ LeftBy(src, e, off, k, taken, kept, intact) /\ n <= k
                    /\ cursor = off[n + 1]
    BY <1>4
<1> DEFINE g == taken[n + 1]
           q == off[n + 2]
           c == off[n + 1]
<1> HIDE DEF n, x
<1>6. /\ k \in Nat /\ c \in Nat
      /\ n = k => c = Len(e) + 1
      /\ n < k => /\ RecordAt(e, c, q, g) /\ q \in Nat /\ FrameOK(g, P)
                  /\ n + 1 > kept => q = Len(e) + 1 /\ (Len(src) < Len(e) \/ g.data = <<>>)
  <2>1. /\ src \in Seq(P) /\ e \in Seq(P) /\ FrameSeq(taken, P) /\ kept \in Nat
        /\ LeftBy(src, e, off, k, taken, kept, intact) /\ n \in Nat /\ n <= k
      BY <1>1, <1>3, <1>5
  <2>2. NextRecord(P, src, e, off, k, taken, kept, n)
      BY <2>1, RecordOf
  <2> QED BY <2>2 DEF NextRecord
<1>7. Prefix(src, e)
    BY <1>5 DEF LeftBy
<1> HIDE DEF g, q, c
<1>8. cursor = c
    BY <1>5 DEF c
<1>9. c + 1 <= Len(src) /\ RecordEnd <= Len(src)
    BY <1>1, <1>8 DEF RecordHere
<1>10. n < k
  <2>1. Len(src) <= Len(e) /\ Len(src) \in Nat /\ Len(e) \in Nat
      BY <1>1, <1>7 DEF Prefix
  <2> QED BY <1>3, <1>5, <1>6, <1>9, <2>1
<1>11. /\ q = c + 2 + Len(g.data)
       /\ src[c] = StampOf(g) /\ src[c + 1] = Length(Len(g.data))
       /\ c + 1 + Len(g.data) <= Len(src) =>
             /\ SubSeq(src, c + 2, c + 1 + Len(g.data)) = g.data
             /\ q = Len(e) + 1 => ~(Len(src) < Len(e))
  <2>1. /\ src \in Seq(P) /\ e \in Seq(P) /\ Prefix(src, e) /\ FrameOK(g, P)
        /\ c \in Nat /\ q \in Nat /\ RecordAt(e, c, q, g)
      BY <1>1, <1>6, <1>7, <1>10
  <2>2. ReadsAs(src, e, c, q, g)
      BY <2>1, RecordRead
  <2> QED BY <1>9, <2>2 DEF ReadsAs
<1>12. FrameOK(g, P) /\ Len(g.data) \in Nat /\ g.time \in Nat
    BY <1>6, <1>10 DEF FrameOK
<1>13. RecordEnd = c + 1 + Len(g.data) /\ RecordEnd + 1 = q
  <2>1. src[cursor + 1].n = Len(g.data)
      BY <1>8, <1>11, LengthFacts
  <2>2. RecordEnd = c + 1 + Len(g.data)
      BY <1>8, <2>1 DEF RecordEnd
  <2>3. q = c + 2 + Len(g.data) /\ c \in Nat /\ Len(g.data) \in Nat
      BY <1>6, <1>11, <1>12
  <2> DEFINE d == Len(g.data)
             r == RecordEnd
  <2>4. r = c + 1 + d /\ q = c + 2 + d /\ c \in Nat /\ d \in Nat
      BY <2>2, <2>3
  <2> HIDE DEF d, r
  <2>5. r + 1 = q
      BY <2>4
  <2> QED BY <2>2, <2>5 DEF r
<1>14. SubSeq(src, cursor + 2, RecordEnd) = g.data
    BY <1>8, <1>9, <1>11, <1>13
<1>15. src[cursor].sec * NsPerSec + src[cursor].nsec = g.time
  <2>1. src[cursor] = StampOf(g)
      BY <1>8, <1>11
  <2>2. TimeOf(StampOf(g)) = g.time
      BY <1>12, StampFacts
  <2>3. TimeOf(src[cursor]) = g.time
      BY <2>1, <2>2
  <2> QED BY <2>3 DEF TimeOf
<1>16. x.data = g.data /\ x.time = g.time /\ x.link = src[2].link
  <2>1. x = Frame(g.data, g.time, src[2].link)
      BY <1>14, <1>15 DEF x
  <2> QED BY <2>1, FrameFacts
<1>17. n + 1 > kept => g.data = <<>>
    BY <1>6, <1>9, <1>10, <1>11, <1>13
<1>18. /\ Len(given') = n + 1 /\ given'[n + 1] = x
       /\ \A i \in 1..n : given'[i] = given[i]
  <2> DEFINE a == Append(given, x)
  <2>1. a = given'
      BY <1>3
  <2>2. PICK F : given \in Seq(F)
      BY <1>1 DEF FrameSeq
  <2>3. given \in Seq(F \cup {x}) /\ x \in F \cup {x}
      BY <2>2
  <2> DEFINE G == F \cup {x}
  <2>4. given \in Seq(G) /\ x \in G
      BY <2>3
  <2> HIDE DEF G
  <2>5. /\ Len(a) = Len(given) + 1 /\ a[Len(given) + 1] = x
        /\ \A i \in 1..Len(given) : a[i] = given[i]
      BY <2>4, AppendProperties
  <2> QED BY <2>1, <2>5 DEF n
<1>19. SameFrames'
  <2>1. ASSUME NEW i \in 1..Len(given')
        PROVE  /\ given'[i].data = taken'[i].data /\ given'[i].time = taken'[i].time
               /\ i > kept' => given'[i].data = <<>>
    <3>1. i \in 1..n \/ i = n + 1
        BY <1>3, <1>18
    <3>2. CASE i \in 1..n
      <4>1. /\ given[i].data = taken[i].data /\ given[i].time = taken[i].time
            /\ i > kept => given[i].data = <<>>
          BY <3>2 DEF ReplayInv, SameFrames, n
      <4>2. given'[i] = given[i]
          BY <1>18, <3>2
      <4> QED BY <1>2, <4>1, <4>2
    <3>3. CASE i = n + 1
      <4>1. given'[i] = x /\ taken'[i] = g
          BY <1>2, <1>18, <3>3 DEF g
      <4> QED BY <1>2, <1>16, <1>17, <3>3, <4>1
    <3> QED BY <3>1, <3>2, <3>3
  <2> QED BY <2>1 DEF SameFrames
<1>20. Replaying(P)'
  <2>1. Len(given') <= k /\ Len(given') + 1 = n + 2
      BY <1>3, <1>6, <1>10, <1>18
  <2>2. cursor' = off[Len(given') + 1]
      BY <1>2, <1>13, <2>1 DEF q
  <2>3. LeftBy(src', e, off, k, taken', kept', intact')
      BY <1>2, <1>5
  <2> QED BY <2>1, <2>2, <2>3 DEF Replaying
<1>21. Classic'
    BY <1>1, <1>2 DEF Classic
<1> QED BY <1>1, <1>2, <1>19, <1>20, <1>21 DEF ReplayInv

LEMMA EndReplay ==
    ASSUME NEW P, NEW B, FileTypes(P, B), ReplayInv(P), round = 2, EndSource
    PROVE  ReplayInv(P)'
<1>1. /\ reader = "reading" /\ ~RecordHere
      /\ reader' = IF (Classic \/ Pcapng) /\ cursor = Len(src) + 1
                   THEN "eof" ELSE "ValueError"
    BY DEF EndSource, ReplayInv
<1>2. UNCHANGED <<src, cursor, given, taken, hand, kept, intact, writer>>
    BY DEF EndSource, wvars
<1>3. SameFrames' /\ (Classic' <=> Classic) /\ reader' \in {"eof", "ValueError"}
    BY <1>1, <1>2 DEF ReplayInv, SameFrames, Classic
<1>4. Replaying(P)'
  <2>1. PICK e \in Seq(P) : \E off, k :
            LeftBy(src, e, off, k, taken, kept, intact) /\ Len(given) <= k
      BY DEF ReplayInv, Replaying
  <2> QED BY <1>2, <1>3, <2>1 DEF Replaying
<1>5. ASSUME intact PROVE cursor = Len(src) + 1 /\ Classic /\ Len(given) = kept
  <2>1. Classic
      BY <1>5, WholeFile
  <2> DEFINE n == Len(given)
  <2>2. PICK e \in Seq(P) : \E off, k :
            LeftBy(src, e, off, k, taken, kept, intact) /\ n <= k /\ cursor = off[n + 1]
      BY <1>1, <2>1 DEF ReplayInv, Replaying
  <2>3. PICK off, k :
            LeftBy(src, e, off, k, taken, kept, intact) /\ n <= k /\ cursor = off[n + 1]
      BY <2>2
  <2>4. src = e /\ k = kept /\ Prefix(src, e)
      BY <1>5, <2>3 DEF LeftBy
  <2>5. /\ src \in Seq(P) /\ FrameSeq(taken, P) /\ kept \in Nat /\ n \in Nat
      BY FrameSeqFacts DEF ReplayInv, FileTypes
  <2> HIDE DEF n
  <2> DEFINE g == taken[n + 1]
             q == off[n + 2]
             c == off[n + 1]
  <2>6. /\ k \in Nat /\ c \in Nat
        /\ n = k => c = Len(e) + 1
        /\ n < k => RecordAt(e, c, q, g) /\ q \in Nat /\ FrameOK(g, P)
    <3>1. /\ src \in Seq(P) /\ e \in Seq(P) /\ FrameSeq(taken, P) /\ kept \in Nat
          /\ LeftBy(src, e, off, k, taken, kept, intact) /\ n \in Nat /\ n <= k
        BY <2>3, <2>5
    <3>2. NextRecord(P, src, e, off, k, taken, kept, n)
        BY <3>1, RecordOf
    <3> QED BY <3>2 DEF NextRecord
  <2>7. cursor = c
      BY <2>3
  <2> HIDE DEF g, q, c
  <2>8. ASSUME n < k PROVE FALSE
    <3>1. /\ c + 1 <= Len(src) /\ c + 1 + Len(g.data) <= Len(src)
          /\ src[c] = StampOf(g) /\ src[c + 1] = Length(Len(g.data))
      <4>1. /\ e \in Seq(P) /\ Prefix(e, e) /\ FrameOK(g, P)
            /\ c \in Nat /\ q \in Nat /\ RecordAt(e, c, q, g)
          BY <2>4, <2>6, <2>8
      <4>2. ReadsAs(e, e, c, q, g)
          BY <4>1, RecordRead
      <4> QED BY <2>4, <4>2 DEF ReadsAs
    <3>2. /\ src[c].k = "stamp" /\ src[c + 1].k = "len" /\ src[c + 1].n = Len(g.data)
      <4>1. StampOf(g).k = "stamp"
          BY <2>6, <2>8, StampFacts
      <4> QED BY <3>1, <4>1, LengthFacts
    <3>3. RecordEnd = c + 1 + Len(g.data)
        BY <2>7, <3>2 DEF RecordEnd
    <3>4. RecordHere
        BY <2>1, <2>7, <3>1, <3>2, <3>3 DEF RecordHere
    <3> QED BY <1>1, <3>4
  <2>9. n = k
      BY <2>3, <2>5, <2>6, <2>8
  <2> QED BY <2>1, <2>4, <2>6, <2>7, <2>9 DEF n
<1>6. intact => reader' = "eof" /\ Len(given) = kept
    BY <1>1, <1>5
<1> QED BY <1>2, <1>3, <1>4, <1>6 DEF ReplayInv

-----------------------------------------------------------------------------
(* Both rounds.                                                            *)
FileInv(P, B) == /\ ReadInv(P, B)
                 /\ round = 1 => WriteInv(P)
                 /\ round = 2 => ReplayInv(P)

LEMMA ReplayUnchanged ==
    ASSUME NEW P, ReplayInv(P),
           UNCHANGED <<src, reader, cursor, hand, given, taken, writer, kept, intact>>
    PROVE  ReplayInv(P)'
<1>1. Classic' <=> Classic
    BY DEF Classic
<1>2. Replaying(P)' /\ SameFrames'
    BY <1>1 DEF ReplayInv, Replaying, SameFrames
<1> QED BY <1>1, <1>2 DEF ReplayInv

(* Whatever comes next from the source is a frame.                         *)
LEMMA GivenFrame ==
    ASSUME NEW P, NEW B, FileTypes(P, B), FileTypes(P, B)', NEW f, Give(f), round = 1
    PROVE  FrameOK(f, P)
<1>1. hand' = <<f>>
    BY DEF Give
<1>2. hand' # <<>> /\ hand'[1] = f
    BY <1>1
<1> QED BY <1>2 DEF FileTypes

LEMMA FirstRound ==
    ASSUME NEW P, NEW B, TypedInputs(P, B), FileTypes(P, B), FileTypes(P, B)',
           WriteInv(P), round = 1, Source \/ Writing
    PROVE  WriteInv(P)'
<1>1. TypedPieces(P)
    BY DEF TypedInputs
<1>2. ASSUME NEW f, Idle, Give(f), UNCHANGED wvars PROVE WriteInv(P)'
  <2>1. FrameOK(f, P)
      BY <1>2, GivenFrame
  <2> QED BY <1>2, <2>1, GiveWrite
<1>3. CASE Source
  <2>1. CASE \E f \in LiveFrames : Receive(f)
      BY <1>2, <2>1 DEF Receive
  <2>2. CASE ReadRecord
      BY <1>2, <2>2 DEF ReadRecord
  <2>3. CASE ReadPacket
      BY <1>2, <2>3 DEF ReadPacket
  <2>4. CASE OpenClassic \/ OpenOther \/ ScanBlock \/ ScanEnds \/ ReadBlock \/ EndSource
    <3>1. UNCHANGED <<hand, given, wvars>>
        BY <2>4 DEF OpenClassic, OpenOther, ScanBlock, ScanTo, ScanEnds, ReadBlock, EndSource
    <3> QED BY <3>1, WriteUnchanged
  <2> QED BY <1>3, <2>1, <2>2, <2>3, <2>4 DEF Source
<1>4. CASE Writing
    BY <1>1, <1>4, WriteHeaderWrite, WriteDataWrite, StructErrorWrite, FlushWrite,
       CloseWrite, OSErrorWrite
    DEF Writing
<1> QED BY <1>3, <1>4

LEMMA SecondRound ==
    ASSUME NEW P, NEW B, TypedInputs(P, B), FileTypes(P, B), ReplayInv(P), round = 2,
           Source \/ Writing
    PROVE  ReplayInv(P)'
<1>1. /\ writer = "none" /\ hand = <<>> /\ src \in Seq(P)
      /\ reader \in {"start", "reading", "eof", "ValueError"}
    BY DEF ReplayInv
<1>2. ~Writing
    BY <1>1 DEF Writing, WriteHeader, WriteData, StructError, Close, Kill, Flush,
                CloseFails, WriteOSError, Closing
<1>3. TypedPieces(P)
    BY DEF TypedInputs
<1>4. ~Pcapng
  <2>1. src # <<>> => src[1] \in P
      BY <1>1
  <2> QED BY <1>3, <2>1 DEF TypedPieces, Pcapng
<1>5. CASE OpenClassic \/ OpenOther
    BY <1>3, <1>5, OpenReplay
<1>6. CASE ReadRecord
    BY <1>6, RecordReplay
<1>7. CASE EndSource
    BY <1>7, EndReplay
<1>8. ~(\E f \in LiveFrames : Receive(f)) /\ ~ScanBlock /\ ~ScanEnds
    BY <1>1 DEF Receive, ScanBlock, ScanTo, ScanEnds
<1>9. ~ReadBlock /\ ~ReadPacket
    BY <1>4 DEF ReadBlock, ReadPacket, ValidBlock
<1> QED BY <1>2, <1>5, <1>6, <1>7, <1>8, <1>9 DEF Source

LEMMA NextFile ==
    ASSUME NEW P, NEW B, TypedInputs(P, B), FileInv(P, B), [Next]_vars
    PROVE  FileInv(P, B)'
<1>1. ReadInv(P, B)' /\ ReadInv(P, B)
    BY NextRead DEF FileInv
<1>2. FileTypes(P, B) /\ FileTypes(P, B)' /\ round \in {1, 2}
    BY <1>1 DEF ReadInv, FileTypes
<1>3. CASE UNCHANGED vars
  <2>1. round = 1 => WriteInv(P)'
      BY <1>3, WriteUnchanged DEF FileInv, vars
  <2>2. round = 2 => ReplayInv(P)'
      BY <1>3, ReplayUnchanged DEF FileInv, vars, rvars, wvars
  <2> QED BY <1>1, <1>3, <2>1, <2>2 DEF FileInv, vars
<1>4. CASE Source \/ Writing
  <2>1. round' = round
      BY <1>4 DEF Source, Writing, Receive, OpenClassic, OpenOther, ScanBlock, ScanTo,
                  ScanEnds, ReadRecord, ReadBlock, ReadPacket, EndSource, WriteHeader,
                  WriteData, StructError, Close, Kill, Flush, CloseFails, WriteOSError
  <2>2. round = 1 => WriteInv(P)'
      BY <1>2, <1>4, FirstRound DEF FileInv
  <2>3. round = 2 => ReplayInv(P)'
      BY <1>2, <1>4, SecondRound DEF FileInv
  <2> QED BY <1>1, <2>1, <2>2, <2>3 DEF FileInv
<1>5. CASE Reopen
  <2>1. round = 1 /\ round' = 2
      BY <1>5 DEF Reopen
  <2>2. ReplayInv(P)'
      BY <1>2, <1>5, <2>1, ReopenReplay DEF FileInv
  <2> QED BY <1>1, <2>1, <2>2 DEF FileInv
<1> QED BY <1>3, <1>4, <1>5 DEF Next, Over

LEMMA AlwaysFile == Spec => []FileInv(FilePieces, FileBlocks)
<1> DEFINE P == FilePieces
           B == FileBlocks
<1>1. Init => FileInv(P, B)
  <2>1. Init => ReadInv(P, B) /\ WriteInv(P) /\ round = 1
      BY InputsTyped, InitRead, InitWrite DEF TypedInputs, Init
  <2> QED BY <2>1 DEF FileInv
<1>2. FileInv(P, B) /\ [Next]_vars => FileInv(P, B)'
    BY InputsTyped, NextFile
<1> QED BY <1>1, <1>2, PTL DEF Spec

(* The file of a session that was stopped, failed or was killed at any     *)
(* point, with any buffering, gives back the frames PcapWriter.write took, *)
(* with their times, in order and with none missing between; beyond those  *)
(* it accepted, at most one that has no bytes.                             *)
THEOREM FileFaithful == Spec => []ReplayFaithful
<1> DEFINE P == FilePieces
           B == FileBlocks
<1>1. FileInv(P, B) => ReplayFaithful
  <2> SUFFICES ASSUME FileInv(P, B), round = 2 PROVE ReplayFaithful
      BY DEF ReplayFaithful
  <2>1. ReplayInv(P) /\ FrameSeq(given, P) /\ FrameSeq(taken, P)
      BY DEF FileInv, ReadInv, FileTypes
  <2>2. Len(given) <= Len(taken)
    <3>1. PICK e \in Seq(P) : \E off, k :
              LeftBy(src, e, off, k, taken, kept, intact) /\ Len(given) <= k
        BY <2>1 DEF ReplayInv, Replaying
    <3>2. PICK off, k : LeftBy(src, e, off, k, taken, kept, intact) /\ Len(given) <= k
        BY <3>1
    <3>3. k <= Len(taken)
        BY <3>2 DEF LeftBy
    <3>4. k \in Nat
        BY <3>2 DEF LeftBy, Encoded
    <3>5. Len(given) \in Nat /\ Len(taken) \in Nat
        BY <2>1, FrameSeqFacts
    <3> QED BY <3>2, <3>3, <3>4, <3>5
  <2> QED BY <2>1, <2>2 DEF ReplayInv, SameFrames, ReplayFaithful
<1> QED BY <1>1, AlwaysFile, PTL

(* When no write failed and PcapWriter.close returned, the file replays to *)
(* its end, with every frame that write() accepted.                        *)
THEOREM ClosedFileComplete == Spec => []CompleteWhenClosed
<1> DEFINE P == FilePieces
           B == FileBlocks
<1>1. FileInv(P, B) => CompleteWhenClosed
    BY DEF FileInv, ReplayInv, CompleteWhenClosed
<1> QED BY <1>1, AlwaysFile, PTL

-----------------------------------------------------------------------------
(* A well-formed pcapng file, read from its first block to its last.       *)

LEMMA CountNext ==
    ASSUME NEW f, NEW t, NEW m \in Nat, NEW n \in Nat, m <= n + 1
    PROVE  /\ Count(f, m, n, t) \in Nat
           /\ f[n + 1].type = t => Count(f, m, n + 1, t) = Count(f, m, n, t) + 1
           /\ f[n + 1].type # t => Count(f, m, n + 1, t) = Count(f, m, n, t)
<1> DEFINE S == {i \in m..n : f[i].type = t}
           T == {i \in m..(n + 1) : f[i].type = t}
<1>1. IsFiniteSet(m..n)
    BY FS_Interval
<1>2. IsFiniteSet(S)
    BY <1>1, FS_Subset
<1>3. Cardinality(S) \in Nat
    BY <1>2, FS_CardinalityType
<1>4. m..(n + 1) = (m..n) \cup {n + 1} /\ n + 1 \notin m..n
    OBVIOUS
<1>5. f[n + 1].type = t => T = S \cup {n + 1} /\ n + 1 \notin S
    BY <1>4
<1>6. f[n + 1].type # t => T = S
    BY <1>4
<1>7. n + 1 \notin S => Cardinality(S \cup {n + 1}) = Cardinality(S) + 1
    BY <1>2, FS_AddElement
<1> QED BY <1>3, <1>5, <1>6, <1>7 DEF Count

LEMMA CountNone ==
    ASSUME NEW f, NEW t, NEW m \in Nat, NEW n \in Int, n < m
    PROVE  Count(f, m, n, t) = 0
<1>1. {i \in m..n : f[i].type = t} = {}
    OBVIOUS
<1> QED BY <1>1, FS_EmptySet DEF Count

(* What the definition of a well-formed file says of block c.              *)
LEMMA WellFormedBlock ==
    ASSUME NEW f, NEW B, f \in Seq(B), WellFormed(f), NEW c \in 1..Len(f), NEW m,
           LastSection(f, c, m)
    PROVE  /\ f[c].size = "ok" /\ f[c].order = f[m].order /\ f[m].body = "BOM"
           /\ f[c].type = "EPB" => f[c].body.iface \in 1..Count(f, m, c, "IDB")
<1>1. m \in 1..Len(f) /\ f[m].type = "SHB" /\ InSection(f, m, c)
    BY DEF LastSection, InSection
<1>2. f[c].size = "ok"
    BY DEF WellFormed
<1>3. /\ f[m].body = "BOM" /\ f[c].order = f[m].order
      /\ f[c].type = "EPB" => f[c].body.iface \in 1..Count(f, m, c, "IDB")
    BY <1>1 DEF WellFormed
<1> QED BY <1>2, <1>3

(* The scan can read every block of it.                                    *)
LEMMA WellFormedReadable ==
    ASSUME NEW f, NEW B, f \in Seq(B), WellFormed(f), NEW c \in 1..Len(f), NEW o,
           OrderAfter(f, c - 1, o)
    PROVE  Readable(f, c, o)
<1>1. c \in Nat \ {0} /\ c <= Len(f)
    OBVIOUS
<1>2. CASE f[c].type = "SHB"
  <2>1. LastSection(f, c, c)
      BY <1>1, <1>2, LastSectionNext
  <2>2. f[c].size = "ok" /\ f[c].body = "BOM"
      BY <2>1, WellFormedBlock
  <2> QED BY <1>1, <1>2, <2>2 DEF Readable, OrderAt
<1>3. CASE f[c].type # "SHB"
  <2>1. c - 1 # 0
    <3>1. f[1].type = "SHB"
        BY DEF WellFormed
    <3> QED BY <1>1, <1>3, <3>1
  <2>2. PICK m \in 1..(c - 1) : /\ LastSection(f, c - 1, m)
                                /\ f[m].body = "BOM" => o = f[m].order
      BY <2>1 DEF OrderAfter
  <2>3. LastSection(f, c, m)
      BY <1>1, <1>3, <2>2, LastSectionNext
  <2>4. f[c].size = "ok" /\ f[c].order = f[m].order /\ f[m].body = "BOM"
      BY <2>3, WellFormedBlock
  <2> QED BY <1>1, <1>3, <2>2, <2>4 DEF Readable, OrderAt
<1> QED BY <1>2, <1>3

(* One of the interfaces is not Ethernet.                                  *)
OtherLink(f) == \E i \in 1..Len(f) : f[i].type = "IDB" /\ f[i].body # ETHERNET

(* So a scan that has ended has seen them all.                             *)
LEMMA ScanSeesAll ==
    ASSUME NEW f, NEW B, f \in Seq(B), WellFormed(f), NEW c, NEW o, Walk(f, c, o)
    PROVE  ~OtherLink(f)
<1>1. PICK stop \in Nat \ {0} :
        Scanned(f, stop) /\ OrderAfter(f, stop - 1, o) /\ ~Readable(f, stop, o)
    BY DEF Walk
<1>2. stop \notin 1..Len(f)
    BY <1>1, WellFormedReadable
<1>3. \A i \in 1..Len(f) : i \in 1..(stop - 1)
  <2>1. Len(f) \in Nat
      OBVIOUS
  <2> QED BY <1>2, <2>1
<1>4. \A i \in 1..Len(f) : f[i].size = "ok"
    BY DEF WellFormed
<1> QED BY <1>1, <1>3, <1>4 DEF Scanned, OtherLink

(* What has been read of it.                                               *)
ReadSoFar ==
    /\ cursor <= Len(src) + 1
    /\ Len(given) = Count(src, 1, cursor - 1, "EPB")
    /\ cursor # 1 => \E m : /\ LastSection(src, cursor - 1, m)
                            /\ Len(links) = Count(src, m, cursor - 1, "IDB")

FormInv ==
    /\ reader = "live" => src = <<>>
    /\ round = 1 /\ WellFormed(src) =>
          /\ OtherLink(src) => /\ reader \in {"start", "scanning", "ValueError"}
                               /\ given = <<>>
          /\ ~OtherLink(src) =>
                /\ reader \in {"start", "scanning", "reading", "stopped", "eof"}
                /\ reader \in {"start", "scanning"} => given = <<>>
                /\ reader = "reading" => ReadSoFar
                /\ reader = "eof" => Len(given) = Count(src, 1, Len(src), "EPB")

(* The library accepts every block of it.                                  *)
LEMMA BlockAccepted ==
    ASSUME NEW P, NEW B, FileTypes(P, B), ReaderInv, WellFormed(src), src \in Seq(B),
           Pcapng, ReadSoFar, cursor <= Len(src)
    PROVE  /\ ValidBlock
           /\ \E m : /\ LastSection(src, cursor, m)
                     /\ src[cursor].type = "SHB" => m = cursor
                     /\ src[cursor].type # "SHB" =>
                           /\ m <= cursor - 1
                           /\ Len(links) = Count(src, m, cursor - 1, "IDB")
<1>1. cursor \in Nat \ {0} /\ cursor \in 1..Len(src) /\ Len(links) \in Nat
    BY DEF ReaderInv
<1>2. PICK m : /\ LastSection(src, cursor, m)
               /\ src[cursor].type = "SHB" => m = cursor
               /\ src[cursor].type # "SHB" =>
                     m <= cursor - 1 /\ Len(links) = Count(src, m, cursor - 1, "IDB")
  <2>1. CASE src[cursor].type = "SHB"
      BY <1>1, <2>1, LastSectionNext
  <2>2. CASE src[cursor].type # "SHB"
    <3>1. cursor # 1
        BY <2>2 DEF WellFormed
    <3>2. PICK m : /\ LastSection(src, cursor - 1, m)
                   /\ Len(links) = Count(src, m, cursor - 1, "IDB")
        BY <3>1 DEF ReadSoFar
    <3>3. LastSection(src, cursor, m) /\ m <= cursor - 1
        BY <1>1, <2>2, <3>2, LastSectionNext DEF LastSection
    <3> QED BY <2>2, <3>2, <3>3
  <2> QED BY <2>1, <2>2
<1>3. SectionOf(cursor) = m
    BY <1>1, <1>2, SectionOfIs
<1>4. /\ src[cursor].size = "ok" /\ src[cursor].order = src[m].order /\ src[m].body = "BOM"
      /\ src[cursor].type = "EPB" => src[cursor].body.iface \in 1..Count(src, m, cursor, "IDB")
    BY <1>1, <1>2, WellFormedBlock
<1>5. ASSUME src[cursor].type = "EPB" PROVE src[cursor].body.iface <= Len(links)
  <2> DEFINE n == cursor - 1
  <2>1. n \in Nat /\ n + 1 = cursor /\ m \in Nat /\ m <= n + 1
      BY <1>1, <1>2 DEF LastSection
  <2> HIDE DEF n
  <2>2. src[n + 1].type # "IDB" => Count(src, m, n + 1, "IDB") = Count(src, m, n, "IDB")
      BY <2>1, CountNext
  <2>3. Count(src, m, cursor, "IDB") = Len(links)
      BY <1>2, <1>5, <2>1, <2>2 DEF n
  <2> QED BY <1>1, <1>4, <1>5, <2>3
<1>6. ValidBlock
    BY <1>1, <1>2, <1>3, <1>4, <1>5 DEF ValidBlock
<1> QED BY <1>2, <1>6

LEMMA FormUnchanged ==
    ASSUME FormInv, UNCHANGED <<round, src, reader, cursor, links, given>>
    PROVE  FormInv'
<1>1. ReadSoFar' <=> ReadSoFar
    BY DEF ReadSoFar
<1> QED BY <1>1 DEF FormInv

(* In round 1, a well-formed file is a pcapng file.                        *)
LEMMA WellFormedIs ==
    ASSUME NEW P, NEW B, TypedInputs(P, B), FileTypes(P, B), WellFormed(src)
    PROVE  Pcapng /\ ~Classic /\ src \in Seq(B) /\ src # <<>> /\ Len(src) \in Nat
<1>1. Pcapng
  <2>1. src # <<>> /\ Len(src) # 0 /\ Len(src) \in Nat
      BY DEF WellFormed, FileTypes
  <2>2. src[1].k = "block" /\ src[1].type = "SHB"
      BY <2>1 DEF WellFormed
  <2> QED BY <2>1, <2>2 DEF Pcapng
<1>2. ~Classic /\ src \in Seq(B)
    BY <1>1, KindOfFile DEF FileTypes
<1> QED BY <1>1, <1>2 DEF WellFormed

LEMMA ScanForm ==
    ASSUME NEW P, NEW B, TypedInputs(P, B), ReadInv(P, B), ReadInv(P, B)', FormInv,
           ScanBlock \/ ScanEnds
    PROVE  FormInv'
<1>1. /\ reader = "scanning" /\ reader' # "live"
      /\ UNCHANGED <<round, src, given>>
    BY DEF ScanBlock, ScanTo, ScanEnds
<1>2. SUFFICES ASSUME round = 1, WellFormed(src)
               PROVE  FormInv'
    BY <1>1 DEF FormInv
<1>3. Pcapng /\ src \in Seq(B) /\ Len(src) \in Nat
    BY <1>2, WellFormedIs DEF ReadInv
<1>4. given = <<>> /\ cursor \in Nat \ {0}
    BY <1>1, <1>2 DEF FormInv, ReadInv, ReaderInv
<1>5. CASE ScanBlock
  <2>1. /\ reader' \in {"scanning", "ValueError"}
        /\ reader' = "ValueError" => src[cursor].type = "IDB" /\ src[cursor].body # ETHERNET
        /\ cursor <= Len(src)
      BY <1>5 DEF ScanBlock, ScanTo, BlockReadable, AtBlock
  <2>2. reader' = "ValueError" => OtherLink(src)
      BY <1>3, <1>4, <2>1 DEF OtherLink
  <2> QED BY <1>1, <1>4, <2>1, <2>2 DEF FormInv
<1>6. CASE ScanEnds
  <2>1. reader' = "reading" /\ cursor' = 1 /\ endian' = endian
      BY <1>6 DEF ScanEnds
  <2>2. Pcapng'
      BY <1>1, <1>3 DEF Pcapng
  <2>3. Walk(src, 1, endian)
      BY <1>1, <2>1, <2>2 DEF ReadInv, ReaderInv
  <2>4. ~OtherLink(src)
      BY <1>2, <1>3, <2>3, ScanSeesAll
  <2>5. Count(src, 1, 0, "EPB") = 0
      BY CountNone
  <2>6. ReadSoFar'
      BY <1>1, <1>3, <1>4, <2>1, <2>5 DEF ReadSoFar
  <2> QED BY <1>1, <1>4, <2>1, <2>4, <2>6 DEF FormInv
<1> QED BY <1>5, <1>6

LEMMA BlockForm ==
    ASSUME NEW P, NEW B, TypedInputs(P, B), ReadInv(P, B), FormInv,
           ReadBlock \/ ReadPacket
    PROVE  FormInv'
<1>1. /\ reader = "reading" /\ UNCHANGED <<round, src, reader>>
      /\ cursor' = cursor + 1 /\ ValidBlock
    BY DEF ReadBlock, ReadPacket
<1>2. SUFFICES ASSUME round = 1, WellFormed(src)
               PROVE  FormInv'
    BY <1>1 DEF FormInv
<1>3. Pcapng /\ src \in Seq(B) /\ Len(src) \in Nat
    BY <1>2, WellFormedIs DEF ReadInv
<1>4. ~OtherLink(src) /\ ReadSoFar
    BY <1>1, <1>2 DEF FormInv
<1>5. cursor \in Nat \ {0} /\ cursor <= Len(src) /\ links \in Seq(Ethernets)
    BY <1>1 DEF ReadInv, ReaderInv, ValidBlock
<1>6. PICK m : /\ LastSection(src, cursor, m)
               /\ src[cursor].type = "SHB" => m = cursor
               /\ src[cursor].type # "SHB" =>
                     m <= cursor - 1 /\ Len(links) = Count(src, m, cursor - 1, "IDB")
    BY <1>2, <1>3, <1>4, <1>5, BlockAccepted DEF ReadInv
<1> DEFINE n == cursor - 1
<1>7. n \in Nat /\ n + 1 = cursor /\ cursor' - 1 = n + 1 /\ cursor' # 1
    BY <1>1, <1>5
<1>8. m \in Nat /\ m <= n + 1
    BY <1>5, <1>6 DEF LastSection
<1> HIDE DEF n
<1>9. /\ Count(src, 1, n, "EPB") \in Nat
      /\ src[n + 1].type = "EPB" => Count(src, 1, n + 1, "EPB") = Count(src, 1, n, "EPB") + 1
      /\ src[n + 1].type # "EPB" => Count(src, 1, n + 1, "EPB") = Count(src, 1, n, "EPB")
  <2>1. 1 \in Nat /\ 1 <= n + 1
      BY <1>7
  <2> QED BY <1>7, <2>1, CountNext
<1>10. /\ src[n + 1].type = "IDB" => Count(src, m, n + 1, "IDB") = Count(src, m, n, "IDB") + 1
       /\ src[n + 1].type # "IDB" => Count(src, m, n + 1, "IDB") = Count(src, m, n, "IDB")
    BY <1>7, <1>8, CountNext
<1>11. Len(given') = Count(src, 1, n + 1, "EPB")
  <2>1. Len(given) = Count(src, 1, n, "EPB")
      BY <1>4 DEF ReadSoFar, n
  <2>2. CASE ReadBlock
      BY <1>7, <1>9, <2>1, <2>2 DEF ReadBlock
  <2>3. CASE ReadPacket
    <3>1. src[n + 1].type = "EPB"
        BY <1>7, <2>3 DEF ReadPacket
    <3>2. PICK x : given' = Append(given, x)
        BY <2>3 DEF ReadPacket, Give
    <3>3. Len(given') = Len(given) + 1
      <4>1. PICK F : given \in Seq(F)
          BY DEF ReadInv, FileTypes, FrameSeq
      <4> DEFINE G == F \cup {x}
      <4>2. given \in Seq(G) /\ x \in G
          BY <4>1
      <4> HIDE DEF G
      <4> QED BY <3>2, <4>2, AppendProperties
    <3> QED BY <1>9, <2>1, <3>1, <3>3
  <2> QED BY <2>2, <2>3
<1>12. Len(links') = Count(src, m, n + 1, "IDB")
  <2>1. CASE src[cursor].type = "SHB"
    <3>1. Count(src, m, n, "IDB") = 0
      <4>1. n \in Int /\ n < m
          BY <1>6, <1>7, <2>1
      <4> QED BY <1>8, <4>1, CountNone
    <3>2. links' = <<>>
        BY <2>1 DEF ReadBlock, ReadPacket
    <3> QED BY <1>7, <1>10, <2>1, <3>1, <3>2
  <2>2. CASE src[cursor].type = "IDB"
    <3>1. links' = Append(links, src[cursor].body)
        BY <2>2 DEF ReadBlock, ReadPacket
    <3>2. Len(links) = Count(src, m, n, "IDB")
        BY <1>6, <2>2 DEF n
    <3>3. Len(links') = Len(links) + 1
      <4> DEFINE G == Ethernets \cup {src[cursor].body}
      <4>1. links \in Seq(G) /\ src[cursor].body \in G
          BY <1>5
      <4> HIDE DEF G
      <4> QED BY <3>1, <4>1, AppendProperties
    <3> QED BY <1>7, <1>10, <2>2, <3>2, <3>3
  <2>3. CASE src[cursor].type \notin {"SHB", "IDB"}
    <3>1. links' = links
        BY <2>3 DEF ReadBlock, ReadPacket
    <3>2. Len(links) = Count(src, m, n, "IDB")
        BY <1>6, <2>3 DEF n
    <3> QED BY <1>7, <1>10, <2>3, <3>1, <3>2
  <2> QED BY <2>1, <2>2, <2>3
<1>13. ReadSoFar'
  <2>1. cursor' <= Len(src) + 1
      BY <1>1, <1>3, <1>5
  <2>2. LastSection(src, n + 1, m)
      BY <1>6, <1>7
  <2> QED BY <1>1, <1>7, <1>11, <1>12, <2>1, <2>2 DEF ReadSoFar
<1> QED BY <1>1, <1>4, <1>13 DEF FormInv

LEMMA EndForm ==
    ASSUME NEW P, NEW B, TypedInputs(P, B), ReadInv(P, B), FormInv, EndSource
    PROVE  FormInv'
<1>1. UNCHANGED <<round, src, cursor, links, given>> /\ reader' # "live"
    BY DEF EndSource
<1>2. SUFFICES ASSUME round = 1, WellFormed(src)
               PROVE  FormInv'
    BY <1>1 DEF FormInv
<1>3. Pcapng /\ src \in Seq(B) /\ Len(src) \in Nat /\ src # <<>>
    BY <1>2, WellFormedIs DEF ReadInv
<1>4. reader = "reading" /\ ~OtherLink(src) /\ ReadSoFar
    BY <1>2, <1>3 DEF EndSource, FormInv
<1>5. CASE reader' = "stopped"
    BY <1>1, <1>4, <1>5 DEF FormInv
<1>6. CASE reader' # "stopped"
  <2>1. /\ ~ValidBlock
        /\ reader' = IF (Classic \/ Pcapng) /\ cursor = Len(src) + 1 THEN "eof" ELSE "ValueError"
      BY <1>6 DEF EndSource
  <2>2. ~(cursor <= Len(src))
      BY <1>2, <1>3, <1>4, <2>1, BlockAccepted DEF ReadInv
  <2>3. cursor = Len(src) + 1 /\ cursor - 1 = Len(src)
    <3>1. cursor <= Len(src) + 1 /\ cursor \in Nat
        BY <1>4 DEF ReadSoFar, ReadInv, ReaderInv
    <3> QED BY <1>3, <2>2, <3>1
  <2>4. reader' = "eof" /\ Len(given) = Count(src, 1, Len(src), "EPB")
      BY <1>3, <1>4, <2>1, <2>3 DEF ReadSoFar
  <2> QED BY <1>1, <1>4, <2>4 DEF FormInv
<1> QED BY <1>5, <1>6

LEMMA NextForm ==
    ASSUME NEW P, NEW B, TypedInputs(P, B), ReadInv(P, B), FormInv, [Next]_vars
    PROVE  FormInv'
<1>1. ReadInv(P, B)' /\ FileTypes(P, B)
    BY NextRead DEF ReadInv
<1>2. CASE UNCHANGED vars
    BY <1>2, FormUnchanged DEF vars, rvars
<1>3. CASE \E f \in LiveFrames : Receive(f)
  <2>1. reader = "live" /\ UNCHANGED <<round, src, reader>>
      BY <1>3 DEF Receive, rvars
  <2>2. src = <<>> /\ ~WellFormed(src)
      BY <2>1 DEF FormInv, WellFormed
  <2> QED BY <2>1, <2>2 DEF FormInv
<1>4. CASE OpenClassic \/ ReadRecord
  <2>1. Classic /\ src' = src /\ reader' # "live"
      BY <1>4 DEF OpenClassic, ReadRecord, RecordHere
  <2>2. ~WellFormed(src)
      BY <1>1, <2>1, WellFormedIs
  <2> QED BY <2>1, <2>2 DEF FormInv
<1>5. CASE OpenOther
  <2>1. /\ reader = "start" /\ reader' # "live" /\ UNCHANGED <<round, src, given>>
        /\ WellFormed(src) => reader' = "scanning"
      BY <1>1, <1>5, WellFormedIs DEF OpenOther
  <2> QED BY <2>1 DEF FormInv
<1>6. CASE ScanBlock \/ ScanEnds
    BY <1>1, <1>6, ScanForm
<1>7. CASE ReadBlock \/ ReadPacket
    BY <1>7, BlockForm
<1>8. CASE EndSource
    BY <1>8, EndForm
<1>9. CASE Writing
  <2>1. UNCHANGED <<round, src, reader, cursor, links, given>>
      BY <1>9 DEF Writing, WriteHeader, WriteData, StructError, Close, Kill, Flush,
                  CloseFails, WriteOSError, rvars
  <2> QED BY <2>1, FormUnchanged
<1>10. CASE Reopen
    BY <1>10 DEF Reopen, FormInv
<1> QED BY <1>2, <1>3, <1>4, <1>5, <1>6, <1>7, <1>8, <1>9, <1>10 DEF Next, Source, Over

(* A well-formed pcapng file of any number of blocks and sections, in any  *)
(* byte orders, replays to its end with every packet, or, if one of its    *)
(* interfaces is not Ethernet, is refused before a frame comes out of      *)
(* read_captures.                                                          *)
THEOREM WellFormedReplays == Spec => []ReplaysWellFormed
<1> DEFINE P == FilePieces
           B == FileBlocks
<1>1. Init => FormInv
  <2>1. ASSUME Init, WellFormed(src), reader = "live" PROVE FALSE
      BY <2>1 DEF Init, WellFormed
  <2> QED BY <2>1 DEF Init, FormInv
<1>2. ReadInv(P, B) /\ FormInv /\ [Next]_vars => FormInv'
    BY InputsTyped, NextForm
<1>3. FormInv => ReplaysWellFormed
    BY DEF FormInv, ReplaysWellFormed, OtherLink
<1> QED BY <1>1, <1>2, <1>3, AlwaysRead, PTL DEF Spec
=============================================================================
