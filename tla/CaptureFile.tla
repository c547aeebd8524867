---------------------------- MODULE CaptureFile ----------------------------
(***************************************************************************)
(* Capture files (pcap.py): what PcapWriter leaves on disk, and what       *)
(* read_captures makes of a file.                                          *)
(*                                                                         *)
(* In round 1 a session takes frames from the network, or replays a        *)
(* foreign file (-r), and writes them (-w); it may be stopped, fail or be  *)
(* killed anywhere.  In round 2 the file it left is replayed.              *)
(*                                                                         *)
(* A classic pcap file is a sequence of pieces: the global header and each *)
(* record header in two pieces (a crash can cut them) and the bytes of the *)
(* frame.  A pcapng file is a sequence of blocks.  The reader behind       *)
(* read_captures is netprotocols', which is not in the repository: it      *)
(* yields records as it walks, and raises MalformedCaptureError.           *)
(***************************************************************************)
EXTENDS Naturals, Sequences, FiniteSets

CONSTANTS
    LiveFrames,  \* frames the network delivers
    Foreign,     \* files of other programs that may be replayed
    MaxFrames,   \* frames taken from the network in one session
    NsPerSec,    \* 1_000_000_000
    SecLimit     \* 2^32: what the 32 bits of ts_sec hold

ASSUME FileAssumption == /\ MaxFrames \in Nat
                         /\ NsPerSec \in Nat \ {0} /\ SecLimit \in Nat \ {0}

VARIABLES
    round,      \* 1 while the file is written, 2 while it is replayed
    src,        \* the contents of the file being read
    reader,     \* "live", or how far read_captures has come
    cursor,     \* the next piece or block it looks at
    endian,     \* the byte order of the section, as _pcapng_linktype has it
    links,      \* the link types of the section's interfaces (the library)
    hand,       \* the frame being given to the writer, if any
    writer,     \* the state of PcapWriter and of the session around it
    buf,        \* its file object's buffer
    disk,       \* what has reached the file
    given,      \* history: the frames of this round's source
    taken,      \* history: those of round 1
    kept,       \* history: how many write() calls have returned
    intact      \* history: no write failed and close() returned

rvars == <<src, reader, cursor, endian, links>>
wvars == <<writer, buf, disk, kept, intact>>
vars == <<round, hand, given, taken, rvars, wvars>>

ETHERNET == 1

-----------------------------------------------------------------------------
(* Pieces of a classic file; blocks of a pcapng file.  A block has the     *)
(* byte order it is written in, a total length that is right ("ok"), right *)
(* but below 16 ("small"), or impossible ("bad").                          *)
Magic == [k |-> "magic"]
Network(link) == [k |-> "network", link |-> link]
Stamp(sec, nsec) == [k |-> "stamp", sec |-> sec, nsec |-> nsec]
Length(n) == [k |-> "len", n |-> n]
Byte(b) == [b |-> b, k |-> "byte"]

Block(type, order, size, body) ==
    [k |-> "block", type |-> type, order |-> order, size |-> size, body |-> body]

Frame(data, time, link) == [link |-> link, time |-> time, data |-> data]

GlobalHeader == <<Magic, Network(ETHERNET)>>

RecordHeader(f) == <<Stamp(f.time \div NsPerSec, f.time % NsPerSec),
                     Length(Len(f.data))>>

(* What the inputs are: frames of an Ethernet interface, and files of any  *)
(* pieces, or of any blocks, in any order.                                 *)
Bytes == [k : {"byte"}, b : STRING]

FilePieces == [k : {"magic"}] \cup [k : {"network"}, link : Nat] \cup Bytes
              \cup [k : {"stamp"}, sec : Nat, nsec : Nat] \cup [k : {"len"}, n : Nat]

BlocksOf(type, bodies) == [k : {"block"}, type : {type}, order : {"<", ">"},
                           size : {"ok", "small", "bad"}, body : bodies]

FileBlocks == BlocksOf("SHB", {"BOM", "other"}) \cup BlocksOf("IDB", Nat)
              \cup BlocksOf("EPB", [iface : Nat \ {0}, time : Nat, data : Seq(Bytes)])
              \cup BlocksOf("other", STRING)

ASSUME InputAssumption ==
    /\ Foreign \subseteq Seq(FilePieces) \cup Seq(FileBlocks)
    /\ LiveFrames \subseteq [link : {ETHERNET}, time : Nat, data : Seq(Bytes)]

-----------------------------------------------------------------------------
(* The source of frames: run() takes the next one when every output is     *)
(* done with the last.                                                     *)
Idle == hand = <<>> /\ writer \in {"open", "none"}

Give(f) == /\ given' = Append(given, f)
           /\ hand' = IF round = 1 THEN <<f>> ELSE <<>>

Receive(f) == /\ reader = "live" /\ Idle /\ Len(given) < MaxFrames
              /\ Give(f)
              /\ UNCHANGED <<round, taken, rvars, wvars>>

Classic == Len(src) >= 2 /\ src[1] = Magic
Pcapng == src # <<>> /\ src[1].k = "block" /\ src[1].type = "SHB"

(* _declared_linktype on a classic file: the header's network field.       *)
OpenClassic ==
    /\ reader = "start" /\ Classic
    /\ reader' = IF src[2].link = ETHERNET THEN "reading" ELSE "ValueError"
    /\ cursor' = 3
    /\ UNCHANGED <<round, src, endian, links, hand, given, taken, wvars>>

(* On anything else _pcapng_linktype looks for a Section Header Block.     *)
OpenOther ==
    /\ reader = "start" /\ ~Classic
    /\ reader' = IF Pcapng THEN "scanning" ELSE "reading"
    /\ endian' = "<"
    /\ UNCHANGED <<round, src, cursor, links, hand, given, taken, wvars>>

AtBlock == cursor <= Len(src)

(* The byte order is that of the file's first section.                     *)
SectionEndianOnce ==
    IF cursor = 1 /\ src[1].body = "BOM" THEN src[1].order ELSE endian

(* A Section Header Block sets the byte order; one without the BOM counts  *)
(* as big-endian.                                                          *)
SectionEndian ==
    LET b == src[cursor] IN
    IF b.type # "SHB" THEN endian ELSE IF b.body = "BOM" THEN b.order ELSE ">"

(* A length read in the wrong byte order is taken to be beyond the end of  *)
(* the file: the few that read the same both ways are not distinguished.   *)
BlockReadable == /\ AtBlock
                 /\ src[cursor].order = SectionEndian
                 /\ src[cursor].size # "bad"

ScanTo(next) ==
    /\ reader = "scanning" /\ BlockReadable
    /\ endian' = SectionEndian
    /\ LET b == src[cursor] IN
       IF b.type = "IDB" /\ b.size = "ok" /\ b.body # ETHERNET
       THEN reader' = "ValueError" /\ cursor' = cursor
       ELSE reader' = next /\ cursor' = IF next = "reading" THEN 1 ELSE cursor + 1
    /\ UNCHANGED <<round, src, links, hand, given, taken, wvars>>

(* Only the first Interface Description Block is looked at.                *)
ScanBlockFirst == ScanTo(IF BlockReadable /\ src[cursor].type = "IDB"
                         THEN "reading" ELSE "scanning")

(* One turn of _pcapng_linktype's loop.                                    *)
ScanBlock == ScanTo("scanning")

(* The end of the file, or a block that cannot be: the loop ends, and the  *)
(* library reads from the start.                                           *)
ScanEnds == /\ reader = "scanning" /\ ~BlockReadable
            /\ reader' = "reading" /\ cursor' = 1
            /\ UNCHANGED <<round, src, endian, links, hand, given, taken, wvars>>

-----------------------------------------------------------------------------
(* netprotocols.read_captures (external).  A record is yielded when it is  *)
(* complete; the end of the file is the end of the capture only between    *)
(* two records or blocks.                                                  *)
RecordEnd == cursor + 1 + src[cursor + 1].n
RecordHere == /\ Classic /\ cursor + 1 <= Len(src)
              /\ src[cursor].k = "stamp" /\ src[cursor + 1].k = "len"
              /\ RecordEnd <= Len(src)

ReadRecord ==
    /\ reader = "reading" /\ Idle /\ RecordHere
    /\ Give(Frame(SubSeq(src, cursor + 2, RecordEnd),
                  src[cursor].sec * NsPerSec + src[cursor].nsec, src[2].link))
    /\ cursor' = RecordEnd + 1
    /\ UNCHANGED <<round, src, reader, endian, links, taken, wvars>>

(* The byte order of the section the block stands in.                      *)
SectionOf(n) == CHOOSE m \in 1..n : /\ src[m].type = "SHB"
                                    /\ \A i \in (m + 1)..n : src[i].type # "SHB"

ValidBlock == LET b == src[cursor] IN
    /\ Pcapng /\ cursor <= Len(src)
    /\ b.size = "ok" /\ b.order = src[SectionOf(cursor)].order
    /\ b.type = "SHB" => b.body = "BOM"
    /\ b.type = "EPB" => b.body.iface <= Len(links)

ReadBlock ==
    /\ reader = "reading" /\ ValidBlock /\ src[cursor].type # "EPB"
    /\ links' = CASE src[cursor].type = "SHB" -> <<>>
                  [] src[cursor].type = "IDB" -> Append(links, src[cursor].body)
                  [] OTHER -> links
    /\ cursor' = cursor + 1
    /\ UNCHANGED <<round, src, reader, endian, hand, given, taken, wvars>>

(* External.  A Simple Packet Block, whose frames carry no timestamp, is   *)
(* left out of the library's reader.                                       *)
ReadPacket == LET b == src[cursor].body IN
    /\ reader = "reading" /\ Idle /\ ValidBlock /\ src[cursor].type = "EPB"
    /\ Give(Frame(b.data, b.time, links[b.iface]))
    /\ cursor' = cursor + 1
    /\ UNCHANGED <<round, src, reader, endian, links, taken, wvars>>

(* The end of the source: of the file, in good order or not (read_captures *)
(* turns the library's error into ValueError), or a Ctrl-C or SIGTERM.     *)
EndSource ==
    /\ Idle
    /\ \/ reader \in {"live", "reading"} /\ reader' = "stopped" /\ round = 1
       \/ /\ reader = "reading" /\ ~RecordHere /\ ~ValidBlock
          /\ reader' = IF (Classic \/ Pcapng) /\ cursor = Len(src) + 1
                       THEN "eof" ELSE "ValueError"
    /\ UNCHANGED <<round, src, cursor, endian, links, hand, given, taken, wvars>>

-----------------------------------------------------------------------------
(* PcapWriter.write: the header is packed, which fails on a time beyond 32 *)
(* bits of seconds before anything is written; header and frame are two    *)
(* writes.                                                                 *)
Fits(f) == f.time \div NsPerSec < SecLimit

WriteHeader == /\ writer = "open" /\ hand # <<>> /\ Fits(hand[1])
               /\ buf' = buf \o RecordHeader(hand[1])
               /\ writer' = "data"
               /\ UNCHANGED <<round, hand, given, taken, rvars, disk, kept, intact>>

WriteData == /\ writer = "data"
             /\ buf' = buf \o hand[1].data
             /\ writer' = "open" /\ hand' = <<>> /\ kept' = kept + 1
             /\ UNCHANGED <<round, given, taken, rvars, disk, intact>>

StructError == /\ writer = "open" /\ hand # <<>> /\ ~Fits(hand[1])
               /\ writer' = "failed"
               /\ UNCHANGED <<round, hand, given, taken, rvars, buf, disk, kept, intact>>

(* Some of the buffer reaches the file.                                    *)
Spill(n) == /\ disk' = disk \o SubSeq(buf, 1, n)
            /\ buf' = SubSeq(buf, n + 1, Len(buf))

Flush(n) == /\ writer \in {"open", "data"} /\ n \in 1..Len(buf)
            /\ Spill(n)
            /\ UNCHANGED <<round, hand, given, taken, rvars, writer, kept, intact>>

(* A frame larger than the buffer goes to the file directly, so part of it *)
(* may be there when the write fails.                                      *)
Pending == IF writer = "data" THEN buf \o SubSeq(hand[1].data, 1, Len(hand[1].data) - 1) ELSE buf

SpillPending(n) == /\ disk' = disk \o SubSeq(Pending, 1, n)
                   /\ buf' = SubSeq(buf, n + 1, Len(buf))

WriteOSErrorIgnored(n) ==
    /\ writer = "data" \/ (writer = "open" /\ hand # <<>>)
    /\ n \in 0..Len(Pending) /\ SpillPending(n)
    /\ writer' = "open" /\ hand' = <<>> /\ intact' = FALSE
    /\ UNCHANGED <<round, given, taken, rvars, kept>>

(* A write that has to flush fails (a full disk); run() gives up.          *)
WriteOSError(n) ==
    /\ writer = "data" \/ (writer = "open" /\ hand # <<>>)
    /\ n \in 0..Len(Pending) /\ SpillPending(n)
    /\ writer' = "failed" /\ intact' = FALSE
    /\ UNCHANGED <<round, hand, given, taken, rvars, kept>>

Closing == \/ writer = "failed"
           \/ writer = "open" /\ reader \in {"stopped", "eof", "ValueError"}

CloseUnflushed == /\ Closing
                  /\ writer' = "closed" /\ buf' = <<>>
                  /\ UNCHANGED <<round, hand, given, taken, rvars, disk, kept, intact>>

(* close(), in main()'s finally, writes what is left; or fails to.         *)
Close == /\ Closing
         /\ Spill(Len(buf)) /\ writer' = "closed"
         /\ UNCHANGED <<round, hand, given, taken, rvars, kept, intact>>

CloseFails(n) == /\ Closing /\ n \in 0..Len(buf) /\ Spill(n)
                 /\ writer' = "closed" /\ intact' = FALSE
                 /\ UNCHANGED <<round, hand, given, taken, rvars, kept>>

(* SIGKILL or a power cut: the buffer is gone.                             *)
Kill == /\ writer \in {"open", "data", "failed"}
        /\ writer' = "closed" /\ intact' = FALSE
        /\ UNCHANGED <<round, hand, given, taken, rvars, buf, disk, kept>>

(* The file is replayed.                                                   *)
Reopen == /\ round = 1 /\ writer = "closed"
          /\ round' = 2 /\ writer' = "none" /\ hand' = <<>> /\ buf' = <<>>
          /\ src' = disk /\ reader' = "start" /\ cursor' = 1
          /\ endian' = "<" /\ links' = <<>>
          /\ taken' = given /\ given' = <<>>
          /\ UNCHANGED <<disk, kept, intact>>

Over == /\ round = 2 /\ reader \in {"eof", "ValueError"}
        /\ UNCHANGED vars

Init == /\ round = 1 /\ hand = <<>> /\ given = <<>> /\ taken = <<>>
        /\ \/ src = <<>> /\ reader = "live"
           \/ src \in Foreign /\ reader = "start"
        /\ cursor = 1 /\ endian = "<" /\ links = <<>>
        /\ writer = "open" /\ buf = GlobalHeader /\ disk = <<>>
        /\ kept = 0 /\ intact = TRUE

Source == \/ \E f \in LiveFrames : Receive(f)
          \/ OpenClassic \/ OpenOther \/ ScanBlock \/ ScanEnds
          \/ ReadRecord \/ ReadBlock \/ ReadPacket \/ EndSource

Writing == \/ WriteHeader \/ WriteData \/ StructError \/ Close \/ Kill
           \/ \E n \in 0..Len(buf) : Flush(n) \/ CloseFails(n)
           \/ \E n \in 0..Len(Pending) : WriteOSError(n)

Next == Source \/ Writing \/ Reopen \/ Over

Spec == Init /\ [][Next]_vars

-----------------------------------------------------------------------------
(* What a replay yields, of any file a session can leave behind: the       *)
(* frames it took, with their times, in order and with none missing        *)
(* between; and beyond those that write() has accepted at most the one it  *)
(* was writing, if it has no bytes.  A kill, a full disk or a rejected     *)
(* timestamp costs frames at the end only (PcapWriter.write).              *)
ReplayFaithful ==
    round = 2 =>
        /\ Len(given) <= Len(taken)
        /\ \A i \in 1..Len(given) : /\ given[i].data = taken[i].data
                                    /\ given[i].time = taken[i].time
                                    /\ i > kept => given[i].data = <<>>

(* When no write failed and close() returned (even after the struct.error  *)
(* of a timestamp too large), the file is a capture that replays to its    *)
(* end, with every frame write() accepted (PcapWriter.write and close).    *)
CompleteWhenClosed ==
    round = 2 /\ intact =>
        /\ reader # "ValueError"
        /\ reader = "eof" => Len(given) = kept

(* Whatever the file, no frame of an interface that is not Ethernet comes  *)
(* out of read_captures: the scan of _pcapng_linktype sees every interface *)
(* the library will.                                                       *)
OnlyEthernet == \A i \in 1..Len(given) : given[i].link = ETHERNET

(* A well-formed pcapng file, by its definition.                           *)
InSection(f, m, n) == m <= n /\ \A i \in (m + 1)..n : f[i].type # "SHB"

Count(f, m, n, type) == Cardinality({i \in m..n : f[i].type = type})

WellFormed(f) ==
    /\ f # <<>> /\ \A i \in 1..Len(f) : f[i].k = "block" /\ f[i].size = "ok"
    /\ f[1].type = "SHB"
    /\ \A i, j \in 1..Len(f) : f[i].type = "SHB" /\ InSection(f, i, j) =>
        /\ f[i].body = "BOM" /\ f[j].order = f[i].order
        /\ f[j].type = "EPB" =>
              f[j].body.iface \in 1..Count(f, i, j, "IDB")

(* A well-formed pcapng file replays completely, whatever the byte order   *)
(* of its sections, unless one of its interfaces is not Ethernet: then not *)
(* a frame of it is given out (_pcapng_linktype, read_captures).           *)
ReplaysWellFormed ==
    round = 1 /\ WellFormed(src) =>
        IF \E i \in 1..Len(src) : src[i].type = "IDB" /\ src[i].body # ETHERNET
        THEN given = <<>> /\ reader # "eof"
        ELSE /\ reader # "ValueError"
             /\ reader = "eof" => Len(given) = Count(src, 1, Len(src), "EPB")
=============================================================================
