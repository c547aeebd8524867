--------------------------- MODULE MCCaptureFile ---------------------------
(* Bounds for CaptureFile: two frames a session, of one or two pieces; two *)
(* seconds of three nanoseconds; pcapng files of one or two sections, and  *)
(* damaged ones.                                                           *)
EXTENDS CaptureFile, SequencesExt

Short == <<Byte("a")>>
Long == <<Byte("b"), Byte("c")>>

SomeFrames == {Frame(Short, 5, ETHERNET), Frame(Long, 3, ETHERNET)}

Section(o) == Block("SHB", o, "ok", "BOM")
Interface(o, link) == Block("IDB", o, "ok", link)
Packet(o, iface, time) ==
    Block("EPB", o, "ok", [iface |-> iface, time |-> time, data |-> Short])

Blocks(o) == {Interface(o, 1), Interface(o, 101), Packet(o, 1, 5), Packet(o, 2, 4)}

SectionsOf(o, n) == {<<Section(o)>> \o s : s \in BoundedSeq(Blocks(o), n)}

TwoSections == UNION {{a \o b : a \in SectionsOf(o[1], 2), b \in SectionsOf(o[2], 2)} :
                        o \in {<<"<", ">">>, <<">", "<">>}}

(* One block of a good file is of the wrong byte order, too short to be    *)
(* looked into, of an impossible length or without its byte-order mark;    *)
(* or a packet is of a second that 32 bits cannot hold.                    *)
Good == {<<Section(">"), Interface(">", 1), Packet(">", 1, 5), Interface(">", l),
           Packet(">", 2, 4)>> : l \in {1, 101}}
Defects == {Block("SHB", ">", "ok", "other"), Block("SHB", "<", "ok", "other"),
            Block("IDB", ">", "small", 101), Block("IDB", ">", "bad", 101),
            Interface("<", 101), Packet("<", 1, 5), Packet(">", 1, 6)}
Damaged == {ReplaceAt(f, i, b) : f \in Good, i \in 1..5, b \in Defects}

NotPcapng == {<<>>, <<Magic>>, <<Byte("a")>>,
              <<Magic, Network(101), Stamp(1, 2), Length(1), Byte("a")>>,
              <<Magic, Network(1), Stamp(1, 2), Length(1), Byte("a"), Stamp(1, 0)>>,
              <<Magic, Network(1), Stamp(1, 2), Length(0), Stamp(1, 0), Length(0)>>}

SomeFiles == SectionsOf("<", 3) \cup TwoSections \cup Damaged \cup NotPcapng
=============================================================================
