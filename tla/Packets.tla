------------------------------ MODULE Packets ------------------------------
(***************************************************************************)
(* Packets (packet.c) in chains of memory blocks (mblock.c), and the queue  *)
(* of a connection that sends them (connection.c).  A packet is its first    *)
(* block.  Data are the bytes 0 and 1; a field of the head is one cell.      *)
(***************************************************************************)
EXTENDS Integers, Sequences, FiniteSets

CONSTANTS NumBlocks,    \* bound: blocks that the system gives
          BlockSize,    \* cells of a block
          Taken,        \* cells of the first block that struct Packet takes
          KeyOffset,        \* distance from the data to the byte that makes the key
          MaxSize,      \* bound: cells of a packet
          MaxCalls,     \* bound: calls of the functions of packets
          MaxSends,     \* bound: packets sent
          Accepted,     \* how many cells the system may take from a write
          MaxSeq        \* the numbers of packets on a connection go from 1 to this

ASSUME PacketAssumption ==
    /\ {NumBlocks, BlockSize, MaxSize, MaxCalls, MaxSends, MaxSeq} \subseteq Nat \ {0}
    /\ Taken \in 0..BlockSize - 1 /\ KeyOffset \in 0..BlockSize - 1 /\ Accepted \subseteq Nat

VARIABLES mem,          \* blocks, free list and the cursors of packets
          flat,         \* history: each packet as a sequence with a place in it
          out,          \* write_queue
          seq,          \* sent_seq
          wire,         \* all that was written to the socket
          sent,         \* history: what should be read there
          spoiled,      \* history: may what is read differ?
          calls         \* how many calls there were
packetVars == <<mem, flat, out, seq, wire, sent, spoiled, calls>>

Blocks == 1..NumBlocks
Data == {<<1>>, <<0>>, <<0, 1>>}      \* what one call may write
\* The head of a packet: length, flag, and the rest in one cell.
LenPos == 0
FlagPos == 1
SeqPos == 2
HeadSize == 3
Plain == 0
Encoded == 1
NoIO == [block |-> 0, pos |-> 0, ptr |-> 0, size |-> 0, count |-> 0, mine |-> 0]
NoFlat == [data |-> <<>>, at |-> 0, untold |-> 0]

Live == {p \in Blocks : mem.io[p].count > 0}
\* The blocks from b on: the i-th behind it, and 0 where there is none.
Behind(m, b) ==
    LET nth[i \in 0..NumBlocks] ==
            IF i = 0 THEN b ELSE IF nth[i - 1] = 0 THEN 0 ELSE m.next[nth[i - 1]]
    IN  nth
ListOf(m, b) == {Behind(m, b)[i] : i \in 0..NumBlocks} \ {0}
-----------------------------------------------------------------------------
\* mblock_create.
NewBlock(m) == IF m.free = 0 THEN m.made + 1 ELSE m.free
Create(m) ==
    IF m.free = 0 THEN [m EXCEPT !.made = @ + 1, !.next[m.made + 1] = 0]
    ELSE [m EXCEPT !.free = m.next[m.free], !.next[m.free] = 0]

FreeFirst(m, b) == [m EXCEPT !.next[b] = m.free, !.free = b]

\* mblock_free of each block of a list: it comes before the free list, turned round.
FreeList(m, b) ==
    LET list == ListOf(m, b)
        Before(x) == CHOOSE y \in list : m.next[y] = x
    IN  [m EXCEPT !.next = [x \in Blocks |-> IF x = b THEN m.free
                                             ELSE IF x \in list THEN Before(x) ELSE @[x]],
                  !.free = Before(0)]

Cursor(io, block, pos, ptr) == [io EXCEPT !.block = block, !.pos = pos, !.ptr = ptr]

\* _write, and the turns of write_len: behind the end of a block comes the next one
\* of the packet, or a new one.
Longer(m, b) == IF m.next[b] # 0 THEN m ELSE [Create(m) EXCEPT !.next[b] = NewBlock(m)]
WriteCell(m, p, c) ==
    LET io == m.io[p]
        full == io.pos = BlockSize
        longer == IF full THEN Longer(m, io.block) ELSE m
        block == IF full THEN longer.next[io.block] ELSE io.block
        pos == IF full THEN 0 ELSE io.pos
    IN  [longer EXCEPT !.cell[block][pos] = c,
                       !.io[p] = [Cursor(io, block, pos + 1, io.ptr + 1) EXCEPT
                                     !.size = IF io.ptr + 1 > @ THEN io.ptr + 1 ELSE @]]
Writing(m, p, cells) ==
    LET after[i \in 0..Len(cells)] == IF i = 0 THEN m ELSE WriteCell(after[i - 1], p, cells[i])
    IN  after
WriteLen(m, p, cells) == Writing(m, p, cells)[Len(cells)]

\* _next, and the turns of read_len.
ReadCell(m, p) ==
    LET io == m.io[p]
        full == io.pos = BlockSize
    IN  IF io.ptr + 1 > io.size THEN m
        ELSE [m EXCEPT !.io[p] = Cursor(io, IF full THEN m.next[io.block] ELSE io.block,
                                            IF full THEN 1 ELSE io.pos + 1, io.ptr + 1)]

\* Where the i-th cell of a packet is; the first block has fewer cells.
Spot(m, p, i) == [block |-> Behind(m, p)[(Taken + i) \div BlockSize], pos |-> (Taken + i) % BlockSize]
CellAt(m, p, i) == m.cell[Spot(m, p, i).block][Spot(m, p, i).pos]
Contents(m, p) == [i \in 1..m.io[p].size |-> CellAt(m, p, i - 1)]

\* seek: behind the cell before, so that the end of a block is not left.
SeekSpot(m, p, at) ==
    IF at = 0 THEN [block |-> p, pos |-> Taken]
    ELSE [block |-> Spot(m, p, at - 1).block, pos |-> Spot(m, p, at - 1).pos + 1]
SeekCell(m, p, at) ==
    IF at > m.io[p].size THEN m
    ELSE [m EXCEPT !.io[p] = Cursor(@, SeekSpot(m, p, at).block, SeekSpot(m, p, at).pos, at)]

\* set_flag, set_seq and reset_size: tell, seek, write, seek.
PutHead(m, p, at, c) == SeekCell(WriteCell(SeekCell(m, p, at), p, c), p, m.io[p].ptr)
ResetSize(m, p) == PutHead(m, p, LenPos, m.io[p].size)

EraseKeepsPlace(m, p, n) ==
    [m EXCEPT !.io[p].size = IF @ > n THEN @ - n ELSE 0]

\* erase
EraseCells(m, p, n) ==
    LET size == IF m.io[p].size > n THEN m.io[p].size - n ELSE 0
        less == [m EXCEPT !.io[p].size = size]
    IN  IF size < m.io[p].ptr THEN SeekCell(less, p, size) ELSE less

\* encode: every byte of the data is changed with a key that one of them makes,
\* if the packet is long enough; that byte itself is put back at the end.
Key(i, long, c) == IF long THEN (c + i + 1) % 2 ELSE i % 2
Encoding(m, p, long, c) ==
    LET after[i \in 0..m.io[p].size - HeadSize] ==
            IF i = 0 THEN m.cell
            ELSE LET at == Spot(m, p, HeadSize + i - 1)
                 IN  [after[i - 1] EXCEPT ![at.block][at.pos] = (@ + Key(i - 1, long, c)) % 2]
    IN  after
EncodeCells(m, p) ==
    LET size == m.io[p].size
        long == size > HeadSize + KeyOffset
        c == IF long THEN CellAt(m, p, HeadSize + KeyOffset) ELSE 0
        all == Encoding(m, p, long, c)[size - HeadSize]
        at == Spot(m, p, HeadSize + KeyOffset)
    IN  [m EXCEPT !.cell = IF long THEN [all EXCEPT ![at.block][at.pos] = c] ELSE all]

\* rbtP_init: the struct is in the block, and the length is that of the head.
OpenBlock(m) == [Create(m) EXCEPT !.io[NewBlock(m)] =
                    [NoIO EXCEPT !.block = NewBlock(m), !.pos = Taken, !.count = 1, !.mine = 1]]
InitPacket(m) == WriteLen(OpenBlock(m), NewBlock(m), <<HeadSize, Plain, 0>>)

\* rbtP_drop
DropPacket(m, p) ==
    IF m.io[p].count > 1 THEN [m EXCEPT !.io[p].count = @ - 1]
    ELSE [FreeList(m, p) EXCEPT !.io[p] = NoIO]
-----------------------------------------------------------------------------
(* The same on a sequence. *)
FlatWrite(f, cells) ==
    LET end == f.at + Len(cells)
    IN  [f EXCEPT !.data = [i \in 1..(IF end > Len(@) THEN end ELSE Len(@)) |->
                               IF i \in f.at + 1..end THEN cells[i - f.at] ELSE @[i]],
                  !.at = end]
FlatSeek(f, at) == IF at > Len(f.data) THEN f ELSE [f EXCEPT !.at = at]
FlatHead(f, at, c) == [f EXCEPT !.data[at + 1] = c]
FlatTold(f) == [FlatHead(f, LenPos, Len(f.data)) EXCEPT !.untold = 0]
FlatErase(f, n) ==
    LET size == IF Len(f.data) > n THEN Len(f.data) - n ELSE 0
    IN  [f EXCEPT !.data = SubSeq(@, 1, size), !.at = IF @ > size THEN size ELSE @]
FlatEncode(data) ==
    LET long == Len(data) > HeadSize + KeyOffset
        c == data[HeadSize + KeyOffset + 1]
    IN  [i \in DOMAIN data |->
            IF i <= HeadSize \/ (long /\ i = HeadSize + KeyOffset + 1) THEN data[i]
            ELSE (data[i] + Key(i - HeadSize - 1, long, c)) % 2]
-----------------------------------------------------------------------------
Queued_(p) == \E i \in DOMAIN out : out[i].pkt = p
\* A call of the program for a packet that it has a reference to.
Call(p) == /\ mem.io[p].mine > 0
           /\ calls < MaxCalls /\ calls' = calls + 1
           /\ UNCHANGED <<out, seq, wire, sent>>
Touch(p) == spoiled' = (spoiled \/ Queued_(p))
\* Memory for a packet of n cells that has these blocks.
HasBlocks(list, n) ==
    (Taken + n - 1) \div BlockSize + 1 - Cardinality(list)
        <= NumBlocks - mem.made + Cardinality(ListOf(mem, mem.free))

PktInit ==
    /\ HasBlocks({}, HeadSize) /\ calls < MaxCalls /\ calls' = calls + 1
    /\ mem' = InitPacket(mem)
    /\ flat' = [flat EXCEPT ![NewBlock(mem)] = [NoFlat EXCEPT !.data = <<HeadSize, Plain, 0>>, !.at = HeadSize]]
    /\ UNCHANGED <<out, seq, wire, sent, spoiled>>

\* rbtP_writeInt and the others.
Fits(p, cells) == /\ mem.io[p].ptr \in HeadSize..MaxSize - Len(cells)
                  /\ HasBlocks(ListOf(mem, p), mem.io[p].ptr + Len(cells))
PktWrite(p, cells) ==
    /\ Call(p) /\ Touch(p) /\ Fits(p, cells)
    /\ mem' = ResetSize(WriteLen(mem, p, cells), p)
    /\ flat' = [flat EXCEPT ![p] = FlatTold(FlatWrite(@, cells))]

\* rbtP_writeDouble returns before reset_size.
PktWriteDouble(p, cells) ==
    /\ Call(p) /\ Touch(p) /\ Fits(p, cells)
    /\ mem' = WriteLen(mem, p, cells)
    /\ flat' = [flat EXCEPT ![p] = LET f == FlatWrite(@, cells)
                                   IN  [f EXCEPT !.untold = Len(f.data) - f.data[LenPos + 1]]]

PktRead(p) ==
    /\ Call(p) /\ UNCHANGED spoiled
    /\ mem' = ReadCell(mem, p)
    /\ flat' = [flat EXCEPT ![p] = FlatSeek(@, @.at + 1)]

\* rbtP_seek, rbtP_seek_end
PktSeek(p, at) ==
    /\ Call(p) /\ UNCHANGED spoiled
    /\ mem' = SeekCell(mem, p, HeadSize + at)
    /\ flat' = [flat EXCEPT ![p] = FlatSeek(@, HeadSize + at)]

PktErase(p, n) ==
    /\ Call(p) /\ Touch(p) /\ mem.io[p].size - n >= HeadSize
    /\ mem' = ResetSize(EraseCells(mem, p, n), p)
    /\ flat' = [flat EXCEPT ![p] = FlatTold(FlatErase(@, n))]

\* The macros rbtP_encode and rbtP_decode.
PktEncode(p) ==
    /\ Call(p) /\ Touch(p)
    /\ LET flag == IF flat[p].data[FlagPos + 1] = Plain THEN Encoded ELSE Plain
       IN  /\ mem' = SeekCell(EncodeCells(PutHead(mem, p, FlagPos, flag), p), p, mem.io[p].ptr)
           /\ flat' = [flat EXCEPT ![p] = [@ EXCEPT !.data = FlatEncode(FlatHead(flat[p], FlagPos, flag).data)]]

PktDrop(p) ==
    /\ Call(p) /\ UNCHANGED spoiled
    /\ mem' = [DropPacket(mem, p) EXCEPT !.io[p].mine = mem.io[p].mine - 1]
    /\ flat' = IF mem.io[p].count > 1 THEN flat ELSE [flat EXCEPT ![p] = NoFlat]

\* One turn of write_data, when the system takes so many more cells: the number of a
\* packet is put into it whenever its turn comes, and a packet that is written is
\* dropped; it is the last turn if the system did not take all of the packet.
TurnWith(s, number) ==
    LET node == Head(s.out)
        m == PutHead(s.mem, node.pkt, SeqPos, number)
        f == [s.flat EXCEPT ![node.pkt] = FlatHead(@, SeqPos, number)]
        size == IF s.taken < node.left THEN s.taken ELSE node.left
        written == s.wire \o [i \in 1..size |-> CellAt(m, node.pkt, node.done + i - 1)]
    IN  IF size < node.left
        THEN [mem |-> m, flat |-> f, wire |-> written, taken |-> 0, over |-> TRUE,
              out |-> <<[node EXCEPT !.left = @ - size, !.done = @ + size]>> \o Tail(s.out)]
        ELSE [mem |-> DropPacket(m, node.pkt), wire |-> written, taken |-> s.taken - size, over |-> FALSE,
              flat |-> IF m.io[node.pkt].count = 1 THEN [f EXCEPT ![node.pkt] = NoFlat] ELSE f,
              out |-> Tail(s.out)]
TurnOfLast(s) == TurnWith(s, s.out[Len(s.out)].seq)
Turn(s) == TurnWith(s, Head(s.out).seq)

Draining(m, queue, n) ==
    LET after[i \in 0..Len(queue)] ==
            IF i = 0 THEN [mem |-> m, flat |-> flat, out |-> queue, wire |-> wire, taken |-> n, over |-> FALSE]
            ELSE IF after[i - 1].over THEN after[i - 1] ELSE Turn(after[i - 1])
    IN  after
WriteData(m, queue, n) ==
    LET end == Draining(m, queue, n)[Len(queue)]
    IN  mem' = end.mem /\ flat' = end.flat /\ out' = end.out /\ wire' = end.wire

\* rbtNet_send
PktSend(p, n) ==
    /\ mem.io[p].mine > 0 /\ Len(sent) < MaxSends
    /\ seq' = IF seq + 1 > MaxSeq THEN 1 ELSE seq + 1
    /\ sent' = Append(sent, FlatHead(flat[p], SeqPos, seq').data)
    /\ spoiled' = (spoiled \/ flat[p].untold > 0)
    /\ WriteData([mem EXCEPT !.io[p].count = @ + 1],
                 Append(out, [pkt |-> p, left |-> mem.io[p].size, done |-> 0, seq |-> seq']), n)
    /\ UNCHANGED calls

PktFlush(n) ==
    /\ out # <<>>
    /\ WriteData(mem, out, n)
    /\ UNCHANGED <<seq, sent, spoiled, calls>>

\* rbtP_parse of the first frame on the wire, as the peer does it with the same
\* library: seek, write_len, seek.
PktParse ==
    /\ ~spoiled /\ calls < MaxCalls /\ calls' = calls + 1
    /\ Len(wire) >= HeadSize /\ wire[1] \in HeadSize..Len(wire) /\ HasBlocks({}, wire[1])
    /\ LET cells == SubSeq(wire, 1, wire[1])
           p == NewBlock(mem)
       IN  /\ mem' = SeekCell(WriteLen(SeekCell(InitPacket(mem), p, 0), p, cells), p, HeadSize)
           /\ flat' = [flat EXCEPT ![p] = [NoFlat EXCEPT !.data = cells, !.at = HeadSize]]
    /\ UNCHANGED <<out, seq, wire, sent, spoiled>>

PacketInit ==
    /\ mem = [cell |-> [b \in Blocks |-> [i \in 0..BlockSize - 1 |-> 0]], next |-> [b \in Blocks |-> 0],
              free |-> 0, made |-> 0, io |-> [b \in Blocks |-> NoIO]]
    /\ flat = [b \in Blocks |-> NoFlat]
    /\ out = <<>> /\ seq = 0 /\ wire = <<>> /\ sent = <<>> /\ spoiled = FALSE /\ calls = 0

PacketNext ==
    \/ PktInit \/ PktParse
    \/ \E p \in Live :
          \/ \E cells \in Data : PktWrite(p, cells)
          \/ PktWriteDouble(p, <<1>>) \/ PktRead(p) \/ PktEncode(p) \/ PktDrop(p)
          \/ \E n \in 0..MaxSize - HeadSize : PktSeek(p, n) \/ PktErase(p, n)
          \/ \E n \in Accepted : PktSend(p, n)
    \/ \E n \in Accepted \ {0} : PktFlush(n)

PacketSpec == PacketInit /\ [][PacketNext]_packetVars
-----------------------------------------------------------------------------
\* A packet is a sequence of bytes with a place in it, whatever blocks it is
\* in: reading, writing, seeking, erasing and encoding across their borders do
\* what they do to the sequence, and encoding twice changes nothing.
AsSequence ==
    \A p \in Live :
        /\ Contents(mem, p) = flat[p].data
        /\ mem.io[p].ptr = flat[p].at
        /\ \/ mem.io[p].block = Spot(mem, p, flat[p].at).block /\ mem.io[p].pos = Spot(mem, p, flat[p].at).pos
           \/ mem.io[p].block = SeekSpot(mem, p, flat[p].at).block /\ mem.io[p].pos = SeekSpot(mem, p, flat[p].at).pos
        /\ FlatEncode(FlatEncode(flat[p].data)) = flat[p].data

\* Each block that was ever made is in the chain of one packet or in the free
\* list, and in no two places.
BlocksOnce ==
    \A b \in 1..mem.made :
        Cardinality({x \in (Live \cup {0}) \X (0..NumBlocks) :
                        Behind(mem, IF x[1] = 0 THEN mem.free ELSE x[1])[x[2]] = b}) = 1

\* What the peer takes from the wire, frame by frame as the heads tell it, is
\* what was sent, although a packet may wait in the queue several times and be
\* written in pieces - unless somebody wrote to a packet that was queued, or a
\* packet was sent behind a double.
HasFrame(at) == at + HeadSize <= Len(wire) /\ wire[at + 1] \in HeadSize..Len(wire) - at
FrameEnds ==
    LET end[i \in 0..MaxSends] ==
            IF i = 0 THEN 0 ELSE end[i - 1] + IF HasFrame(end[i - 1]) THEN wire[end[i - 1] + 1] ELSE 0
    IN  end
FramesWhole ==
    spoiled \/ \A i \in 0..MaxSends :
        LET at == FrameEnds[i]
        IN  HasFrame(at) => i < Len(sent) /\ sent[i + 1] = SubSeq(wire, at + 1, at + wire[at + 1])
=============================================================================
