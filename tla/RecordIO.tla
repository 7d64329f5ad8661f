------------------------------ MODULE RecordIO ------------------------------
(***************************************************************************)
(* The record file of app/qzap/common/recordio: RecordWriter packs records *)
(* into checksummed blocks, RecordReader finds the blocks again, also in a *)
(* file that is damaged, still growing, or read in splits.                 *)
(*                                                                         *)
(* The file is a sequence of cells.  A block is the cells                  *)
(*     magic, header (type and body length, with its checksum),            *)
(*     body ..., footer (the checksum of header and body).                 *)
(* A checksum is modelled by the data it is computed from: equal checksums *)
(* mean equal data.  A damaged cell is Junk.  The magic may also occur     *)
(* inside a record.                                                        *)
(***************************************************************************)
EXTENDS Integers, Sequences, FiniteSets, SequencesExt

CONSTANTS
    MaxRecords,    \* bound: calls of WriteRecord
    MaxFaults,     \* bound: failed writes, crashes and damaged cells
    kMaxRecordSize,\* in cells, as
    RecordBuffer,  \* kRecordBufferSize
    SizeBuffer,    \* kRecordSizeBufferSize, in encoded sizes
    ManySizes      \* 2 * (kMaxBlockHeaderSize + kBlockFooterSize), likewise

VARIABLES
    file,      \* the bytes of the stream, as cells
    buffer,    \* RecordWriter::m_record_buffer and the sizes beside it
    m_record_size,
    codec,     \* the writer has an m_compression_codec
    call,      \* the writer's call in progress: what it does after the block
    writing,   \* the cells of the block still to be written
    closed,    \* the RecordWriter has been destroyed
    accepted,  \* the records whose WriteRecord returned true, in order
    calls,     \* calls of WriteRecord so far, too large records not counted
    faults,    \* faults so far
    reader,    \* the RecordReaders, in the order of their splits
    out        \* what each of them has returned

writer == <<buffer, m_record_size, codec, call, writing, closed, accepted,
            calls>>
vars == <<file, writer, faults, reader, out>>

-----------------------------------------------------------------------------
(* Cells, blocks and the encoding of records.                              *)

Magic == <<"magic">>
Junk == <<"junk">>
Data(n) == <<"data", n>>
Number(n) == <<"number", n>>
Header(type, len) == <<"header", type, len>>
Footer(header, body, records) == <<"footer", <<header>> \o body, records>>

RECORD_SIZE_INIT == -1
RECORD_SIZE_DIFFERENT == -2

HeaderSize == 2                \* magic and header
kBlockFooterSize == 1
kMinBlockSize == HeaderSize + 1 + kBlockFooterSize

\* The records a client writes as its n-th: empty, short, of the maximal size,
\* which the record buffer does not hold, and too large.  The large ones have
\* the magic among their data, and are compressed content.
LargeRecord(n, size) == [i \in 1..size |-> IF i = 1 THEN Magic ELSE Data(n)]
Records(n) ==
    {<<>>, <<Data(n)>>, LargeRecord(n, kMaxRecordSize),
     LargeRecord(n, kMaxRecordSize + 1)}

Used(records) == Len(FlattenSeq(records))

BlockType(records, size) ==
    IF Len(records) = 1 THEN "single"
    ELSE IF size >= 0 THEN "fixed" ELSE "variable"

\* The block body before compression.
Body(records, size) ==
    CASE BlockType(records, size) = "single" -> FlattenSeq(records)
      [] BlockType(records, size) = "fixed" ->
           <<Number(size)>>
             \o (IF size = 0 THEN <<Number(Len(records))>> ELSE <<>>)
             \o FlattenSeq(records)
      [] BlockType(records, size) = "variable" ->
           <<Number(Len(records))>>
             \o [i \in 1..Len(records) |-> Number(Len(records[i]))]
             \o FlattenSeq(records)

\* With a codec the body is deflated, or stored where Deflate fails because
\* the result would not be smaller; the extent header tells which.
Deflates(body) == Len(body) > 1 /\ Magic \notin Range(body)

Compressed(body) ==
    IF Deflates(body) THEN <<<<"extent", TRUE>>, <<"deflated", body>>>>
    ELSE <<<<"extent", FALSE>>>> \o body

\* FlushFromExternalBuffer, with and without a codec.
Block(records, size) ==
    LET body == IF codec THEN Compressed(Body(records, size))
                ELSE Body(records, size)
        header == Header(<<BlockType(records, size), codec>>, Len(body))
    IN  <<Magic, header>> \o body \o <<Footer(header, body, records)>>

-----------------------------------------------------------------------------
(* RecordWriter.  A block goes to the stream cell by cell, so that a       *)
(* reader sees, and a failure or a crash leaves, any prefix of it.         *)

NoCall == [kind |-> "none", record |-> <<>>]

\* CHECK_GT(m_records, 0), then the block is on its way to the stream.
BeginBlock(records, size, after) ==
    /\ writing' = Block(records, size)
    /\ call' = after

ResetBuffer ==
    /\ buffer' = <<>>
    /\ m_record_size' = RECORD_SIZE_INIT

\* WriteRecord once the buffer has been flushed where it must be: the record
\* is buffered, or written at once when it does not fit the empty buffer.
PutRecord(r, buf, size) ==
    IF Used(buf) + Len(r) >= RecordBuffer
    THEN /\ BeginBlock(<<r>>, size, [kind |-> "large", record |-> r])
         /\ buffer' = buf
         /\ m_record_size' = size
         /\ UNCHANGED accepted
    ELSE /\ buffer' = Append(buf, r)
         /\ m_record_size' = IF size = RECORD_SIZE_INIT THEN Len(r)
                             ELSE IF size # Len(r) THEN RECORD_SIZE_DIFFERENT
                             ELSE size
         /\ accepted' = Append(accepted, r)
         /\ call' = NoCall
         /\ writing' = <<>>

MustFlush(r) ==
    /\ buffer # <<>>
    /\ \/ Used(buffer) + Len(r) >= RecordBuffer
       \/ Len(buffer) + 1 >= SizeBuffer
       \/ /\ m_record_size >= 0
          /\ m_record_size # Len(r)
          /\ Len(buffer) > ManySizes

\* The caller has no call of its own in progress and the writer is alive.
Idle == ~closed /\ call = NoCall

WriteRecord ==
    /\ Idle
    /\ calls < MaxRecords
    /\ \E r \in Records(calls + 1) :
         \/ Len(r) > kMaxRecordSize /\ UNCHANGED writer
         \/ /\ Len(r) <= kMaxRecordSize
            /\ IF MustFlush(r)
               THEN /\ BeginBlock(buffer, m_record_size,
                                  [kind |-> "write", record |-> r])
                    /\ UNCHANGED <<buffer, m_record_size, accepted>>
               ELSE PutRecord(r, buffer, m_record_size)
            /\ calls' = calls + 1
            /\ UNCHANGED <<codec, closed>>
    /\ UNCHANGED <<file, faults, reader, out>>

Flush ==
    /\ Idle
    /\ buffer # <<>>
    /\ BeginBlock(buffer, m_record_size, [NoCall EXCEPT !.kind = "flush"])
    /\ UNCHANGED <<file, buffer, m_record_size, codec, closed, accepted,
                   calls, faults, reader, out>>

\* ~RecordWriter flushes; what it returns is ignored.
Destroy ==
    /\ Idle
    /\ IF buffer = <<>>
       THEN closed' = TRUE /\ UNCHANGED <<call, writing>>
       ELSE /\ BeginBlock(buffer, m_record_size,
                          [NoCall EXCEPT !.kind = "destroy"])
            /\ UNCHANGED closed
    /\ UNCHANGED <<file, buffer, m_record_size, codec, accepted, calls, faults,
                   reader, out>>

\* The call goes on after the last cell of the block has been written.
BlockWritten ==
    CASE call.kind = "write" ->
           PutRecord(call.record, <<>>, RECORD_SIZE_INIT) /\ UNCHANGED closed
      [] call.kind = "large" ->
           /\ ResetBuffer
           /\ accepted' = Append(accepted, call.record)
           /\ call' = NoCall
           /\ writing' = <<>>
           /\ UNCHANGED closed
      [] OTHER ->
           /\ ResetBuffer
           /\ closed' = (call.kind = "destroy")
           /\ call' = NoCall
           /\ writing' = <<>>
           /\ UNCHANGED accepted

WriteToStream ==
    /\ writing # <<>>
    /\ file' = Append(file, Head(writing))
    /\ IF Len(writing) = 1
       THEN BlockWritten
       ELSE /\ writing' = Tail(writing)
            /\ UNCHANGED <<buffer, m_record_size, call, closed, accepted>>
    /\ UNCHANGED <<codec, calls, faults, reader, out>>

\* WriteToStream returns false in the middle of a block: so does the call.
\* The buffered records stay for the next flush; a large record is given up.
StreamFails ==
    /\ writing # <<>>
    /\ faults < MaxFaults
    /\ faults' = faults + 1
    /\ writing' = <<>>
    /\ call' = NoCall
    /\ closed' = (call.kind = "destroy")
    /\ IF call.kind = "large"
       THEN ResetBuffer
       ELSE UNCHANGED <<buffer, m_record_size>>
    /\ UNCHANGED <<file, codec, accepted, calls, reader, out>>

\* The program dies and another RecordWriter appends to the file.
Crash ==
    /\ ~closed
    /\ faults < MaxFaults
    /\ faults' = faults + 1
    /\ ResetBuffer
    /\ writing' = <<>>
    /\ call' = NoCall
    /\ UNCHANGED <<file, codec, closed, accepted, calls, reader, out>>

-----------------------------------------------------------------------------
(* RecordReader.  ptr counts the cells consumed; the local buffer is only   *)
(* a window of the stream, so PreloadBufferAtLeast(n) succeeds exactly when *)
(* the stream holds n more cells.                                           *)

NewReader(resume, begin, end) ==
    [resume |-> resume, end |-> end, m_pos |-> begin,
     ptr |-> IF end = -1 THEN 0 ELSE begin,
     m_state |-> "START", block |-> 0, header |-> Junk, rest |-> <<>>,
     skipped |-> 0, last |-> FALSE, eof |-> -1]

PreloadBufferAtLeast(r, n) == r.ptr + n <= Len(file)

\* A header with its checksum, of a body that is not too large.
IsHeader(cell) == cell[1] = "header" /\ cell[3] <= kMaxRecordSize

\* TryReadNextBlockHeader: seek the magic; what follows an invalid header is
\* searched from the cell after that magic.
RECURSIVE TryReadNextBlockHeader(_)
TryReadNextBlockHeader(r) ==
    LET found == {p \in r.ptr .. Len(file) - 2 : file[p + 1] = Magic}
        stop == IF found # {} THEN CHOOSE p \in found : \A q \in found : p <= q
                ELSE Len(file) - 1
        s == [r EXCEPT !.ptr = stop, !.skipped = @ + stop - r.ptr]
    IN  IF ~PreloadBufferAtLeast(r, kMinBlockSize) THEN r
        ELSE IF found = {} \/ ~PreloadBufferAtLeast(s, kMinBlockSize) THEN s
        ELSE IF IsHeader(file[stop + 2])
        THEN [s EXCEPT !.ptr = stop + HeaderSize, !.block = stop,
                       !.header = file[stop + 2], !.m_state = "VALID_HEADER"]
        ELSE TryReadNextBlockHeader(
                 [s EXCEPT !.ptr = stop + 1, !.skipped = @ + 1])

\* ProcessExtentHeader: the body without the extent header, inflated.
ProcessExtentHeader(type, body) ==
    IF ~type[2] THEN body
    ELSE IF Head(body)[2] THEN body[2][2] ELSE Tail(body)

\* The records of a body, as ReadRecord will cut them off one by one.
Decode(type, body) ==
    CASE type = "single" -> <<body>>
      [] type = "fixed" ->
           LET size == Head(body)[2]
           IN  IF size = 0 THEN [i \in 1..body[2][2] |-> <<>>]
               ELSE [i \in 1..((Len(body) - 1) \div size) |->
                       SubSeq(body, 2 + (i - 1) * size, 1 + i * size)]
      [] type = "variable" ->
           LET n == Head(body)[2]
               from[i \in 1..n + 1] ==
                   IF i = 1 THEN n + 2 ELSE from[i - 1] + body[i][2]
           IN  [i \in 1..n |-> SubSeq(body, from[i], from[i + 1] - 1)]

\* Variant: a block that turned out damaged is skipped with its body.
StartOverBehindBody(r) ==
    LET ptr == IF r.ptr + r.header[3] + kBlockFooterSize <= Len(file)
               THEN r.ptr + r.header[3] + kBlockFooterSize ELSE Len(file)
    IN  [r EXCEPT !.skipped = @ + ptr - r.block, !.ptr = ptr,
                  !.m_state = "START"]

\* The header turned out wrong or the body damaged: start over behind the
\* header.
StartOver(r) ==
    [r EXCEPT !.skipped = @ + r.ptr - r.block, !.m_state = "START"]

\* Variant: a block that begins at the end of a split belongs to it.
BehindSplitInclusive(r, m_pos) == r.end # -1 /\ m_pos + r.skipped > r.end

\* The position has reached the end of the reader's split.
BehindSplit(r, m_pos) == r.end # -1 /\ m_pos + r.skipped >= r.end

RECURSIVE TryReadNextBlock(_)
TryReadNextBlock(r) ==
    LET h == IF r.m_state = "VALID_HEADER" THEN r
             ELSE TryReadNextBlockHeader(r)
        len == h.header[3]
        m_pos == h.m_pos + HeaderSize + len + kBlockFooterSize
        s == IF h.end = -1 THEN h
             ELSE [h EXCEPT !.m_pos = m_pos,
                            !.last = @ \/ BehindSplit(h, m_pos)]
        body == SubSeq(file, s.ptr + 1, s.ptr + len)
        footer == file[s.ptr + len + 1]
    IN  IF h.m_state # "VALID_HEADER"
        THEN IF h.resume THEN h
             ELSE [h EXCEPT !.skipped = @ + Len(file) - h.ptr,
                            !.ptr = Len(file)]
        ELSE IF BehindSplit(h, h.m_pos) THEN h
        ELSE IF ~PreloadBufferAtLeast(s, len + kBlockFooterSize)
        THEN IF s.resume THEN s ELSE TryReadNextBlock(StartOver(s))
        ELSE IF footer[1] # "footer" \/ footer[2] # <<s.header>> \o body
        THEN TryReadNextBlock(StartOver(s))
        ELSE [s EXCEPT !.ptr = @ + len, !.m_state = "VALID_BLOCK",
                       !.rest = Decode(s.header[2][1],
                                    ProcessExtentHeader(s.header[2], body))]

\* CurrentBlockAvailable skips the footer of a block that is used up.
CurrentBlockAvailable(r) ==
    IF r.m_state = "VALID_BLOCK" /\ r.rest = <<>>
    THEN [r EXCEPT !.m_state = "START", !.ptr = @ + kBlockFooterSize]
    ELSE r

\* The reader after a call of ReadRecord has found its block.
Found(r) ==
    LET c == CurrentBlockAvailable(r)
    IN  IF c.m_state = "VALID_BLOCK" \/ c.last THEN c ELSE TryReadNextBlock(c)

\* A client reads on until ReadRecord returns false.  With
\* RESUME_LAST_INCOMPLETE_BLOCK it calls again when the file has grown.
\* The readers of two splits do not interact: the second one waits.
ReadRecord(i) ==
    /\ reader[i].eof # Len(file)
    /\ \A j \in 1..i - 1 : reader[j].eof # -1
    /\ LET r == Found(reader[i])
       IN  IF r.m_state = "VALID_BLOCK"
           THEN /\ reader' = [reader EXCEPT ![i] =
                                [r EXCEPT !.rest = Tail(@), !.eof = -1]]
                /\ out' = [out EXCEPT ![i] = Append(@, Head(r.rest))]
           ELSE /\ reader' = [reader EXCEPT ![i] =
                                [r EXCEPT !.eof = Len(file)]]
                /\ UNCHANGED out
    /\ UNCHANGED <<file, writer, faults>>

\* The finished file is opened as a whole or in two splits.
Open ==
    /\ closed
    /\ reader = <<>>
    /\ \/ reader' = <<NewReader(FALSE, -1, -1)>>
       \/ \E k \in 1..Len(file) - 1 :
            reader' = <<NewReader(FALSE, 0, k), NewReader(FALSE, k, Len(file))>>
    /\ out' = [i \in DOMAIN reader' |-> <<>>]
    /\ UNCHANGED <<file, writer, faults>>

\* A cell of the finished file is damaged before it is read.
Damage ==
    /\ closed
    /\ reader = <<>>
    /\ faults < MaxFaults
    /\ faults' = faults + 1
    /\ \E i \in 1..Len(file) : file' = [file EXCEPT ![i] = Junk]
    /\ UNCHANGED <<writer, reader, out>>

-----------------------------------------------------------------------------

\* A reader that resumes follows the file while it is written.
Init ==
    /\ file = <<>>
    /\ buffer = <<>>
    /\ m_record_size = RECORD_SIZE_INIT
    /\ codec \in BOOLEAN
    /\ call = NoCall
    /\ writing = <<>>
    /\ closed = FALSE
    /\ accepted = <<>>
    /\ calls = 0
    /\ faults = 0
    /\ reader \in {<<>>, <<NewReader(TRUE, -1, -1)>>}
    /\ out = [i \in DOMAIN reader |-> <<>>]

Next ==
    \/ WriteRecord
    \/ Flush
    \/ Destroy
    \/ WriteToStream
    \/ StreamFails
    \/ Crash
    \/ Open
    \/ Damage
    \/ \E i \in DOMAIN reader : ReadRecord(i)

Spec == Init /\ [][Next]_vars

-----------------------------------------------------------------------------
(* Properties.                                                             *)

\* The positions of the complete, undamaged blocks a reader can recognise: it
\* looks at nothing in the last kMinBlockSize - 1 cells of the file, and takes
\* no block whose body is larger than kMaxRecordSize, although the writer makes
\* one of a maximal record that its codec cannot deflate.
Intact ==
    {p \in 1..Len(file) - kMinBlockSize + 1 :
       /\ file[p] = Magic
       /\ IsHeader(file[p + 1])
       /\ LET end == p + HeaderSize + file[p + 1][3]
          IN  /\ end <= Len(file)
              /\ file[end][1] = "footer"
              /\ file[end][2] = SubSeq(file, p + 1, end - 1)}

FooterAt(p) == p + HeaderSize + file[p + 1][3]

IntactRecords ==
    FlattenSeq([i \in 1..Cardinality(Intact) |->
                  file[FooterAt(SetToSortSeq(Intact, <)[i])][3]])

IsSubsequence(s, t) ==
    \E picked \in SUBSET (1..Len(t)) :
        /\ Cardinality(picked) = Len(s)
        /\ LET at == SetToSortSeq(picked, <)
           IN  \A i \in 1..Len(s) : s[i] = t[at[i]]

\* Every reader has been told that there is nothing more to read.
AtEnd ==
    /\ reader # <<>>
    /\ \A i \in DOMAIN reader : reader[i].eof = Len(file)

Whole == Len(reader) = 1 /\ ~reader[1].resume

TypeOK ==
    /\ m_record_size \in {RECORD_SIZE_INIT, RECORD_SIZE_DIFFERENT}
                          \cup 0..RecordBuffer - 1
    /\ (m_record_size = RECORD_SIZE_INIT) = (buffer = <<>>)
    /\ Used(buffer) < RecordBuffer
    /\ Len(buffer) < SizeBuffer
    /\ call.kind \in {"none", "write", "large", "flush", "destroy"}
    /\ (call = NoCall) = (writing = <<>>)
    /\ closed \in BOOLEAN
    /\ Len(accepted) <= calls
    /\ \A i \in DOMAIN reader :
         /\ reader[i].m_state \in {"START", "VALID_HEADER", "VALID_BLOCK"}
         /\ reader[i].ptr \in 0..Len(file)

\* Whatever writes fail, wherever the writer dies and whatever is damaged,
\* the readers return records the writer has accepted, in their order and
\* none twice: neither a block written again after a failed flush nor a
\* block at the border of two splits is read twice (WriteRecord,
\* TryReadNextBlock).
InOrderOnce == IsSubsequence(FlattenSeq(out), accepted)

\* ReadRecord seeks past damage: a reader of the whole file returns the
\* records of every undamaged block however the file is damaged, and in a
\* file nothing happened to so do two splits together, for every place of
\* the border, and a reader that resumes, at every length of the growing file.
EveryIntactBlockIsRead ==
    AtEnd /\ (Whole \/ faults = 0) => FlattenSeq(out) = IntactRecords

\* GetAccumulatedSkippedBytes is exact at the end of the file: what the
\* reader has skipped is what does not belong to an undamaged block.
SkippedIsTheDamage ==
    AtEnd /\ Whole =>
        reader[1].skipped =
          Cardinality((1..Len(file)) \ UNION {p..FooterAt(p) : p \in Intact})

\* A file written, flushed by the destructor and read without any fault
\* gives back every record WriteRecord has accepted.
AcceptedIsRead ==
    AtEnd /\ closed /\ Whole /\ faults = 0 => FlattenSeq(out) = accepted
=============================================================================
