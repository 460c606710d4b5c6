------------------------------- MODULE Archive --------------------------------
(***************************************************************************)
(* ArchiveManager and the ar_ functions under it: a file that begins with  *)
(* a header, into which records are put at an offset.                      *)
(*                                                                         *)
(* The offset advances by one for every record, whatever its size, and     *)
(* begins at 0, where the header is.  Writing a record counts it in the    *)
(* header first, and that is flushed; the record itself stays in the       *)
(* stream's buffer until the next seek, and a process that dies loses it.  *)
(* Neither the size of a record nor the count in a new header is           *)
(* initialised.  fopen_s is called inside an assert, so this is the build  *)
(* with assertions; the other opens nothing and its first use of the       *)
(* manager dereferences null.  What every stdio call does is the           *)
(* library's.  Left out: errors of the disk, the size and the times in the *)
(* header, and a byte of 255 in a header, which an assertion of ar_new     *)
(* takes for the end of the file.                                          *)
(***************************************************************************)
EXTENDS Integers, Sequences

CONSTANTS
    HeaderLength, \* AR_HDR_SZ; the first byte stands for the magic number
    MaxByte,      \* bound on the positions in the file
    MaxSize,      \* bound on the size of a record
    MaxRecords,   \* bound on the records of one file
    CountLimit    \* 2^64, the range of the header's count

ASSUME ArchiveAssumption ==
    /\ HeaderLength \in Nat \ {0, 1}
    /\ MaxByte \in Nat /\ MaxSize \in Nat /\ MaxRecords \in Nat
    /\ HeaderLength <= MaxByte
    /\ CountLimit \in Nat \ {0}

VARIABLES
    manager,      \* the ArchiveManager: its mode, "none", or "null" for no mAr
    offset,       \* mOff
    size,         \* mSz
    count,        \* mAr->header.extension_table.count
    garbage,      \* what that was when the file was made
    stored,       \* the bytes in the file
    pending,      \* the bytes in the stream's buffer, by position
    places,       \* where each record since the file was made was put
    careful       \* whether they were all of one byte, without a seek back

archiveVars ==
    <<manager, offset, size, count, garbage, stored, pending, places, careful>>

Bytes   == 0..MaxByte
Counts  == 0..(CountLimit - 1)
Nothing == <<"nothing", 0>>
Magic   == <<"magic", 0>>
Count(n)  == <<"count", n>>
Record(n) == <<"record", n>>
Contents ==
    {Nothing, Magic} \cup {Count(n) : n \in Counts}
                     \cup {Record(n) : n \in 1..MaxRecords}

Managers == {"none", "null", "writing", "reading"}
Opened   == manager \in {"writing", "reading"}
NoBytes  == [p \in {} |-> Nothing]

HeaderBytes(n) == [p \in 0..(HeaderLength - 1) |-> IF p = 0 THEN Magic ELSE Count(n)]
RecordBytes(n) == [p \in offset..(offset + size - 1) |-> Record(n)]

\* A file with some bytes written over.
Over(file_, bytes) ==
    [p \in Bytes |-> IF p \in DOMAIN bytes THEN bytes[p] ELSE file_[p]]

Flushed == Over(stored, pending)

-----------------------------------------------------------------------------
(* ar_new, from ArchiveManager::ArchiveManager *)

OpenWriting ==
    /\ manager = "none"
    /\ manager' = "writing"
    /\ offset' = 0
    /\ size' \in 0..MaxSize
    /\ garbage' \in Counts
    /\ count' = garbage'
    /\ stored' = Over([p \in Bytes |-> Nothing], HeaderBytes(garbage'))
    /\ pending' = NoBytes
    /\ places' = <<>>
    /\ careful' = TRUE

\* A header without its magic number leaves the manager without an mAr; one that
\* a record was put over has any count.
OpenReading ==
    /\ manager = "none"
    /\ stored[0] # Nothing
    /\ manager' = IF stored[0] = Magic THEN "reading" ELSE "null"
    /\ offset' = 0
    /\ size' \in 0..MaxSize
    /\ \/ count' \in Counts /\ stored[1] = Count(count')
       \/ count' \in Counts /\ \A n \in Counts : stored[1] # Count(n)
    /\ UNCHANGED <<garbage, stored, pending, places, careful>>

-----------------------------------------------------------------------------
(* ar_write and ar_read, from operator<< and operator>> *)

NotAdvanced == offset

Advanced == offset + 1

\* The header is counted up in memory only.
HeaderUnflushed(n) == Flushed

\* The header is written, but what was in the buffer is not.
HeaderAlone(n) == Over(stored, HeaderBytes(n))

HeaderFlushed(n) == Over(Flushed, HeaderBytes(n))

WriteRecord ==
    /\ manager = "writing"
    /\ Len(places) < MaxRecords
    /\ offset < MaxByte
    /\ offset + size <= MaxByte + 1
    /\ count' = (count + 1) % CountLimit
    /\ stored' = HeaderFlushed(count')
    /\ pending' = RecordBytes(Len(places) + 1)
    /\ offset' = Advanced
    /\ places' = Append(places, offset)
    /\ careful' = (careful /\ size = 1)
    /\ UNCHANGED <<manager, size, garbage>>

\* On a file that was opened for reading every fputc fails.
WriteNothing ==
    /\ manager = "reading"
    /\ offset < MaxByte
    /\ count' = (count + 1) % CountLimit
    /\ offset' = offset + 1
    /\ UNCHANGED <<manager, size, garbage, stored, pending, places, careful>>

\* Every byte is sought, which empties the buffer; on a file that was opened for
\* writing every fgetc fails.
ReadRecord ==
    /\ Opened
    /\ offset < MaxByte
    /\ stored' = IF size > 0 THEN Flushed ELSE stored
    /\ pending' = IF size > 0 THEN NoBytes ELSE pending
    /\ offset' = offset + 1
    /\ UNCHANGED <<manager, size, count, garbage, places, careful>>

\* Both operators dereference mAr, and the process dies.
UseNull ==
    /\ manager = "null"
    /\ manager' = "none"
    /\ UNCHANGED <<offset, size, count, garbage, stored, pending, places, careful>>

-----------------------------------------------------------------------------
(* ArchiveManager::seek, set and size, the destructor, and a crash *)

Seek(to) ==
    /\ manager # "none"
    /\ offset' = to
    /\ careful' = (careful /\ (manager = "writing" => to >= offset))
    /\ UNCHANGED <<manager, size, count, garbage, stored, pending, places>>

SetSize(to) ==
    /\ manager # "none"
    /\ size' = to
    /\ UNCHANGED <<manager, offset, count, garbage, stored, pending, places, careful>>

\* fseek to the end empties the buffer.
FileSize ==
    /\ Opened
    /\ stored' = Flushed
    /\ pending' = NoBytes
    /\ UNCHANGED <<manager, offset, size, count, garbage, places, careful>>

\* The fwrite of the header in ar_close writes SEEK_SET, that is 0, items.
Close ==
    /\ manager # "none"
    /\ manager' = "none"
    /\ stored' = Flushed
    /\ pending' = NoBytes
    /\ UNCHANGED <<offset, size, count, garbage, places, careful>>

\* The process dies, and the buffer with it, or what was not written of it.
Crash ==
    /\ manager # "none"
    /\ manager' = "none"
    /\ \E written \in SUBSET DOMAIN pending :
          stored' = Over(stored, [p \in written |-> pending[p]])
    /\ pending' = NoBytes
    /\ UNCHANGED <<offset, size, count, garbage, places, careful>>

-----------------------------------------------------------------------------
(* The specification *)

ArchiveInit ==
    /\ manager = "none"
    /\ offset = 0
    /\ size = 0
    /\ count = 0
    /\ garbage = 0
    /\ stored = [p \in Bytes |-> Nothing]
    /\ pending = NoBytes
    /\ places = <<>>
    /\ careful = TRUE

ArchiveNext ==
    \/ OpenWriting \/ OpenReading
    \/ WriteRecord \/ WriteNothing \/ ReadRecord \/ UseNull
    \/ \E to \in Bytes : Seek(to)
    \/ \E to \in 1..MaxSize : SetSize(to)
    \/ FileSize \/ Close \/ Crash

ArchiveSpec == ArchiveInit /\ [][ArchiveNext]_archiveVars

-----------------------------------------------------------------------------
(* Properties *)

ArchiveTypeOK ==
    /\ manager \in Managers
    /\ offset \in Bytes
    /\ size \in 0..MaxSize
    /\ count \in Counts
    /\ garbage \in Counts
    /\ stored \in [Bytes -> Contents]
    /\ DOMAIN pending \subseteq Bytes
    /\ \A p \in DOMAIN pending : pending[p] \in Contents
    /\ places \in Seq(Bytes)
    /\ Len(places) <= MaxRecords
    /\ careful \in BOOLEAN

Made == stored[0] # Nothing
BehindHeader == \A k \in DOMAIN places : places[k] >= HeaderLength

\* At every moment, and so after a crash, the header in the file is whole and
\* counts the records that were begun, from whatever it began with, unless one
\* was put over it, as the very first is if nobody seeks.
HeaderCounts ==
    Made /\ BehindHeader =>
        \A p \in 0..(HeaderLength - 1) :
            stored[p] = HeaderBytes((garbage + Len(places)) % CountLimit)[p]

\* A caller who puts one byte at a time and never seeks back keeps every record:
\* all but the last are in the file, crash or not, and the last is there or in
\* the buffer.  Records of two bytes overlap, for the offset advances by one
\* (Archive.cpp:301).
RecordsKept ==
    careful /\ BehindHeader =>
        /\ \A k \in 1..(Len(places) - 1) : stored[places[k]] = Record(k)
        /\ manager = "writing" /\ places # <<>> =>
              Flushed[places[Len(places)]] = Record(Len(places))

\* The archive as a log: how many records are in the file without a gap.
Sound == careful /\ BehindHeader

InFile == {k \in DOMAIN places : stored[places[k]] = Record(k)}

Kept == CHOOSE n \in 0..Len(places) : 1..n \subseteq InFile /\ n + 1 \notin InFile

Log == INSTANCE ArchiveLog WITH
           sound <- Sound,
           open  <- manager = "writing",
           begun <- IF Sound THEN Len(places) ELSE 0,
           kept  <- IF Sound THEN Kept ELSE 0

\* For a caller who uses it as a log the archive is one: what was kept stays kept
\* until the file is made anew, and no step but a crash can lose a record, the
\* last one.  It rests on the seek in front of the header's bytes, which empties
\* the buffer before the header counts the next record (Archive.cpp:174).
ArchiveLogSpec == Log!LogSpec

\* The inductive invariant.
Buffered ==
    /\ pending # NoBytes => manager = "writing" /\ places # <<>>
    /\ BehindHeader => \A p \in DOMAIN pending : p >= HeaderLength
    /\ \A p \in DOMAIN pending : pending[p] = Record(Len(places))
    /\ careful /\ places # <<>> =>
          DOMAIN pending \subseteq {places[Len(places)]}

CountInMemory ==
    manager = "writing" => Made /\ count = (garbage + Len(places)) % CountLimit

Ascending ==
    careful =>
        /\ \A j, k \in DOMAIN places : j < k => places[j] < places[k]
        /\ manager = "writing" => \A k \in DOMAIN places : places[k] < offset

ArchiveInv ==
    /\ ArchiveTypeOK
    /\ Buffered
    /\ CountInMemory
    /\ Ascending
    /\ HeaderCounts
    /\ RecordsKept

=============================================================================
