---------------------------- MODULE ArchiveProofs -----------------------------
(***************************************************************************)
(* Proofs about Archive, for a header, records and a file of any size and  *)
(* any caller: ArchiveInv is inductive.  Besides the two properties it     *)
(* says what is in the stream's buffer, which is nothing but the record    *)
(* that was written last, and that a careful caller's records lie one      *)
(* behind the other.  From it follows that the archive implements the log  *)
(* of ArchiveLog.                                                          *)
(***************************************************************************)
EXTENDS Archive, TLAPS

\* There is one remainder.
LEMMA Remainder ==
    ASSUME NEW d \in Nat \ {0}, NEW q \in Int, NEW r \in 0..(d - 1),
           NEW a \in Nat, a = d * q + r
    PROVE  r = a % d
OBVIOUS

\* What is no last position of a sequence comes before the last one.
LEMMA Below ==
    ASSUME NEW m \in Nat, NEW k \in 1..m, k # m
    PROVE  k < m /\ k \in 1..(m - 1)
OBVIOUS

\* A number below the modulus is its own remainder.
LEMMA SmallRemainder ==
    ASSUME NEW d \in Nat \ {0}, NEW r \in 0..(d - 1)
    PROVE  r % d = r
OBVIOUS

\* The count of the header wraps around like the number it stands for.
LEMMA NextCount ==
    ASSUME NEW a \in Nat, NEW b, b = (a + 1) % CountLimit
    PROVE  /\ a % CountLimit \in Counts /\ b \in Counts
           /\ ((a % CountLimit) + 1) % CountLimit = b
<1>1. CountLimit \in Nat \ {0}
    BY ArchiveAssumption
<1>2. a % CountLimit \in 0..(CountLimit - 1) /\ b \in 0..(CountLimit - 1)
    BY <1>1
<1> DEFINE q == a \div CountLimit
<1>3. a = CountLimit * q + (a % CountLimit) /\ q \in Int
    BY <1>1
<1> HIDE DEF q
<1>4. CASE (a % CountLimit) + 1 < CountLimit
    <2>1. a + 1 = CountLimit * q + ((a % CountLimit) + 1)
        BY <1>1, <1>2, <1>3
    <2>2. (a % CountLimit) + 1 = (a + 1) % CountLimit
        <3>1. (a % CountLimit) + 1 \in 0..(CountLimit - 1) /\ a + 1 \in Nat
            BY <1>1, <1>2, <1>4
        <3> QED
            BY <1>1, <1>3, <2>1, <3>1, Remainder
    <2>3. ((a % CountLimit) + 1) % CountLimit = (a % CountLimit) + 1
        BY <1>1, <1>2, <1>4
    <2> QED
        BY <1>2, <2>2, <2>3 DEF Counts
<1>5. CASE (a % CountLimit) + 1 = CountLimit
    <2>1. a + 1 = CountLimit * (q + 1) + 0
        BY <1>1, <1>2, <1>3, <1>5
    <2>2. 0 = (a + 1) % CountLimit
        <3>1. q + 1 \in Int /\ 0 \in 0..(CountLimit - 1) /\ a + 1 \in Nat
            BY <1>1, <1>3
        <3> QED
            BY <1>1, <2>1, <3>1
    <2>3. CountLimit % CountLimit = 0
        BY <1>1
    <2> QED
        BY <1>2, <1>5, <2>2, <2>3 DEF Counts
<1> QED
    BY <1>1, <1>2, <1>4, <1>5

\* What a file holds once some bytes are written over.
LEMMA OverFacts ==
    ASSUME NEW f \in [Bytes -> Contents], NEW b,
           \A p \in DOMAIN b : b[p] \in Contents, NEW g, g = Over(f, b)
    PROVE  /\ g \in [Bytes -> Contents]
           /\ \A p \in Bytes : p \in DOMAIN b => g[p] = b[p]
           /\ \A p \in Bytes : p \notin DOMAIN b => g[p] = f[p]
BY DEF Over

\* The header is at the beginning, and is no record.
LEMMA HeaderFacts ==
    ASSUME NEW n \in Counts, NEW h, h = HeaderBytes(n)
    PROVE  /\ DOMAIN h = 0..(HeaderLength - 1)
           /\ \A p \in DOMAIN h : h[p] \in Contents
           /\ 0 \in DOMAIN h /\ h[0] = Magic /\ 0 \in Bytes
           /\ DOMAIN h \subseteq Bytes
           /\ Magic # Nothing
<1>1. DOMAIN h = 0..(HeaderLength - 1) /\ 0 \in DOMAIN h /\ h[0] = Magic
    BY ArchiveAssumption DEF HeaderBytes
<1>2. \A p \in DOMAIN h : h[p] = Magic \/ h[p] = Count(n)
    BY DEF HeaderBytes
<1>3. DOMAIN h \subseteq Bytes
    BY <1>1, ArchiveAssumption DEF Bytes
<1> QED
    BY <1>1, <1>2, <1>3 DEF Contents, Magic, Nothing

\* The file with the buffer written to it.
LEMMA FlushedFacts ==
    ASSUME ArchiveTypeOK
    PROVE  /\ Flushed \in [Bytes -> Contents]
           /\ \A p \in Bytes : p \in DOMAIN pending => Flushed[p] = pending[p]
           /\ \A p \in Bytes : p \notin DOMAIN pending => Flushed[p] = stored[p]
BY OverFacts DEF ArchiveTypeOK, Flushed

LEMMA ArchiveInitially == ArchiveInit => ArchiveInv
<1> SUFFICES ASSUME ArchiveInit
             PROVE  ArchiveInv
    OBVIOUS
<1>1. DOMAIN pending = {} /\ places = <<>> /\ Len(places) = 0 /\ DOMAIN places = {}
    BY DEF ArchiveInit, NoBytes
<1>2. ArchiveTypeOK
    BY <1>1, ArchiveAssumption
    DEF ArchiveInit, ArchiveTypeOK, Managers, Bytes, Counts, Contents
<1>3. Buffered /\ CountInMemory /\ Ascending
    BY <1>1 DEF ArchiveInit, Buffered, CountInMemory, Ascending
<1>4. HeaderCounts
    <2>1. 0 \in Bytes
        BY ArchiveAssumption DEF Bytes
    <2>2. ~Made
        BY <2>1 DEF ArchiveInit, Made
    <2> QED
        BY <2>2 DEF HeaderCounts
<1>5. RecordsKept
    BY <1>1 DEF ArchiveInit, RecordsKept
<1> QED
    BY <1>2, <1>3, <1>4, <1>5 DEF ArchiveInv

-----------------------------------------------------------------------------
(* The steps *)

\* Steps that write some of the buffer to the file, and then forget it.
LEMMA Settles ==
    ASSUME ArchiveInv, NEW W \in SUBSET DOMAIN pending,
           \A p \in Bytes :
               stored'[p] = IF p \in W THEN pending[p] ELSE stored[p],
           stored' \in [Bytes -> Contents],
           pending' = NoBytes,
           manager' = "none" \/ (manager' = manager /\ W = DOMAIN pending),
           manager' \in Managers, offset' \in Bytes, offset' >= offset,
           size' \in 0..MaxSize, count' = count,
           UNCHANGED <<garbage, places, careful>>
    PROVE  ArchiveInv'
<1>1. /\ ArchiveTypeOK /\ Buffered /\ CountInMemory /\ Ascending
      /\ HeaderCounts /\ RecordsKept
    BY DEF ArchiveInv
<1>2. DOMAIN pending' = {} /\ DOMAIN pending \subseteq Bytes
    BY <1>1 DEF NoBytes, ArchiveTypeOK
<1>3. ArchiveTypeOK'
    BY <1>1, <1>2 DEF ArchiveTypeOK
<1>4. Buffered'
    BY <1>2 DEF Buffered
<1>6. 0 \in Bytes /\ \A m : Record(m) # Nothing
    BY ArchiveAssumption DEF Bytes, Record, Nothing
<1>7. Made => Made'
    BY <1>1, <1>6 DEF Made, Buffered
<1>8. CountInMemory'
    BY <1>1, <1>7 DEF CountInMemory
<1>9. Ascending'
    BY <1>1 DEF Ascending, ArchiveTypeOK, Bytes
<1>10. ASSUME BehindHeader, NEW p \in 0..(HeaderLength - 1)
       PROVE  p \in Bytes /\ stored'[p] = stored[p]
    BY <1>1, <1>10, ArchiveAssumption DEF Buffered, Bytes
<1>11. HeaderCounts'
    <2> SUFFICES ASSUME Made', BehindHeader'
                 PROVE  \A p \in 0..(HeaderLength - 1) :
                            stored'[p] = HeaderBytes((garbage + Len(places)) % CountLimit)[p]
        BY DEF HeaderCounts, HeaderBytes
    <2>1. BehindHeader
        BY DEF BehindHeader
    <2>2. 0 \in 0..(HeaderLength - 1)
        BY ArchiveAssumption
    <2>3. Made
        BY <1>10, <2>1, <2>2 DEF Made
    <2> QED
        BY <1>1, <1>10, <2>1, <2>3 DEF HeaderCounts
<1>12. RecordsKept'
    <2> SUFFICES ASSUME careful', BehindHeader'
                 PROVE  /\ \A k \in 1..(Len(places') - 1) : stored'[places'[k]] = Record(k)
                        /\ manager' = "writing" /\ places' # <<>> =>
                              Flushed'[places'[Len(places')]] = Record(Len(places'))
        BY DEF RecordsKept
    <2>1. careful /\ BehindHeader /\ places' = places
        BY DEF BehindHeader
    <2>2. /\ places \in Seq(Bytes) /\ Len(places) \in Nat
          /\ DOMAIN places = 1..Len(places)
        BY <1>1 DEF ArchiveTypeOK
    <2>3. ASSUME NEW k \in 1..(Len(places) - 1)
          PROVE  stored'[places[k]] = Record(k)
        <3>1. /\ k \in DOMAIN places /\ Len(places) \in DOMAIN places
              /\ places[k] \in Bytes /\ places[Len(places)] \in Bytes
              /\ k < Len(places) /\ places # <<>>
            BY <2>2
        <3>2. places[k] < places[Len(places)]
            BY <1>1, <2>1, <3>1 DEF Ascending
        <3>3. places[k] \notin DOMAIN pending
            BY <1>1, <2>1, <3>1, <3>2 DEF Buffered, Bytes
        <3> QED
            BY <1>1, <2>1, <3>1, <3>3 DEF RecordsKept
    <2>4. ASSUME manager' = "writing", places # <<>>
          PROVE  Flushed'[places[Len(places)]] = Record(Len(places))
        <3>1. manager = "writing" /\ W = DOMAIN pending
            BY <2>4
        <3>2. places[Len(places)] \in Bytes
            BY <2>2, <2>4
        <3>3. Flushed[places[Len(places)]] = Record(Len(places))
            BY <1>1, <2>1, <2>4, <3>1 DEF RecordsKept
        <3>4. stored'[places[Len(places)]] = Flushed[places[Len(places)]]
            BY <1>1, <3>1, <3>2, FlushedFacts
        <3>5. Flushed'[places[Len(places)]] = stored'[places[Len(places)]]
            BY <1>2, <3>2 DEF Flushed, Over
        <3> QED
            BY <3>3, <3>4, <3>5
    <2> QED
        BY <2>1, <2>3, <2>4
<1> QED
    BY <1>3, <1>4, <1>8, <1>9, <1>11, <1>12 DEF ArchiveInv

\* A record: the header in the file counts it, the buffer has it, and the one
\* before it has reached the file.
LEMMA WriteKeeps ==
    ASSUME ArchiveInv, WriteRecord
    PROVE  ArchiveInv'
<1>1. /\ ArchiveTypeOK /\ Buffered /\ CountInMemory /\ Ascending
      /\ HeaderCounts /\ RecordsKept
    BY DEF ArchiveInv
<1> DEFINE n == Len(places) + 1
<1>2. /\ places \in Seq(Bytes) /\ Len(places) \in Nat /\ n \in 1..MaxRecords
      /\ offset \in Bytes /\ offset \in Int /\ offset < MaxByte
      /\ places' = Append(places, offset) /\ Len(places') = n
      /\ places' \in Seq(Bytes) /\ places'[n] = offset
      /\ \A k \in 1..Len(places) : places'[k] = places[k] /\ k \in DOMAIN places
      /\ DOMAIN places = 1..Len(places) /\ DOMAIN places' = 1..n
    BY <1>1, ArchiveAssumption DEF ArchiveTypeOK, WriteRecord, Bytes
<1>3. /\ count' = (garbage + n) % CountLimit /\ count' \in Counts
      /\ garbage' = garbage /\ garbage \in Counts /\ manager = "writing"
      /\ manager' = "writing"
    <2>1. /\ count = (garbage + Len(places)) % CountLimit
          /\ garbage + Len(places) \in Nat
          /\ (garbage + Len(places)) + 1 = garbage + n
        BY <1>1, <1>2, ArchiveAssumption
        DEF CountInMemory, WriteRecord, ArchiveTypeOK, Counts
    <2>2. count' = (count + 1) % CountLimit
        BY DEF WriteRecord
    <2>3. (count + 1) % CountLimit = (garbage + n) % CountLimit
          /\ (garbage + n) % CountLimit \in Counts
        BY <2>1, NextCount
    <2> QED
        BY <1>1, <2>2, <2>3 DEF WriteRecord, ArchiveTypeOK
<1>4. /\ stored' \in [Bytes -> Contents]
      /\ \A p \in 0..(HeaderLength - 1) :
            p \in Bytes /\ stored'[p] = HeaderBytes(count')[p]
      /\ \A p \in Bytes : p >= HeaderLength => stored'[p] = Flushed[p]
      /\ stored'[0] = Magic /\ Magic # Nothing
    <2>1. PICK h : h = HeaderBytes(count')
        OBVIOUS
    <2>2. /\ DOMAIN h = 0..(HeaderLength - 1) /\ DOMAIN h \subseteq Bytes
          /\ \A p \in DOMAIN h : h[p] \in Contents
          /\ 0 \in DOMAIN h /\ h[0] = Magic /\ Magic # Nothing
        BY <1>3, <2>1, HeaderFacts
    <2>3. Flushed \in [Bytes -> Contents]
        BY <1>1, FlushedFacts
    <2>4. stored' = Over(Flushed, h)
        BY <2>1 DEF WriteRecord, HeaderFlushed
    <2>5. /\ stored' \in [Bytes -> Contents]
          /\ \A p \in Bytes : p \in DOMAIN h => stored'[p] = h[p]
          /\ \A p \in Bytes : p \notin DOMAIN h => stored'[p] = Flushed[p]
        BY <2>2, <2>3, <2>4 DEF Over
    <2>6. \A p \in Bytes : p >= HeaderLength => p \notin DOMAIN h
        BY <2>2, ArchiveAssumption DEF Bytes
    <2> QED
        BY <2>1, <2>2, <2>5, <2>6
<1>5. /\ DOMAIN pending' = offset..(offset + size - 1)
      /\ DOMAIN pending' \subseteq Bytes
      /\ \A p \in DOMAIN pending' : pending'[p] = Record(n) /\ pending'[p] \in Contents
    <2>1. size \in Nat /\ offset + size <= MaxByte + 1 /\ MaxByte \in Nat
        BY <1>1, ArchiveAssumption DEF ArchiveTypeOK, WriteRecord
    <2>2. pending' = RecordBytes(n)
        BY DEF WriteRecord
    <2>3. /\ DOMAIN pending' = offset..(offset + size - 1)
          /\ \A p \in DOMAIN pending' : pending'[p] = Record(n)
        BY <2>2 DEF RecordBytes
    <2>4. Record(n) \in Contents
        BY <1>2 DEF Contents
    <2>5. offset..(offset + size - 1) \subseteq Bytes
        BY <1>2, <2>1 DEF Bytes
    <2> QED
        BY <2>3, <2>4, <2>5
<1>6. ArchiveTypeOK'
    <2>1. offset' \in Bytes
        BY <1>2, ArchiveAssumption DEF WriteRecord, Advanced, Bytes
    <2>2. n <= MaxRecords
        BY <1>2
    <2>3. size' = size /\ careful' \in BOOLEAN
        BY <1>1 DEF WriteRecord, ArchiveTypeOK
    <2> QED
        BY <1>1, <1>2, <1>3, <1>4, <1>5, <2>1, <2>2, <2>3
        DEF ArchiveTypeOK, Managers
<1>7. BehindHeader' => BehindHeader /\ offset >= HeaderLength
    <2>1. n \in 1..n
        BY <1>2
    <2>2. \A k \in 1..Len(places) : k \in 1..n
        BY <1>2
    <2> QED
        BY <1>2, <2>1, <2>2 DEF BehindHeader
<1>8. careful' => careful /\ size = 1
    BY DEF WriteRecord
<1>9. Buffered'
    <2>1. places' # <<>>
        BY <1>2
    <2>2. BehindHeader' => \A p \in DOMAIN pending' : p >= HeaderLength
        BY <1>2, <1>5, <1>7, ArchiveAssumption
    <2>3. careful' => DOMAIN pending' \subseteq {places'[Len(places')]}
        BY <1>2, <1>5, <1>8
    <2> QED
        BY <1>2, <1>3, <1>5, <2>1, <2>2, <2>3 DEF Buffered
<1>10. CountInMemory'
    BY <1>2, <1>3, <1>4 DEF CountInMemory, Made
<1>11. Ascending'
    <2> SUFFICES ASSUME careful'
                 PROVE  /\ \A i, k \in DOMAIN places' : i < k => places'[i] < places'[k]
                        /\ \A k \in DOMAIN places' : places'[k] < offset'
        BY DEF Ascending
    <2>1. /\ \A i, k \in DOMAIN places : i < k => places[i] < places[k]
          /\ \A k \in DOMAIN places : places[k] < offset /\ places[k] \in Int
        <3>1. \A k \in DOMAIN places : places[k] \in Int
            BY <1>2, ArchiveAssumption DEF Bytes
        <3> QED
            BY <1>1, <1>3, <1>8, <3>1 DEF Ascending
    <2>2. offset' = offset + 1
        BY DEF WriteRecord, Advanced
    <2>3. \A k \in 1..n : k = n \/ k \in 1..Len(places)
        BY <1>2
    <2> HIDE DEF n
    <2>4. \A k \in DOMAIN places' : places'[k] < offset'
        BY <1>2, <2>1, <2>2, <2>3
    <2>5. ASSUME NEW i \in 1..n, NEW k \in 1..n, i < k
          PROVE  places'[i] < places'[k]
        <3>1. i \in 1..Len(places)
            BY <1>2, <2>3, <2>5
        <3>2. CASE k = n
            BY <1>2, <2>1, <3>1, <3>2
        <3>3. CASE k \in 1..Len(places)
            BY <1>2, <2>1, <2>5, <3>1, <3>3
        <3> QED
            BY <2>3, <3>2, <3>3
    <2> QED
        BY <1>2, <2>4, <2>5
<1>12. HeaderCounts'
    BY <1>2, <1>3, <1>4 DEF HeaderCounts, HeaderBytes
<1>13. RecordsKept'
    <2> SUFFICES ASSUME careful', BehindHeader'
                 PROVE  /\ \A k \in 1..(Len(places') - 1) : stored'[places'[k]] = Record(k)
                        /\ Flushed'[places'[Len(places')]] = Record(Len(places'))
        BY DEF RecordsKept
    <2>1. /\ careful /\ BehindHeader /\ offset >= HeaderLength /\ size = 1
        BY <1>7, <1>8
    <2>2. ASSUME NEW k \in 1..Len(places)
          PROVE  stored'[places'[k]] = Record(k)
        <3>1. /\ places'[k] = places[k] /\ places[k] \in Bytes
              /\ k \in DOMAIN places /\ places[k] >= HeaderLength
              /\ places # <<>>
            BY <1>2, <2>1 DEF BehindHeader
        <3>2. stored'[places[k]] = Flushed[places[k]]
            BY <1>4, <3>1
        <3>3. CASE k = Len(places)
            BY <1>1, <1>3, <2>1, <3>1, <3>2, <3>3 DEF RecordsKept
        <3>4. CASE k # Len(places)
            <4>1. /\ k \in 1..(Len(places) - 1) /\ k < Len(places)
                  /\ Len(places) \in DOMAIN places
                <5>1. Len(places) \in Nat /\ DOMAIN places = 1..Len(places)
                    BY <1>2
                <5>2. Len(places) \in 1..Len(places)
                    BY <5>1
                <5>3. k < Len(places) /\ k \in 1..(Len(places) - 1)
                    <6>1. PICK m \in Nat : m = Len(places)
                        BY <5>1
                    <6>2. k \in 1..m /\ k # m
                        BY <3>4, <6>1
                    <6>3. k < m /\ k \in 1..(m - 1)
                        BY <6>1, <6>2, Below
                    <6> QED
                        BY <6>1, <6>3
                <5> QED
                    BY <5>1, <5>2, <5>3
            <4>2. places[k] < places[Len(places)]
                BY <1>1, <2>1, <3>1, <4>1 DEF Ascending
            <4>3. places[k] \notin DOMAIN pending
                BY <1>1, <2>1, <3>1, <4>1, <4>2 DEF Buffered, Bytes
            <4>4. Flushed[places[k]] = stored[places[k]]
                BY <1>1, <3>1, <4>3, FlushedFacts
            <4>5. stored[places[k]] = Record(k)
                BY <1>1, <2>1, <4>1 DEF RecordsKept
            <4> QED
                BY <3>1, <3>2, <4>4, <4>5
        <3> QED
            BY <3>3, <3>4
    <2>3. Flushed'[offset] = Record(n)
        <3>1. offset \in DOMAIN pending'
            BY <1>2, <1>5, <2>1
        <3> QED
            BY <1>2, <1>5, <3>1 DEF Flushed, Over
    <2>4. Len(places') - 1 = Len(places)
        BY <1>2
    <2> QED
        BY <1>2, <2>2, <2>3, <2>4
<1> QED
    BY <1>6, <1>9, <1>10, <1>11, <1>12, <1>13 DEF ArchiveInv

\* A new file has its header and no records.
LEMMA OpenKeeps ==
    ASSUME ArchiveInv, OpenWriting
    PROVE  ArchiveInv'
<1>1. PICK h : h = HeaderBytes(garbage')
    OBVIOUS
<1>2. /\ garbage' \in Counts /\ count' = garbage' /\ garbage' \in Nat
      /\ garbage' < CountLimit
    BY ArchiveAssumption DEF OpenWriting, Counts
<1>3. /\ DOMAIN h = 0..(HeaderLength - 1) /\ DOMAIN h \subseteq Bytes
      /\ \A p \in DOMAIN h : h[p] \in Contents
      /\ 0 \in DOMAIN h /\ h[0] = Magic /\ Magic # Nothing
    BY <1>1, <1>2, HeaderFacts
<1>4. [p \in Bytes |-> Nothing] \in [Bytes -> Contents]
    BY DEF Contents
<1>5. /\ stored' \in [Bytes -> Contents]
      /\ \A p \in Bytes : p \in DOMAIN h => stored'[p] = h[p]
    BY <1>1, <1>3, <1>4 DEF OpenWriting, Over
<1>6. /\ places' = <<>> /\ Len(places') = 0 /\ DOMAIN places' = {}
      /\ pending' = NoBytes /\ DOMAIN pending' = {} /\ offset' = 0
      /\ careful' = TRUE /\ size' \in 0..MaxSize /\ manager' = "writing"
    BY DEF OpenWriting, NoBytes
<1>7. ArchiveTypeOK'
    <2>1. places' \in Seq(Bytes) /\ Len(places') <= MaxRecords /\ 0 \in Bytes
        BY <1>6, ArchiveAssumption DEF Bytes
    <2>2. DOMAIN pending' \subseteq Bytes /\ \A p \in DOMAIN pending' : FALSE
        BY <1>6
    <2> QED
        BY <1>2, <1>5, <1>6, <2>1, <2>2 DEF ArchiveTypeOK, Managers
<1>8. garbage' % CountLimit = garbage'
    <2>1. garbage' \in 0..(CountLimit - 1) /\ CountLimit \in Nat \ {0}
        BY <1>2, ArchiveAssumption DEF Counts
    <2> QED
        BY <2>1, SmallRemainder
<1>9. \A m \in Nat : m + 0 = m
    OBVIOUS
<1>10. Buffered' /\ Ascending' /\ RecordsKept'
    BY <1>6 DEF Buffered, Ascending, RecordsKept
<1>11. CountInMemory'
    BY <1>2, <1>3, <1>5, <1>6, <1>8, <1>9 DEF CountInMemory, Made
<1>12. HeaderCounts'
    BY <1>1, <1>3, <1>5, <1>6, <1>8, <1>9 DEF HeaderCounts, HeaderBytes
<1> QED
    BY <1>7, <1>10, <1>11, <1>12 DEF ArchiveInv

\* Steps that write nothing: the buffer, the file and what is known of them stay.
LEMMA QuietKeeps ==
    ASSUME ArchiveInv,
           UNCHANGED <<garbage, stored, pending, places>>,
           manager' = manager \/ (pending = NoBytes /\ manager' # "writing"),
           manager' = "writing" => count' = count,
           manager' \in Managers, offset' \in Bytes, size' \in 0..MaxSize,
           count' \in Counts, careful' \in BOOLEAN,
           careful' => careful /\ (manager = "writing" => offset' >= offset)
    PROVE  ArchiveInv'
<1>1. /\ ArchiveTypeOK /\ Buffered /\ CountInMemory /\ Ascending
      /\ HeaderCounts /\ RecordsKept
    BY DEF ArchiveInv
<1>2. ArchiveTypeOK'
    BY <1>1 DEF ArchiveTypeOK
<1>3. Buffered'
    BY <1>1 DEF Buffered, BehindHeader, NoBytes
<1>4. CountInMemory'
    BY <1>1 DEF CountInMemory, Made
<1>5. Ascending'
    <2>1. \A k \in DOMAIN places : places[k] \in Int
        BY <1>1, ArchiveAssumption DEF ArchiveTypeOK, Bytes
    <2>2. offset \in Int /\ offset' \in Int
        BY <1>1, ArchiveAssumption DEF ArchiveTypeOK, Bytes
    <2> QED
        BY <1>1, <2>1, <2>2 DEF Ascending
<1>6. HeaderCounts'
    BY <1>1 DEF HeaderCounts, Made, BehindHeader, HeaderBytes
<1>7. RecordsKept'
    BY <1>1 DEF RecordsKept, BehindHeader, Flushed, Over
<1> QED
    BY <1>2, <1>3, <1>4, <1>5, <1>6, <1>7 DEF ArchiveInv

LEMMA ArchiveStep ==
    ASSUME ArchiveInv, [ArchiveNext]_archiveVars
    PROVE  ArchiveInv'
<1>1. /\ ArchiveTypeOK /\ Buffered /\ MaxByte \in Nat /\ MaxSize \in Nat
      /\ offset \in Bytes /\ DOMAIN pending \subseteq Bytes
    BY ArchiveAssumption DEF ArchiveInv, ArchiveTypeOK
<1>2. /\ Flushed \in [Bytes -> Contents]
      /\ \A p \in Bytes : Flushed[p] = IF p \in DOMAIN pending THEN pending[p]
                                                           ELSE stored[p]
    BY <1>1, FlushedFacts
<1>3. CASE OpenWriting
    BY <1>3, OpenKeeps
<1>4. CASE WriteRecord
    BY <1>4, WriteKeeps
<1>5. CASE OpenReading
    <2>1. pending = NoBytes
        BY <1>1, <1>5 DEF Buffered, OpenReading
    <2>2. /\ manager' \in {"reading", "null"} /\ offset' = 0 /\ 0 \in Bytes
          /\ size' \in 0..MaxSize /\ count' \in Counts
          /\ UNCHANGED <<garbage, stored, pending, places, careful>>
          /\ manager = "none" /\ careful \in BOOLEAN
        BY <1>1, <1>5 DEF OpenReading, Bytes, ArchiveTypeOK
    <2> QED
        BY <2>1, <2>2, QuietKeeps DEF Managers
<1>6. CASE WriteNothing
    <2>1. (count + 1) % CountLimit \in Counts
        BY <1>1, ArchiveAssumption DEF ArchiveTypeOK, Counts
    <2>2. offset' \in Bytes
        BY <1>1, <1>6 DEF WriteNothing, Bytes
    <2> QED
        BY <1>1, <1>6, <2>1, <2>2, QuietKeeps DEF WriteNothing, ArchiveTypeOK
<1>7. CASE ReadRecord
    <2>1. offset' \in Bytes /\ offset' >= offset
        BY <1>1, <1>7 DEF ReadRecord, Bytes
    <2>2. /\ UNCHANGED <<manager, size, count, garbage, places, careful>>
          /\ size \in Int
        BY <1>1, <1>7 DEF ReadRecord, ArchiveTypeOK
    <2>3. CASE size > 0
        <3>1. stored' = Flushed /\ pending' = NoBytes
            BY <1>7, <2>3 DEF ReadRecord
        <3> QED
            BY <1>1, <1>2, <2>1, <2>2, <3>1, Settles DEF ArchiveTypeOK
    <2>4. CASE ~(size > 0)
        <3>1. stored' = stored /\ pending' = pending
            BY <1>7, <2>4 DEF ReadRecord
        <3> QED
            BY <1>1, <2>1, <2>2, <3>1, QuietKeeps DEF ArchiveTypeOK
    <2> QED
        BY <2>3, <2>4
<1>8. CASE UseNull
    <2>1. pending = NoBytes
        BY <1>1, <1>8 DEF Buffered, UseNull
    <2> QED
        BY <1>1, <1>8, <2>1, QuietKeeps DEF UseNull, ArchiveTypeOK, Managers
<1>9. ASSUME NEW to \in Bytes, Seek(to)
      PROVE  ArchiveInv'
    BY <1>1, <1>9, QuietKeeps DEF Seek, ArchiveTypeOK
<1>10. ASSUME NEW to \in 1..MaxSize, SetSize(to)
       PROVE  ArchiveInv'
    <2>1. offset >= offset
        BY <1>1 DEF Bytes
    <2> QED
        BY <1>1, <1>10, <2>1, QuietKeeps DEF SetSize, ArchiveTypeOK
<1>11. CASE FileSize
    <2>1. offset >= offset
        BY <1>1 DEF Bytes
    <2> QED
        BY <1>1, <1>2, <1>11, <2>1, Settles DEF FileSize, ArchiveTypeOK
<1>12. CASE Close
    <2>1. offset >= offset
        BY <1>1 DEF Bytes
    <2> QED
        BY <1>1, <1>2, <1>12, <2>1, Settles DEF Close, ArchiveTypeOK, Managers
<1>13. CASE Crash
    <2>1. PICK W \in SUBSET DOMAIN pending :
              stored' = Over(stored, [p \in W |-> pending[p]])
        BY <1>13 DEF Crash
    <2>2. /\ stored' \in [Bytes -> Contents]
          /\ \A p \in Bytes :
                stored'[p] = IF p \in W THEN pending[p] ELSE stored[p]
        BY <1>1, <2>1 DEF Over, ArchiveTypeOK
    <2>3. offset >= offset
        BY <1>1 DEF Bytes
    <2> QED
        BY <1>1, <1>13, <2>2, <2>3, Settles DEF Crash, ArchiveTypeOK, Managers
<1>14. CASE UNCHANGED archiveVars
    <2>1. offset >= offset
        BY <1>1 DEF Bytes
    <2> QED
        BY <1>1, <1>14, <2>1, QuietKeeps DEF archiveVars, ArchiveTypeOK
<1> QED
    BY <1>3, <1>4, <1>5, <1>6, <1>7, <1>8, <1>9, <1>10, <1>11, <1>12, <1>13,
       <1>14
    DEF ArchiveNext

-----------------------------------------------------------------------------
(* The theorems *)

LEMMA ArchiveInvariance == ArchiveSpec => []ArchiveInv
BY ArchiveInitially, ArchiveStep, PTL DEF ArchiveSpec

\* The header in the file is whole and counts every record that was begun, at
\* every moment at which a crash may come, unless a record was put over it.
THEOREM HeaderAlwaysCounts == ArchiveSpec => []HeaderCounts
<1>1. ArchiveInv => HeaderCounts
    BY DEF ArchiveInv
<1> QED
    BY <1>1, ArchiveInvariance, PTL

\* One byte at a time and without a seek back no record is lost, but for the
\* last one in a crash.
THEOREM RecordsAlwaysKept == ArchiveSpec => []RecordsKept
<1>1. ArchiveInv => RecordsKept
    BY DEF ArchiveInv
<1> QED
    BY <1>1, ArchiveInvariance, PTL

-----------------------------------------------------------------------------
(* The archive implements ArchiveLog *)

\* How long a set of positions is without a gap that lacks at most the last one.
LEMMA LongestPrefix ==
    ASSUME NEW m \in Nat, NEW G, G \subseteq 1..m, 1..(m - 1) \subseteq G,
           NEW x, x = (CHOOSE n \in 0..m : 1..n \subseteq G /\ n + 1 \notin G)
    PROVE  /\ m = 0 \/ m \in G => x = m
           /\ m # 0 /\ m \notin G => x = m - 1
<1> DEFINE P(n) == 1..n \subseteq G /\ n + 1 \notin G
<1>1. CASE m = 0 \/ m \in G
    <2>1. 1..m \subseteq G
        BY <1>1
    <2>2. m \in 0..m /\ P(m)
        BY <2>1
    <2>3. ASSUME NEW n \in 0..m, P(n)
          PROVE  n = m
        <3>1. n < m => n + 1 \in 1..m
            OBVIOUS
        <3> QED
            BY <2>1, <2>3, <3>1
    <2>4. x \in 0..m /\ P(x)
        BY <2>2
    <2> QED
        BY <1>1, <2>3, <2>4
<1>2. CASE m # 0 /\ m \notin G
    <2>1. m - 1 \in 0..m /\ P(m - 1)
        BY <1>2
    <2>2. ASSUME NEW n \in 0..m, P(n)
          PROVE  n = m - 1
        <3>1. n = m => m \in 1..n
            BY <1>2
        <3>2. n < m - 1 => n + 1 \in 1..(m - 1)
            OBVIOUS
        <3>3. n # m /\ ~(n < m - 1)
            BY <1>2, <2>2, <3>1, <3>2
        <3> QED
            BY <3>3
    <2>3. x \in 0..m /\ P(x)
        BY <2>1
    <2> QED
        BY <1>2, <2>2, <2>3
<1> QED
    BY <1>1, <1>2

\* A log keeps all its records, or all but the last.
LEMMA KeptNow ==
    ASSUME ArchiveInv, Sound
    PROVE  /\ Len(places) \in Nat
           /\ places = <<>> \/ Len(places) \in InFile => Kept = Len(places)
           /\ places # <<>> /\ Len(places) \notin InFile => Kept = Len(places) - 1
<1>1. /\ places \in Seq(Bytes) /\ Len(places) \in Nat /\ DOMAIN places = 1..Len(places)
      /\ places = <<>> <=> Len(places) = 0
    BY DEF ArchiveInv, ArchiveTypeOK
<1>2. \A k \in 1..(Len(places) - 1) : stored[places[k]] = Record(k) /\ k \in DOMAIN places
    BY <1>1 DEF ArchiveInv, RecordsKept, Sound
<1>3. InFile \subseteq 1..Len(places) /\ 1..(Len(places) - 1) \subseteq InFile
    BY <1>1, <1>2 DEF InFile
<1> QED
    BY <1>1, <1>3, LongestPrefix DEF Kept

LEMMA KeptNext ==
    ASSUME ArchiveInv', Sound'
    PROVE  /\ Len(places') \in Nat
           /\ places' = <<>> \/ Len(places') \in InFile' => Kept' = Len(places')
           /\ places' # <<>> /\ Len(places') \notin InFile' => Kept' = Len(places') - 1
<1>1. /\ places' \in Seq(Bytes) /\ Len(places') \in Nat
      /\ DOMAIN places' = 1..Len(places')
      /\ places' = <<>> <=> Len(places') = 0
    BY DEF ArchiveInv, ArchiveTypeOK
<1>2. \A k \in 1..(Len(places') - 1) :
          stored'[places'[k]] = Record(k) /\ k \in DOMAIN places'
    BY <1>1 DEF ArchiveInv, RecordsKept, Sound
<1>3. InFile' \subseteq 1..Len(places') /\ 1..(Len(places') - 1) \subseteq InFile'
    BY <1>1, <1>2 DEF InFile
<1> QED
    BY <1>1, <1>3, LongestPrefix DEF Kept

\* What does not touch the records or the file leaves the log alone.
LEMMA LogStays ==
    ASSUME UNCHANGED <<stored, places, careful>>,
           manager' = "writing" <=> manager = "writing"
    PROVE  UNCHANGED Log!logVars
<1>1. UNCHANGED <<Sound, InFile>>
    BY DEF Sound, BehindHeader, InFile
<1>2. UNCHANGED Kept
    BY <1>1 DEF Kept
<1> QED
    BY <1>1, <1>2 DEF Log!logVars

\* When the buffer is written the whole log is in the file.
LEMMA FlushKeepsAll ==
    ASSUME ArchiveInv, ArchiveInv', manager = "writing",
           stored' = Flushed, UNCHANGED <<places, careful>>
    PROVE  Sound' = Sound /\ (Sound => Kept' = Len(places))
<1>1. Sound' = Sound
    BY DEF Sound, BehindHeader
<1>2. ASSUME Sound, places # <<>>
      PROVE  Len(places) \in InFile'
    <2>1. Len(places) \in DOMAIN places
        BY <1>2 DEF ArchiveInv, ArchiveTypeOK
    <2>2. Flushed[places[Len(places)]] = Record(Len(places))
        BY <1>2 DEF ArchiveInv, RecordsKept, Sound
    <2> QED
        BY <2>1, <2>2 DEF InFile
<1> QED
    BY <1>1, <1>2, KeptNext

\* Nothing is in the buffer of a file that is not written.
LEMMA NothingBuffered ==
    ASSUME ArchiveInv, manager # "writing"
    PROVE  Flushed = stored /\ DOMAIN pending = {}
<1>1. DOMAIN pending = {}
    BY DEF ArchiveInv, Buffered, NoBytes
<1>2. stored \in [Bytes -> Contents]
    BY DEF ArchiveInv, ArchiveTypeOK
<1> QED
    BY <1>1, <1>2 DEF Flushed, Over

LEMMA LogStep ==
    ASSUME ArchiveInv, ArchiveInv', [ArchiveNext]_archiveVars
    PROVE  [Log!LogNext]_(Log!logVars)
<1>1. CASE OpenWriting
    <2>1. /\ manager = "none" /\ manager' = "writing" /\ places' = <<>> /\ careful' = TRUE
          /\ Len(places') = 0
        BY <1>1 DEF OpenWriting
    <2>2. Sound'
        BY <2>1 DEF Sound, BehindHeader
    <2>3. Kept' = 0
        BY <2>1, <2>2, KeptNext
    <2>4. Log!Create
        BY <2>1, <2>2, <2>3 DEF Log!Create
    <2> QED
        BY <2>4 DEF Log!LogNext
<1>2. CASE OpenReading \/ WriteNothing \/ UseNull \/ UNCHANGED archiveVars
    BY <1>2, LogStays DEF OpenReading, WriteNothing, UseNull, archiveVars
<1>3. ASSUME NEW to \in 1..MaxSize, SetSize(to)
      PROVE  UNCHANGED Log!logVars
    BY <1>3, LogStays DEF SetSize
<1>4. CASE WriteRecord
    <2>1. /\ manager = "writing" /\ manager' = "writing"
          /\ places' = Append(places, offset)
          /\ careful' => careful
        BY <1>4 DEF WriteRecord
    <2>2. places \in Seq(Bytes) /\ offset \in Bytes
        BY DEF ArchiveInv, ArchiveTypeOK
    <2>3. /\ Len(places') = Len(places) + 1 /\ Len(places) \in Nat /\ places' # <<>>
          /\ DOMAIN places \subseteq DOMAIN places'
          /\ \A k \in DOMAIN places : places'[k] = places[k]
        <3> DEFINE more == Append(places, offset)
        <3>1. Len(more) = Len(places) + 1 /\ Len(places) \in Nat /\ more \in Seq(Bytes)
            BY <2>2
        <3>2. /\ DOMAIN more = 1..(Len(places) + 1) /\ DOMAIN places = 1..Len(places)
              /\ more # <<>>
            BY <2>2, <3>1
        <3>3. ASSUME NEW k \in DOMAIN places
              PROVE  more[k] = places[k]
            BY <2>2, <3>2, <3>3
        <3>4. places' = more
            BY <2>1
        <3> HIDE DEF more
        <3>5. DOMAIN places \subseteq DOMAIN more
            BY <3>1, <3>2
        <3> QED
            BY <3>1, <3>2, <3>3, <3>4, <3>5
    <2>4. CASE Sound'
        <3>1. \A k \in DOMAIN places' : places'[k] >= HeaderLength
            BY <2>4 DEF Sound, BehindHeader
        <3>2. \A k \in DOMAIN places : places[k] >= HeaderLength
            BY <2>3, <3>1
        <3>3. careful
            BY <2>1, <2>4 DEF Sound
        <3>4. Sound
            BY <3>2, <3>3 DEF Sound, BehindHeader
        <3>5. Kept' \in {Len(places), Len(places) + 1}
            BY <2>3, <2>4, KeptNext
        <3>6. Log!Begin
            BY <2>1, <2>3, <2>4, <3>4, <3>5 DEF Log!Begin
        <3> QED
            BY <3>6 DEF Log!LogNext
    <2>5. CASE ~Sound'
        <3>1. Log!Misuse
            BY <2>1, <2>5 DEF Log!Misuse
        <3> QED
            BY <3>1 DEF Log!LogNext
    <2> QED
        BY <2>4, <2>5
<1>5. CASE ReadRecord \/ FileSize
    <2>1. UNCHANGED <<manager, places, careful>> /\ (stored' = Flushed \/ stored' = stored)
        BY <1>5 DEF ReadRecord, FileSize
    <2>2. CASE stored' = stored
        BY <2>1, <2>2, LogStays
    <2>3. CASE manager # "writing"
        BY <2>1, <2>3, NothingBuffered, LogStays
    <2>4. CASE manager = "writing" /\ stored' = Flushed
        <3>1. Sound' = Sound /\ (Sound => Kept' = Len(places))
            BY <2>1, <2>4, FlushKeepsAll
        <3>2. Log!Sync
            BY <2>1, <2>4, <3>1 DEF Log!Sync
        <3> QED
            BY <3>2 DEF Log!LogNext
    <2> QED
        BY <2>1, <2>2, <2>3, <2>4
<1>6. CASE Close
    <2>1. /\ manager' = "none" /\ stored' = Flushed /\ UNCHANGED <<places, careful>>
        BY <1>6 DEF Close
    <2>2. CASE manager # "writing"
        BY <2>1, <2>2, NothingBuffered, LogStays
    <2>3. CASE manager = "writing"
        <3>1. Sound' = Sound /\ (Sound => Kept' = Len(places))
            BY <2>1, <2>3, FlushKeepsAll
        <3>2. Log!Stop
            BY <2>1, <2>3, <3>1 DEF Log!Stop
        <3> QED
            BY <3>2 DEF Log!LogNext
    <2> QED
        BY <2>2, <2>3
<1>7. CASE Crash
    <2>1. PICK W \in SUBSET DOMAIN pending :
              stored' = Over(stored, [p \in W |-> pending[p]])
        BY <1>7 DEF Crash
    <2>2. /\ manager' = "none" /\ UNCHANGED <<places, careful>>
          /\ stored \in [Bytes -> Contents]
          /\ \A p \in Bytes : stored'[p] = IF p \in W THEN pending[p] ELSE stored[p]
        BY <1>7, <2>1 DEF Crash, Over, ArchiveInv, ArchiveTypeOK
    <2>3. CASE manager # "writing"
        <3>1. W = {}
            BY <2>3, NothingBuffered
        <3>2. stored' = stored
            BY <2>1, <2>2, <3>1 DEF Over
        <3> QED
            BY <2>2, <2>3, <3>2, LogStays
    <2>4. CASE manager = "writing"
        <3>1. Sound' = Sound
            BY <2>2 DEF Sound, BehindHeader
        <3>2. ASSUME Sound, places # <<>>, Len(places) \in InFile
              PROVE  Len(places) \in InFile'
            <4>1. /\ Len(places) \in DOMAIN places /\ places[Len(places)] \in Bytes
                  /\ stored[places[Len(places)]] = Record(Len(places))
                BY <3>2 DEF InFile, ArchiveInv, ArchiveTypeOK
            <4>2. \A p \in W : pending[p] = Record(Len(places))
                BY DEF ArchiveInv, Buffered
            <4> QED
                BY <2>2, <4>1, <4>2 DEF InFile
        <3>3. Sound => Kept' \in {Kept, Len(places)}
            BY <2>2, <3>1, <3>2, KeptNow, KeptNext
        <3>4. Log!Die
            BY <2>2, <2>4, <3>1, <3>3 DEF Log!Die
        <3> QED
            BY <3>4 DEF Log!LogNext
    <2> QED
        BY <2>3, <2>4
<1>8. ASSUME NEW to \in Bytes, Seek(to)
      PROVE  [Log!LogNext]_(Log!logVars)
    <2>1. /\ UNCHANGED <<manager, stored, places>>
          /\ careful' = careful \/ (manager = "writing" /\ careful' = FALSE)
        BY <1>8 DEF Seek, ArchiveInv, ArchiveTypeOK
    <2>2. CASE careful' = careful
        BY <2>1, <2>2, LogStays
    <2>3. CASE manager = "writing" /\ careful' = FALSE
        <3>1. Log!Misuse
            BY <2>1, <2>3 DEF Log!Misuse, Sound
        <3> QED
            BY <3>1 DEF Log!LogNext
    <2> QED
        BY <2>1, <2>2, <2>3
<1> QED
    BY <1>1, <1>2, <1>3, <1>4, <1>5, <1>6, <1>7, <1>8 DEF ArchiveNext

LEMMA LogInitially == ArchiveInit => Log!LogInit
<1> SUFFICES ASSUME ArchiveInit PROVE Log!LogInit
    OBVIOUS
<1>1. /\ places = <<>> /\ careful = TRUE /\ manager = "none" /\ Len(places) = 0
    BY DEF ArchiveInit
<1>2. Sound
    BY <1>1 DEF Sound, BehindHeader
<1>3. Kept = 0
    BY <1>1, <1>2, ArchiveInitially, KeptNow
<1> QED
    BY <1>1, <1>2, <1>3 DEF Log!LogInit

\* The archive implements the log: for a caller with records of one byte who never
\* seeks back, no step but a crash loses a record, and a crash only the last.
THEOREM ImplementsLog == ArchiveSpec => ArchiveLogSpec
<1>1. ArchiveInv /\ ArchiveInv' /\ [ArchiveNext]_archiveVars =>
          [Log!LogNext]_(Log!logVars)
    BY LogStep
<1> QED
    BY LogInitially, <1>1, ArchiveInvariance, PTL
       DEF ArchiveSpec, ArchiveLogSpec, Log!LogSpec

=============================================================================
