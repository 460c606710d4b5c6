--------------------------- MODULE TargaImageProofs ----------------------------
(***************************************************************************)
(* LoadTarga32 reads and writes inside its buffers and turns the image     *)
(* upright, for images of any size that fits an int: after every pixel, k  *)
(* and index are where the row and the column say they are, and what lies  *)
(* behind index is upright.  When the size does not fit, the loop does not *)
(* come to its end inside the buffers.                                     *)
(***************************************************************************)
EXTENDS TargaImage, TLAPS

\* A product grows with its first factor.
LEMMA ProductGrows ==
    ASSUME NEW a \in Nat, NEW b \in Nat, NEW w \in Nat, a <= b
    PROVE  a * w \in Nat /\ b * w \in Nat /\ a * w <= b * w
OBVIOUS

\* One row more or less.
LEMMA RowsAdd ==
    ASSUME NEW a \in Int, NEW w \in Int
    PROVE  /\ a * w \in Int
           /\ (a + 1) * w = a * w + w
           /\ (a - 1) * w = a * w - w
OBVIOUS

\* Quotient and remainder are the only ones there are.
LEMMA Division ==
    ASSUME NEW d \in Nat \ {0}, NEW q \in Int, NEW r \in 0..(d - 1)
    PROVE  (q * d + r) \div d = q /\ (q * d + r) % d = r
OBVIOUS

\* An int is below its limit, and a number that fits is itself.
LEMMA IntFacts ==
    ASSUME NEW n \in Int
    PROVE  /\ AsInt(n) \in Int /\ AsInt(n) < IntLimit
           /\ n \in 0..(IntLimit - 1) => AsInt(n) = n
<1> DEFINE m == 2 * IntLimit
<1>1. IntLimit \in Nat /\ IntLimit # 0
    BY TargaAssumption
<1>2. m \in Nat \ {0} /\ n + IntLimit \in Int
    BY <1>1
<1>3. (n + IntLimit) % m \in 0..(m - 1)
    <2> HIDE DEF m
    <2> QED
        BY <1>2
<1>4. ASSUME n \in 0..(IntLimit - 1)
      PROVE  (n + IntLimit) % m = n + IntLimit
    <2>1. n + IntLimit \in 0..(m - 1) /\ 0 * m + (n + IntLimit) = n + IntLimit
        BY <1>1, <1>4
    <2> HIDE DEF m
    <2>2. (0 * m + (n + IntLimit)) % m = n + IntLimit
        BY <1>2, <2>1, Division
    <2> QED
        BY <2>1, <2>2
<1>5. AsInt(n) = ((n + IntLimit) % m) - IntLimit
    BY DEF AsInt
<1> QED
    BY <1>1, <1>3, <1>4, <1>5

\* The pixels of an image, and its size when it fits.
LEMMA SizeFacts ==
    ASSUME NEW w \in 1..MaxSide, NEW h \in 1..MaxSide
    PROVE  /\ w \in Nat \ {0} /\ h \in Nat \ {0}
           /\ Pixels(w, h) \in Nat /\ Pixels(w, h) = (h * w) * 4
           /\ Size(w, h) \in Int /\ Size(w, h) < IntLimit
           /\ Pixels(w, h) < IntLimit => Size(w, h) = Pixels(w, h)
<1>1. w \in Nat \ {0} /\ h \in Nat \ {0}
    BY TargaAssumption
<1>2. Pixels(w, h) \in Nat /\ Pixels(w, h) = (h * w) * 4
    BY <1>1 DEF Pixels
<1>3. Pixels(w, h) \in Int /\ (Pixels(w, h) < IntLimit => Pixels(w, h) \in 0..(IntLimit - 1))
    BY <1>2, TargaAssumption
<1> QED
    BY <1>1, <1>2, <1>3, IntFacts DEF Size

\* The loop starts in the bottom row of the file and at the top of the copy.
LEMMA LoopStarts ==
    ASSUME NEW w \in 1..MaxSide, NEW h \in 1..MaxSide
    PROVE  LastRow(w, h) = Size(w, h) - ((0 + 1) * w - 0) * 4
<1>1. w \in Int /\ Size(w, h) \in Int
    BY SizeFacts
<1> QED
    BY <1>1 DEF LastRow

LEMMA PositionedInit == TargaInit => Positioned
<1> SUFFICES ASSUME TargaInit PROVE Positioned
    OBVIOUS
<1>1. width \in 1..MaxSide /\ height \in 1..MaxSide /\ i = 0 /\ j = 0 /\ index = 0
    BY DEF TargaInit
<1>2. width \in Nat /\ height \in Nat /\ width # 0 /\ height # 0
    BY <1>1, TargaAssumption
<1>3. k = ImageSize - ((j + 1) * width - i) * 4
    BY <1>1, LoopStarts DEF TargaInit, ImageSize
<1>4. index = (j * width + i) * 4
    BY <1>1, <1>2
<1> QED
    BY <1>1, <1>2, <1>3, <1>4 DEF Positioned, Decoded

LEMMA CopyPositioned ==
    ASSUME Positioned, Copy
    PROVE  Positioned'
<1>1. /\ width \in Nat /\ height \in Nat /\ width # 0 /\ height # 0
      /\ i \in 0..(width - 1) /\ j \in 0..(height - 1)
      /\ k = ImageSize - ((j + 1) * width - i) * 4
      /\ index = (j * width + i) * 4 /\ index <= ImageSize - 4
      /\ width' = width /\ height' = height /\ index' = index + 4
    BY TargaAssumption DEF Positioned, Copy, Decoded, InBuffers
<1>2. /\ width' \in 1..MaxSide /\ height' \in 1..MaxSide
    BY <1>1 DEF Positioned
<1>3. /\ ImageSize' = ImageSize /\ Fits' = Fits
      /\ ImageSize \in Int /\ ImageSize < IntLimit
      /\ Pixels(width, height) = (height * width) * 4
    BY <1>1, <1>2, SizeFacts DEF ImageSize, Fits
<1> DEFINE row == j * width
           next == (j + 1) * width
<1>4. row \in Int /\ next = row + width
    BY <1>1, RowsAdd
<1>5. CASE i + 1 < width
    <2>1. i' = i + 1 /\ j' = j /\ k' = k + 4
        BY <1>5 DEF Copy
    <2>2. j' * width' = row /\ (j' + 1) * width' = next
        BY <1>1, <2>1
    <2> HIDE DEF row, next
    <2>3. k = ImageSize - (next - i) * 4 /\ index = (row + i) * 4
        BY <1>1 DEF row, next
    <2>4. k' = ImageSize' - (next - i') * 4 /\ index' = (row + i') * 4
        BY <1>1, <1>3, <1>4, <2>1, <2>3
    <2>5. i' \in 0..(width' - 1) /\ j' \in 0..height' /\ ~Decoded'
        BY <1>1, <1>5, <2>1 DEF Decoded
    <2> QED
        BY <1>2, <2>2, <2>4, <2>5 DEF Positioned
<1>6. CASE ~(i + 1 < width)
    <2>1. i' = 0 /\ j' = j + 1 /\ k' = (k + 4) - (width * 8) /\ i = width - 1
        BY <1>1, <1>6 DEF Copy, RowBefore
    <2>2. j' * width' = next /\ (j' + 1) * width' = next + width
        BY <1>1, <2>1, RowsAdd
    <2>3. k = ImageSize - (next - i) * 4 /\ index = (row + i) * 4
        BY <1>1
    <2>4. ASSUME Decoded' PROVE Fits'
        <3>1. j + 1 = height
            BY <1>1, <2>1, <2>4 DEF Decoded
        <3>2. Pixels(width, height) = next * 4
            BY <1>3, <3>1
        <3> HIDE DEF row, next
        <3>3. next * 4 <= ImageSize
            BY <1>1, <1>3, <1>4, <2>1, <2>3
        <3> QED
            BY <1>1, <1>3, <1>4, <3>2, <3>3, TargaAssumption DEF Fits
    <2> HIDE DEF row, next
    <2>5. k' = ImageSize' - (next + width - i') * 4 /\ index' = (next + i') * 4
        BY <1>1, <1>3, <1>4, <2>1, <2>3
    <2>6. i' \in 0..(width' - 1) /\ j' \in 0..height'
        BY <1>1, <2>1
    <2>7. /\ k' = ImageSize' - ((j' + 1) * width' - i') * 4
          /\ index' = (j' * width' + i') * 4
        <3>1. j' * width' = next
            BY <2>2 DEF next
        <3>2. (j' + 1) * width' = next + width
            BY <2>2 DEF next
        <3>3. k' = ImageSize' - ((j' + 1) * width' - i') * 4
            BY <1>1, <1>3, <1>4, <2>1, <2>5, <3>2
        <3>4. index' = (j' * width' + i') * 4
            BY <1>1, <1>4, <2>1, <2>5, <3>1
        <3> QED
            BY <3>3, <3>4
    <2>8. Decoded' => i' = 0 /\ Fits'
        BY <2>1, <2>4
    <2> QED
        BY <1>2, <2>6, <2>7, <2>8 DEF Positioned
<1> QED
    BY <1>5, <1>6

LEMMA LoadPositioned ==
    ASSUME Load
    PROVE  Positioned'
<1>1. /\ width' \in 1..MaxSide /\ height' \in 1..MaxSide
      /\ k' = LastRow(width', height')
    BY DEF Load
<1>2. i' = 0 /\ j' = 0 /\ index' = 0
    BY DEF Load
<1>3. width' \in Nat /\ height' \in Nat /\ width' # 0 /\ height' # 0
    BY <1>1, TargaAssumption
<1>4. k' = ImageSize' - ((j' + 1) * width' - i') * 4
    BY <1>1, <1>2, LoopStarts DEF ImageSize
<1>5. index' = (j' * width' + i') * 4
    <2>1. \A w \in Nat : (0 * w + 0) * 4 = 0
        OBVIOUS
    <2> QED
        BY <1>2, <1>3, <2>1
<1>6. i' \in 0..(width' - 1) /\ j' \in 0..height' /\ ~Decoded'
    <2>1. \A n \in Nat : n # 0 => 0 \in 0..(n - 1) /\ 0 \in 0..n
        OBVIOUS
    <2>2. i' \in 0..(width' - 1) /\ j' \in 0..height'
        BY <1>2, <1>3, <2>1
    <2> QED
        BY <1>2, <1>3, <2>2 DEF Decoded
<1> QED
    BY <1>1, <1>4, <1>5, <1>6 DEF Positioned

\* When the size fits, k counts the rows from the end of the image.
LEMMA FitsPositioned ==
    ASSUME Positioned, Fits
    PROVE  /\ width \in Nat \ {0} /\ height \in Nat \ {0}
           /\ (height - 1 - j) * width \in Int
           /\ k = ((height - 1 - j) * width + i) * 4
           /\ ImageSize = (height * width) * 4
<1>1. /\ width \in Nat \ {0} /\ height \in Nat \ {0}
      /\ i \in 0..(width - 1) /\ j \in 0..height
      /\ k = ImageSize - ((j + 1) * width - i) * 4
      /\ ImageSize = (height * width) * 4
    BY SizeFacts DEF Positioned, Fits, ImageSize
<1> DEFINE above == (height - 1 - j) * width
           next == (j + 1) * width
           rows == height * width
<1>2. rows \in Int /\ next \in Int /\ above = rows - next
    BY <1>1
<1> HIDE DEF above, next, rows
<1>3. k = rows * 4 - (next - i) * 4
    BY <1>1 DEF next, rows
<1>4. k = (above + i) * 4 /\ above \in Int
    BY <1>1, <1>2, <1>3
<1> QED
    BY <1>1, <1>4 DEF above

\* The channel of a byte, and the pixel it belongs to.
LEMMA ChannelOf ==
    ASSUME NEW p \in Int, NEW c \in 0..3
    PROVE  (p * 4 + c) % 4 = c /\ (p * 4 + c) - ((p * 4 + c) % 4) = p * 4
OBVIOUS

\* What an upright image has in the four bytes of the pixel the loop is at: the
\* channels of the pixel at k.
LEMMA UprightPixel ==
    ASSUME Positioned, Fits, ~Decoded, NEW c \in 0..3
    PROVE  /\ index + c \in 0..(ImageSize - 1)
           /\ Upright[index + c] = k + FromChannel[c + 1]
<1> DEFINE d == width * 4
           r == i * 4 + c
           above == (height - 1 - j) * width
           below == j * width
<1>1. /\ width \in Nat \ {0} /\ height \in Nat \ {0}
      /\ i \in 0..(width - 1) /\ j \in 0..(height - 1)
    BY TargaAssumption DEF Positioned, Decoded
<1>2. above \in Int /\ below \in Int
    BY <1>1, RowsAdd
<1>3. k = above * 4 + i * 4 /\ index = below * 4 + i * 4
    BY <1>1, <1>2, FitsPositioned DEF Positioned
<1>4. d \in Nat \ {0} /\ r \in 0..(d - 1)
    BY <1>1
<1>5. index + c = j * d + r
    <2>1. j * d = below * 4
        BY <1>1
    <2> HIDE DEF d, below
    <2> QED
        BY <1>1, <1>2, <1>3, <2>1
<1>6. (index + c) \div d = j /\ (index + c) % d = r
    <2>1. (j * d + r) \div d = j /\ (j * d + r) % d = r
        <3>1. j \in Int
            BY <1>1
        <3> HIDE DEF d, r
        <3> QED
            BY <1>4, <3>1, Division
    <2> HIDE DEF d, r
    <2> QED
        BY <1>5, <2>1
<1>7. r % 4 = c /\ r - (r % 4) = i * 4
    BY <1>1, ChannelOf
<1>8. index + c \in 0..(ImageSize - 1)
    <2>1. j * d \in Nat /\ (height - 1) * d \in Nat /\ j * d <= (height - 1) * d
        BY <1>1, <1>4, ProductGrows
    <2>2. (height - 1) * d = height * d - d
        BY <1>1, <1>4, RowsAdd
    <2>3. ImageSize = height * d
        BY <1>1, FitsPositioned
    <2> HIDE DEF d, r
    <2> QED
        BY <1>1, <1>4, <1>5, <2>1, <2>2, <2>3
<1>9. Upright[index + c] =
          ((height - 1 - j) * width * 4) + i * 4 + FromChannel[c + 1]
    BY <1>6, <1>7, <1>8 DEF Upright
<1>10. FromChannel[c + 1] \in Int
    BY DEF FromChannel
<1> QED
    BY <1>1, <1>2, <1>3, <1>8, <1>9, <1>10

\* Writing one byte leaves a buffer a buffer.
LEMMA ByteWritten ==
    ASSUME NEW S, NEW f \in [S -> Int], NEW at, NEW v \in Int
    PROVE  [f EXCEPT ![at] = v] \in [S -> Int]
OBVIOUS

\* Copying one pixel makes four more bytes upright and leaves the others.
LEMMA CopyUpright ==
    ASSUME TargaInv, Copy
    PROVE  CopiedSoFar'
<1> DEFINE Bytes == 0..(ImageSize - 1)
<1>1. /\ Positioned /\ ~Decoded
      /\ targaData \in [Bytes -> Int]
      /\ Fits => \A b \in 0..(index - 1) : targaData[b] = Upright[b]
      /\ targaData' = ChannelsCopied(index, k)
      /\ index' = index + 4
      /\ width' = width /\ height' = height
    BY DEF TargaInv, CopiedSoFar, Copy
<1>2. k \in Int /\ index \in Nat /\ ImageSize \in Int
    <2>1. ImageSize \in Int
        BY <1>1, SizeFacts DEF Positioned, ImageSize
    <2> QED
        BY <2>1 DEF Copy, InBuffers
<1>3. ImageSize' = ImageSize /\ Upright' = Upright /\ Fits' = Fits
    BY <1>1 DEF ImageSize, Upright, Fits
<1>4. Fits => \A c \in 0..3 : index + c \in Bytes /\ Upright[index + c] = k + FromChannel[c + 1]
    BY <1>1, UprightPixel
<1>5. ASSUME Fits
      PROVE  /\ index \in Bytes /\ Upright[index] = k + 2
             /\ index + 1 \in Bytes /\ Upright[index + 1] = k + 1
             /\ index + 2 \in Bytes /\ Upright[index + 2] = k
             /\ index + 3 \in Bytes /\ Upright[index + 3] = k + 3
    <2>1. FromChannel[1] = 2 /\ FromChannel[2] = 1 /\ FromChannel[3] = 0 /\ FromChannel[4] = 3
        BY DEF FromChannel
    <2> HIDE DEF Bytes
    <2> QED
        BY <1>2, <1>4, <1>5, <2>1
<1> HIDE DEF Bytes
<1>6. targaData' \in [Bytes -> Int]
    <2> DEFINE red   == [targaData EXCEPT ![index] = k + 2]
               green == [red EXCEPT ![index + 1] = k + 1]
               blue  == [green EXCEPT ![index + 2] = k]
    <2>1. k + 1 \in Int /\ k + 2 \in Int /\ k + 3 \in Int
        BY <1>2
    <2>2. red \in [Bytes -> Int]
        BY <1>1, <2>1, ByteWritten
    <2>3. green \in [Bytes -> Int]
        BY <2>1, <2>2, ByteWritten
    <2>4. blue \in [Bytes -> Int]
        BY <1>2, <2>3, ByteWritten
    <2>5. [blue EXCEPT ![index + 3] = k + 3] \in [Bytes -> Int]
        BY <2>1, <2>4, ByteWritten
    <2> QED
        BY <1>1, <2>5 DEF ChannelsCopied
<1>7. Fits => \A b \in Bytes :
          /\ b = index     => targaData'[b] = k + 2
          /\ b = index + 1 => targaData'[b] = k + 1
          /\ b = index + 2 => targaData'[b] = k
          /\ b = index + 3 => targaData'[b] = k + 3
          /\ b < index     => targaData'[b] = targaData[b]
    BY <1>1, <1>2, <1>5 DEF ChannelsCopied, Bytes
<1>8. ASSUME Fits, NEW b \in 0..(index' - 1)
      PROVE  targaData'[b] = Upright[b]
    <2>1. b \in Bytes
        BY <1>1, <1>2, <1>5, <1>8 DEF Bytes
    <2>2. CASE b < index
        <3>1. b \in 0..(index - 1)
            BY <1>2, <2>2
        <3> QED
            BY <1>1, <1>2, <1>7, <1>8, <2>1, <2>2, <3>1
    <2>3. CASE b \in {index, index + 1, index + 2, index + 3}
        BY <1>2, <1>5, <1>7, <1>8, <2>1, <2>3
    <2> QED
        BY <1>1, <1>2, <1>8, <2>2, <2>3
<1> QED
    BY <1>3, <1>6, <1>8 DEF CopiedSoFar, Bytes

LEMMA TargaInitInv == TargaInit => TargaInv
<1> SUFFICES ASSUME TargaInit PROVE TargaInv
    OBVIOUS
<1>1. index = 0 /\ targaData = [b \in 0..(ImageSize - 1) |-> None]
    BY DEF TargaInit
<1>2. CopiedSoFar
    BY <1>1 DEF CopiedSoFar, None
<1> QED
    BY <1>2, PositionedInit DEF TargaInv

LEMMA TargaStepInv == TargaInv /\ [TargaNext]_targaVars => TargaInv'
<1> SUFFICES ASSUME TargaInv, [TargaNext]_targaVars PROVE TargaInv'
    OBVIOUS
<1>1. CASE UNCHANGED targaVars
    BY <1>1 DEF targaVars, TargaInv, Positioned, CopiedSoFar, Decoded, ImageSize,
                Upright, Fits
<1>2. CASE Copy
    BY <1>2, CopyPositioned, CopyUpright DEF TargaInv
<1>3. CASE Load
    <2>1. targaData' = [b \in 0..(Size(width', height') - 1) |-> None]
        BY <1>3 DEF Load
    <2>2. index' = 0 /\ ImageSize' = Size(width', height')
        BY <1>3 DEF Load, ImageSize
    <2>3. CopiedSoFar'
        BY <2>1, <2>2 DEF CopiedSoFar, None
    <2> QED
        BY <1>3, <2>3, LoadPositioned DEF TargaInv
<1> QED
    BY <1>1, <1>2, <1>3 DEF TargaNext

\* Whatever the sides of the images: where the loop is follows from the row and
\* the column, and what it has copied is upright if the size fits an int.
THEOREM TargaInvariance == TargaSpec => []TargaInv
BY TargaInitInv, TargaStepInv, PTL DEF TargaSpec

\* Every pixel that is read and every pixel that is written is inside its buffer,
\* for every image whose size fits an int.
THEOREM TargaAlwaysInBounds == TargaSpec => []TargaInBounds
<1>1. TargaInv => TargaInBounds
    <2> SUFFICES ASSUME Positioned, Fits, ~Decoded PROVE InBuffers
        BY DEF TargaInBounds, TargaInv
    <2>1. /\ width \in Nat /\ height \in Nat /\ width # 0 /\ height # 0
          /\ i \in 0..(width - 1) /\ j \in 0..(height - 1)
        BY TargaAssumption DEF Positioned, Decoded
    <2> DEFINE above == (height - 1 - j) * width
               below == j * width
               rows == height * width
               last == (height - 1) * width
    <2>2. k = (above + i) * 4 /\ index = (below + i) * 4 /\ ImageSize = rows * 4
        BY FitsPositioned DEF Positioned
    <2>3. above \in Nat /\ last \in Nat /\ above <= last
        BY <2>1, ProductGrows
    <2>4. below \in Nat /\ below <= last
        BY <2>1, ProductGrows
    <2>5. last = rows - width /\ rows \in Int
        BY <2>1, RowsAdd
    <2> HIDE DEF above, below, rows, last
    <2>6. k \in 0..(ImageSize - 4) /\ index \in 0..(ImageSize - 4)
        BY <2>1, <2>2, <2>3, <2>4, <2>5
    <2> QED
        BY <2>6 DEF InBuffers
<1> QED
    BY <1>1, TargaInvariance, PTL

\* When the loop comes to its end inside the buffers, the size fits an int and the
\* whole image has its rows from the top and its channels as red, green, blue and
\* alpha.
THEOREM DecodedImagesAreUpright == TargaSpec => []DecodedUpright
<1>1. TargaInv => DecodedUpright
    <2> SUFFICES ASSUME TargaInv, Decoded PROVE Fits /\ targaData = Upright
        BY DEF DecodedUpright
    <2>1. /\ width \in Nat /\ height \in Nat /\ j = height /\ i = 0
          /\ index = (j * width + i) * 4 /\ Positioned /\ Fits
        BY TargaAssumption DEF TargaInv, Positioned, Decoded
    <2>2. index = ImageSize
        <3>1. ImageSize = (height * width) * 4 /\ height * width \in Int
            BY <2>1, FitsPositioned
        <3> QED
            BY <2>1, <3>1
    <2>3. \A b \in 0..(ImageSize - 1) : targaData[b] = Upright[b]
        BY <2>1, <2>2 DEF TargaInv, CopiedSoFar
    <2>4. targaData = [b \in 0..(ImageSize - 1) |-> targaData[b]]
        BY DEF TargaInv, CopiedSoFar
    <2>5. Upright = [b \in 0..(ImageSize - 1) |-> Upright[b]]
        BY DEF Upright
    <2> QED
        BY <2>1, <2>3, <2>4, <2>5
<1> QED
    BY <1>1, TargaInvariance, PTL

=============================================================================
