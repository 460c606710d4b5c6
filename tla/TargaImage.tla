------------------------------ MODULE TargaImage ------------------------------
(***************************************************************************)
(* LoadTarga32: the loop that turns the pixels of a Targa file, which are  *)
(* stored from the bottom row up and as blue, green, red, alpha, into rows *)
(* from the top as red, green, blue, alpha.                                *)
(*                                                                         *)
(* The bytes of the file are numbered from 0, and a byte of the            *)
(* destination is the number of the byte that was copied there.            *)
(*                                                                         *)
(* The size of the buffers is an int, the sides are not: when the product  *)
(* does not fit, which C++ leaves undefined and the builds wrap, the loop  *)
(* goes over more pixels than the buffers have.  Its first access outside  *)
(* of them ends the call here; what it does to the process is left open.   *)
(***************************************************************************)
EXTENDS Integers

CONSTANTS
    MaxSide,      \* bound on the width and the height of an image, 2^16 - 1
    IntLimit      \* an int is below it, 2^31

\* The product of a side and the loop's largest stride fits.
ASSUME TargaAssumption ==
    /\ MaxSide \in Nat \ {0}
    /\ IntLimit \in Nat
    /\ MaxSide * 8 <= IntLimit

VARIABLES
    width,        \* targaFileHeader.width
    height,       \* targaFileHeader.height
    i, j,         \* the column and the row the loop is at
    k,            \* the index into targaImage
    index,        \* the index into targaData
    targaData     \* the destination, None where nothing was written

targaVars == <<width, height, i, j, k, index, targaData>>

None == -1
AsInt(n) == ((n + IntLimit) % (2 * IntLimit)) - IntLimit
Pixels(w, h) == w * h * 4
Size(w, h) == AsInt(Pixels(w, h))
ImageSize == Size(width, height)
Decoded == j = height
InBuffers == k \in 0..(ImageSize - 4) /\ index \in 0..(ImageSize - 4)

\* The loop begins at the last row of the file.
BehindLastRow(w, h) == Size(w, h)

LastRow(w, h) == Size(w, h) - (w * 4)

\* One pixel: where its red, green, blue and alpha are.
ChannelsCopied(at, from) ==
    [targaData EXCEPT ![at] = from + 2, ![at + 1] = from + 1,
                      ![at + 2] = from, ![at + 3] = from + 3]

\* From behind the row that was copied to the one before it in the file.
RowKept(from) == from - (width * 4)

RowBefore(from) == from - (width * 8)

Copy ==
    /\ ~Decoded /\ InBuffers
    /\ targaData' = ChannelsCopied(index, k)
    /\ index' = index + 4
    /\ IF i + 1 < width
       THEN i' = i + 1 /\ j' = j /\ k' = k + 4
       ELSE i' = 0 /\ j' = j + 1 /\ k' = RowBefore(k + 4)
    /\ UNCHANGED <<width, height>>

\* The headers that get as far as the loop: no buffer of a negative size can be
\* allocated, and an image without pixels has no loop to speak of.
Allocated(w, h) == Size(w, h) >= 0

TargaInit ==
    /\ width \in 1..MaxSide
    /\ height \in 1..MaxSide
    /\ Allocated(width, height)
    /\ i = 0
    /\ j = 0
    /\ k = LastRow(width, height)
    /\ index = 0
    /\ targaData = [b \in 0..(ImageSize - 1) |-> None]

\* The next image, perhaps the next process's.
Load ==
    /\ Decoded \/ ~InBuffers
    /\ i' = 0
    /\ j' = 0
    /\ index' = 0
    /\ width' \in 1..MaxSide
    /\ height' \in 1..MaxSide
    /\ Allocated(width', height')
    /\ k' = LastRow(width', height')
    /\ targaData' = [b \in 0..(Size(width', height') - 1) |-> None]

TargaNext == Copy \/ Load

TargaSpec == TargaInit /\ [][TargaNext]_targaVars

-----------------------------------------------------------------------------
(* Properties *)

\* As long as the size fits an int, the loop reads and writes inside the two
\* buffers.  With 32768 by 32768 pixels it does not (Targa.h:75).
Fits == Pixels(width, height) < IntLimit

TargaInBounds == Fits /\ ~Decoded => InBuffers

\* What a decoded image is: its row r is the file's r-th row from the end, and
\* the channels of a pixel change from BGRA to RGBA.
FromChannel == <<2, 1, 0, 3>>

Upright ==
    [b \in 0..(ImageSize - 1) |->
        LET row == b \div (width * 4)
            col == b % (width * 4)
        IN  ((height - 1 - row) * width * 4) + (col - (col % 4)) + FromChannel[(col % 4) + 1]]

\* "in the correct order since the targa format is stored upside down and also
\* is not in RGBA order" (Targa.h:110): so is the destination when the loop ends.
\* It does not end inside buffers that are too small, so no image is decoded in
\* part only.
DecodedUpright == Decoded => Fits /\ targaData = Upright

\* The inductive invariant: where the loop is in both buffers follows from the
\* row and the column, and behind it the destination is upright.
Positioned ==
    /\ width \in 1..MaxSide
    /\ height \in 1..MaxSide
    /\ i \in 0..(width - 1)
    /\ j \in 0..height
    /\ k = ImageSize - ((j + 1) * width - i) * 4
    /\ index = (j * width + i) * 4
    /\ Decoded => i = 0 /\ Fits

CopiedSoFar ==
    /\ targaData \in [0..(ImageSize - 1) -> Int]
    /\ Fits => \A b \in 0..(index - 1) : targaData[b] = Upright[b]

TargaInv == Positioned /\ CopiedSoFar

=============================================================================
