---------------------------- MODULE AssetDownload -----------------------------
(***************************************************************************)
(* XHTTPManager::download, with the connection HTTPWriter opens for it.    *)
(*                                                                         *)
(* A response is its items in order, 1 to HeaderItems the header and the   *)
(* rest the body; a read takes any number of them, up to the size of its   *)
(* buffer, or fails.  The file is opened, for appending when it exists,    *)
(* before the connection is made.  The server and the TLS library are not  *)
(* in the repository: every outcome of their calls may happen at every     *)
(* call.  Left out: errors of the disk, after which download returns true  *)
(* all the same, and what the text mode of the stream writes for an item.  *)
(***************************************************************************)
EXTENDS Integers, Sequences

CONSTANTS
    HeaderItems,  \* the items of the header; the last one is its empty line
    BodyItems,    \* the items of the body
    MaxFile       \* bound on the items in a file that is opened

ASSUME DownloadAssumption ==
    HeaderItems \in Nat \ {0} /\ BodyItems \in Nat /\ MaxFile \in Nat

VARIABLES
    step,         \* where the call is
    taken,        \* the items of the response that were read so far
    first,        \* the items the first read took
    chunk,        \* the items of the last read that are not written yet
    room,         \* the size of the buffer, the Content-Length
    file,         \* the items in the file
    before,       \* what was in it when the call opened it
    result        \* what the call returned

fileVars == <<file, before>>
downloadVars == <<step, taken, first, chunk, room, fileVars, result>>

Response == HeaderItems + BodyItems
Items(a, b) == [k \in 1..(b - a) |-> a + k]
NewFile == <<>>
OldContents == <<0>>
Steps == {"idle", "opened", "connected", "sent", "body", "chunk"}
Results == {"none", "true", "false", "terminated"}

ReturnWith(r) ==
    /\ step' = "idle"
    /\ result' = r
    /\ UNCHANGED <<taken, first, chunk, room>>

-----------------------------------------------------------------------------
(* Opening the file and the connection *)

FileEmptied(held) == NewFile

\* open_writer opens a file that exists with ios::app, which empties nothing.
FileOpened(held) == held

\* The call names its file: it is the last one again, a new one, or another that
\* exists.
OpenFile ==
    /\ step = "idle"
    /\ step' = "opened"
    /\ \E held \in {file, NewFile, OldContents} :
          /\ Len(held) <= MaxFile
          /\ before' = held
          /\ file' = FileOpened(held)
    /\ taken' = 0
    /\ first' = 0
    /\ chunk' = <<>>
    /\ room' = 0
    /\ result' = "none"

Connect ==
    /\ step = "opened"
    /\ step' = "connected"
    /\ UNCHANGED <<taken, first, chunk, room, fileVars, result>>

\* No such host, no connection or no TLS session; without an endpoint or a
\* socket an exception, which download lets nobody catch.
ConnectFails ==
    /\ step = "opened"
    /\ \E r \in {"false", "terminated"} : ReturnWith(r)
    /\ UNCHANGED fileVars

\* A write that fails with a negative result counts as a success.
SendRequest ==
    /\ step = "connected"
    /\ step' = "sent"
    /\ UNCHANGED <<taken, first, chunk, room, fileVars, result>>

SendNothing ==
    /\ step = "connected"
    /\ ReturnWith("false")
    /\ UNCHANGED fileVars

-----------------------------------------------------------------------------
(* Reading the response *)

\* The first read has the whole header in it, and it says how long the body is;
\* what it has of the body is not kept.
ReadHeader(n, length) ==
    /\ step = "sent"
    /\ n >= HeaderItems
    /\ taken' = n
    /\ first' = n
    /\ room' = length
    /\ step' = "body"
    /\ UNCHANGED <<chunk, fileVars, result>>

\* Without a Content-Length the buffer of -1 bytes cannot be allocated, and the
\* exception ends the process, for download is noexcept; so does the assertion
\* on a length of 0.  The next call is the next process's.
ReadUnsized(n) ==
    /\ step = "sent"
    /\ n >= HeaderItems
    /\ ReturnWith("terminated")
    /\ UNCHANGED fileVars

\* It has less, or it failed and there is nothing in the buffer.
ReadNoHeader(n) ==
    /\ step = "sent"
    /\ n < HeaderItems
    /\ ReturnWith("false")
    /\ UNCHANGED fileVars

ReadBody(n) ==
    /\ step = "body"
    /\ n <= room
    /\ n <= Response - taken
    /\ chunk' = Items(taken, taken + n)
    /\ taken' = taken + n
    /\ step' = "chunk"
    /\ UNCHANGED <<first, room, fileVars, result>>

ChunkAlone == chunk

FileAndChunk == file \o chunk

WriteBody ==
    /\ step = "chunk"
    /\ file' = FileAndChunk
    /\ chunk' = <<>>
    /\ step' = "body"
    /\ UNCHANGED <<taken, first, room, before, result>>

\* The server closed the connection, or the read failed: both end the loop.
ReadEnds ==
    /\ step = "body"
    /\ ReturnWith("true")
    /\ UNCHANGED fileVars

-----------------------------------------------------------------------------
(* The specification *)

DownloadInit ==
    /\ step = "idle"
    /\ taken = 0
    /\ first = 0
    /\ chunk = <<>>
    /\ room = 0
    /\ file = NewFile
    /\ before = file
    /\ result = "none"

DownloadNext ==
    \/ OpenFile \/ Connect \/ ConnectFails \/ SendRequest \/ SendNothing
    \/ \E n \in 0..Response :
          \/ \E length \in 1..Response : ReadHeader(n, length)
          \/ ReadUnsized(n)
          \/ ReadNoHeader(n)
    \/ \E n \in 1..Response : ReadBody(n)
    \/ WriteBody
    \/ ReadEnds

DownloadSpec == DownloadInit /\ [][DownloadNext]_downloadVars

-----------------------------------------------------------------------------
(* Properties *)

\* A download adds to what the file held, without a gap or a repetition, the
\* items from the end of the first read to the last one read, less the chunk in
\* the buffer.  The file is the asset only if it was new and the first read ended
\* with the header.
TailAppended ==
    step \in {"body", "chunk"} \/ result = "true" =>
        file \o chunk = before \o Items(first, taken)

\* A call that fails, wherever it does (XHTTPManager.cpp:57-107), leaves the file
\* as it found it, although it has opened it for writing: an asset that was
\* downloaded earlier survives.
FailureKeepsFile == result \in {"false", "terminated"} => file = before

\* The inductive invariant: nothing is written until the body comes, and the
\* buffer is empty but for the moment between a read and its write.
DownloadTypeOK ==
    /\ step \in Steps
    /\ taken \in 0..Response
    /\ first \in 0..taken
    /\ chunk \in Seq(0..Response)
    /\ room \in 0..Response
    /\ file \in Seq(0..Response)
    /\ before \in Seq(0..Response)
    /\ result \in Results

DownloadInv ==
    /\ DownloadTypeOK
    /\ step # "idle" => result = "none"
    /\ step \in {"opened", "connected", "sent"} => file = before
    /\ step # "chunk" => chunk = <<>>
    /\ TailAppended
    /\ FailureKeepsFile

=============================================================================
