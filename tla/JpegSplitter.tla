---------------------------- MODULE JpegSplitter ----------------------------
(***************************************************************************)
(* jpegSplitter of server/internal/v4l/jpeg.go, which cuts ffmpeg's output *)
(* into JPEG images.  ReadByte hides how the output is cut into reads, so  *)
(* the output is one sequence of bytes; of a byte matters only whether it  *)
(* is one of the three that markers are made of.                           *)
(***************************************************************************)
EXTENDS Integers, Sequences

Byte == {"FF", "D8", "D9", "xx"}

\* ReadByte failed: the output ended.
EOF == 0

\* Fault: UnreadByte is forgotten.
SkipToSOINoUnread(out) ==
    LET skip[i \in Nat] ==
            IF i >= Len(out) THEN EOF
            ELSE IF out[i] # "FF" THEN skip[i + 1]
            ELSE IF out[i + 1] = "D8" THEN i + 2
            ELSE skip[i + 2]
    IN  skip

\* skipToSOI from position i: the position after the SOI, or EOF.  A second
\* 0xFF is unread, for it may begin the SOI.
SkipToSOI(out) ==
    LET skip[i \in Nat] ==
            IF i >= Len(out) THEN EOF
            ELSE IF out[i] # "FF" THEN skip[i + 1]
            ELSE IF out[i + 1] = "D8" THEN i + 2
            ELSE IF out[i + 1] = "FF" THEN skip[i + 1]
            ELSE skip[i + 2]
    IN  skip

\* The loop of next: the position of the last byte of the EOI, or EOF.
FindEOI(out) ==
    LET find[i \in Nat] ==
            IF i >= Len(out) THEN EOF
            ELSE IF out[i] # "FF" THEN find[i + 1]
            ELSE IF out[i + 1] = "D9" THEN i + 1
            ELSE find[i + 2]
    IN  find

\* next from position i: <<first, last>> of the frame, or EOF twice.
NextFrame(out, i) ==
    LET body == SkipToSOI(out)[i]
        last == IF body = EOF THEN EOF ELSE FindEOI(out)[body]
    IN  IF last = EOF THEN <<EOF, EOF>> ELSE <<body - 2, last>>

-----------------------------------------------------------------------------
(* What a frame should be, said without the loops.                         *)

At(out, i, first, second) == i \in 1..Len(out) - 1 /\ out[i] = first /\ out[i + 1] = second

\* An EOI whose last byte is at j, in the image whose body starts at i.
EndsAt(out, i, j) == j - 1 >= i /\ At(out, j - 1, "FF", "D9")

\* <<a, b>> is the frame that follows position i: from the first SOI to the
\* first EOI of its body.
IsFrameAfter(out, i, a, b) ==
    /\ a >= i /\ At(out, a, "FF", "D8")
    /\ \A k \in i..a - 1 : ~At(out, k, "FF", "D8")
    /\ EndsAt(out, a + 2, b)
    /\ \A k \in a + 2..b - 1 : ~EndsAt(out, a + 2, k)

\* No fill byte stands before an EOI.  The loop of next takes the bytes after a
\* 0xFF in pairs, where skipToSOI unreads a second 0xFF: of FF FF D9 it sees a
\* pair and a 0xD9, and goes on into the next image.
Unfilled(out) ==
    \A k \in 1..Len(out) : ~(At(out, k, "FF", "FF") /\ At(out, k + 1, "FF", "D9"))
=============================================================================
