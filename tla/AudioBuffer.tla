----------------------------- MODULE AudioBuffer -----------------------------
(***************************************************************************)
(* The ring buffers between the audio driver and the DMA controller         *)
(* (model/audio/common/src/audio_platform_base.c).  Sound is written into   *)
(* one behind the sound that is still to be played, and read from another   *)
(* up to where the DMA controller has got.  Data is counted in units; unit  *)
(* k of a stream is the number k.                                           *)
(***************************************************************************)
EXTENDS Integers, FiniteSets

CONSTANTS
    Size,      \* cirBufSize of both rings
    Modulus,   \* 2^32, where wbufOffSet starts again
    Transfers, \* what a write may transfer, no more than Size
    Read,      \* trafBufSize of capture, the silence threshold
    MaxData    \* bound on the units of a stream

VARIABLES
    render,  \* offset (wbufOffSet), traf (trafBufSize), units written and played
    ring,    \* what is at each place of the ring for render
    capture, \* reader (rptrOffSet), cur (curTrafSize), units recorded and taken
    tape,    \* what is at each place of the ring for capture
    inOrder  \* whether what was read is what was recorded, in order

vars == <<render, ring, capture, tape, inOrder>>

\* The memory is of MAX_BUFF_SIZE; RENDER_TRAF_BUF_SIZE is less than a transfer.
Places == 0..2 * Size - 1
Silence == [i \in Places |-> -1]

Init ==
    /\ render = [offset |-> 0, traf |-> 1, written |-> 0, played |-> 0]
    /\ ring = Silence
    /\ capture = [reader |-> 0, cur |-> Read, recorded |-> 0, taken |-> 0]
    /\ tape = Silence
    /\ inOrder = TRUE

-----------------------------------------------------------------------------
\* AudioRenderPrepare and AudioCapturePrepare keep what the last transfer was.
RenderPrepare ==
    /\ render' = [render EXCEPT !.offset = 0, !.written = 0, !.played = 0]
    /\ ring' = Silence
    /\ UNCHANGED <<capture, tape, inOrder>>

CapturePrepare ==
    /\ capture' = [capture EXCEPT !.reader = 0, !.recorded = 0, !.taken = 0]
    /\ tape' = Silence
    /\ UNCHANGED <<render, ring, inOrder>>

\* AudioPcmPointer: where the DMA controller is in a ring.
Pointer(units) == units % Size

\* AudioDmaBuffStatus for render, with its unsigned difference.
Residual == Size - (((render.offset - Pointer(render.played)) % Modulus) % Size)

HasRoom(n) == Residual > n

\* The n units behind the offset; the place does not start again inside them.
Transfer(n) ==
    LET place == render.offset % Size
    IN  /\ render.written + n <= MaxData
        /\ ring' = [i \in Places |-> IF i \in place..place + n - 1
                                      THEN render.written + i - place ELSE ring[i]]
        /\ render' = [render EXCEPT !.offset = (@ + n) % Modulus,
                                    !.written = @ + n, !.traf = n]
        /\ UNCHANGED <<capture, tape, inOrder>>

\* AudioPcmWrite looks for room for this transfer, and keeps its size;
PcmWrite(n) ==
    IF HasRoom(n) THEN Transfer(n)
    ELSE render' = [render EXCEPT !.traf = n] /\ UNCHANGED <<ring, capture, tape, inOrder>>

\* AudioMmapWriteTransfer looks for room for the transfer before.
MmapWrite(n) == HasRoom(render.traf) /\ Transfer(n)

\* The sender keeps ahead of the DMA controller.
Play ==
    /\ render.played < render.written
    /\ render' = [render EXCEPT !.played = @ + 1]
    /\ UNCHANGED <<ring, capture, tape, inOrder>>

-----------------------------------------------------------------------------
\* The reader keeps the DMA controller from lapping it.
Record ==
    /\ capture.recorded - capture.taken < Size - 1 /\ capture.recorded < MaxData
    /\ tape' = [tape EXCEPT ![Pointer(capture.recorded)] = capture.recorded]
    /\ capture' = [capture EXCEPT !.recorded = @ + 1]
    /\ UNCHANGED <<render, ring, inOrder>>

\* Mutant of Shortened: what is left up to the end of the ring is not looked at.
NotShortened(cur) == cur

\* PcmReadData and MmapReadData: less when the end of the ring comes first.
Shortened(cur) ==
    IF capture.reader > Pointer(capture.recorded) /\ Size - capture.reader < Read
    THEN Size - capture.reader ELSE cur

\* What was read may no more be, or not yet be, what is in the ring.
ReadData(wanted) ==
    LET reader == capture.reader
        writer == Pointer(capture.recorded)
        cur    == Shortened(wanted)
    IN  /\ writer >= reader => writer - reader >= Read
        /\ capture' = [capture EXCEPT !.reader = IF @ + cur >= Size THEN 0 ELSE @ + cur,
                                      !.cur = cur, !.taken = @ + cur]
        /\ inOrder' = (inOrder /\ \A i \in 0..cur - 1 :
                                      /\ tape[reader + i] = capture.taken + i
                                      /\ capture.taken + i < capture.recorded)
        /\ UNCHANGED <<render, ring, tape>>

PcmRead == ReadData(Read)

\* In its later rounds it goes on with what it read the time before.
MmapRead == ReadData(Read) \/ ReadData(capture.cur)

Next ==
    \/ RenderPrepare \/ CapturePrepare
    \/ \E n \in Transfers : PcmWrite(n) \/ MmapWrite(n)
    \/ Play \/ Record
    \/ PcmRead \/ MmapRead

Spec == Init /\ [][Next]_vars

-----------------------------------------------------------------------------
TypeOK ==
    /\ render \in [offset : 0..Modulus - 1, traf : Transfers \cup {1},
                   written : 0..MaxData, played : 0..MaxData]
    /\ capture \in [reader : 0..Size - 1, cur : 1..Read, recorded : 0..MaxData, taken : 0..MaxData]
    /\ ring \in [Places -> -1..MaxData] /\ tape \in [Places -> -1..MaxData] /\ inOrder \in BOOLEAN

(* A ring is full or empty by the difference of an offset that overflows    *)
(* and a place; reads are cut short at the end of the ring, writes are not. *)
(* Still all that was written and not yet played is where the DMA           *)
(* controller will look for it, and what is read is what was recorded.      *)
SoundKept ==
    /\ \A k \in render.played..render.written - 1 : ring[Pointer(k)] = k
    /\ inOrder
=============================================================================
