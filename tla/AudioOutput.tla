----------------------------- MODULE AudioOutput -----------------------------
(***************************************************************************)
(* The audio queue (src/media/audio_output): decoder threads submit        *)
(* frames, SDL's thread empties the queue into the device's buffers, the   *)
(* user mutes.  Everything is under queue_mutex_ except muted_.            *)
(*                                                                         *)
(* The callback's copying loop is one step per iteration, with the mutex   *)
(* held throughout.  Byte counts are scaled down; queued_bytes_ is a       *)
(* size_t and wraps.                                                       *)
(***************************************************************************)
EXTENDS Integers, Sequences

CONSTANTS
    Sizes,      \* sizes of converted frames, of which one stream may have several
    MaxFrames,  \* frames kept, 100 in the code
    Cushion,    \* bytes before playback starts, 16000 in the code
    BufferLen,  \* len, the size of the device's buffer
    Wrap        \* size_t has this many values

ASSUME SizesAssumption == Sizes \subseteq Nat \ {0}
ASSUME BoundsAssumption ==
    /\ MaxFrames \in Nat \ {0} /\ Cushion \in Nat /\ BufferLen \in Nat \ {0}
    /\ Wrap \in Nat \ {0}

VARIABLES
    queue,        \* queue_, the frames' sizes
    read_offset,  \* read_offset_
    queued_bytes, \* queued_bytes_
    primed,       \* primed_
    muted,        \* muted_
    muting,       \* set_muted(true) has yet to empty the queue
    left,         \* len - written of the callback that runs; 0 if none does
    open          \* device_id_ # 0

vars == <<queue, read_offset, queued_bytes, primed, muted, muting, left, open>>

Init ==
    /\ queue = <<>> /\ read_offset = 0 /\ queued_bytes = 0 /\ primed = FALSE
    /\ muted = FALSE /\ muting = FALSE
    /\ left = 0
    /\ open = TRUE

MutexFree == left = 0

\* Mutant: one frame too many is kept.
SubmitOverfull(size) ==
    LET full == Len(queue) > MaxFrames
        dropped == IF full THEN Head(queue) ELSE 0
    IN  /\ MutexFree
        /\ queue' = Append(IF full THEN Tail(queue) ELSE queue, size)
        /\ queued_bytes' = (queued_bytes + size - dropped) % Wrap
        /\ UNCHANGED <<read_offset, primed, muted, muting, left, open>>

\* submit: the oldest frame makes room, with what has been read of it or not.
Submit(size) ==
    LET full == Len(queue) = MaxFrames
        dropped == IF full THEN Head(queue) ELSE 0
    IN  /\ MutexFree
        /\ queue' = Append(IF full THEN Tail(queue) ELSE queue, size)
        /\ queued_bytes' = (queued_bytes + size - dropped) % Wrap
        /\ UNCHANGED <<read_offset, primed, muted, muting, left, open>>

\* set_muted, which takes the mutex only to empty the queue.
SetMuted(m) ==
    /\ ~muting
    /\ muted' = m
    /\ muting' = m
    /\ UNCHANGED <<queue, read_offset, queued_bytes, primed, left, open>>

\* Mutants of what empties the queue: a counter is left as it was.
ClearedButBytes ==
    queue' = <<>> /\ read_offset' = 0 /\ primed' = FALSE /\ UNCHANGED queued_bytes
ClearedButOffset ==
    queue' = <<>> /\ queued_bytes' = 0 /\ primed' = FALSE /\ UNCHANGED read_offset

Cleared ==
    queue' = <<>> /\ read_offset' = 0 /\ queued_bytes' = 0 /\ primed' = FALSE

MuteClears ==
    /\ muting /\ MutexFree
    /\ Cleared
    /\ muting' = FALSE
    /\ UNCHANGED <<muted, left, open>>

\* shutdown: closing the device waits for its callback, and ends them all.
Shutdown ==
    /\ open /\ MutexFree
    /\ open' = FALSE
    /\ Cleared
    /\ UNCHANGED <<muted, muting, left>>

\* Mutant: playback starts with whatever is there.
CallbackStartsAtOnce ==
    /\ open /\ MutexFree
    /\ ~muted
    /\ primed' = TRUE
    /\ left' = BufferLen
    /\ UNCHANGED <<queue, read_offset, queued_bytes, muted, muting, open>>

\* audio_callback: fills a buffer.  Muted, or with too little queued after an
\* underrun, it fills it with silence and changes nothing.
CallbackStarts ==
    /\ open /\ MutexFree
    /\ ~muted
    /\ primed \/ queued_bytes >= Cushion
    /\ primed' = TRUE
    /\ left' = BufferLen
    /\ UNCHANGED <<queue, read_offset, queued_bytes, muted, muting, open>>

\* One iteration: part of the front frame, or the rest of it.
CallbackCopies ==
    LET available == Head(queue) - read_offset
        copied == IF available < left THEN available ELSE left
        emptied == read_offset + copied >= Head(queue)
    IN  /\ left > 0
        /\ queue # <<>>
        /\ available >= 0    \* or memcpy() with a negative size ends the program
        /\ queue' = IF emptied THEN Tail(queue) ELSE queue
        /\ read_offset' = IF emptied THEN 0 ELSE read_offset + copied
        /\ queued_bytes' = (queued_bytes - copied) % Wrap
        /\ left' = left - copied
        /\ UNCHANGED <<primed, muted, muting, open>>

\* The queue is empty before the buffer is full.
CallbackUnderruns ==
    /\ left > 0
    /\ queue = <<>>
    /\ primed' = FALSE
    /\ left' = 0
    /\ UNCHANGED <<queue, read_offset, queued_bytes, muted, muting, open>>

Next ==
    \/ \E size \in Sizes : Submit(size)
    \/ \E m \in BOOLEAN : SetMuted(m)
    \/ MuteClears \/ Shutdown
    \/ CallbackStarts \/ CallbackCopies \/ CallbackUnderruns

Spec == Init /\ [][Next]_vars

-----------------------------------------------------------------------------
(* Properties *)

\* Violated: "offset into current frame being read" (audio_output.h:35).  A shorter frame may
\* have taken the place of the one that was being read.
OffsetInFrame == read_offset # 0 => (queue # <<>> /\ read_offset < Head(queue))

\* What is queued and not played yet.
Remaining ==
    LET bytes[n \in 0 .. Len(queue)] == IF n = 0 THEN 0 ELSE bytes[n - 1] + queue[n]
    IN  bytes[Len(queue)] - read_offset

TypeOK ==
    /\ queue \in Seq(Sizes) /\ Len(queue) <= MaxFrames
    /\ read_offset \in Nat
    /\ queued_bytes \in 0 .. Wrap - 1
    /\ {primed, muted, muting, open} \subseteq BOOLEAN
    /\ left \in 0 .. BufferLen

\* queued_bytes_, which is kept up in four places, counts what is queued: a
\* drift would start playback without a cushion, or never.
BytesMatch == queued_bytes = Remaining % Wrap

\* Playback starts, and starts again after an underrun, with the cushion: as much as
\* that is there to play, also after the queue has run over under a frame being played.
CushionHeld == [][(~primed /\ primed') => Remaining >= Cushion]_vars

\* What takes the offset out of the front frame is a full queue's submit, that drops a
\* frame of which some was played and is longer than the next.
OffsetLeaves == [][(OffsetInFrame /\ ~OffsetInFrame') =>
                       (read_offset # 0 /\ Len(queue) = MaxFrames /\ MutexFree)]_vars
=============================================================================
