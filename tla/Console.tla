------------------------------- MODULE Console ------------------------------
(***************************************************************************)
(* The kernel console's character buffer (kio.c, util/circular_buffer.c):  *)
(* CPUs print under the console's lock into a circular buffer, which is    *)
(* drained to the frame buffer when it holds max_chars characters or more, *)
(* or by kio_flush, and then copied to the display.                        *)
(*                                                                         *)
(* A character is its number in the order of printing (modulo M), with the *)
(* CPU that prints it and how many characters of its message follow it.    *)
(* Interrupts are off while the lock is held.                              *)
(***************************************************************************)
EXTENDS Integers, Sequences, FiniteSets

CONSTANTS
    CPU, NoCpu,
    buffer_size,    \* KIO_CIRCULAR_BUFFER_SIZE
    max_chars,      \* the limit of unsync_opt_flush
    MaxLength,      \* the longest message: it fits beside what a flush may
                    \* leave behind, MaxLength + max_chars <= buffer_size
    M               \* the numbers of characters are modulo M > buffer_size

VARIABLES
    lock,           \* the CPU that holds kio_state.lock, or NoCpu
    pc,             \* what the holder of the lock is doing
    left,           \* characters of its message it has still to write
    buffer, read_idx, write_idx,
    next,           \* number of the next character to be printed
    drawn,          \* number of the next character to be drawn
    visible         \* number of the first character that is not on the display
vars == <<lock, pc, left, buffer, read_idx, write_idx, next, drawn, visible>>

\* init_kio and make_circular_buffer
Init ==
    /\ lock = NoCpu /\ pc = "idle" /\ left = 0
    /\ buffer \in [0 .. buffer_size - 1 -> {[n |-> 0, from |-> NoCpu, rest |-> 0]}]
    /\ read_idx = 0 /\ write_idx = 0 /\ next = 0 /\ drawn = 0 /\ visible = 0

is_circular_buffer_empty == read_idx = write_idx

\* An empty buffer counts as a full one.
circular_buffer_written_bytes ==
    IF write_idx > read_idx THEN write_idx - read_idx
    ELSE buffer_size - read_idx + write_idx

Advance(i) == (i + 1) % buffer_size

LockFree == lock = NoCpu

\* print, printf and the number printing functions, on the way in
BeginPrint(c, length) ==
    /\ LockFree /\ lock' = c /\ pc' = "print" /\ left' = length
    /\ UNCHANGED <<buffer, read_idx, write_idx, next, drawn, visible>>

\* unsync_putchar, write_circular_buffer
unsync_putchar(c) ==
    /\ lock = c /\ pc = "print" /\ left > 0
    /\ buffer' = [buffer EXCEPT ![write_idx] = [n |-> next, from |-> c, rest |-> left - 1]]
    /\ write_idx' = Advance(write_idx)
    /\ next' = (next + 1) % M /\ left' = left - 1
    /\ UNCHANGED <<lock, pc, read_idx, drawn, visible>>

\* Mutant: a print flushes only when the buffer is more than full.
NeedsFlush_Late == circular_buffer_written_bytes > buffer_size

NeedsFlush == circular_buffer_written_bytes >= max_chars

\* unsync_opt_flush at the end of a print
unsync_opt_flush(c) ==
    /\ lock = c /\ pc = "print" /\ left = 0
    /\ pc' = IF NeedsFlush THEN "flush" ELSE "done"
    /\ UNCHANGED <<lock, left, buffer, read_idx, write_idx, next, drawn, visible>>

BeginFlush(c) ==
    /\ LockFree /\ lock' = c /\ pc' = "flush" /\ left' = 0
    /\ UNCHANGED <<buffer, read_idx, write_idx, next, drawn, visible>>

\* unsync_flush: return at once ...
FlushEmpty(c) ==
    /\ lock = c /\ pc = "flush" /\ is_circular_buffer_empty
    /\ pc' = "done"
    /\ UNCHANGED <<lock, left, buffer, read_idx, write_idx, next, drawn, visible>>

\* ... or draw the characters one after the other ...
FlushChar(c) ==
    /\ lock = c /\ pc \in {"flush", "draw"} /\ ~is_circular_buffer_empty
    /\ drawn' = (buffer[read_idx].n + 1) % M
    /\ read_idx' = Advance(read_idx) /\ pc' = "draw"
    /\ UNCHANGED <<lock, left, buffer, write_idx, next, visible>>

Copied == drawn

\* ... and copy the frame buffer to the display.
write_pixels(c) ==
    /\ lock = c /\ pc = "draw" /\ is_circular_buffer_empty
    /\ visible' = Copied /\ pc' = "done"
    /\ UNCHANGED <<lock, left, buffer, read_idx, write_idx, next, drawn>>

Release(c) ==
    /\ lock = c /\ pc = "done"
    /\ lock' = NoCpu /\ pc' = "idle"
    /\ UNCHANGED <<left, buffer, read_idx, write_idx, next, drawn, visible>>

Next ==
    \E c \in CPU :
        \/ \E length \in 0 .. MaxLength : BeginPrint(c, length)
        \/ unsync_putchar(c) \/ unsync_opt_flush(c)
        \/ BeginFlush(c) \/ FlushEmpty(c) \/ FlushChar(c) \/ write_pixels(c)
        \/ Release(c)

\* A CPU that holds the lock runs with its interrupts off.
Work(c) == unsync_putchar(c) \/ unsync_opt_flush(c) \/ FlushEmpty(c) \/ FlushChar(c)
           \/ write_pixels(c) \/ Release(c)
Spec == Init /\ [][Next]_vars /\ \A c \in CPU : WF_vars(Work(c))

------------------------------------------------------------------------------
(* Properties.                                                             *)

\* The types of the variables.
TypeOK ==
    /\ lock \in CPU \cup {NoCpu} /\ pc \in {"idle", "print", "flush", "draw", "done"}
    /\ left \in 0 .. MaxLength
    /\ read_idx \in 0 .. buffer_size - 1 /\ write_idx \in 0 .. buffer_size - 1
    /\ next \in 0 .. M - 1 /\ drawn \in 0 .. M - 1 /\ visible \in 0 .. M - 1
    /\ \A i \in DOMAIN buffer : buffer[i].n \in 0 .. M - 1

Pending == (next - drawn) % M
PendingChar(k) == buffer[(read_idx + k) % buffer_size]

\* Nothing is lost, repeated or reordered: the characters between the read and
\* the write index are exactly those that are printed and not drawn, in order;
\* a full buffer is never taken for an empty one (write_circular_buffer).
NothingLost ==
    /\ (write_idx - read_idx) % buffer_size = Pending
    /\ \A k \in 0 .. Pending - 1 : PendingChar(k).n = (drawn + k) % M

\* The messages of different CPUs do not mix: behind a character that is not the
\* last of its message comes the next one of the same message.
MessagesNotMixed ==
    \A k \in 0 .. Pending - 2 :
        PendingChar(k).rest > 0 =>
            /\ PendingChar(k + 1).from = PendingChar(k).from
            /\ PendingChar(k + 1).rest = PendingChar(k).rest - 1

\* Between two prints the buffer holds less than max_chars characters, the room
\* for the next message that NothingLost rests on (unsync_opt_flush).
RoomForNextMessage == lock = NoCpu => Pending < max_chars

\* What has been drawn is on the display when the lock is released (unsync_flush).
DrawnIsVisible == lock = NoCpu => visible = drawn

\* All of the above, at any time and however the CPUs' calls interleave.
BufferSound ==
    TypeOK /\ NothingLost /\ MessagesNotMixed /\ RoomForNextMessage /\ DrawnIsVisible

\* A print or a flush ends: every CPU can print again.
LockIsReleased == \A c \in CPU : lock = c ~> lock # c
=============================================================================
