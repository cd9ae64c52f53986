------------------------------ MODULE MCLocks -------------------------------
(***************************************************************************)
(* What CPUs do under the kernel's locks, on small instances: the spinlock *)
(* itself, how the locks of the memory management nest, and the console,   *)
(* with the buffer that CPUs share, the text printf makes of its           *)
(* arguments, and the screen.  The parts share no variable, so a behaviour *)
(* is that of one of them.  Spinlock is extended; the others are           *)
(* instances, and their properties are looked at in their own behaviours.  *)
(***************************************************************************)
EXTENDS Spinlock

VARIABLES
  part,   \* the part that is looked at
  lock, buffer_pc, left, buffer, read_idx, write_idx, next, drawn, visible,
  format, token_found, args, out, call,
  next_x, next_y, glyphs, next_glyph,
  holder, vmm_soft, todo, handler, queue, acks, ipi, calls

bufferVars == <<lock, buffer_pc, left, buffer, read_idx, write_idx, next, drawn, visible>>
formatVars == <<format, token_found, args, out, call>>
screenVars == <<next_x, next_y, glyphs, next_glyph>>
nestingVars == <<holder, vmm_soft, todo, handler, queue, acks, ipi, calls>>

(* Two CPUs.  The other functions take the locks as part of these do: kfree *)
(* as kmalloc, allocate and expand as copy.                                 *)
Nesting == INSTANCE KernelLocks WITH
  Growth <- FALSE, MaxCalls <- 2, soft <- vmm_soft, irq <- handler,
  Ops <- {"kmalloc", "copy", "deallocate", "page_fault"}

(* A buffer of four characters, and messages of up to two.                  *)
Buffer == INSTANCE Console WITH
  CPU <- Cpu, NoCpu <- "none", buffer_size <- 4, max_chars <- 2, MaxLength <- 2, M <- 5,
  pc <- buffer_pc

(* Formats of up to three items, with 16-bit words.                         *)
Format == INSTANCE KioFormat WITH
  SIZEOF_UINTMAX <- 2, Values <- {0, 266, 65535},
  Items <- {"a", "%", "u64", "h64", "x64", "u32", "x32", "s"}, MaxItems <- 3

(* Three characters a line and three lines, with pixels to spare.           *)
Screen == INSTANCE KioScreen WITH
  display_width <- 7, display_height <- 10, font_width <- 2, font_height <- 3, M <- 16,
  next <- next_glyph

LocksInit ==
  /\ part \in {"spinlock", "nesting", "buffer", "format", "screen"}
  /\ IF part = "format" THEN Format!Init
     ELSE /\ format = <<>> /\ token_found = FALSE /\ args = <<>> /\ out = <<>>
          /\ call = [format |-> <<>>, args |-> <<>>]
  /\ Init /\ Nesting!Init /\ Buffer!Init /\ Screen!Init

LocksNext ==
  \/ part = "spinlock" /\ Next /\ UNCHANGED <<part, nestingVars, bufferVars, formatVars, screenVars>>
  \/ part = "nesting" /\ Nesting!Next /\ UNCHANGED <<part, vars, bufferVars, formatVars, screenVars>>
  \/ part = "buffer" /\ Buffer!Next /\ UNCHANGED <<part, vars, nestingVars, formatVars, screenVars>>
  \/ part = "format" /\ Format!Next /\ UNCHANGED <<part, vars, nestingVars, bufferVars, screenVars>>
  \/ part = "screen" /\ Screen!Next /\ UNCHANGED <<part, vars, nestingVars, bufferVars, formatVars>>

(* A CPU executes its code, and takes a pending interrupt when it can.      *)
LocksSpec ==
  /\ LocksInit /\ [][LocksNext]_<<part, vars, nestingVars, bufferVars, formatVars, screenVars>>
  /\ \A c \in Cpu : /\ WF_vars(part = "spinlock" /\ Progress(c))
                    /\ WF_nestingVars(part = "nesting" /\ Nesting!Step(c))
                    /\ WF_nestingVars(part = "nesting" /\ Nesting!Interrupt(c))
                    /\ WF_bufferVars(part = "buffer" /\ Buffer!Work(c))

-----------------------------------------------------------------------------
(* The VMM's lock, a queue's and the heap's are taken in this order.        *)
LockOrder == part = "nesting" => Nesting!LockOrder

(* The console's buffer loses and mixes nothing that CPUs print.            *)
BufferSound == part = "buffer" => Buffer!BufferSound

(* printf prints its format with the arguments in their places.             *)
PrintsFormat == part = "format" => Format!PrintsFormat

(* The screen shows the last characters printed, in order.                  *)
ScreenSound == part = "screen" => Screen!ScreenSound

(* A spinlock that is held is released, every call that takes nested locks  *)
(* and waits for acknowledgements returns, and so does every print and      *)
(* every flush.                                                             *)
EveryCallReturns == InnermostReleased /\ Nesting!CallsReturn /\ Buffer!LockIsReleased
=============================================================================
