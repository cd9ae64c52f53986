------------------------------ MODULE FramePool ------------------------------
(***************************************************************************)
(* What the physical frame allocator promises its callers.  A pool of free *)
(* frames comes up once; after that a frame is either free or held by      *)
(* exactly one caller, taking a frame moves it from one set to the other,  *)
(* and the system halts for want of a frame only when no frame that the    *)
(* caller could use is free.                                               *)
(***************************************************************************)
EXTENDS Naturals

CONSTANTS Frame,        \* every frame number the machine may have
          BootUsable    \* the frames reachable before the HAL is up

VARIABLES pool,         \* the free frames
          held,         \* the frames handed out and not yet returned
          halBooted,    \* the HAL is up: frames outside BootUsable are usable
          status        \* "down", "up" or "halted"

poolVars == <<pool, held, halBooted, status>>

PoolInit ==
    /\ pool = {}
    /\ held = {}
    /\ halBooted = FALSE
    /\ status = "down"

\* The allocator comes up with some set of free frames, or cannot come up.
BringUp ==
    /\ status = "down"
    /\ status' \in {"up", "halted"}
    /\ pool' \in SUBSET Frame
    /\ UNCHANGED <<held, halBooted>>

\* The frames a caller may be given now.
Suitable == IF halBooted THEN pool ELSE pool \cap BootUsable

Take(f) ==
    /\ status = "up"
    /\ f \in Suitable
    /\ pool' = pool \ {f}
    /\ held' = held \cup {f}
    /\ UNCHANGED <<halBooted, status>>

Return(f) ==
    /\ status = "up"
    /\ f \in held
    /\ pool' = pool \cup {f}
    /\ held' = held \ {f}
    /\ UNCHANGED <<halBooted, status>>

HalUp ==
    /\ status = "up"
    /\ ~halBooted
    /\ halBooted' = TRUE
    /\ UNCHANGED <<pool, held, status>>

\* A request that no free frame can satisfy stops the machine.
Exhausted ==
    /\ status = "up"
    /\ Suitable = {}
    /\ status' = "halted"
    /\ UNCHANGED <<pool, held, halBooted>>

PoolNext ==
    \/ BringUp
    \/ \E f \in Frame : Take(f) \/ Return(f)
    \/ HalUp
    \/ Exhausted

PoolSpec == PoolInit /\ [][PoolNext]_poolVars
=============================================================================
