---------------------------- MODULE AddressSpace ----------------------------
(***************************************************************************)
(* What a paging structure promises (src/kernel/hal.h): a function from    *)
(* virtual pages to the frame they are mapped to and whether the mapping   *)
(* is valid, changed by one page at a time.                                *)
(***************************************************************************)
CONSTANTS Spaces, Pages, Targets, Nothing

VARIABLE space

Entry == [to : Targets \cup {Nothing}, present : BOOLEAN]

Init == space = [x \in Spaces \X Pages |-> [to |-> Nothing, present |-> FALSE]]

Map(s, p, t) == space' = [space EXCEPT ![<<s, p>>] = [to |-> t, present |-> TRUE]]

(* The old target stays readable (hal.h: "the paging structure contain the  *)
(* old physical address but the memory mapping is no longer valid").        *)
Invalidate(s, p) == space' = [space EXCEPT ![<<s, p>>].present = FALSE]

Copy(s, d, p) ==
  space' = [space EXCEPT ![<<d, p>>] = [to |-> space[<<s, p>>].to, present |-> TRUE]]

Next ==
  \E s \in Spaces, p \in Pages :
    \/ \E t \in Targets : Map(s, p, t)
    \/ Invalidate(s, p)
    \/ \E d \in Spaces : Copy(s, d, p)

Spec == Init /\ [][Next]_space
=============================================================================
