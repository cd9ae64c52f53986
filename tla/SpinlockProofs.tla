--------------------------- MODULE SpinlockProofs ---------------------------
(***************************************************************************)
(* Proofs about Spinlock, for any number of CPUs and locks, about the      *)
(* console that CPUs share under one of them (an instance of Console), and *)
(* about the screen it is drawn on (an instance of KioScreen).             *)
(***************************************************************************)
EXTENDS Spinlock, FiniteSetTheorems, TLAPS

\* The boot state satisfies the invariant.
LEMMA InitEstablishes == Init => IndInv
<1> SUFFICES ASSUME Init PROVE IndInv
  BY Zenon
<1>1. \A x \in Ctx : Held(x) = {}
  BY Zenon DEF Init, Held
<1>2. TypeOK
  BY LockAssumption, Zenon DEF Init, TypeOK
<1>3. MutualExclusion /\ FlagMeansHeld
  BY <1>1, Zenon DEF Init, MutualExclusion, FlagMeansHeld, Held
<1>4. WantsNext /\ OffMeansOnTop /\ SavedFlags
  BY <1>1, Zenon DEF Init, WantsNext, OffMeansOnTop, SavedFlags, Ctx
<1>5. FlagGivenBack
  BY Zenon DEF Init, FlagGivenBack, Running
<1> QED
  BY <1>2, <1>3, <1>4, <1>5, Zenon DEF IndInv

\* The context a CPU executes is one of its two, and the other one is either
\* an idle handler or an interrupted main context with nothing to undo.
LEMMA RunningContext ==
    ASSUME IndInv, NEW c \in Cpu
    PROVE  /\ Running(c) \in Ctx
           /\ Running(c)[1] = c
           /\ Running(c) = IF irq[c] THEN <<c, "irq">> ELSE <<c, "main">>
           /\ \A y \in Ctx : y[1] = c /\ y # Running(c) =>
                /\ hard[y] = {}
                /\ pc[y] \in {"run", "spin"}
                /\ y[2] = "main" <=> irq[c]
<1>1. irq[c] \in BOOLEAN
  BY Zenon DEF IndInv, TypeOK
<1>2. /\ Running(c) \in Ctx
      /\ Running(c)[1] = c
      /\ Running(c) = IF irq[c] THEN <<c, "irq">> ELSE <<c, "main">>
  BY Zenon DEF Running, Ctx
<1>3. ASSUME NEW y \in Ctx, y[1] = c, y # Running(c)
      PROVE  /\ hard[y] = {}
             /\ pc[y] \in {"run", "spin"}
             /\ y[2] = "main" <=> irq[c]
  <2>1. y = <<c, y[2]>> /\ y[2] \in {"main", "irq"}
    BY <1>3 DEF Ctx
  <2>2. CASE irq[c]
    <3>1. y[2] = "main"
      BY <1>2, <1>3, <2>1, <2>2, Zenon
    <3>2. pc[y] \in {"run", "try", "spin", "restore"}
      BY Zenon DEF IndInv, TypeOK
    <3> QED
      BY <1>3, <2>2, <3>1, <3>2, Zenon DEF IndInv, OffMeansOnTop
  <2>3. CASE ~irq[c]
    <3>1. y[2] = "irq"
      BY <1>2, <1>3, <2>1, <2>3, Zenon
    <3> QED
      BY <1>3, <2>3, <3>1, Zenon DEF IndInv, OffMeansOnTop, Held
  <2> QED
    BY <2>2, <2>3, Zenon
<1> QED
  BY <1>2, <1>3, Zenon

\* Entering acquire_spinlock_hard, or its next attempt, keeps the invariant.
LEMMA DisableForHardStep ==
    ASSUME IndInv, NEW c \in Cpu, DisableForHard(c)
    PROVE  IndInv'
<1> DEFINE x == Running(c)
           l == want'[x]
<1>1. x \in Ctx /\ x[1] = c
  BY RunningContext, Zenon
<1>2. /\ pc' = [pc EXCEPT ![x] = "try"]
      /\ istate' = [istate EXCEPT ![x][l] = iflag[c]]
      /\ iflag' = [iflag EXCEPT ![c] = FALSE]
      /\ UNCHANGED <<irq, locked, hard, soft, enabled>>
  BY Zenon DEF DisableForHard, DisableAndSave
<1>3. /\ l \in Lock
      /\ want' = [want EXCEPT ![x] = l]
      /\ \A m \in Held(x) : m < l
      /\ pc[x] \in {"run", "spin"}
  <2>1. CASE pc[x] = "run" /\ \E k \in MayAcquire(x) : want' = [want EXCEPT ![x] = k]
    BY <1>1, <2>1, LockAssumption DEF MayAcquire, IndInv, TypeOK
  <2>2. CASE pc[x] = "spin" /\ want' = want
    BY <1>1, <2>2, Zenon DEF IndInv, TypeOK, WantsNext
  <2> QED
    BY <2>1, <2>2, Zenon DEF DisableForHard
<1> HIDE DEF l
<1>4. l \notin hard[x]
  BY <1>1, <1>3, LockAssumption DEF Held
<1>5. TypeOK'
  BY <1>1, <1>2, <1>3, Zenon DEF IndInv, TypeOK
<1>6. \A y \in Ctx : Held(y)' = Held(y)
  BY <1>2, Zenon DEF Held
<1>7. MutualExclusion' /\ FlagMeansHeld'
  BY <1>2, <1>6 DEF IndInv, MutualExclusion, FlagMeansHeld
<1>8. WantsNext'
  BY <1>1, <1>2, <1>3, <1>6 DEF IndInv, TypeOK, WantsNext
<1>9. OffMeansOnTop'
  BY <1>1, <1>2, <1>6, RunningContext DEF IndInv, TypeOK, OffMeansOnTop
<1>10. SavedFlags'
  <2>1. iflag[c] <=> Outermost(x)
    <3>1. x[2] = "main" <=> ~irq[c]
      BY RunningContext DEF IndInv, TypeOK
    <3>2. CASE hard[x] # {}
      BY <1>1, <3>2, Zenon DEF IndInv, OffMeansOnTop, Outermost
    <3>3. CASE hard[x] = {}
      BY <1>1, <1>3, <3>1, <3>3, Zenon DEF IndInv, FlagGivenBack, Outermost
    <3> QED
      BY <3>2, <3>3, Zenon
  <2>2. istate'[x][l] = iflag[c] /\ want'[x] = l
    BY <1>1, <1>2, <1>3, Zenon DEF IndInv, TypeOK
  <2>3. \A y \in Ctx : Outermost(y)' <=> Outermost(y)
    BY <1>2, Zenon DEF Outermost
  <2>4. \A y \in Ctx : \A k \in Lock :
            y # x \/ k # l => istate'[y][k] = istate[y][k]
    BY <1>1, <1>2, <1>3, Zenon DEF IndInv, TypeOK
  <2>5. \A y \in Ctx : y # x => pc'[y] = pc[y] /\ want'[y] = want[y]
    BY <1>1, <1>2, <1>3, Zenon DEF IndInv, TypeOK
  <2> SUFFICES ASSUME NEW y \in Ctx
               PROVE  /\ pc'[y] \in {"try", "restore"} =>
                            (istate'[y][want'[y]] <=> Outermost(y))
                      /\ \A k \in hard[y] :
                            istate'[y][k] <=> /\ y[2] = "main"
                                              /\ enabled[y[1]]
                                              /\ \A m \in hard[y] : k <= m
    BY <1>2, <2>3, Zenon DEF SavedFlags
  <2>6. \A k \in hard[y] : k \in Lock /\ (y # x \/ k # l)
    BY <1>4, Zenon DEF IndInv, TypeOK
  <2>7. \A k \in hard[y] : istate'[y][k] = istate[y][k]
    BY <2>4, <2>6, Zenon
  <2>8. CASE y = x
    BY <1>1, <2>1, <2>2, <2>7, <2>8 DEF IndInv, SavedFlags
  <2>9. CASE y # x
    <3>1. pc[y] # "run" => want[y] \in Lock
      BY Zenon DEF IndInv, WantsNext
    <3> QED
      BY <2>4, <2>5, <2>7, <2>9, <3>1 DEF IndInv, SavedFlags
  <2> QED
    BY <2>8, <2>9, Zenon
<1>11. FlagGivenBack'
  <2> SUFFICES ASSUME NEW d \in Cpu,
                      LET y == Running(d) IN
                      pc'[y] = "spin" \/ (pc'[y] = "run" /\ hard[y] = {})
               PROVE  iflag'[d] <=> ~irq[d] /\ hard[Running(d)] = {} /\ enabled[d]
    BY <1>2, Zenon DEF FlagGivenBack, Running
  <2>1. Running(d) \in Ctx /\ Running(d)[1] = d
    BY RunningContext, Zenon
  <2>2. d # c
    BY <1>1, <1>2, <2>1, Zenon DEF IndInv, TypeOK
  <2> QED
    BY <1>1, <1>2, <2>1, <2>2 DEF IndInv, TypeOK, FlagGivenBack
<1> QED
  BY <1>5, <1>7, <1>8, <1>9, <1>10, <1>11, Zenon DEF IndInv

\* A test-and-set that wins the lock keeps the invariant.
LEMMA TakeHardStep ==
    ASSUME IndInv, NEW c \in Cpu, TakeHard(c)
    PROVE  IndInv'
<1> DEFINE x == Running(c)
           l == want[x]
<1>1. x \in Ctx /\ x[1] = c
  BY RunningContext, Zenon
<1>2. /\ pc[x] = "try" /\ ~locked[l]
      /\ locked' = [locked EXCEPT ![l] = TRUE]
      /\ hard' = [hard EXCEPT ![x] = hard[x] \cup {l}]
      /\ pc' = [pc EXCEPT ![x] = "run"]
      /\ want' = [want EXCEPT ![x] = NoLock]
      /\ UNCHANGED <<iflag, irq, istate, soft, enabled>>
  BY Zenon DEF TakeHard
<1>3. l \in Lock /\ \A m \in Held(x) : m < l
  BY <1>1, <1>2, Zenon DEF IndInv, WantsNext
<1>4. \A y \in Ctx : l \notin Held(y)
  BY <1>2, <1>3, Zenon DEF IndInv, FlagMeansHeld
<1> HIDE DEF l
<1>5. TypeOK'
  BY <1>1, <1>2, <1>3 DEF IndInv, TypeOK
<1>6. \A y \in Ctx :
        /\ y = x => /\ hard'[y] = hard[y] \cup {l}
                    /\ Held(y)' = Held(y) \cup {l}
                    /\ pc'[y] = "run"
                    /\ want'[y] = NoLock
        /\ y # x => /\ hard'[y] = hard[y]
                    /\ Held(y)' = Held(y)
                    /\ pc'[y] = pc[y]
                    /\ want'[y] = want[y]
  BY <1>1, <1>2, Zenon DEF Held, IndInv, TypeOK
<1>7. MutualExclusion'
  <2> SUFFICES ASSUME NEW y \in Ctx, NEW z \in Ctx,
                      NEW k \in Held(y)' \cap Held(z)'
               PROVE  y = z
    BY Zenon DEF MutualExclusion
  <2>1. CASE k = l
    BY <1>4, <1>6, <2>1, Zenon
  <2>2. CASE k # l
    BY <1>6, <2>2 DEF IndInv, MutualExclusion
  <2> QED
    BY <2>1, <2>2, Zenon
<1>8. FlagMeansHeld'
  <2>1. \A k \in Lock : locked'[k] <=> (k = l \/ locked[k])
    BY <1>2, <1>3, Zenon DEF IndInv, TypeOK
  <2>2. \A k \in Lock : (\E y \in Ctx : k \in Held(y)')
                         <=> (k = l \/ \E y \in Ctx : k \in Held(y))
    BY <1>1, <1>6
  <2>3. \A y \in Ctx : hard'[y] \cap soft'[y] = {}
    BY <1>2, <1>4, <1>6 DEF IndInv, FlagMeansHeld, Held
  <2> QED
    BY <2>1, <2>2, <2>3, Zenon DEF IndInv, FlagMeansHeld
<1>9. WantsNext'
  BY <1>1, <1>6, Zenon DEF IndInv, WantsNext
<1>10. OffMeansOnTop'
  <2>1. ~iflag[c] /\ (x[2] = "main" => ~irq[c]) /\ (x[2] = "irq" => irq[c])
    BY <1>1, <1>2, RunningContext DEF IndInv, OffMeansOnTop
  <2> QED
    BY <1>1, <1>2, <1>6, <2>1 DEF IndInv, OffMeansOnTop
<1>11. SavedFlags'
  <2> SUFFICES ASSUME NEW y \in Ctx
               PROVE  /\ pc'[y] \in {"try", "restore"} =>
                            (istate[y][want'[y]] <=> Outermost(y)')
                      /\ \A k \in hard'[y] :
                            istate[y][k] <=> /\ y[2] = "main"
                                             /\ enabled[y[1]]
                                             /\ \A m \in hard'[y] : k <= m
    BY <1>2, Zenon DEF SavedFlags
  <2>1. CASE y # x
    BY <1>2, <1>6, <2>1 DEF IndInv, SavedFlags, Outermost
  <2>2. CASE y = x
    <3>1. istate[x][l] <=> Outermost(x)
      BY <1>1, <1>2, Zenon DEF IndInv, SavedFlags, l
    <3>2. \A m \in hard[x] : m \in Nat /\ l \in Nat /\ m < l
      BY <1>1, <1>3, LockAssumption, Zenon DEF Held, IndInv, TypeOK
    <3>3. istate[x][l] <=> /\ x[2] = "main"
                           /\ enabled[x[1]]
                           /\ \A m \in hard'[x] : l <= m
      <4>1. hard'[x] = hard[x] \cup {l} /\ l \in Nat
        BY <1>1, <1>3, <1>6, LockAssumption, Zenon
      <4>2. (\A m \in hard'[x] : l <= m) <=> hard[x] = {}
        BY <3>2, <4>1
      <4> QED
        BY <3>1, <4>2, Zenon DEF Outermost
    <3>4. ASSUME NEW k \in hard[x]
          PROVE  istate[x][k] <=> /\ x[2] = "main"
                                  /\ enabled[x[1]]
                                  /\ \A m \in hard'[x] : k <= m
      <4>1. hard'[x] = hard[x] \cup {l} /\ k <= l
        BY <1>1, <1>6, <3>2
      <4>2. (\A m \in hard'[x] : k <= m) <=> (\A m \in hard[x] : k <= m)
        BY <4>1, Zenon
      <4> QED
        BY <1>1, <4>2, Zenon DEF IndInv, SavedFlags
    <3>5. hard'[x] = hard[x] \cup {l} /\ pc'[x] = "run"
      BY <1>1, <1>6, Zenon
    <3> HIDE DEF x
    <3> QED
      BY <2>2, <3>3, <3>4, <3>5
  <2> QED
    BY <2>1, <2>2, Zenon
<1>12. FlagGivenBack'
  <2> SUFFICES ASSUME NEW d \in Cpu,
                      LET y == Running(d) IN
                      pc'[y] = "spin" \/ (pc'[y] = "run" /\ hard'[y] = {})
               PROVE  iflag[d] <=> ~irq[d] /\ hard'[Running(d)] = {} /\ enabled[d]
    BY <1>2 DEF FlagGivenBack, Running
  <2>1. Running(d) \in Ctx /\ Running(d)[1] = d
    BY RunningContext, Zenon
  <2>2. Running(d) # x
    BY <1>1, <1>6, Zenon
  <2> QED
    BY <1>6, <2>1, <2>2 DEF IndInv, FlagGivenBack
<1> QED
  BY <1>5, <1>7, <1>8, <1>9, <1>10, <1>11, <1>12, Zenon DEF IndInv

\* A test-and-set that loses, and lets interrupts in, keeps it.
LEMMA SpinHardStep ==
    ASSUME IndInv, NEW c \in Cpu, SpinHard(c)
    PROVE  IndInv'
<1> DEFINE x == Running(c)
<1>1. x \in Ctx /\ x[1] = c
  BY RunningContext, Zenon
<1>2. /\ pc[x] = "try"
      /\ iflag' = [iflag EXCEPT ![c] = istate[x][want[x]] \/ iflag[c]]
      /\ pc' = [pc EXCEPT ![x] = "spin"]
      /\ UNCHANGED <<irq, locked, want, istate, hard, soft, enabled>>
  BY Zenon DEF SpinHard, RestoreInterruptState
<1>3. \A y \in Ctx : Held(y)' = Held(y)
  BY <1>2, Zenon DEF Held
<1>4. \A y \in Ctx : pc'[y] = IF y = x THEN "spin" ELSE pc[y]
  BY <1>1, <1>2, Zenon DEF IndInv, TypeOK
<1>5. /\ ~iflag[c]
      /\ istate[x][want[x]] <=> Outermost(x)
      /\ x[2] = "main" <=> ~irq[c]
  BY <1>1, <1>2, RunningContext DEF IndInv, OffMeansOnTop, SavedFlags, TypeOK
<1>6. /\ iflag'[c] <=> Outermost(x)
      /\ \A d \in Cpu : d # c => iflag'[d] = iflag[d]
  BY <1>1, <1>2, <1>5, Zenon DEF IndInv, TypeOK
<1>7. TypeOK'
  <2>1. (istate[x][want[x]] \/ iflag[c]) \in BOOLEAN
    BY Zenon
  <2>2. iflag' \in [Cpu -> BOOLEAN]
    BY <1>2, <2>1, Zenon DEF IndInv, TypeOK
  <2>3. pc' \in [Ctx -> {"run", "try", "spin", "restore"}]
    BY <1>2, Zenon DEF IndInv, TypeOK
  <2> QED
    BY <1>2, <2>2, <2>3, Zenon DEF IndInv, TypeOK
<1>8. MutualExclusion' /\ FlagMeansHeld'
  BY <1>2, <1>3 DEF IndInv, MutualExclusion, FlagMeansHeld
<1>9. WantsNext'
  BY <1>1, <1>2, <1>3, <1>4, Zenon DEF IndInv, WantsNext
<1>10. OffMeansOnTop'
  <2> SUFFICES ASSUME NEW y \in Ctx
               PROVE  /\ hard[y] # {} \/ pc'[y] \in {"try", "restore"} =>
                            ~iflag'[y[1]] /\ (y[2] = "main" => ~irq[y[1]])
                      /\ y[2] = "irq" /\ ~irq[y[1]] => pc'[y] = "run" /\ Held(y) = {}
                      /\ y[2] = "main" /\ irq[y[1]] => enabled[y[1]]
    BY <1>2, <1>3, Zenon DEF OffMeansOnTop
  <2>1. CASE y = x
    BY <1>1, <1>4, <1>5, <1>6, <2>1 DEF IndInv, OffMeansOnTop, Outermost
  <2>2. CASE y # x /\ y[1] = c
    BY <1>4, <2>2, RunningContext DEF IndInv, OffMeansOnTop
  <2>3. CASE y # x /\ y[1] # c
    <3>1. y[1] \in Cpu
      BY Zenon DEF Ctx
    <3> QED
      BY <1>4, <1>6, <2>3, <3>1 DEF IndInv, OffMeansOnTop
  <2> QED
    BY <2>1, <2>2, <2>3, Zenon
<1>11. SavedFlags'
  BY <1>1, <1>2, <1>4 DEF IndInv, SavedFlags, Outermost
<1>12. FlagGivenBack'
  <2> SUFFICES ASSUME NEW d \in Cpu,
                      LET y == Running(d) IN
                      pc'[y] = "spin" \/ (pc'[y] = "run" /\ hard[y] = {})
               PROVE  iflag'[d] <=> ~irq[d] /\ hard[Running(d)] = {} /\ enabled[d]
    BY <1>2, Zenon DEF FlagGivenBack, Running
  <2>1. Running(d) \in Ctx /\ Running(d)[1] = d
    BY RunningContext, Zenon
  <2>2. CASE d = c
    BY <1>1, <1>5, <1>6, <2>2, Zenon DEF Outermost
  <2>3. CASE d # c
    BY <1>1, <1>4, <1>6, <2>1, <2>3 DEF IndInv, FlagGivenBack
  <2> QED
    BY <2>2, <2>3, Zenon
<1> QED
  BY <1>7, <1>8, <1>9, <1>10, <1>11, <1>12, Zenon DEF IndInv

\* Giving up a lock that one context holds leaves it held by none.
LEMMA ReleasedByAll ==
    ASSUME IndInv, NEW x \in Ctx, NEW l \in Held(x),
           \A y \in Ctx : /\ y = x => Held(y)' = Held(y) \ {l}
                          /\ y # x => Held(y)' = Held(y),
           locked' = [locked EXCEPT ![l] = FALSE]
    PROVE  /\ MutualExclusion'
           /\ \A k \in Lock : locked'[k] <=> \E y \in Ctx : k \in Held(y)'
<1>1. \A y \in Ctx : l \notin Held(y)'
  BY DEF IndInv, MutualExclusion
<1>2. \A k : k # l => \A y \in Ctx : k \in Held(y)' <=> k \in Held(y)
  BY Zenon
<1>3. l \in Lock
  BY Zenon DEF IndInv, TypeOK, Held
<1>4. MutualExclusion'
  <2> SUFFICES ASSUME NEW y \in Ctx, NEW z \in Ctx,
                      NEW k \in Held(y)' \cap Held(z)'
               PROVE  y = z
    BY Zenon DEF MutualExclusion
  <2> QED
    BY <1>1, <1>2 DEF IndInv, MutualExclusion
<1>5. ASSUME NEW k \in Lock
      PROVE  locked'[k] <=> \E y \in Ctx : k \in Held(y)'
  <2>1. CASE k = l
    BY <1>1, <1>3, <2>1, Zenon DEF IndInv, TypeOK
  <2>2. CASE k # l
    <3>1. locked'[k] = locked[k]
      BY <2>2, Zenon DEF IndInv, TypeOK
    <3> QED
      BY <1>2, <2>2, <3>1, Zenon DEF IndInv, FlagMeansHeld
  <2> QED
    BY <2>1, <2>2, Zenon
<1> QED
  BY <1>4, <1>5, Zenon

\* Clearing the flag in release_spinlock_hard keeps the invariant.
LEMMA ClearHardStep ==
    ASSUME IndInv, NEW c \in Cpu, ClearHard(c)
    PROVE  IndInv'
<1>1. PICK x \in Ctx : x = Running(c) /\ x[1] = c
  BY RunningContext
<1>2. PICK l \in hard[x] :
        /\ \A m \in Held(x) : m <= l
        /\ locked' = [locked EXCEPT ![l] = FALSE]
        /\ hard' = [hard EXCEPT ![x] = hard[x] \ {l}]
        /\ want' = [want EXCEPT ![x] = l]
  BY <1>1, Zenon DEF ClearHard
<1>3. /\ pc[x] = "run"
      /\ pc' = [pc EXCEPT ![x] = "restore"]
      /\ UNCHANGED <<iflag, irq, istate, soft, enabled>>
  BY <1>1, Zenon DEF ClearHard
<1>4. l \in Lock /\ l \in Held(x) /\ l \notin soft[x]
  BY Zenon DEF IndInv, TypeOK, Held, FlagMeansHeld
<1>5. \A y \in Ctx :
        /\ y = x => /\ hard'[y] = hard[y] \ {l}
                    /\ Held(y)' = Held(y) \ {l}
                    /\ pc'[y] = "restore"
                    /\ want'[y] = l
        /\ y # x => /\ hard'[y] = hard[y]
                    /\ Held(y)' = Held(y)
                    /\ pc'[y] = pc[y]
                    /\ want'[y] = want[y]
  BY <1>2, <1>3, <1>4, Zenon DEF Held, IndInv, TypeOK
<1>6. TypeOK'
  BY <1>2, <1>3, <1>4, Zenon DEF IndInv, TypeOK
<1>7. MutualExclusion' /\ FlagMeansHeld'
  <2>0. /\ \A y \in Ctx : /\ y = x => Held(y)' = Held(y) \ {l}
                          /\ y # x => Held(y)' = Held(y)
        /\ locked' = [locked EXCEPT ![l] = FALSE]
    BY <1>2, <1>5, Zenon
  <2>1. /\ MutualExclusion'
        /\ \A k \in Lock : locked'[k] <=> \E y \in Ctx : k \in Held(y)'
    BY <1>4, <2>0, ReleasedByAll, Zenon
  <2>2. \A y \in Ctx : hard'[y] \cap soft'[y] = {}
    BY <1>3, <1>5, Zenon DEF IndInv, FlagMeansHeld
  <2> QED
    BY <2>1, <2>2, Zenon DEF FlagMeansHeld
<1>8. WantsNext'
  <2> SUFFICES ASSUME NEW y \in Ctx, pc'[y] # "run"
               PROVE  want'[y] \in Lock /\ \A m \in Held(y)' : m < want'[y]
    BY Zenon DEF WantsNext
  <2>1. CASE y # x
    BY <1>5, <2>1, Zenon DEF IndInv, WantsNext
  <2>2. CASE y = x
    <3>1. Held(x) \subseteq Lock
      BY Zenon DEF IndInv, TypeOK, Held
    <3>2. \A m \in Held(x) \ {l} : m < l
      BY <1>2, <1>4, <3>1, LockAssumption
    <3> QED
      BY <1>4, <1>5, <2>2, <3>2, Zenon
  <2> QED
    BY <2>1, <2>2, Zenon
<1>9. OffMeansOnTop'
  <2> SUFFICES ASSUME NEW y \in Ctx
               PROVE  /\ hard'[y] # {} \/ pc'[y] \in {"try", "restore"} =>
                            ~iflag[y[1]] /\ (y[2] = "main" => ~irq[y[1]])
                      /\ y[2] = "irq" /\ ~irq[y[1]] => pc'[y] = "run" /\ Held(y)' = {}
                      /\ y[2] = "main" /\ irq[y[1]] => enabled[y[1]]
    BY <1>3, Zenon DEF OffMeansOnTop
  <2>1. CASE y # x
    BY <1>5, <2>1 DEF IndInv, OffMeansOnTop
  <2>2. CASE y = x
    <3>1. hard[x] # {} /\ Held(x) # {}
      BY <1>2, <1>4, Zenon
    <3> QED
      BY <2>2, <3>1, Zenon DEF IndInv, OffMeansOnTop
  <2> QED
    BY <2>1, <2>2, Zenon
<1>10. SavedFlags'
  <2> SUFFICES ASSUME NEW y \in Ctx
               PROVE  /\ pc'[y] \in {"try", "restore"} =>
                            (istate[y][want'[y]] <=> Outermost(y)')
                      /\ \A k \in hard'[y] :
                            istate[y][k] <=> /\ y[2] = "main"
                                             /\ enabled[y[1]]
                                             /\ \A m \in hard'[y] : k <= m
    BY <1>3, Zenon DEF SavedFlags
  <2>1. CASE y # x
    BY <1>3, <1>5, <2>1 DEF IndInv, SavedFlags, Outermost
  <2>2. CASE y = x
    <3>1. \A m \in hard[x] : m \in Nat /\ l \in Nat /\ m <= l
      BY <1>2, <1>4, LockAssumption, Zenon DEF Held, IndInv, TypeOK
    <3>2. hard'[x] = hard[x] \ {l} /\ want'[x] = l
      BY <1>5, Zenon
    <3>3. (\A m \in hard[x] : l <= m) <=> hard'[x] = {}
      BY <3>1, <3>2
    <3>4. istate[x][l] <=> Outermost(x)'
      BY <1>2, <1>3, <3>3, Zenon DEF IndInv, SavedFlags, Outermost
    <3>5. \A k \in hard'[x] :
            (\A m \in hard'[x] : k <= m) <=> (\A m \in hard[x] : k <= m)
      BY <3>1, <3>2, Zenon
    <3> QED
      BY <2>2, <3>2, <3>4, <3>5, Zenon DEF IndInv, SavedFlags
  <2> QED
    BY <2>1, <2>2, Zenon
<1>11. FlagGivenBack'
  <2> SUFFICES ASSUME NEW d \in Cpu,
                      LET y == Running(d) IN
                      pc'[y] = "spin" \/ (pc'[y] = "run" /\ hard'[y] = {})
               PROVE  iflag[d] <=> ~irq[d] /\ hard'[Running(d)] = {} /\ enabled[d]
    BY <1>3, Zenon DEF FlagGivenBack, Running
  <2>1. Running(d) \in Ctx
    BY RunningContext, Zenon
  <2>2. Running(d) # x
    BY <1>5, Zenon
  <2> QED
    BY <1>5, <2>1, <2>2 DEF IndInv, FlagGivenBack
<1> QED
  BY <1>6, <1>7, <1>8, <1>9, <1>10, <1>11, Zenon DEF IndInv

\* So does putting the saved interrupt state back.
LEMMA RestoreHardStep ==
    ASSUME IndInv, NEW c \in Cpu, RestoreHard(c)
    PROVE  IndInv'
<1>1. PICK x \in Ctx : x = Running(c) /\ x[1] = c
  BY RunningContext
<1>2. PICK l \in Lock : l = want[x]
  BY <1>1, Zenon DEF RestoreHard, IndInv, WantsNext
<1>3. /\ pc[x] = "restore"
      /\ iflag' = [iflag EXCEPT ![c] = istate[x][l] \/ iflag[c]]
      /\ istate' = [istate EXCEPT ![x][l] = FALSE]
      /\ want' = [want EXCEPT ![x] = NoLock]
      /\ pc' = [pc EXCEPT ![x] = "run"]
      /\ UNCHANGED <<irq, locked, hard, soft, enabled>>
  BY <1>1, <1>2, Zenon DEF RestoreHard, RestoreInterruptState
<1>4. \A y \in Ctx : Held(y)' = Held(y)
  BY <1>3, Zenon DEF Held
<1>5. \A y \in Ctx : /\ y = x => pc'[y] = "run" /\ want'[y] = NoLock
                     /\ y # x => pc'[y] = pc[y] /\ want'[y] = want[y]
  BY <1>3, Zenon DEF IndInv, TypeOK
<1>6. /\ ~iflag[c]
      /\ istate[x][l] <=> Outermost(x)
      /\ x[2] = "main" <=> ~irq[c]
  BY <1>1, <1>2, <1>3, RunningContext DEF IndInv, OffMeansOnTop, SavedFlags, TypeOK
<1>7. /\ iflag'[c] <=> Outermost(x)
      /\ \A d \in Cpu : d # c => iflag'[d] = iflag[d]
  BY <1>3, <1>6, Zenon DEF IndInv, TypeOK
<1>8. TypeOK'
  <2>1. (istate[x][l] \/ iflag[c]) \in BOOLEAN
    BY Zenon
  <2> QED
    BY <1>3, <2>1, Zenon DEF IndInv, TypeOK
<1>9. MutualExclusion' /\ FlagMeansHeld'
  BY <1>3, <1>4 DEF IndInv, MutualExclusion, FlagMeansHeld
<1>10. WantsNext'
  BY <1>4, <1>5, Zenon DEF IndInv, WantsNext
<1>11. OffMeansOnTop'
  <2> SUFFICES ASSUME NEW y \in Ctx
               PROVE  /\ hard[y] # {} \/ pc'[y] \in {"try", "restore"} =>
                            ~iflag'[y[1]] /\ (y[2] = "main" => ~irq[y[1]])
                      /\ y[2] = "irq" /\ ~irq[y[1]] => pc'[y] = "run" /\ Held(y) = {}
                      /\ y[2] = "main" /\ irq[y[1]] => enabled[y[1]]
    BY <1>3, <1>4, Zenon DEF OffMeansOnTop
  <2>1. CASE y = x
    BY <1>1, <1>5, <1>6, <1>7, <2>1 DEF IndInv, OffMeansOnTop, Outermost
  <2>2. CASE y # x /\ y[1] = c
    BY <1>1, <1>5, <2>2, RunningContext DEF IndInv, OffMeansOnTop
  <2>3. CASE y # x /\ y[1] # c
    <3>1. y[1] \in Cpu
      BY Zenon DEF Ctx
    <3> QED
      BY <1>5, <1>7, <2>3, <3>1 DEF IndInv, OffMeansOnTop
  <2> QED
    BY <2>1, <2>2, <2>3, Zenon
<1>12. SavedFlags'
  <2>1. l \notin hard[x]
    BY <1>2, <1>3, LockAssumption DEF IndInv, WantsNext, Held
  <2>2. \A y \in Ctx : \A k \in Lock :
            y # x \/ k # l => istate'[y][k] = istate[y][k]
    BY <1>3, Zenon DEF IndInv, TypeOK
  <2> SUFFICES ASSUME NEW y \in Ctx
               PROVE  /\ pc'[y] \in {"try", "restore"} =>
                            (istate'[y][want'[y]] <=> Outermost(y))
                      /\ \A k \in hard[y] :
                            istate'[y][k] <=> /\ y[2] = "main"
                                              /\ enabled[y[1]]
                                              /\ \A m \in hard[y] : k <= m
    BY <1>3, Zenon DEF SavedFlags, Outermost
  <2>3. hard[y] \subseteq Lock
    BY Zenon DEF IndInv, TypeOK
  <2>4. CASE y = x
    BY <1>5, <2>1, <2>2, <2>3, <2>4 DEF IndInv, SavedFlags
  <2>5. CASE y # x
    <3>1. pc[y] \in {"try", "restore"} => want[y] \in Lock
      BY Zenon DEF IndInv, WantsNext
    <3> QED
      BY <1>5, <2>2, <2>3, <2>5, <3>1 DEF IndInv, SavedFlags
  <2> QED
    BY <2>4, <2>5, Zenon
<1>13. FlagGivenBack'
  <2> SUFFICES ASSUME NEW d \in Cpu,
                      LET y == Running(d) IN
                      pc'[y] = "spin" \/ (pc'[y] = "run" /\ hard[y] = {})
               PROVE  iflag'[d] <=> ~irq[d] /\ hard[Running(d)] = {} /\ enabled[d]
    BY <1>3 DEF FlagGivenBack, Running
  <2>1. Running(d) \in Ctx /\ Running(d)[1] = d
    BY RunningContext, Zenon
  <2>2. CASE d = c
    BY <1>1, <1>6, <1>7, <2>2, Zenon DEF Outermost
  <2>3. CASE d # c
    BY <1>1, <1>5, <1>7, <2>1, <2>3 DEF IndInv, FlagGivenBack
  <2> QED
    BY <2>2, <2>3, Zenon
<1> QED
  BY <1>8, <1>9, <1>10, <1>11, <1>12, <1>13, Zenon DEF IndInv

\* acquire_spinlock keeps the invariant.
LEMMA AcquireStep ==
    ASSUME IndInv, NEW c \in Cpu, acquire_spinlock(c)
    PROVE  IndInv'
<1>1. PICK x \in Ctx : x = Running(c) /\ x[1] = c
  BY RunningContext
<1>2. PICK l \in MayAcquire(x) \cap SoftLock :
        /\ ~locked[l]
        /\ locked' = [locked EXCEPT ![l] = TRUE]
        /\ soft' = [soft EXCEPT ![x] = soft[x] \cup {l}]
  BY <1>1, Zenon DEF acquire_spinlock
<1>3. /\ pc[x] = "run"
      /\ UNCHANGED <<iflag, irq, pc, want, istate, hard, enabled>>
  BY <1>1, Zenon DEF acquire_spinlock
<1>4. l \in Lock
  BY LockAssumption, Zenon
<1>5. \A y \in Ctx :
        /\ y = x => Held(y)' = Held(y) \cup {l} /\ soft'[y] = soft[y] \cup {l}
        /\ y # x => Held(y)' = Held(y) /\ soft'[y] = soft[y]
  BY <1>2, <1>3, Zenon DEF Held, IndInv, TypeOK
<1>6. \A y \in Ctx : l \notin Held(y)
  BY <1>2, <1>4, Zenon DEF IndInv, FlagMeansHeld
<1>7. TypeOK'
  BY <1>2, <1>3, <1>4 DEF IndInv, TypeOK
<1>8. MutualExclusion'
  BY <1>5, <1>6 DEF IndInv, MutualExclusion
<1>9. FlagMeansHeld'
  <2>1. \A y \in Ctx : hard'[y] \cap soft'[y] = {}
    BY <1>3, <1>5, <1>6 DEF IndInv, FlagMeansHeld, Held
  <2>2. ASSUME NEW k \in Lock
        PROVE  locked'[k] <=> \E y \in Ctx : k \in Held(y)'
    <3>1. CASE k = l
      BY <1>2, <1>4, <1>5, <3>1, Zenon DEF IndInv, TypeOK
    <3>2. CASE k # l
      <4>1. locked'[k] = locked[k] /\ \A y \in Ctx : k \in Held(y)' <=> k \in Held(y)
        BY <1>2, <1>5, <3>2 DEF IndInv, TypeOK
      <4> QED
        BY <4>1, Zenon DEF IndInv, FlagMeansHeld
    <3> QED
      BY <3>1, <3>2, Zenon
  <2> QED
    BY <2>1, <2>2, Zenon DEF FlagMeansHeld
<1>10. WantsNext'
  BY <1>3, <1>5, Zenon DEF IndInv, WantsNext
<1>11. OffMeansOnTop'
  <2>1. ~(x[2] = "irq" /\ ~irq[x[1]])
    BY <1>1, RunningContext
  <2> QED
    BY <1>3, <1>5, <2>1 DEF IndInv, OffMeansOnTop
<1>12. SavedFlags'
  BY <1>3, Zenon DEF IndInv, SavedFlags, Outermost
<1>13. FlagGivenBack'
  BY <1>3, Zenon DEF IndInv, FlagGivenBack, Running
<1> QED
  BY <1>7, <1>8, <1>9, <1>10, <1>11, <1>12, <1>13, Zenon DEF IndInv

\* release_spinlock keeps the invariant.
LEMMA ReleaseStep ==
    ASSUME IndInv, NEW c \in Cpu, release_spinlock(c)
    PROVE  IndInv'
<1>1. PICK x \in Ctx : x = Running(c) /\ x[1] = c
  BY RunningContext
<1>2. PICK l \in soft[x] :
        /\ locked' = [locked EXCEPT ![l] = FALSE]
        /\ soft' = [soft EXCEPT ![x] = soft[x] \ {l}]
  BY <1>1, Zenon DEF release_spinlock
<1>3. UNCHANGED <<iflag, irq, pc, want, istate, hard, enabled>>
  BY <1>1, Zenon DEF release_spinlock
<1>4. l \in Lock /\ l \in Held(x) /\ l \notin hard[x]
  BY Zenon DEF IndInv, TypeOK, Held, FlagMeansHeld
<1>5. \A y \in Ctx :
        /\ y = x => Held(y)' = Held(y) \ {l} /\ soft'[y] = soft[y] \ {l}
        /\ y # x => Held(y)' = Held(y) /\ soft'[y] = soft[y]
  BY <1>2, <1>3, <1>4 DEF Held, IndInv, TypeOK
<1>6. TypeOK'
  BY <1>2, <1>3, Zenon DEF IndInv, TypeOK
<1>7. MutualExclusion' /\ FlagMeansHeld'
  <2>1. /\ MutualExclusion'
        /\ \A k \in Lock : locked'[k] <=> \E y \in Ctx : k \in Held(y)'
    BY <1>2, <1>4, <1>5, ReleasedByAll, Zenon
  <2>2. \A y \in Ctx : hard'[y] \cap soft'[y] = {}
    BY <1>3, <1>5, Zenon DEF IndInv, FlagMeansHeld
  <2> QED
    BY <2>1, <2>2, Zenon DEF FlagMeansHeld
<1>8. WantsNext'
  BY <1>3, <1>5, Zenon DEF IndInv, WantsNext
<1>9. OffMeansOnTop'
  BY <1>3, <1>5 DEF IndInv, OffMeansOnTop
<1>10. SavedFlags'
  BY <1>3, Zenon DEF IndInv, SavedFlags, Outermost
<1>11. FlagGivenBack'
  BY <1>3, Zenon DEF IndInv, FlagGivenBack, Running
<1> QED
  BY <1>6, <1>7, <1>8, <1>9, <1>10, <1>11, Zenon DEF IndInv

\* Enabling or disabling interrupts outside locks keeps it.
LEMMA SetInterruptsStep ==
    ASSUME IndInv, NEW c \in Cpu, SetInterrupts(c)
    PROVE  IndInv'
<1>0. <<c, "main">> \in Ctx
  BY Zenon DEF Ctx
<1>1. PICK x \in Ctx : x = <<c, "main">> /\ x[1] = c /\ x[2] = "main"
  BY <1>0, Zenon
<1>2. /\ ~irq[c] /\ pc[x] = "run" /\ Held(x) = {} /\ hard[x] = {}
      /\ iflag' = [iflag EXCEPT ![c] = ~iflag[c]]
      /\ enabled' = [enabled EXCEPT ![c] = ~iflag[c]]
      /\ UNCHANGED <<irq, locked, pc, want, istate, hard, soft>>
  BY <1>1, Zenon DEF SetInterrupts, Held
<1>3. \A y \in Ctx : Held(y)' = Held(y)
  BY <1>2, Zenon DEF Held
<1>4. \A d \in Cpu : /\ d = c => iflag'[d] = ~iflag[c] /\ enabled'[d] = ~iflag[c]
                     /\ d # c => iflag'[d] = iflag[d] /\ enabled'[d] = enabled[d]
  BY <1>2, Zenon DEF IndInv, TypeOK
<1>5. \A y \in Ctx : y[1] = c =>
        pc[y] = "run" /\ hard[y] = {} /\ (y # x => y[2] = "irq" /\ Held(y) = {})
  <2> SUFFICES ASSUME NEW y \in Ctx, y[1] = c, y # x
               PROVE  pc[y] = "run" /\ hard[y] = {} /\ y[2] = "irq" /\ Held(y) = {}
    BY <1>2, Zenon
  <2>1. y[2] = "irq"
    BY <1>1 DEF Ctx
  <2> QED
    BY <1>2, <2>1, Zenon DEF IndInv, OffMeansOnTop, Held
<1>6. \A y \in Ctx : y[1] \in Cpu
  BY Zenon DEF Ctx
<1>7. TypeOK'
  BY <1>2, Zenon DEF IndInv, TypeOK
<1>8. MutualExclusion' /\ FlagMeansHeld' /\ WantsNext'
  BY <1>2, <1>3 DEF IndInv, MutualExclusion, FlagMeansHeld, WantsNext
<1>9. OffMeansOnTop'
  <2> SUFFICES ASSUME NEW y \in Ctx
               PROVE  /\ hard[y] # {} \/ pc[y] \in {"try", "restore"} =>
                            ~iflag'[y[1]] /\ (y[2] = "main" => ~irq[y[1]])
                      /\ y[2] = "irq" /\ ~irq[y[1]] => pc[y] = "run" /\ Held(y) = {}
                      /\ y[2] = "main" /\ irq[y[1]] => enabled'[y[1]]
    BY <1>2, <1>3, Zenon DEF OffMeansOnTop
  <2>1. CASE y[1] = c
    BY <1>2, <1>5, <2>1, Zenon DEF IndInv, OffMeansOnTop
  <2>2. CASE y[1] # c
    BY <1>4, <1>6, <2>2, Zenon DEF IndInv, OffMeansOnTop
  <2> QED
    BY <2>1, <2>2, Zenon
<1>10. SavedFlags'
  <2> SUFFICES ASSUME NEW y \in Ctx
               PROVE  /\ pc[y] \in {"try", "restore"} =>
                            (istate[y][want[y]] <=> Outermost(y)')
                      /\ \A k \in hard[y] :
                            istate[y][k] <=> /\ y[2] = "main"
                                             /\ enabled'[y[1]]
                                             /\ \A m \in hard[y] : k <= m
    BY <1>2, Zenon DEF SavedFlags
  <2>1. CASE y[1] = c
    BY <1>5, <2>1, Zenon
  <2>2. CASE y[1] # c
    <3>1. enabled'[y[1]] = enabled[y[1]]
      BY <1>4, <1>6, <2>2, Zenon
    <3>2. Outermost(y)' <=> Outermost(y)
      BY <1>2, <3>1, Zenon DEF Outermost
    <3> QED
      BY <3>1, <3>2, Zenon DEF IndInv, SavedFlags
  <2> QED
    BY <2>1, <2>2, Zenon
<1>11. FlagGivenBack'
  <2> SUFFICES ASSUME NEW d \in Cpu,
                      LET y == Running(d) IN
                      pc[y] = "spin" \/ (pc[y] = "run" /\ hard[y] = {})
               PROVE  iflag'[d] <=> ~irq[d] /\ hard[Running(d)] = {} /\ enabled'[d]
    BY <1>2, Zenon DEF FlagGivenBack, Running
  <2>1. CASE d = c
    <3>1. Running(d) = x
      BY <1>1, <1>2, <2>1, Zenon DEF Running
    <3> QED
      BY <1>2, <1>4, <2>1, <3>1, Zenon
  <2>2. CASE d # c
    BY <1>4, <2>2, Zenon DEF IndInv, FlagGivenBack
  <2> QED
    BY <2>1, <2>2, Zenon
<1> QED
  BY <1>7, <1>8, <1>9, <1>10, <1>11, Zenon DEF IndInv

\* An interrupt, which arrives only with the flag set, keeps it.
LEMMA InterruptStep ==
    ASSUME IndInv, NEW c \in Cpu, Interrupt(c)
    PROVE  IndInv'
<1>1. /\ iflag[c] /\ ~irq[c]
      /\ irq' = [irq EXCEPT ![c] = TRUE]
      /\ iflag' = [iflag EXCEPT ![c] = FALSE]
      /\ UNCHANGED <<locked, pc, want, istate, hard, soft, enabled>>
  BY Zenon DEF Interrupt
<1>2. \A y \in Ctx : Held(y)' = Held(y)
  BY <1>1, Zenon DEF Held
<1>3. \A d \in Cpu : /\ d = c => irq'[d] /\ ~iflag'[d]
                     /\ d # c => irq'[d] = irq[d] /\ iflag'[d] = iflag[d]
  BY <1>1, Zenon DEF IndInv, TypeOK
<1>4. \A y \in Ctx : y[1] = c =>
        hard[y] = {} /\ pc[y] \in {"run", "spin"} /\ (y[2] = "irq" => pc[y] = "run")
  BY <1>1 DEF IndInv, OffMeansOnTop, TypeOK
<1>5. /\ Running(c) = <<c, "main">> /\ Running(c) \in Ctx
      /\ <<c, "irq">> \in Ctx
  BY <1>1, Zenon DEF Running, Ctx
<1>6. enabled[c]
  <2>1. pc[Running(c)] \in {"run", "spin"} /\ hard[Running(c)] = {}
    BY <1>4, <1>5
  <2> QED
    BY <1>1, <2>1, Zenon DEF IndInv, FlagGivenBack
<1>7. \A y \in Ctx : y[1] \in Cpu /\ y[2] \in {"main", "irq"}
  BY Zenon DEF Ctx
<1>8. TypeOK'
  BY <1>1, Zenon DEF IndInv, TypeOK
<1>9. MutualExclusion' /\ FlagMeansHeld' /\ WantsNext'
  BY <1>1, <1>2 DEF IndInv, MutualExclusion, FlagMeansHeld, WantsNext
<1>10. OffMeansOnTop'
  <2> SUFFICES ASSUME NEW y \in Ctx
               PROVE  /\ hard[y] # {} \/ pc[y] \in {"try", "restore"} =>
                            ~iflag'[y[1]] /\ (y[2] = "main" => ~irq'[y[1]])
                      /\ y[2] = "irq" /\ ~irq'[y[1]] => pc[y] = "run" /\ Held(y) = {}
                      /\ y[2] = "main" /\ irq'[y[1]] => enabled[y[1]]
    BY <1>1, <1>2, Zenon DEF OffMeansOnTop
  <2>1. CASE y[1] = c
    BY <1>3, <1>4, <1>6, <2>1, Zenon
  <2>2. CASE y[1] # c
    BY <1>3, <1>7, <2>2, Zenon DEF IndInv, OffMeansOnTop
  <2> QED
    BY <2>1, <2>2, Zenon
<1>11. SavedFlags'
  BY <1>1, Zenon DEF IndInv, SavedFlags, Outermost
<1>12. FlagGivenBack'
  <2> SUFFICES ASSUME NEW d \in Cpu
               PROVE  LET y == Running(d)' IN
                      pc[y] = "spin" \/ (pc[y] = "run" /\ hard[y] = {}) =>
                        (iflag'[d] <=> ~irq'[d] /\ hard[y] = {} /\ enabled[d])
    BY <1>1, Zenon DEF FlagGivenBack, Running
  <2>1. CASE d = c
    BY <1>3, <2>1, Zenon
  <2>2. CASE d # c
    <3>1. Running(d)' = Running(d)
      BY <1>3, <2>2, Zenon DEF Running
    <3> QED
      BY <1>3, <2>2, <3>1, Zenon DEF IndInv, FlagGivenBack
  <2> QED
    BY <2>1, <2>2, Zenon
<1> QED
  BY <1>8, <1>9, <1>10, <1>11, <1>12, Zenon DEF IndInv

\* Returning from a handler keeps the invariant.
LEMMA InterruptReturnStep ==
    ASSUME IndInv, NEW c \in Cpu, InterruptReturn(c)
    PROVE  IndInv'
<1>0. <<c, "irq">> \in Ctx /\ <<c, "main">> \in Ctx
  BY Zenon DEF Ctx
<1>1. PICK x \in Ctx : x = <<c, "irq">> /\ x[1] = c /\ x[2] = "irq"
  BY <1>0, Zenon
<1>2. PICK z \in Ctx : z = <<c, "main">> /\ z[1] = c /\ z[2] = "main"
  BY <1>0, Zenon
<1>3. /\ irq[c] /\ pc[x] = "run" /\ Held(x) = {} /\ hard[x] = {}
      /\ irq' = [irq EXCEPT ![c] = FALSE]
      /\ iflag' = [iflag EXCEPT ![c] = TRUE]
      /\ UNCHANGED <<locked, pc, want, istate, hard, soft, enabled>>
  BY <1>1, Zenon DEF InterruptReturn, Held
<1>4. \A y \in Ctx : Held(y)' = Held(y)
  BY <1>3, Zenon DEF Held
<1>5. \A d \in Cpu : /\ d = c => ~irq'[d] /\ iflag'[d]
                     /\ d # c => irq'[d] = irq[d] /\ iflag'[d] = iflag[d]
  BY <1>3, Zenon DEF IndInv, TypeOK
<1>6. hard[z] = {} /\ pc[z] \in {"run", "spin"} /\ enabled[c]
  BY <1>2, <1>3, Zenon DEF IndInv, OffMeansOnTop, TypeOK
<1>7. \A y \in Ctx : y[1] \in Cpu /\ (y[1] = c => y = x \/ y = z)
  BY <1>1, <1>2 DEF Ctx
<1>8. TypeOK'
  BY <1>3, Zenon DEF IndInv, TypeOK
<1>9. MutualExclusion' /\ FlagMeansHeld' /\ WantsNext'
  BY <1>3, <1>4 DEF IndInv, MutualExclusion, FlagMeansHeld, WantsNext
<1>10. OffMeansOnTop'
  <2> SUFFICES ASSUME NEW y \in Ctx
               PROVE  /\ hard[y] # {} \/ pc[y] \in {"try", "restore"} =>
                            ~iflag'[y[1]] /\ (y[2] = "main" => ~irq'[y[1]])
                      /\ y[2] = "irq" /\ ~irq'[y[1]] => pc[y] = "run" /\ Held(y) = {}
                      /\ y[2] = "main" /\ irq'[y[1]] => enabled[y[1]]
    <3>1. UNCHANGED <<hard, pc, enabled>> /\ \A u \in Ctx : Held(u)' = Held(u)
      BY <1>3, <1>4, Zenon
    <3> QED
      BY <3>1, Zenon DEF OffMeansOnTop
  <2>1. CASE y = x
    <3>1. hard[y] = {} /\ pc[y] = "run" /\ Held(y) = {}
      BY <1>3, <2>1, Zenon
    <3>2. y[2] # "main"
      BY <1>1, <2>1, Zenon
    <3> QED
      BY <3>1, <3>2, Zenon
  <2>2. CASE y = z
    <3>1. hard[y] = {} /\ pc[y] \notin {"try", "restore"}
      BY <1>6, <2>2, Zenon
    <3>2. y[2] = "main" /\ y[1] = c /\ ~irq'[y[1]]
      BY <1>2, <1>5, <2>2, Zenon
    <3> QED
      BY <3>1, <3>2, Zenon
  <2>3. CASE y[1] # c
    <3>1. irq'[y[1]] = irq[y[1]] /\ iflag'[y[1]] = iflag[y[1]]
      BY <1>5, <1>7, <2>3, Zenon
    <3> QED
      BY <3>1, Zenon DEF IndInv, OffMeansOnTop
  <2> QED
    BY <1>7, <2>1, <2>2, <2>3, Zenon
<1>11. SavedFlags'
  BY <1>3 DEF IndInv, SavedFlags, Outermost
<1>12. FlagGivenBack'
  <2> SUFFICES ASSUME NEW d \in Cpu
               PROVE  LET y == Running(d)' IN
                      pc[y] = "spin" \/ (pc[y] = "run" /\ hard[y] = {}) =>
                        (iflag'[d] <=> ~irq'[d] /\ hard[y] = {} /\ enabled[d])
    BY <1>3, Zenon DEF FlagGivenBack, Running
  <2>1. CASE d = c
    <3>1. Running(d)' = z
      BY <1>2, <1>5, <2>1, Zenon DEF Running
    <3> QED
      BY <1>5, <1>6, <2>1, <3>1, Zenon
  <2>2. CASE d # c
    <3>1. Running(d)' = Running(d)
      BY <1>5, <2>2, Zenon DEF Running
    <3> QED
      BY <1>5, <2>2, <3>1, Zenon DEF IndInv, FlagGivenBack
  <2> QED
    BY <2>1, <2>2, Zenon
<1> QED
  BY <1>8, <1>9, <1>10, <1>11, <1>12, Zenon DEF IndInv

\* A step that changes nothing keeps the invariant.
LEMMA StutterStep == IndInv /\ UNCHANGED vars => IndInv'
<1> SUFFICES ASSUME IndInv, UNCHANGED vars PROVE IndInv'
  BY Zenon
<1>1. UNCHANGED <<iflag, irq, locked, pc, want, istate, hard, soft, enabled>>
  BY Zenon DEF vars
<1>2. TypeOK'
  BY <1>1, Zenon DEF IndInv, TypeOK
<1>3. MutualExclusion' /\ FlagMeansHeld' /\ WantsNext'
  BY <1>1, Zenon DEF IndInv, MutualExclusion, FlagMeansHeld, WantsNext, Held
<1>4. OffMeansOnTop'
  BY <1>1, Zenon DEF IndInv, OffMeansOnTop, Held
<1>5. SavedFlags'
  BY <1>1, Zenon DEF IndInv, SavedFlags, Outermost
<1>6. FlagGivenBack'
  BY <1>1, Zenon DEF IndInv, FlagGivenBack, Running
<1> QED
  BY <1>2, <1>3, <1>4, <1>5, <1>6, Zenon DEF IndInv

\* Every step of any CPU keeps the invariant.
LEMMA NextPreserves == IndInv /\ [Next]_vars => IndInv'
<1> SUFFICES ASSUME IndInv, Next PROVE IndInv'
  BY StutterStep, Zenon
<1> QED
  BY Zenon, DisableForHardStep, TakeHardStep, SpinHardStep, ClearHardStep,
     RestoreHardStep, AcquireStep, ReleaseStep, SetInterruptsStep,
     InterruptStep, InterruptReturnStep DEF Next

------------------------------------------------------------------------------
\* The strengthened invariant holds of every reachable state of the spinlocks.
THEOREM Invariance == Spec => []IndInv
<1> QED
  BY InitEstablishes, NextPreserves, PTL DEF Spec

\* Every variable keeps its type.
THEOREM TypeCorrect == Spec => []TypeOK
<1>1. IndInv => TypeOK
  BY Zenon DEF IndInv
<1> QED
  BY Invariance, <1>1, PTL

\* No two contexts, of one CPU or of two, hold the same spinlock.
THEOREM Exclusive == Spec => []MutualExclusion
<1>1. IndInv => MutualExclusion
  BY Zenon DEF IndInv
<1> QED
  BY Invariance, <1>1, PTL

\* A context that holds a lock taken by acquire_spinlock_hard runs with
\* interrupts off and is not itself interrupted.
THEOREM Uninterrupted == Spec => []HardHolderUninterrupted
<1>1. IndInv => HardHolderUninterrupted
  <2> SUFFICES ASSUME IndInv, NEW c \in Cpu
               PROVE  /\ \A v \in {"main", "irq"} : hard[<<c, v>>] # {} => ~iflag[c]
                      /\ hard[<<c, "main">>] # {} => ~irq[c]
    BY Zenon DEF HardHolderUninterrupted
  <2>1. \A v \in {"main", "irq"} : <<c, v>> \in Ctx
    BY Zenon DEF Ctx
  <2> QED
    BY <2>1, Zenon DEF IndInv, OffMeansOnTop
<1> QED
  BY Invariance, <1>1, PTL

\* Matching acquire_spinlock_hard and release_spinlock_hard calls leave the
\* interrupt flag as the main context had set it.
THEOREM FlagRestored == Spec => []FlagGivenBack
<1>1. IndInv => FlagGivenBack
  BY Zenon DEF IndInv
<1> QED
  BY Invariance, <1>1, PTL

------------------------------------------------------------------------------
(* The console's buffer, for any size of it, limit and length of messages. *)

CONSTANTS NoCpu, buffer_size, max_chars, MaxLength, M

VARIABLES lock, console_pc, left, buffer, read_idx, write_idx, next, drawn, visible

Kio == INSTANCE Console WITH CPU <- Cpu, pc <- console_pc

\* A message fits beside what a print may leave in the buffer.
MessageFits ==
    /\ NoCpu \notin Cpu
    /\ {buffer_size, max_chars, MaxLength, M} \subseteq Nat /\ max_chars > 0
    /\ MaxLength + max_chars <= buffer_size /\ buffer_size < M

Index == 0 .. buffer_size - 1
Number == 0 .. M - 1
Char == [n : Number, from : Cpu \cup {NoCpu}, rest : Nat]

\* x % m, for x below 2 * m.
Wrap(x, m) == IF x < m THEN x ELSE x - m

\* The k-th character of buffer b from index r on.
Nth(b, r, k) == b[Wrap(r + k, buffer_size)]

\* Buffer b holds n characters from index r on, those with the numbers from d on;
\* the next one goes to index w and has number x.
Ring(b, r, w, x, d, n) ==
    /\ b \in [Index -> Char] /\ r \in Index /\ d \in Number /\ n \in Index
    /\ w = Wrap(r + n, buffer_size) /\ x = Wrap(d + n, M)
    /\ \A k \in 0 .. n - 1 : Nth(b, r, k).n = Wrap(d + k, M)

\* Each character is followed by the rest of its message.
Unmixed(b, r, n) ==
    \A k \in 0 .. n - 2 :
        Nth(b, r, k).rest > 0 =>
            /\ Nth(b, r, k + 1).from = Nth(b, r, k).from
            /\ Nth(b, r, k + 1).rest = Nth(b, r, k).rest - 1

\* The last character ends its message, unless CPU c prints the others, lf of them.
Ended(b, r, n, c, lf) ==
    n > 0 => \/ Nth(b, r, n - 1).rest = 0
             \/ Nth(b, r, n - 1).rest = lf /\ Nth(b, r, n - 1).from = c

\* What the holder c of the lock has still to do, with n characters in the buffer.
Doing(c, p, lf, d, v, n) ==
    /\ lf \in 0 .. MaxLength /\ v \in Number
    /\ \/ c = NoCpu /\ p = "idle" /\ n < max_chars
       \/ c \in Cpu /\ p = "print" /\ n + lf < max_chars + MaxLength
       \/ c \in Cpu /\ p \in {"flush", "draw"}
       \/ c \in Cpu /\ p = "done" /\ n < max_chars
    /\ p # "draw" => v = d

ConsoleOK(n) ==
    /\ Ring(buffer, read_idx, write_idx, next, drawn, n) /\ Unmixed(buffer, read_idx, n)
    /\ Ended(buffer, read_idx, n, lock, IF console_pc = "print" THEN left ELSE 0)
    /\ Doing(lock, console_pc, left, drawn, visible, n)

ConsoleInv == \E n \in Index : ConsoleOK(n)

\* Wrap is the remainder.
LEMMA WrapIs ==
  ASSUME NEW m \in Nat \ {0}, NEW x \in 0 .. 2 * m - 1
  PROVE  x % m = Wrap(x, m)
BY DEF Wrap

\* How many positions lie between an index and one behind it.
LEMMA WrapBack ==
  ASSUME NEW m \in Nat \ {0}, NEW a \in 0 .. m - 1, NEW k \in 0 .. m - 1
  PROVE  (Wrap(a + k, m) - a) % m = k
BY DEF Wrap

\* The index and the number behind the k-th one.
LEMMA WrapNext ==
  ASSUME NEW m \in Nat \ {0}, NEW a \in 0 .. m - 1, NEW k \in 0 .. m - 1
  PROVE  /\ Wrap(a + k, m) \in 0 .. m - 1
         /\ Wrap(Wrap(a + k, m) + 1, m) = Wrap(a + (k + 1), m)
         /\ Wrap(Wrap(a + 1, m) + k, m) = Wrap(a + (k + 1), m)
         /\ (Wrap(a + k, m) + 1) % m = Wrap(a + (k + 1), m)
         /\ Wrap(a + 0, m) = a
BY DEF Wrap

\* Different positions have different indices.
LEMMA WrapApart ==
  ASSUME NEW m \in Nat \ {0}, NEW a \in 0 .. m - 1, NEW j \in 0 .. m - 1, NEW k \in 0 .. m - 1,
         j # k
  PROVE  Wrap(a + j, m) # Wrap(a + k, m)
BY DEF Wrap

\* The sizes.
LEMMA Sizes ==
  ASSUME MessageFits
  PROVE  /\ buffer_size \in Nat \ {0} /\ M \in Nat \ {0} /\ max_chars \in Nat \ {0}
         /\ MaxLength \in Nat /\ MaxLength + max_chars <= buffer_size /\ buffer_size < M
         /\ Index \subseteq Number
<1>1. /\ buffer_size \in Nat /\ M \in Nat /\ max_chars \in Nat /\ MaxLength \in Nat
  BY Zenon DEF MessageFits
<1> QED BY <1>1 DEF MessageFits, Index, Number

\* e has the n characters of b, and ch behind them; the characters of b from s on
\* are those from r on without the first.
Appended(e, b, r, n, ch) ==
    (\A k \in 0 .. n - 1 : Nth(e, r, k) = Nth(b, r, k)) /\ Nth(e, r, n) = ch
Shifted(b, s, r, n) == \A k \in 0 .. n - 2 : Nth(b, s, k) = Nth(b, r, k + 1)

\* write_circular_buffer: a character behind the last one.
LEMMA RingPut ==
  ASSUME MessageFits, NEW b, NEW r, NEW w, NEW x, NEW d, NEW n, Ring(b, r, w, x, d, n),
         NEW m \in Index, m = n + 1, NEW ch \in Char, ch.n = x,
         NEW e, e = [b EXCEPT ![w] = ch]
  PROVE  /\ Ring(e, r, (w + 1) % buffer_size, (x + 1) % M, d, m)
         /\ Appended(e, b, r, n, ch)
<1>1. /\ buffer_size \in Nat \ {0} /\ M \in Nat \ {0} /\ Index \subseteq Number
  BY Sizes, Zenon
<1>2. /\ b \in [Index -> Char] /\ r \in Index /\ d \in Number /\ n \in Index
      /\ w = Wrap(r + n, buffer_size) /\ x = Wrap(d + n, M)
      /\ \A k \in 0 .. n - 1 : Nth(b, r, k).n = Wrap(d + k, M)
  BY Zenon DEF Ring
<1>3. n \in 0 .. M - 1 /\ n \in 0 .. m - 1
  BY <1>1, <1>2 DEF Index, Number
<1>4. w \in Index /\ (w + 1) % buffer_size = Wrap(r + m, buffer_size)
  BY <1>1, <1>2, WrapNext, Zenon DEF Index
<1>5. (x + 1) % M = Wrap(d + m, M)
  <2>1. /\ M \in Nat \ {0} /\ d \in 0 .. M - 1 /\ n \in 0 .. M - 1 /\ x = Wrap(d + n, M)
        /\ m = n + 1
    BY <1>1, <1>2, <1>3, Zenon DEF Number
  <2> QED BY ONLY <2>1, WrapNext, Zenon
<1>6. e \in [Index -> Char] /\ e[w] = ch
  BY <1>2, <1>4, Zenon
<1>7. ASSUME NEW k \in 0 .. n - 1
      PROVE  Nth(e, r, k) = Nth(b, r, k)
  <2>1. k \in 0 .. buffer_size - 1 /\ k # n
    BY <1>1, <1>2 DEF Index
  <2>2. Wrap(r + k, buffer_size) # w
    BY <1>1, <1>2, <2>1, WrapApart, Zenon DEF Index
  <2>3. Wrap(r + k, buffer_size) \in Index
    BY <1>1, <1>2, <2>1, WrapNext, Zenon DEF Index
  <2> QED BY <1>2, <2>2, <2>3, Zenon DEF Nth
<1>8. Nth(e, r, n) = ch
  BY <1>2, <1>6, Zenon DEF Nth
<1>9. ASSUME NEW k \in 0 .. m - 1
      PROVE  Nth(e, r, k).n = Wrap(d + k, M)
  <2>1. CASE k = n
    BY <1>2, <1>8, <2>1, Zenon
  <2>2. CASE k # n
    <3>1. k \in 0 .. n - 1
      BY <1>2, <2>2 DEF Index
    <3> QED BY <1>2, <1>7, <3>1, Zenon
  <2> QED BY <2>1, <2>2, Zenon
<1>10. Ring(e, r, (w + 1) % buffer_size, (x + 1) % M, d, m)
  BY ONLY <1>2, <1>3, <1>4, <1>5, <1>6, <1>9 DEF Ring
<1> QED BY <1>7, <1>8, <1>10, Zenon DEF Appended

\* read_circular_buffer: the first character is gone.
LEMMA RingGet ==
  ASSUME MessageFits, NEW b, NEW r, NEW w, NEW x, NEW d, NEW n, Ring(b, r, w, x, d, n), n > 0,
         NEW m \in Index, m = n - 1
  PROVE  /\ Ring(b, (r + 1) % buffer_size, w, x, (b[r].n + 1) % M, m)
         /\ Shifted(b, (r + 1) % buffer_size, r, n)
<1> DEFINE s == (r + 1) % buffer_size
           f == (b[r].n + 1) % M
<1>1. /\ buffer_size \in Nat \ {0} /\ M \in Nat \ {0} /\ Index \subseteq Number
  BY Sizes, Zenon
<1>2. /\ b \in [Index -> Char] /\ r \in Index /\ d \in Number /\ n \in Index
      /\ w = Wrap(r + n, buffer_size) /\ x = Wrap(d + n, M)
      /\ \A k \in 0 .. n - 1 : Nth(b, r, k).n = Wrap(d + k, M)
  BY Zenon DEF Ring
<1>3. /\ m \in 0 .. M - 1 /\ 0 \in 0 .. n - 1 /\ m + 1 = n
      /\ 0 \in 0 .. M - 1 /\ 0 \in Index /\ 0 + 1 = 1
  <2>1. n \in Nat /\ n < buffer_size /\ buffer_size <= M
    BY <1>1, <1>2, Sizes DEF Index
  <2> QED BY ONLY <1>1, <2>1, n > 0, m = n - 1 DEF Index
<1>4. Wrap(r + 0, buffer_size) = r /\ Wrap(d + 0, M) = d
  BY <1>1, <1>2, <1>3, WrapNext, Zenon DEF Index, Number
<1>5. b[r].n = d
  BY <1>2, <1>3, <1>4, Zenon DEF Nth
<1>6. s = Wrap(r + 1, buffer_size) /\ f = Wrap(d + 1, M)
  <2>1. /\ M \in Nat \ {0} /\ d \in 0 .. M - 1
        /\ buffer_size \in Nat \ {0} /\ r \in 0 .. buffer_size - 1
    BY <1>1, <1>2, Zenon DEF Index, Number
  <2>2. /\ (r + 1) % buffer_size = Wrap(r + 1, buffer_size) /\ (d + 1) % M = Wrap(d + 1, M)
    BY ONLY <2>1, WrapIs
  <2> QED BY <1>5, <2>2, Zenon
<1>7. s \in Index /\ f \in Number
  BY <1>1, <1>2, <1>6 DEF Index, Number, Wrap
<1> HIDE DEF s, f
<1>8. \A k \in Index : Wrap(s + k, buffer_size) = Wrap(r + (k + 1), buffer_size)
  BY <1>1, <1>2, <1>6, WrapNext, Zenon DEF Index
<1>9. \A k \in Number : Wrap(f + k, M) = Wrap(d + (k + 1), M)
  BY <1>1, <1>2, <1>6, WrapNext, Zenon DEF Number
<1>10. \A k \in 0 .. n - 2 : k \in Index /\ k \in Number /\ k + 1 \in 0 .. n - 1
  <2>1. n \in 0 .. buffer_size - 1 /\ buffer_size \in Nat /\ M \in Nat /\ buffer_size < M
    BY <1>2, Sizes, Zenon DEF Index
  <2> QED BY ONLY <2>1 DEF Index, Number
<1>11. \A k \in 0 .. n - 2 : Nth(b, s, k) = Nth(b, r, k + 1)
  BY <1>8, <1>10, Zenon DEF Nth
<1>12. w = Wrap(s + m, buffer_size) /\ x = Wrap(f + m, M)
  BY <1>1, <1>2, <1>3, <1>8, <1>9, Zenon DEF Number
<1>13. 0 .. m - 1 = 0 .. n - 2
  BY <1>2 DEF Index
<1>14. \A k \in 0 .. n - 2 : Nth(b, s, k).n = Wrap(f + k, M)
  BY <1>2, <1>9, <1>10, <1>11, Zenon
<1>15. Ring(b, s, w, x, f, m)
  BY <1>2, <1>3, <1>7, <1>12, <1>13, <1>14, Zenon DEF Ring
<1> QED BY <1>11, <1>15, Zenon DEF s, f, Shifted

\* is_circular_buffer_empty and circular_buffer_written_bytes count the characters.
Counted(r, w, n) ==
    /\ r = w <=> n = 0
    /\ r # w => n = IF w > r THEN w - r ELSE buffer_size - r + w

\* They do so for every ring that is not full.
LEMMA RingCount ==
  ASSUME MessageFits, NEW b, NEW r, NEW w, NEW x, NEW d, NEW n, Ring(b, r, w, x, d, n)
  PROVE  Counted(r, w, n)
<1>1. /\ buffer_size \in Nat \ {0} /\ r \in Index /\ n \in Index /\ w = Wrap(r + n, buffer_size)
  BY Sizes, Zenon DEF Ring
<1> QED BY <1>1 DEF Index, Wrap, Counted

\* Only the holder of the lock acts, and a CPU that is about to take it is none.
LEMMA Holder ==
  ASSUME MessageFits, NEW n, ConsoleOK(n), NEW c \in Cpu
  PROVE  /\ Kio!LockFree => console_pc = "idle" /\ n < max_chars /\ visible = drawn
         /\ lock = c => lock # NoCpu
         /\ console_pc # "print" => (n > 0 => Nth(buffer, read_idx, n - 1).rest = 0)
         /\ left \in 0 .. MaxLength /\ visible \in Number /\ n \in Index /\ drawn \in Number
<1>1. c # NoCpu /\ NoCpu \notin Cpu
  BY Zenon DEF MessageFits
<1>2. n \in Index /\ drawn \in Number
  BY Zenon DEF ConsoleOK, Ring
<1>3. console_pc # "print" => (n > 0 => Nth(buffer, read_idx, n - 1).rest = 0)
  BY Zenon DEF ConsoleOK, Ended
<1>4. left \in 0 .. MaxLength /\ visible \in Number
  BY Zenon DEF ConsoleOK, Doing
<1>5. Kio!LockFree => console_pc = "idle" /\ n < max_chars /\ visible = drawn
  BY <1>1, Zenon DEF ConsoleOK, Doing, Kio!LockFree
<1> QED BY <1>1, <1>2, <1>3, <1>4, <1>5, Zenon

\* A step that leaves the buffer alone and finds the last message in it complete.
LEMMA SameBuffer ==
  ASSUME NEW n, ConsoleOK(n), UNCHANGED <<buffer, read_idx, write_idx, next, drawn>>,
         n > 0 => Nth(buffer, read_idx, n - 1).rest = 0,
         Doing(lock', console_pc', left', drawn, visible', n)
  PROVE  ConsoleInv'
<1>1. n \in Index
  BY Zenon DEF ConsoleOK, Ring
<1>2. Ring(buffer', read_idx', write_idx', next', drawn', n) /\ Unmixed(buffer', read_idx', n)
  BY Zenon DEF ConsoleOK
<1>3. Ended(buffer', read_idx', n, lock', IF console_pc' = "print" THEN left' ELSE 0)
  BY Zenon DEF Ended
<1>4. Doing(lock', console_pc', left', drawn', visible', n)
  BY Zenon
<1>5. ConsoleOK(n)'
  BY <1>2, <1>3, <1>4, Zenon DEF ConsoleOK
<1> QED BY <1>1, <1>5, Zenon DEF ConsoleInv

\* A print begins with room for its whole message.
LEMMA BeginPrintKeeps ==
  ASSUME MessageFits, ConsoleInv, NEW c \in Cpu, NEW length \in 0 .. MaxLength,
         Kio!BeginPrint(c, length)
  PROVE  ConsoleInv'
<1>1. PICK n \in Index : ConsoleOK(n)
  BY Zenon DEF ConsoleInv
<1>2. /\ Kio!LockFree /\ lock' = c /\ console_pc' = "print" /\ left' = length /\ visible' = visible
      /\ UNCHANGED <<buffer, read_idx, write_idx, next, drawn>>
  BY Zenon DEF Kio!BeginPrint
<1>3. /\ console_pc = "idle" /\ n < max_chars /\ visible = drawn /\ visible \in Number
      /\ n > 0 => Nth(buffer, read_idx, n - 1).rest = 0
  BY <1>1, <1>2, Holder, Zenon
<1>4. n + length < max_chars + MaxLength
  BY <1>3, Sizes DEF Index
<1>5. Doing(lock', console_pc', left', drawn, visible', n)
  BY <1>2, <1>3, <1>4, Zenon DEF Doing
<1> QED BY <1>1, <1>2, <1>3, <1>5, SameBuffer, Zenon

\* unsync_putchar continues the message of the CPU that holds the lock.
LEMMA PutcharKeeps ==
  ASSUME MessageFits, ConsoleInv, NEW c \in Cpu, Kio!unsync_putchar(c)
  PROVE  ConsoleInv'
<1>1. PICK n \in Index : ConsoleOK(n)
  BY Zenon DEF ConsoleInv
<1>0. PICK m : m = n + 1
  BY Zenon
<1> DEFINE ch == [n |-> next, from |-> c, rest |-> left - 1]
<1>2. /\ lock = c /\ console_pc = "print" /\ left > 0
      /\ buffer' = [buffer EXCEPT ![write_idx] = ch]
      /\ write_idx' = (write_idx + 1) % buffer_size
      /\ next' = (next + 1) % M /\ left' = left - 1
      /\ lock' = lock /\ console_pc' = console_pc /\ read_idx' = read_idx /\ drawn' = drawn
      /\ visible' = visible
  BY Zenon DEF Kio!unsync_putchar, Kio!Advance
<1>3. /\ Ring(buffer, read_idx, write_idx, next, drawn, n) /\ Unmixed(buffer, read_idx, n)
      /\ Ended(buffer, read_idx, n, c, left) /\ Doing(c, "print", left, drawn, visible, n)
  BY <1>1, <1>2, Zenon DEF ConsoleOK
<1>4. /\ left \in 0 .. MaxLength /\ n + left < max_chars + MaxLength /\ visible \in Number
      /\ visible = drawn
  <2>1. c # NoCpu
    BY Zenon DEF MessageFits
  <2> QED BY <1>3, <2>1, Zenon DEF Doing
<1>5. /\ left - 1 \in Nat /\ left - 1 \in 0 .. MaxLength /\ m \in Index
      /\ m + (left - 1) < max_chars + MaxLength /\ m - 1 = n /\ m - 2 = n - 1
  BY <1>0, <1>2, <1>4, Sizes DEF Index
<1>6. next \in Number
  <2>1. n \in 0 .. M - 1 /\ drawn \in 0 .. M - 1 /\ M \in Nat \ {0} /\ next = Wrap(drawn + n, M)
    BY <1>3, Sizes, Zenon DEF Ring, Number
  <2> QED BY ONLY <2>1, WrapNext, Zenon DEF Number
<1>7. ch \in Char /\ ch.n = next /\ ch.rest = left - 1 /\ ch.from = c
  BY <1>5, <1>6, Zenon DEF Char
<1> HIDE DEF ch
<1>8. /\ Ring(buffer', read_idx', write_idx', next', drawn', m)
      /\ \A k \in 0 .. n - 1 : Nth(buffer', read_idx', k) = Nth(buffer, read_idx, k)
      /\ Nth(buffer', read_idx', n) = ch
  <2>1. /\ Ring(buffer, read_idx, write_idx, next, drawn, n) /\ m \in Index /\ m = n + 1
        /\ ch \in Char /\ ch.n = next /\ buffer' = [buffer EXCEPT ![write_idx] = ch]
    BY <1>0, <1>2, <1>3, <1>5, <1>7, Zenon
  <2>2. /\ Ring(buffer', read_idx, (write_idx + 1) % buffer_size, (next + 1) % M, drawn, m)
        /\ Appended(buffer', buffer, read_idx, n, ch)
    BY ONLY MessageFits, <2>1, RingPut, Zenon
  <2> QED BY <1>2, <2>2, Zenon DEF Appended
<1>9. Unmixed(buffer', read_idx', m)
  <2> SUFFICES ASSUME NEW k \in 0 .. m - 2, Nth(buffer', read_idx', k).rest > 0
               PROVE  /\ Nth(buffer', read_idx', k + 1).from = Nth(buffer', read_idx', k).from
                      /\ Nth(buffer', read_idx', k + 1).rest = Nth(buffer', read_idx', k).rest - 1
    BY Zenon DEF Unmixed
  <2>1. k \in 0 .. n - 1 /\ n > 0
    BY <1>5 DEF Index
  <2>2. Nth(buffer', read_idx', k) = Nth(buffer, read_idx, k)
    BY <1>8, <2>1, Zenon
  <2>3. CASE k = n - 1
    <3>1. k + 1 = n
      BY <2>3 DEF Index
    <3>2. Nth(buffer, read_idx, k).rest # 0
      BY <2>2
    <3>3. Nth(buffer, read_idx, k).rest = left /\ Nth(buffer, read_idx, k).from = c
      BY <1>3, <2>1, <2>3, <3>2, Zenon DEF Ended
    <3> QED BY <1>7, <1>8, <2>2, <3>1, <3>3, Zenon
  <2>4. CASE k # n - 1
    <3>1. k \in 0 .. n - 2 /\ k + 1 \in 0 .. n - 1
      BY <2>1, <2>4 DEF Index
    <3> QED BY <1>3, <1>8, <2>2, <3>1, Zenon DEF Unmixed
  <2> QED BY <2>3, <2>4, Zenon
<1>10. Ended(buffer', read_idx', m, lock', left')
  <2>1. Nth(buffer', read_idx', m - 1) = ch /\ ch.rest = left' /\ ch.from = lock'
    BY <1>2, <1>5, <1>7, <1>8, Zenon
  <2> QED BY ONLY <2>1, Zenon DEF Ended
<1>11. Doing(lock', console_pc', left', drawn', visible', m)
  BY <1>2, <1>4, <1>5, Zenon DEF Doing
<1>12. ConsoleOK(m)'
  BY <1>2, <1>8, <1>9, <1>10, <1>11, Zenon DEF ConsoleOK
<1> QED BY <1>5, <1>12, Zenon DEF ConsoleInv

\* unsync_opt_flush leaves less than max_chars characters, or goes on to flush them.
LEMMA OptFlushKeeps ==
  ASSUME MessageFits, ConsoleInv, NEW c \in Cpu, Kio!unsync_opt_flush(c)
  PROVE  ConsoleInv'
<1>1. PICK n \in Index : ConsoleOK(n)
  BY Zenon DEF ConsoleInv
<1>2. /\ lock = c /\ console_pc = "print" /\ left = 0 /\ lock' = lock /\ left' = left
      /\ console_pc' = IF Kio!NeedsFlush THEN "flush" ELSE "done"
      /\ visible' = visible /\ UNCHANGED <<buffer, read_idx, write_idx, next, drawn>>
  BY Zenon DEF Kio!unsync_opt_flush
<1>3. /\ Ring(buffer, read_idx, write_idx, next, drawn, n) /\ Ended(buffer, read_idx, n, c, 0)
      /\ Doing(c, "print", left, drawn, visible, n)
  BY <1>1, <1>2, Zenon DEF ConsoleOK
<1>4. left \in 0 .. MaxLength /\ visible \in Number /\ visible = drawn
  BY <1>3, Zenon DEF Doing
<1>5. n > 0 => Nth(buffer, read_idx, n - 1).rest = 0
  BY <1>3, Zenon DEF Ended
<1>6. ~Kio!NeedsFlush => n < max_chars
  <2>1. /\ read_idx = write_idx <=> n = 0
        /\ read_idx # write_idx => n = Kio!circular_buffer_written_bytes
    <3>1. Counted(read_idx, write_idx, n)
      BY <1>3, RingCount, Zenon
    <3> QED BY <3>1, Zenon DEF Counted, Kio!circular_buffer_written_bytes
  <2>2. Kio!NeedsFlush <=> Kio!circular_buffer_written_bytes >= max_chars
    BY Zenon DEF Kio!NeedsFlush
  <2> QED BY <2>1, <2>2, Sizes DEF Index
<1>7. Doing(lock', console_pc', left', drawn, visible', n)
  BY <1>2, <1>4, <1>6, Zenon DEF Doing
<1> QED BY <1>1, <1>2, <1>5, <1>7, SameBuffer, Zenon

\* kio_flush takes the lock between two messages.
LEMMA BeginFlushKeeps ==
  ASSUME MessageFits, ConsoleInv, NEW c \in Cpu, Kio!BeginFlush(c)
  PROVE  ConsoleInv'
<1>1. PICK n \in Index : ConsoleOK(n)
  BY Zenon DEF ConsoleInv
<1>2. /\ Kio!LockFree /\ lock' = c /\ console_pc' = "flush" /\ left' = 0 /\ visible' = visible
      /\ UNCHANGED <<buffer, read_idx, write_idx, next, drawn>>
  BY Zenon DEF Kio!BeginFlush
<1>3. /\ console_pc = "idle" /\ visible = drawn /\ visible \in Number
      /\ n > 0 => Nth(buffer, read_idx, n - 1).rest = 0
  BY <1>1, <1>2, Holder, Zenon
<1>4. 0 \in 0 .. MaxLength
  BY Sizes
<1>5. Doing(lock', console_pc', left', drawn, visible', n)
  BY <1>2, <1>3, <1>4, Zenon DEF Doing
<1> QED BY <1>1, <1>2, <1>3, <1>5, SameBuffer, Zenon

\* unsync_flush returns at once when there is nothing to draw.
LEMMA FlushEmptyKeeps ==
  ASSUME MessageFits, ConsoleInv, NEW c \in Cpu, Kio!FlushEmpty(c)
  PROVE  ConsoleInv'
<1>1. PICK n \in Index : ConsoleOK(n)
  BY Zenon DEF ConsoleInv
<1>2. /\ lock = c /\ console_pc = "flush" /\ read_idx = write_idx /\ console_pc' = "done"
      /\ lock' = lock /\ left' = left /\ visible' = visible
      /\ UNCHANGED <<buffer, read_idx, write_idx, next, drawn>>
  BY Zenon DEF Kio!FlushEmpty, Kio!is_circular_buffer_empty
<1>3. /\ left \in 0 .. MaxLength /\ visible \in Number
      /\ n > 0 => Nth(buffer, read_idx, n - 1).rest = 0
  BY <1>1, <1>2, Holder, Zenon
<1>4. visible = drawn
  BY <1>1, <1>2, Zenon DEF ConsoleOK, Doing
<1>5. n = 0
  <2>1. Counted(read_idx, write_idx, n)
    BY <1>1, RingCount, Zenon DEF ConsoleOK
  <2> QED BY <1>2, <2>1, Zenon DEF Counted
<1>6. n < max_chars
  BY <1>5, Sizes
<1>7. Doing(lock', console_pc', left', drawn, visible', n)
  BY <1>2, <1>3, <1>4, <1>6, Zenon DEF Doing
<1> QED BY <1>1, <1>2, <1>3, <1>7, SameBuffer, Zenon

\* unsync_flush draws the oldest character.
LEMMA FlushCharKeeps ==
  ASSUME MessageFits, ConsoleInv, NEW c \in Cpu, Kio!FlushChar(c)
  PROVE  ConsoleInv'
<1>1. PICK n \in Index : ConsoleOK(n)
  BY Zenon DEF ConsoleInv
<1>2. /\ lock = c /\ console_pc \in {"flush", "draw"} /\ read_idx # write_idx
      /\ drawn' = (buffer[read_idx].n + 1) % M /\ read_idx' = (read_idx + 1) % buffer_size
      /\ console_pc' = "draw" /\ lock' = lock /\ left' = left /\ buffer' = buffer
      /\ write_idx' = write_idx /\ next' = next /\ visible' = visible
  BY Zenon DEF Kio!FlushChar, Kio!is_circular_buffer_empty, Kio!Advance
<1>3. /\ Ring(buffer, read_idx, write_idx, next, drawn, n) /\ Unmixed(buffer, read_idx, n)
  BY <1>1, Zenon DEF ConsoleOK
<1>4. /\ left \in 0 .. MaxLength /\ visible \in Number
      /\ n > 0 => Nth(buffer, read_idx, n - 1).rest = 0
  BY <1>1, <1>2, Holder, Zenon
<1>5. n > 0
  <2>1. n # 0
    <3>1. Counted(read_idx, write_idx, n)
      BY <1>3, RingCount, Zenon
    <3> QED BY <1>2, <3>1, Zenon DEF Counted
  <2> QED BY <2>1, Sizes DEF Index
<1>6. PICK m : m = n - 1
  BY Zenon
<1>7. m \in Index /\ (m > 0 => m - 1 \in 0 .. n - 2 /\ m - 1 + 1 = n - 1)
      /\ \A k \in 0 .. m - 2 : k \in 0 .. n - 2 /\ k + 1 \in 0 .. n - 2
  BY <1>5, <1>6, Sizes DEF Index
<1>8. /\ Ring(buffer', read_idx', write_idx', next', drawn', m)
      /\ Shifted(buffer', read_idx', read_idx, n)
  <2>1. /\ Ring(buffer, (read_idx + 1) % buffer_size, write_idx, next,
                (buffer[read_idx].n + 1) % M, m)
        /\ Shifted(buffer, (read_idx + 1) % buffer_size, read_idx, n)
    BY <1>3, <1>5, <1>6, <1>7, RingGet, Zenon
  <2> QED BY <1>2, <2>1, Zenon
<1>9. \A k \in 0 .. n - 2 : Nth(buffer', read_idx', k) = Nth(buffer, read_idx, k + 1)
  BY <1>2, <1>8, Zenon DEF Shifted
<1>10. Unmixed(buffer', read_idx', m)
  BY <1>3, <1>7, <1>9, Zenon DEF Unmixed
<1>11. Ended(buffer', read_idx', m, lock', 0)
  BY <1>4, <1>5, <1>7, <1>9, Zenon DEF Ended
<1>12. Doing(lock', console_pc', left', drawn', visible', m)
  BY <1>2, <1>4, Zenon DEF Doing
<1>13. ConsoleOK(m)'
  BY <1>2, <1>8, <1>10, <1>11, <1>12, Zenon DEF ConsoleOK
<1> QED BY <1>7, <1>13, Zenon DEF ConsoleInv

\* write_pixels comes after the last character, and shows all of them.
LEMMA CopyKeeps ==
  ASSUME MessageFits, ConsoleInv, NEW c \in Cpu, Kio!write_pixels(c)
  PROVE  ConsoleInv'
<1>1. PICK n \in Index : ConsoleOK(n)
  BY Zenon DEF ConsoleInv
<1>2. /\ lock = c /\ console_pc = "draw" /\ read_idx = write_idx /\ console_pc' = "done"
      /\ lock' = lock /\ left' = left /\ visible' = drawn
      /\ UNCHANGED <<buffer, read_idx, write_idx, next, drawn>>
  BY Zenon DEF Kio!write_pixels, Kio!is_circular_buffer_empty, Kio!Copied
<1>3. /\ left \in 0 .. MaxLength /\ drawn \in Number
      /\ n > 0 => Nth(buffer, read_idx, n - 1).rest = 0
  BY <1>1, <1>2, Holder, Zenon
<1>4. n = 0
  <2>1. Counted(read_idx, write_idx, n)
    BY <1>1, RingCount, Zenon DEF ConsoleOK
  <2> QED BY <1>2, <2>1, Zenon DEF Counted
<1>5. n < max_chars
  BY <1>4, Sizes
<1>6. Doing(lock', console_pc', left', drawn, visible', n)
  BY <1>2, <1>3, <1>5, Zenon DEF Doing
<1> QED BY <1>1, <1>2, <1>3, <1>6, SameBuffer, Zenon

\* The lock is released with room for the next message.
LEMMA ReleaseKeeps ==
  ASSUME MessageFits, ConsoleInv, NEW c \in Cpu, Kio!Release(c)
  PROVE  ConsoleInv'
<1>1. PICK n \in Index : ConsoleOK(n)
  BY Zenon DEF ConsoleInv
<1>2. /\ lock = c /\ console_pc = "done" /\ console_pc' = "idle" /\ lock' = NoCpu
      /\ left' = left /\ visible' = visible
      /\ UNCHANGED <<buffer, read_idx, write_idx, next, drawn>>
  BY Zenon DEF Kio!Release
<1>3. /\ left \in 0 .. MaxLength /\ visible \in Number
      /\ n > 0 => Nth(buffer, read_idx, n - 1).rest = 0
  BY <1>1, <1>2, Holder, Zenon
<1>4. n < max_chars /\ visible = drawn
  BY <1>1, <1>2, Zenon DEF ConsoleOK, Doing
<1>5. Doing(lock', console_pc', left', drawn, visible', n)
  BY <1>2, <1>3, <1>4, Zenon DEF Doing
<1> QED BY <1>1, <1>2, <1>3, <1>5, SameBuffer, Zenon

\* init_kio makes an empty buffer.
LEMMA ConsoleInit ==
  ASSUME MessageFits, Kio!Init
  PROVE  ConsoleInv
<1>1. /\ lock = NoCpu /\ console_pc = "idle" /\ left = 0
      /\ buffer \in [0 .. buffer_size - 1 -> {[n |-> 0, from |-> NoCpu, rest |-> 0]}]
      /\ read_idx = 0 /\ write_idx = 0 /\ next = 0 /\ drawn = 0 /\ visible = 0
  BY Zenon DEF Kio!Init
<1>2. /\ 0 \in Index /\ 0 \in Number /\ 0 < max_chars /\ 0 \in 0 .. MaxLength /\ 0 \in Nat
      /\ ~(0 > 0) /\ 0 .. 0 - 1 = {} /\ 0 .. 0 - 2 = {}
      /\ Wrap(0 + 0, buffer_size) = 0 /\ Wrap(0 + 0, M) = 0
  BY Sizes DEF Index, Number, Wrap
<1>3. [n |-> 0, from |-> NoCpu, rest |-> 0] \in Char
  BY <1>2, Zenon DEF Char
<1>4. buffer \in [Index -> Char]
  <2>1. PICK ch : ch = [n |-> 0, from |-> NoCpu, rest |-> 0]
    BY Zenon
  <2>2. ch \in Char /\ buffer \in [Index -> {ch}]
    BY <1>1, <1>3, <2>1, Zenon DEF Index
  <2> QED BY ONLY <2>2
<1>5. Ring(buffer, 0, 0, 0, 0, 0)
  BY <1>2, <1>4, Zenon DEF Ring
<1>6. Unmixed(buffer, 0, 0) /\ Ended(buffer, 0, 0, NoCpu, 0)
  BY <1>2, Zenon DEF Unmixed, Ended
<1>7. Doing(NoCpu, "idle", 0, 0, 0, 0)
  BY <1>2, Zenon DEF Doing
<1>8. ConsoleOK(0)
  BY <1>1, <1>5, <1>6, <1>7, Zenon DEF ConsoleOK
<1> QED BY <1>2, <1>8, Zenon DEF ConsoleInv

\* Every step of every CPU keeps the invariant.
LEMMA ConsoleStep ==
  ASSUME MessageFits, ConsoleInv, [Kio!Next]_(Kio!vars)
  PROVE  ConsoleInv'
<1>1. CASE UNCHANGED Kio!vars
  <2>1. UNCHANGED <<lock, console_pc, left, buffer, read_idx, write_idx, next, drawn, visible>>
    BY <1>1, Zenon DEF Kio!vars
  <2> QED BY <2>1, Zenon DEF ConsoleInv, ConsoleOK
<1>2. CASE Kio!Next
  <2>1. PICK c \in Cpu :
          \/ \E length \in 0 .. MaxLength : Kio!BeginPrint(c, length)
          \/ Kio!unsync_putchar(c) \/ Kio!unsync_opt_flush(c)
          \/ Kio!BeginFlush(c) \/ Kio!FlushEmpty(c) \/ Kio!FlushChar(c) \/ Kio!write_pixels(c)
          \/ Kio!Release(c)
    BY <1>2, Zenon DEF Kio!Next
  <2> QED BY <2>1, BeginPrintKeeps, PutcharKeeps, OptFlushKeeps, BeginFlushKeeps, FlushEmptyKeeps,
             FlushCharKeeps, CopyKeeps, ReleaseKeeps, Zenon
<1> QED BY <1>1, <1>2, Zenon

\* What the invariant says of the buffer.
LEMMA ConsoleFollows ==
  ASSUME MessageFits, ConsoleInv
  PROVE  Kio!BufferSound
<1>1. PICK n \in Index : ConsoleOK(n)
  BY Zenon DEF ConsoleInv
<1>2. /\ Ring(buffer, read_idx, write_idx, next, drawn, n) /\ Unmixed(buffer, read_idx, n)
      /\ Doing(lock, console_pc, left, drawn, visible, n)
  BY <1>1, Zenon DEF ConsoleOK
<1>3. /\ buffer \in [Index -> Char] /\ read_idx \in Index /\ drawn \in Number
      /\ write_idx = Wrap(read_idx + n, buffer_size) /\ next = Wrap(drawn + n, M)
      /\ \A k \in 0 .. n - 1 : Nth(buffer, read_idx, k).n = Wrap(drawn + k, M)
  BY <1>2, Zenon DEF Ring
<1>4. /\ buffer_size \in Nat \ {0} /\ M \in Nat \ {0} /\ n \in Number
      /\ read_idx \in 0 .. buffer_size - 1 /\ drawn \in 0 .. M - 1 /\ n \in 0 .. buffer_size - 1
      /\ n \in 0 .. M - 1
  BY <1>3, Sizes, Zenon DEF Index, Number
<1>5. write_idx \in 0 .. buffer_size - 1 /\ next \in 0 .. M - 1
  BY <1>3, <1>4, WrapNext, Zenon
<1>6. Kio!Pending = n /\ (write_idx - read_idx) % buffer_size = n
  BY <1>3, <1>4, WrapBack, Zenon DEF Kio!Pending
<1>7. \A k \in 0 .. n - 1 : /\ Kio!PendingChar(k) = Nth(buffer, read_idx, k)
                            /\ (drawn + k) % M = Wrap(drawn + k, M)
  <2> TAKE k \in 0 .. n - 1
  <2>1. read_idx + k \in 0 .. 2 * buffer_size - 1 /\ drawn + k \in 0 .. 2 * M - 1
    BY <1>4
  <2>2. /\ (read_idx + k) % buffer_size = Wrap(read_idx + k, buffer_size)
        /\ (drawn + k) % M = Wrap(drawn + k, M)
    BY <1>4, <2>1, WrapIs, Zenon
  <2> QED BY <2>2, Zenon DEF Kio!PendingChar, Nth
<1>8. Kio!NothingLost
  BY <1>3, <1>6, <1>7, Zenon DEF Kio!NothingLost
<1>9. Kio!MessagesNotMixed
  <2>1. \A k \in 0 .. n - 2 : k \in 0 .. n - 1 /\ k + 1 \in 0 .. n - 1
    BY <1>4
  <2>2. \A k \in 0 .. n - 2 :
          /\ Kio!PendingChar(k) = Nth(buffer, read_idx, k)
          /\ Kio!PendingChar(k + 1) = Nth(buffer, read_idx, k + 1)
    BY <1>7, <2>1, Zenon
  <2> QED BY <1>2, <1>6, <2>2, Zenon DEF Kio!MessagesNotMixed, Unmixed
<1>10. Kio!RoomForNextMessage /\ Kio!DrawnIsVisible
  <2>1. lock = NoCpu => n < max_chars /\ visible = drawn
    BY <1>2, Zenon DEF Doing, MessageFits
  <2> QED BY <1>6, <2>1, Zenon DEF Kio!RoomForNextMessage, Kio!DrawnIsVisible
<1>11. Kio!TypeOK
  <2>1. \A i \in DOMAIN buffer : buffer[i].n \in 0 .. M - 1
    <3>1. \A i \in DOMAIN buffer : buffer[i] \in Char
      BY <1>3, Zenon
    <3> QED BY <3>1, Zenon DEF Char, Number
  <2>2. /\ lock \in Cpu \cup {NoCpu} /\ console_pc \in {"idle", "print", "flush", "draw", "done"}
        /\ left \in 0 .. MaxLength /\ visible \in 0 .. M - 1
    BY <1>2, Zenon DEF Doing, Number
  <2> QED BY <1>4, <1>5, <2>1, <2>2, Zenon DEF Kio!TypeOK
<1> QED BY <1>8, <1>9, <1>10, <1>11, Zenon DEF Kio!BufferSound

\* For any number of CPUs, size of the console's buffer and limit of
\* unsync_opt_flush, as long as a message fits beside what a print may leave
\* behind: no character that print and printf write is lost, drawn twice or out
\* of order, messages of different CPUs do not mix, and what has been drawn is on
\* the display when the lock is released.
THEOREM ConsoleIsSound ==
  ASSUME MessageFits
  PROVE  Kio!Spec => []Kio!BufferSound
<1>1. Kio!Init => ConsoleInv
  BY ConsoleInit, Zenon
<1>2. ConsoleInv /\ [Kio!Next]_(Kio!vars) => ConsoleInv'
  BY ConsoleStep, Zenon
<1>3. ConsoleInv => Kio!BufferSound
  BY ConsoleFollows, Zenon
<1> QED BY <1>1, <1>2, <1>3, PTL DEF Kio!Spec

-----------------------------------------------------------------------------
(* The screen: an instance of KioScreen, with any display and font.         *)
CONSTANTS display_width, display_height, font_width, font_height, Numbers

VARIABLES next_x, next_y, glyphs, next_glyph

Screen == INSTANCE KioScreen WITH next <- next_glyph, M <- Numbers

\* A character has a size, and the display has room for one.
ScreenFits ==
  /\ font_width \in Nat \ {0} /\ font_height \in Nat \ {0} /\ Numbers \in Nat \ {0}
  /\ display_width \in Nat /\ display_height \in Nat
  /\ font_width <= display_width /\ font_height <= display_height

\* The positions of D that are read after p.
After(D, p) == {q \in D : q[2] > p[2] \/ (q[2] = p[2] /\ q[1] > p[1])}

\* Characters on the screen do not overlap, and two lines are a line apart.
Apart(D) ==
  \A p, q \in D :
    /\ p[2] = q[2] \/ p[2] + font_height <= q[2] \/ q[2] + font_height <= p[2]
    /\ p # q /\ p[2] = q[2] => p[1] + font_width <= q[1] \/ q[1] + font_width <= p[1]

\* All of D is on the display, and in front of the position <<x, y>>.
InFront(D, x, y) ==
  \A p \in D :
    /\ p[1] + font_width <= display_width /\ p[2] + font_height <= display_height
    /\ p[2] + font_height <= y \/ (p[2] = y /\ p[1] + font_width <= x)

\* The characters of g are numbered backwards from n - 1.
Numbered(g, n) ==
  \A p \in DOMAIN g : g[p] = (n - 1 - Cardinality(After(DOMAIN g, p))) % Numbers

\* A frame buffer whose next character, number n, goes to <<x, y>> or further.
Shown(g, x, y, n) ==
  /\ x \in Nat /\ y \in Nat /\ n \in 0 .. Numbers - 1
  /\ x <= display_width /\ y + font_height <= display_height
  /\ DOMAIN g \subseteq Nat \X Nat /\ IsFiniteSet(DOMAIN g)
  /\ Apart(DOMAIN g) /\ InFront(DOMAIN g, x, y) /\ Numbered(g, n)

\* The inductive invariant.
ScreenInv == Shown(glyphs, next_x, next_y, next_glyph)

\* An instance counts as FiniteSets does.
LEMMA ScreenCount == ASSUME NEW S PROVE Screen!Cardinality(S) = Cardinality(S)
BY Zenon DEF Screen!Cardinality, Cardinality, Screen!IsFiniteSet, IsFiniteSet

\* A remainder does not change when the modulus is added.
LEMMA RemainderStays ==
  ASSUME NEW m \in Nat \ {0}, NEW a \in Int
  PROVE  (a + m) % m = a % m
<1> DEFINE q == a \div m
           r == a % m
           q2 == (a + m) \div m
           r2 == (a + m) % m
<1>1. q \in Int /\ q2 \in Int /\ r \in 0 .. m - 1 /\ r2 \in 0 .. m - 1
  OBVIOUS
<1>2. a = m * q + r /\ a + m = m * q2 + r2
  OBVIOUS
<1> HIDE DEF q, r, q2, r2
<1>3. PICK d \in Int : d = q2 - q - 1
  BY <1>1
<1>4. m * d = r - r2
  <2>1. m * q2 = m * (q + 1 + d)
    BY <1>1, <1>3
  <2>2. m * (q + 1 + d) = m * q + m + m * d
    BY <1>1
  <2> QED
    BY <1>1, <1>2, <2>1, <2>2
<1>5. ~(d >= 1)
  <2>1. d >= 1 => m * d >= m
    OBVIOUS
  <2> QED
    BY <1>1, <1>4, <2>1
<1>6. ~(d <= -1)
  <2>1. d <= -1 => m * d <= -m
    OBVIOUS
  <2> QED
    BY <1>1, <1>4, <2>1
<1>7. r = r2
  BY <1>1, <1>4, <1>5, <1>6
<1> QED
  BY <1>7 DEF r, r2

\* The number of a character does not change when another one follows it.
LEMMA NumberStays ==
  ASSUME ScreenFits, NEW n \in 0 .. Numbers - 1, NEW k \in Nat
  PROVE  /\ (((n + 1) % Numbers) - 1 - (k + 1)) % Numbers = (n - 1 - k) % Numbers
         /\ (((n + 1) % Numbers) - 1) % Numbers = n
         /\ (n + 1) % Numbers \in 0 .. Numbers - 1
<1> DEFINE m == Numbers
<1>1. m \in Nat \ {0}
  BY DEF ScreenFits
<1>2. CASE n + 1 < m
  <2>1. (n + 1) % m = n + 1
    BY <1>1, <1>2
  <2>2. n % m = n
    BY <1>1
  <2> QED
    BY <1>1, <1>2, <2>1, <2>2
<1>3. CASE n + 1 = m
  <2>1. (n + 1) % m = 0
    BY <1>1, <1>3
  <2>2. (0 - 1) % m = m - 1
    BY <1>1
  <2>3. (0 - 1 - (k + 1)) % m = (m - 2 - k) % m
    <3>1. (0 - 1 - (k + 1)) + m = m - 2 - k /\ 0 - 1 - (k + 1) \in Int
      BY <1>1
    <3> QED
      BY <1>1, <3>1, RemainderStays
  <2> QED
    BY <1>1, <1>3, <2>1, <2>2, <2>3
<1> QED
  BY <1>1, <1>2, <1>3

\* A subset of a finite set, counted.
LEMMA AfterFinite ==
  ASSUME NEW D, IsFiniteSet(D), NEW p
  PROVE  IsFiniteSet(After(D, p)) /\ Cardinality(After(D, p)) \in Nat
<1>1. After(D, p) \in SUBSET D
  BY Zenon DEF After
<1> QED
  BY <1>1, FS_Subset, FS_CardinalityType, Zenon

\* A character in a free place with all others in front of it.
LEMMA PutKeeps ==
  ASSUME ScreenFits, NEW g, NEW x, NEW y, NEW n, Shown(g, x, y, n),
         x + font_width <= display_width
  PROVE  Shown([p \in DOMAIN g \cup {<<x, y>>} |-> IF p = <<x, y>> THEN n ELSE g[p]],
               x + font_width, y, (n + 1) % Numbers)
<1> DEFINE D == DOMAIN g
           a == <<x, y>>
           h == [p \in D \cup {a} |-> IF p = a THEN n ELSE g[p]]
<1>1. /\ x \in Nat /\ y \in Nat /\ n \in 0 .. Numbers - 1
      /\ x <= display_width /\ y + font_height <= display_height
      /\ D \subseteq Nat \X Nat /\ IsFiniteSet(D)
      /\ Apart(D) /\ InFront(D, x, y) /\ Numbered(g, n)
  BY Zenon DEF Shown
<1>2. a[1] = x /\ a[2] = y /\ a \in Nat \X Nat
  BY <1>1
<1>3. /\ font_width \in Nat \ {0} /\ font_height \in Nat \ {0}
      /\ display_width \in Nat /\ display_height \in Nat
  BY Zenon DEF ScreenFits
<1>4. \A p \in D : p[1] \in Nat /\ p[2] \in Nat
  BY <1>1
<1>5. \A p \in D : p[2] + font_height <= y \/ (p[2] = y /\ p[1] + font_width <= x)
  BY <1>1, Zenon DEF InFront
<1>6. a \notin D
  BY <1>1, <1>2, <1>3, <1>5
<1>7. DOMAIN h = D \cup {a} /\ h[a] = n /\ \A p \in D : h[p] = g[p]
  BY <1>6
<1> HIDE DEF D, a, h
<1>8. D \cup {a} \subseteq Nat \X Nat /\ IsFiniteSet(D \cup {a})
  BY <1>1, <1>2, FS_AddElement, Zenon
<1>9. Apart(D \cup {a})
  <2> SUFFICES ASSUME NEW p \in D \cup {a}, NEW q \in D \cup {a}
      PROVE  /\ p[2] = q[2] \/ p[2] + font_height <= q[2] \/ q[2] + font_height <= p[2]
             /\ p # q /\ p[2] = q[2] => p[1] + font_width <= q[1] \/ q[1] + font_width <= p[1]
    BY Zenon DEF Apart
  <2>1. CASE p \in D /\ q \in D
    BY <1>1, <2>1, Zenon DEF Apart
  <2>2. CASE p = a /\ q \in D
    BY <1>1, <1>2, <1>3, <1>4, <1>5, <2>2
  <2>3. CASE p \in D /\ q = a
    BY <1>1, <1>2, <1>3, <1>4, <1>5, <2>3
  <2>4. CASE p = a /\ q = a
    BY <2>4, Zenon
  <2> QED
    BY <2>1, <2>2, <2>3, <2>4, Zenon
<1>10. InFront(D \cup {a}, x + font_width, y)
  <2> SUFFICES ASSUME NEW p \in D \cup {a}
      PROVE  /\ p[1] + font_width <= display_width /\ p[2] + font_height <= display_height
             /\ p[2] + font_height <= y \/ (p[2] = y /\ p[1] + font_width <= x + font_width)
    BY Zenon DEF InFront
  <2>1. CASE p \in D
    <3>1. p[1] + font_width <= display_width /\ p[2] + font_height <= display_height
      BY <1>1, <2>1, Zenon DEF InFront
    <3>2. p[2] + font_height <= y \/ (p[2] = y /\ p[1] + font_width <= x)
      BY <1>5, <2>1, Zenon
    <3> QED
      BY <1>1, <1>3, <1>4, <2>1, <3>1, <3>2
  <2>2. CASE p = a
    BY <1>1, <1>2, <1>3, <2>2
  <2> QED
    BY <2>1, <2>2, Zenon
<1>11. Numbered(h, (n + 1) % Numbers)
  <2> SUFFICES ASSUME NEW p \in D \cup {a}
      PROVE  h[p] = (((n + 1) % Numbers) - 1 - Cardinality(After(D \cup {a}, p))) % Numbers
    BY <1>7, Zenon DEF Numbered
  <2>1. CASE p \in D
    <3>1. After(D \cup {a}, p) = After(D, p) \cup {a}
      <4>1. a[2] > p[2] \/ (a[2] = p[2] /\ a[1] > p[1])
        BY <1>1, <1>2, <1>3, <1>4, <1>5, <2>1
      <4> QED
        BY <4>1, Zenon DEF After
    <3>2. a \notin After(D, p)
      BY <1>6, Zenon DEF After
    <3>3. PICK k \in Nat : k = Cardinality(After(D, p))
      BY <1>1, AfterFinite, Zenon
    <3>4. Cardinality(After(D \cup {a}, p)) = k + 1
      BY <1>1, <3>1, <3>2, <3>3, AfterFinite, FS_AddElement, Zenon
    <3>5. h[p] = (n - 1 - k) % Numbers
      BY <1>1, <1>7, <2>1, <3>3, Zenon DEF Numbered, D
    <3>6. (((n + 1) % Numbers) - 1 - (k + 1)) % Numbers = (n - 1 - k) % Numbers
      BY <1>1, NumberStays
    <3> QED
      BY <3>4, <3>5, <3>6, Zenon
  <2>2. CASE p = a
    <3>1. After(D \cup {a}, p) = {}
      <4> SUFFICES ASSUME NEW q \in D \cup {a}, q[2] > p[2] \/ (q[2] = p[2] /\ q[1] > p[1]) PROVE FALSE
        BY Zenon DEF After
      <4>1. CASE q \in D
        BY <1>1, <1>2, <1>3, <1>4, <1>5, <2>2, <4>1
      <4>2. CASE q = a
        BY <1>1, <1>2, <2>2, <4>2
      <4> QED
        BY <4>1, <4>2, Zenon
    <3>2. Cardinality(After(D \cup {a}, p)) = 0
      BY <3>1, FS_EmptySet, Zenon
    <3>3. (n + 1) % Numbers \in Int /\ (((n + 1) % Numbers) - 1) % Numbers = n
      BY <1>1, NumberStays
    <3>4. ((n + 1) % Numbers) - 1 - 0 = ((n + 1) % Numbers) - 1
      BY <3>3
    <3> QED
      BY <1>7, <2>2, <3>2, <3>3, <3>4, Zenon
  <2> QED
    BY <2>1, <2>2, Zenon
<1>12. x + font_width \in Nat /\ (n + 1) % Numbers \in 0 .. Numbers - 1
  BY <1>1, <1>3, NumberStays
<1>13. Shown(h, x + font_width, y, (n + 1) % Numbers)
  BY <1>1, <1>7, <1>8, <1>9, <1>10, <1>11, <1>12, Zenon DEF Shown
<1> QED
  BY <1>13 DEF h, D, a

\* A line break that the display has room for.
LEMMA BreakKeeps ==
  ASSUME ScreenFits, NEW g, NEW x, NEW y, NEW n, Shown(g, x, y, n),
         ~(y + font_height * 2 >= display_height)
  PROVE  Shown(g, 0, y + font_height, n)
<1> DEFINE D == DOMAIN g
<1>1. /\ x \in Nat /\ y \in Nat /\ n \in 0 .. Numbers - 1
      /\ x <= display_width /\ y + font_height <= display_height
      /\ D \subseteq Nat \X Nat /\ IsFiniteSet(D)
      /\ Apart(D) /\ InFront(D, x, y) /\ Numbered(g, n)
  BY Zenon DEF Shown
<1>2. /\ font_width \in Nat \ {0} /\ font_height \in Nat \ {0}
      /\ display_width \in Nat /\ display_height \in Nat
  BY Zenon DEF ScreenFits
<1>3. InFront(D, 0, y + font_height)
  <2> SUFFICES ASSUME NEW p \in D
      PROVE  /\ p[1] + font_width <= display_width /\ p[2] + font_height <= display_height
             /\ p[2] + font_height <= y + font_height
    BY Zenon DEF InFront
  <2>1. /\ p[1] + font_width <= display_width /\ p[2] + font_height <= display_height
        /\ p[2] + font_height <= y \/ (p[2] = y /\ p[1] + font_width <= x)
    BY <1>1, Zenon DEF InFront
  <2>2. p[2] \in Nat
    BY <1>1
  <2> QED
    BY <1>1, <1>2, <2>1, <2>2
<1>4. y + font_height \in Nat /\ y + font_height + font_height <= display_height /\ 0 \in Nat
  BY <1>1, <1>2
<1>5. 0 <= display_width
  BY <1>2
<1> QED
  BY <1>1, <1>3, <1>4, <1>5, Zenon DEF Shown

\* What is left of a frame buffer when it has moved up by a line.
Kept(g) == {p \in DOMAIN g : p[2] >= font_height}
MovedUp(g) ==
  [p \in {<<q[1], q[2] - font_height>> : q \in Kept(g)} |-> g[<<p[1], p[2] + font_height>>]]

\* A position after the move, and the one before it.
Down(p) == <<p[1], p[2] + font_height>>

\* The move is one to one between what was kept and what is shown.
LEMMA Moved ==
  ASSUME ScreenFits, NEW g, DOMAIN g \subseteq Nat \X Nat
  PROVE  /\ DOMAIN MovedUp(g) \subseteq Nat \X Nat
         /\ \A p \in DOMAIN MovedUp(g) : Down(p) \in Kept(g) /\ MovedUp(g)[p] = g[Down(p)]
         /\ \A q \in Kept(g) : \E p \in DOMAIN MovedUp(g) : q = Down(p)
<1> DEFINE E == {<<q[1], q[2] - font_height>> : q \in Kept(g)}
<1>1. font_height \in Nat \ {0}
  BY Zenon DEF ScreenFits
<1>2. DOMAIN MovedUp(g) = E
  BY Zenon DEF MovedUp
<1>3. \A q \in Kept(g) : /\ q \in Nat \X Nat /\ q[1] \in Nat /\ q[2] \in Nat /\ q[2] >= font_height
                        /\ q = <<q[1], q[2]>>
  BY DEF Kept
<1>4. ASSUME NEW q \in Kept(g)
      PROVE  /\ <<q[1], q[2] - font_height>> \in Nat \X Nat
             /\ Down(<<q[1], q[2] - font_height>>) = q
  <2>1. q[2] - font_height \in Nat /\ q[2] - font_height + font_height = q[2]
    BY <1>1, <1>3
  <2> QED
    BY <1>3, <2>1 DEF Down
<1>5. \A p \in E : p \in Nat \X Nat /\ Down(p) \in Kept(g)
  BY <1>4, Zenon
<1>6. \A p \in E : MovedUp(g)[p] = g[Down(p)]
  BY Zenon DEF MovedUp, Down
<1>7. \A q \in Kept(g) : \E p \in E : q = Down(p)
  BY <1>4, Zenon
<1> QED
  BY <1>2, <1>5, <1>6, <1>7, Zenon

\* As many characters are read after a position as before the move.
LEMMA MovedAfter ==
  ASSUME ScreenFits, NEW g, DOMAIN g \subseteq Nat \X Nat, IsFiniteSet(DOMAIN g),
         NEW p \in DOMAIN MovedUp(g)
  PROVE  Cardinality(After(DOMAIN MovedUp(g), p)) = Cardinality(After(DOMAIN g, Down(p)))
<1> DEFINE E == DOMAIN MovedUp(g)
           S == After(E, p)
           T == After(DOMAIN g, Down(p))
           f == [q \in S |-> Down(q)]
<1>1. font_height \in Nat \ {0}
  BY Zenon DEF ScreenFits
<1>2. /\ E \subseteq Nat \X Nat
      /\ \A q \in E : Down(q) \in Kept(g)
      /\ \A r \in Kept(g) : \E q \in E : r = Down(q)
  BY Moved, Zenon
<1> HIDE DEF E
<1>3. \A q \in E : /\ q[1] \in Nat /\ q[2] \in Nat /\ q = <<q[1], q[2]>>
                   /\ Down(q)[1] = q[1] /\ Down(q)[2] = q[2] + font_height
  BY <1>2 DEF Down
<1>4. p \in E
  BY DEF E
<1>5. \A q \in E : Down(q) \in T <=> q \in S
  <2> TAKE q \in E
  <2>1. Down(q) \in DOMAIN g
    BY <1>2, Zenon DEF Kept
  <2>2. Down(q)[2] > Down(p)[2] <=> q[2] > p[2]
    BY <1>1, <1>3, <1>4
  <2>3. Down(q)[2] = Down(p)[2] <=> q[2] = p[2]
    BY <1>1, <1>3, <1>4
  <2>4. Down(q)[1] = q[1] /\ Down(p)[1] = p[1]
    BY <1>3, <1>4, Zenon
  <2> QED
    BY <2>1, <2>2, <2>3, <2>4, Zenon DEF After
<1>6. \A r \in T : r \in Kept(g)
  <2> TAKE r \in T
  <2>1. r \in DOMAIN g /\ (r[2] > Down(p)[2] \/ r[2] = Down(p)[2])
    BY Zenon DEF After
  <2>2. r[2] \in Nat
    BY <2>1
  <2>3. r[2] >= font_height
    BY <1>1, <1>3, <1>4, <2>1, <2>2
  <2> QED
    BY <2>1, <2>3, Zenon DEF Kept
<1>7. f \in [S -> T]
  <2>1. \A q \in S : q \in E
    BY Zenon DEF After
  <2> QED
    BY <1>5, <2>1, Zenon
<1>8. \A q, r \in S : f[q] = f[r] => q = r
  <2> SUFFICES ASSUME NEW q \in S, NEW r \in S, Down(q) = Down(r) PROVE q = r
    BY Zenon
  <2>1. q \in E /\ r \in E
    BY Zenon DEF After
  <2>2. Down(q)[1] = Down(r)[1] /\ Down(q)[2] = Down(r)[2]
    BY Zenon
  <2> QED
    BY <1>1, <1>3, <2>1, <2>2
<1>9. \A r \in T : \E q \in S : f[q] = r
  BY <1>2, <1>5, <1>6, Zenon
<1>10. f \in Injection(S, T) /\ f \in Surjection(S, T)
  BY <1>7, <1>8, <1>9, Zenon DEF Injection, IsInjective, Surjection
<1>11. IsFiniteSet(T)
  BY AfterFinite, Zenon
<1>12. Cardinality(S) = Cardinality(T)
  BY <1>10, <1>11, FS_Injection, Zenon
<1> QED
  BY <1>12 DEF S, T, E

\* A line break that moves the frame buffer up.
LEMMA ScrollKeeps ==
  ASSUME ScreenFits, NEW g, NEW x, NEW y, NEW n, Shown(g, x, y, n)
  PROVE  Shown(MovedUp(g), 0, y, n)
<1> DEFINE D == DOMAIN g
           E == DOMAIN MovedUp(g)
<1>1. /\ x \in Nat /\ y \in Nat /\ n \in 0 .. Numbers - 1
      /\ x <= display_width /\ y + font_height <= display_height
      /\ D \subseteq Nat \X Nat /\ IsFiniteSet(D)
      /\ Apart(D) /\ InFront(D, x, y) /\ Numbered(g, n)
  BY Zenon DEF Shown
<1>2. /\ font_width \in Nat \ {0} /\ font_height \in Nat \ {0}
      /\ display_width \in Nat /\ display_height \in Nat
  BY Zenon DEF ScreenFits
<1>3. /\ E \subseteq Nat \X Nat
      /\ \A p \in E : Down(p) \in Kept(g) /\ MovedUp(g)[p] = g[Down(p)]
  BY <1>1, Moved, Zenon
<1> HIDE DEF D, E
<1>4. \A p \in E : Down(p) \in D
  BY <1>3, Zenon DEF Kept, D
<1>5. \A p \in E : /\ p[1] \in Nat /\ p[2] \in Nat /\ p = <<p[1], p[2]>>
                   /\ Down(p)[1] = p[1] /\ Down(p)[2] = p[2] + font_height
  BY <1>3 DEF Down
<1>6. IsFiniteSet(E)
  <2> DEFINE f == [p \in E |-> Down(p)]
  <2>1. f \in [E -> D]
    BY <1>4, Zenon
  <2>2. \A p, q \in E : f[p] = f[q] => p = q
    <3> SUFFICES ASSUME NEW p \in E, NEW q \in E, Down(p) = Down(q) PROVE p = q
      BY Zenon
    <3>1. Down(p)[1] = Down(q)[1] /\ Down(p)[2] = Down(q)[2]
      BY Zenon
    <3> QED
      BY <1>2, <1>5, <3>1
  <2>3. f \in Injection(E, D)
    BY <2>1, <2>2, Zenon DEF Injection, IsInjective
  <2> QED
    BY <1>1, <2>3, FS_Injection, Zenon
<1>7. Apart(E)
  <2> SUFFICES ASSUME NEW p \in E, NEW q \in E
      PROVE  /\ p[2] = q[2] \/ p[2] + font_height <= q[2] \/ q[2] + font_height <= p[2]
             /\ p # q /\ p[2] = q[2] => p[1] + font_width <= q[1] \/ q[1] + font_width <= p[1]
    BY Zenon DEF Apart
  <2> DEFINE a == Down(p)
             b == Down(q)
  <2>1. /\ a[2] = b[2] \/ a[2] + font_height <= b[2] \/ b[2] + font_height <= a[2]
        /\ a # b /\ a[2] = b[2] => a[1] + font_width <= b[1] \/ b[1] + font_width <= a[1]
    BY <1>1, <1>4, Zenon DEF Apart
  <2>2. a = b => a[1] = b[1]
    BY Zenon
  <2>3. p[1] = q[1] /\ p[2] = q[2] => p = q
    BY <1>5, Zenon
  <2>4. a[1] = p[1] /\ a[2] = p[2] + font_height /\ b[1] = q[1] /\ b[2] = q[2] + font_height
    BY <1>5, Zenon
  <2>5. p[1] \in Nat /\ p[2] \in Nat /\ q[1] \in Nat /\ q[2] \in Nat
    BY <1>5, Zenon
  <2> HIDE DEF a, b
  <2> QED
    BY <1>2, <2>1, <2>2, <2>3, <2>4, <2>5
<1>8. InFront(E, 0, y)
  <2> SUFFICES ASSUME NEW p \in E
      PROVE  /\ p[1] + font_width <= display_width /\ p[2] + font_height <= display_height
             /\ p[2] + font_height <= y
    BY Zenon DEF InFront
  <2> DEFINE a == Down(p)
  <2>1. /\ a[1] + font_width <= display_width /\ a[2] + font_height <= display_height
        /\ a[2] + font_height <= y \/ (a[2] = y /\ a[1] + font_width <= x)
    BY <1>1, <1>4, Zenon DEF InFront
  <2>2. /\ a[1] = p[1] /\ a[2] = p[2] + font_height
        /\ p[1] \in Nat /\ p[2] \in Nat
    BY <1>5, Zenon
  <2> HIDE DEF a
  <2> QED
    BY <1>1, <1>2, <2>1, <2>2
<1>9. Numbered(MovedUp(g), n)
  <2> SUFFICES ASSUME NEW p \in E
      PROVE  MovedUp(g)[p] = (n - 1 - Cardinality(After(E, p))) % Numbers
    BY Zenon DEF Numbered, E
  <2>1. g[Down(p)] = (n - 1 - Cardinality(After(D, Down(p)))) % Numbers
    BY <1>1, <1>4, Zenon DEF Numbered, D
  <2>2. Cardinality(After(E, p)) = Cardinality(After(D, Down(p)))
    BY <1>1, MovedAfter, Zenon DEF D, E
  <2> QED
    BY <1>3, <2>1, <2>2, Zenon
<1>10. 0 \in Nat /\ 0 <= display_width
  BY <1>2
<1> QED
  BY <1>1, <1>3, <1>6, <1>7, <1>8, <1>9, <1>10, Zenon DEF Shown, E

\* The empty screen satisfies the invariant.
LEMMA ScreenInit == ASSUME ScreenFits PROVE Screen!Init => ScreenInv
<1> SUFFICES ASSUME Screen!Init PROVE ScreenInv
  BY Zenon
<1>1. next_x = 0 /\ next_y = 0 /\ DOMAIN glyphs = {} /\ next_glyph = 0
  BY DEF Screen!Init
<1>2. 0 \in Nat /\ 0 \in 0 .. Numbers - 1 /\ 0 <= display_width /\ 0 + font_height <= display_height
  BY DEF ScreenFits
<1>3. Apart({}) /\ InFront({}, 0, 0) /\ Numbered(glyphs, 0)
  BY <1>1, Zenon DEF Apart, InFront, Numbered
<1>4. IsFiniteSet({}) /\ {} \subseteq Nat \X Nat
  BY FS_EmptySet, Zenon
<1> QED
  BY <1>1, <1>2, <1>3, <1>4, Zenon DEF ScreenInv, Shown

\* The line break leaves the frame buffer and the cursor in order, and room for
\* a character unless that was a '\n'.
LEMMA NewLineKeeps ==
  ASSUME ScreenFits, ScreenInv, NEW newline \in BOOLEAN
  PROVE  LET at == Screen!NewLine(newline)
         IN /\ Shown(at.glyphs, at.x, at.y, next_glyph)
            /\ at.x + font_width <= display_width
<1> DEFINE at == Screen!NewLine(newline)
<1>0. /\ font_width \in Nat /\ display_width \in Nat /\ font_width <= display_width
      /\ next_x \in Nat /\ Shown(glyphs, next_x, next_y, next_glyph)
  BY Zenon DEF ScreenFits, ScreenInv, Shown
<1>1. CASE ~(Screen!AtRight \/ newline)
  <2>1. at = [x |-> next_x, y |-> next_y, glyphs |-> glyphs]
    BY <1>1, Zenon DEF Screen!NewLine
  <2>2. at.x = next_x /\ at.y = next_y /\ at.glyphs = glyphs
    BY <2>1
  <2>3. next_x + font_width <= display_width
    BY <1>0, <1>1 DEF Screen!AtRight
  <2> QED
    BY <1>0, <2>2, <2>3, Zenon
<1>2. CASE (Screen!AtRight \/ newline) /\ Screen!AtBottom
  <2>1. at = [x |-> 0, y |-> next_y, glyphs |-> Screen!Scrolled]
    BY <1>2, Zenon DEF Screen!NewLine
  <2>2. at.x = 0 /\ at.y = next_y /\ at.glyphs = Screen!Scrolled
    BY <2>1
  <2>3. Screen!Scrolled = MovedUp(glyphs)
    BY Zenon DEF Screen!Scrolled, MovedUp, Kept
  <2>4. Shown(MovedUp(glyphs), 0, next_y, next_glyph)
    BY <1>0, ScrollKeeps, Zenon
  <2>5. 0 + font_width <= display_width
    BY <1>0
  <2> QED
    BY <2>2, <2>3, <2>4, <2>5, Zenon
<1>3. CASE (Screen!AtRight \/ newline) /\ ~Screen!AtBottom
  <2>1. at = [x |-> 0, y |-> next_y + font_height, glyphs |-> glyphs]
    BY <1>3, Zenon DEF Screen!NewLine
  <2>2. at.x = 0 /\ at.y = next_y + font_height /\ at.glyphs = glyphs
    BY <2>1
  <2>3. Shown(glyphs, 0, next_y + font_height, next_glyph)
    BY <1>0, <1>3, BreakKeeps, Zenon DEF Screen!AtBottom
  <2>4. 0 + font_width <= display_width
    BY <1>0
  <2> QED
    BY <2>2, <2>3, <2>4, Zenon
<1> QED
  BY <1>1, <1>2, <1>3, Zenon

\* unsync_write_char keeps the invariant.
LEMMA ScreenStep ==
  ASSUME ScreenFits, ScreenInv, [Screen!Next]_(Screen!vars)
  PROVE  ScreenInv'
<1>1. CASE Screen!unsync_write_char(TRUE)
  <2> DEFINE at == Screen!NewLine(TRUE)
  <2>1. next_y' = at.y /\ next_x' = at.x /\ glyphs' = at.glyphs /\ next_glyph' = next_glyph
    BY <1>1, Zenon DEF Screen!unsync_write_char
  <2>2. Shown(at.glyphs, at.x, at.y, next_glyph)
    BY NewLineKeeps, Zenon
  <2> HIDE DEF at
  <2>3. Shown(glyphs', next_x', next_y', next_glyph')
    BY <2>1, <2>2, Zenon
  <2> QED
    BY <2>3, Zenon DEF ScreenInv, Shown, Apart, InFront, Numbered, After
<1>2. CASE Screen!unsync_write_char(FALSE)
  <2> DEFINE at == Screen!NewLine(FALSE)
             h == [p \in DOMAIN at.glyphs \cup {<<at.x, at.y>>} |->
                     IF p = <<at.x, at.y>> THEN next_glyph ELSE at.glyphs[p]]
  <2>1. /\ next_y' = at.y /\ next_x' = at.x + font_width /\ glyphs' = h
        /\ next_glyph' = (next_glyph + 1) % Numbers
    BY <1>2, Zenon DEF Screen!unsync_write_char
  <2>2. Shown(at.glyphs, at.x, at.y, next_glyph) /\ at.x + font_width <= display_width
    BY NewLineKeeps, Zenon
  <2> HIDE DEF at
  <2>3. Shown(h, at.x + font_width, at.y, (next_glyph + 1) % Numbers)
    BY <2>2, PutKeeps, Zenon
  <2> HIDE DEF h
  <2>4. Shown(glyphs', next_x', next_y', next_glyph')
    BY <2>1, <2>3, Zenon
  <2> QED
    BY <2>4, Zenon DEF ScreenInv, Shown, Apart, InFront, Numbered, After
<1>3. CASE UNCHANGED Screen!vars
  BY <1>3, Zenon DEF ScreenInv, Screen!vars, Shown, Apart, InFront, Numbered, After
<1> QED
  BY <1>1, <1>2, <1>3, Zenon DEF Screen!Next

\* The invariant says what the screen promises.
LEMMA ScreenFollows == ASSUME ScreenFits, ScreenInv PROVE Screen!ScreenSound
<1> DEFINE D == DOMAIN glyphs
<1>1. /\ next_x \in Nat /\ next_y \in Nat /\ next_glyph \in 0 .. Numbers - 1
      /\ next_x <= display_width /\ next_y + font_height <= display_height
      /\ D \subseteq Nat \X Nat /\ IsFiniteSet(D)
      /\ Apart(D) /\ InFront(D, next_x, next_y) /\ Numbered(glyphs, next_glyph)
  BY Zenon DEF ScreenInv, Shown
<1>2. /\ font_width \in Nat \ {0} /\ font_height \in Nat \ {0} /\ Numbers \in Nat \ {0}
      /\ display_width \in Nat /\ display_height \in Nat
  BY Zenon DEF ScreenFits
<1>3. \A p \in D : p[1] \in Nat /\ p[2] \in Nat
  BY <1>1
<1>4. \A p \in D : glyphs[p] \in 0 .. Numbers - 1
  <2> TAKE p \in D
  <2>1. PICK k \in Nat : k = Cardinality(After(D, p))
    BY <1>1, AfterFinite, Zenon
  <2>2. glyphs[p] = (next_glyph - 1 - k) % Numbers
    BY <1>1, <2>1, Zenon DEF Numbered
  <2> QED
    BY <1>1, <1>2, <2>2
<1>5. Screen!TypeOK
  <2>1. next_x \in 0 .. display_width /\ next_y \in 0 .. display_height
    BY <1>1, <1>2
  <2> QED
    BY <1>1, <1>4, <2>1, Zenon DEF Screen!TypeOK
<1>6. Screen!GlyphsOnScreen
  <2> SUFFICES ASSUME NEW p \in D, NEW q \in D
      PROVE  /\ p[1] + font_width <= display_width /\ p[2] + font_height <= display_height
             /\ p # q => \/ p[1] + font_width <= q[1] \/ q[1] + font_width <= p[1]
                         \/ p[2] + font_height <= q[2] \/ q[2] + font_height <= p[2]
    BY Zenon DEF Screen!GlyphsOnScreen
  <2>1. p[1] + font_width <= display_width /\ p[2] + font_height <= display_height
    BY <1>1, Zenon DEF InFront
  <2> QED
    BY <1>1, <2>1, Zenon DEF Apart
<1>7. Screen!ShowsLastCharacters
  <2> SUFFICES ASSUME NEW p \in D
      PROVE  glyphs[p] = (next_glyph - 1 - Screen!Cardinality(After(D, p))) % Numbers
    BY Zenon DEF Screen!ShowsLastCharacters, After
  <2>1. Screen!Cardinality(After(D, p)) = Cardinality(After(D, p))
    BY ScreenCount, Zenon
  <2> QED
    BY <1>1, <2>1, Zenon DEF Numbered
<1> QED
  BY <1>5, <1>6, <1>7, Zenon DEF Screen!ScreenSound

\* kio.c: whatever is printed, on a display of any size, with a font of any
\* size, every character is drawn inside the frame buffer, no two overlap, and
\* the screen holds the last characters printed, in their order, through all
\* line breaks and scrolls of unsync_write_char.
THEOREM ScreenIsSound ==
  ASSUME ScreenFits
  PROVE  Screen!Spec => []Screen!ScreenSound
<1>1. Screen!Init => ScreenInv
  BY ScreenInit, Zenon
<1>2. ScreenInv /\ [Screen!Next]_(Screen!vars) => ScreenInv'
  BY ScreenStep, Zenon
<1>3. ScreenInv => Screen!ScreenSound
  BY ScreenFollows, Zenon
<1> QED
  BY <1>1, <1>2, <1>3, PTL DEF Screen!Spec
==============================================================================
