----------------------------- MODULE PortProofs ------------------------------
(***************************************************************************)
(* What holds of the modules of the ports and the packages, and of those   *)
(* of the kernel that no task waits in: the critical section, the context  *)
(* switch, the stacks, the atomics, the start of the cores, the peer's     *)
(* parking, the clocks in deep sleep, the tick and the cycle counter made  *)
(* from SysTick, and the heap.  Each is proved for any number of cores and *)
(* tasks its constants allow, any rates and sizes, and for every build.    *)
(***************************************************************************)
EXTENDS Section, Switch, Park, Boot, Atomics, Stack, DeepClocks, SysTick,
        CycleCounter, Heap, OsListProofs, FiniteSetTheorems

(***************************************************************************)
(* The critical section: it excludes and restores for any number of cores, *)
(* any way of masking and any nesting.                                     *)
(***************************************************************************)

\* A context put on top of those that are there.
LEMMA AppendedContext ==
    \A q \in Seq(Context) : \A y \in Context :
        /\ Append(q, y) \in Seq(Context) /\ Len(Append(q, y)) = Len(q) + 1
        /\ \A i \in 1 .. Len(q) : Append(q, y)[i] = q[i]
        /\ Append(q, y)[Len(q) + 1] = y
BY AppendProperties

\* What runs on a core.
LEMMA ContextShape ==
    ASSUME SectionTypes, NEW c \in Core
    PROVE  /\ contexts[c] \in Seq(Context) /\ Len(contexts[c]) \in {1, 2}
           /\ DOMAIN contexts[c] = 1 .. Len(contexts[c])
           /\ \A i \in 1 .. Len(contexts[c]) : contexts[c][i] \in Context
           /\ Top(c) = contexts[c][Len(contexts[c])] /\ Top(c) \in Context
<1>1. contexts[c] \in Seq(Context) /\ Len(contexts[c]) \in {1, 2}
  BY DEF SectionTypes
<1>2. DOMAIN contexts[c] = 1 .. Len(contexts[c])
  BY <1>1, LenProperties
<1>3. \A i \in 1 .. Len(contexts[c]) : contexts[c][i] \in Context
  BY <1>1, ElementOfSeq
<1>4. Len(contexts[c]) \in 1 .. Len(contexts[c])
  <2>1. \A n \in {1, 2} : n \in 1 .. n
    OBVIOUS
  <2> QED
    BY <1>1, <2>1
<1> QED
  BY <1>1, <1>2, <1>3, <1>4 DEF Top, Last

\* A step of the context on top leaves the one below and the other cores.
LEMMA TopSet ==
    ASSUME SectionTypes, NEW c \in Core, NEW x \in Context, SetTop(c, x)
    PROVE  /\ contexts' \in [Core -> Seq(Context)]
           /\ \A d \in Core : d # c => contexts'[d] = contexts[d]
           /\ Len(contexts'[c]) = Len(contexts[c])
           /\ contexts'[c][Len(contexts[c])] = x
           /\ \A i \in 1 .. Len(contexts[c]) :
                 i # Len(contexts[c]) => contexts'[c][i] = contexts[c][i]
           /\ \A d \in Core : Len(contexts'[d]) \in {1, 2}
<1> DEFINE s == contexts[c]
           r == [s EXCEPT ![Len(s)] = x]
<1>1. s \in Seq(Context) /\ Len(s) \in 1 .. Len(s) /\ Len(s) \in {1, 2}
  <2>1. s \in Seq(Context) /\ Len(s) \in {1, 2}
    BY ContextShape
  <2> QED
    BY <2>1
<1>2. /\ r \in Seq(Context) /\ Len(r) = Len(s)
      /\ \A j \in 1 .. Len(s) : r[j] = IF j = Len(s) THEN x ELSE s[j]
  BY <1>1, ExceptSeq
<1>3. contexts \in [Core -> Seq(Context)] /\ \A d \in Core : Len(contexts[d]) \in {1, 2}
  BY DEF SectionTypes
<1>4. contexts' = [contexts EXCEPT ![c] = r]
  BY DEF SetTop
<1>5. contexts'[c] = r /\ \A d \in Core : d # c => contexts'[d] = contexts[d]
  BY <1>3, <1>4
<1>6. contexts' \in [Core -> Seq(Context)]
  BY <1>2, <1>3, <1>4
<1> HIDE DEF r
<1> QED
  BY <1>1, <1>2, <1>3, <1>5, <1>6

\* The contexts that hold the lock, after such a step.
LEMMA HoldersAfter ==
    ASSUME SectionTypes, NEW c \in Core, NEW x \in Context, SetTop(c, x)
    PROVE  /\ <<c, Len(contexts[c])>> \in Core \X {1, 2}
           /\ <<c, Len(contexts[c])>> \in Holders <=> Holds(Top(c))
           /\ Holders \subseteq Core \X {1, 2} /\ Holders' \subseteq Core \X {1, 2}
           /\ \A p \in Core \X {1, 2} :
                 p \in Holders' <=> IF p = <<c, Len(contexts[c])>> THEN Holds(x)
                                    ELSE p \in Holders
<1>1. Len(contexts[c]) \in {1, 2} /\ Top(c) = contexts[c][Len(contexts[c])]
  BY ContextShape
<1>2. /\ \A d \in Core : d # c => contexts'[d] = contexts[d]
      /\ Len(contexts'[c]) = Len(contexts[c]) /\ contexts'[c][Len(contexts[c])] = x
      /\ \A i \in 1 .. Len(contexts[c]) :
            i # Len(contexts[c]) => contexts'[c][i] = contexts[c][i]
  BY TopSet
<1>3. <<c, Len(contexts[c])>> \in Holders <=> Holds(Top(c))
  <2>1. ASSUME NEW i \in {1, 2}
        PROVE  <<c, i>> \in Holders <=> i <= Len(contexts[c]) /\ Holds(contexts[c][i])
    BY DEF Holders
  <2> QED
    BY <1>1, <2>1
<1>4. ASSUME NEW d \in Core, NEW i \in {1, 2}
      PROVE  <<d, i>> \in Holders' <=> IF d = c /\ i = Len(contexts[c]) THEN Holds(x)
                                       ELSE <<d, i>> \in Holders
  <2>1. <<d, i>> \in Holders <=> i <= Len(contexts[d]) /\ Holds(contexts[d][i])
    BY DEF Holders
  <2>2. <<d, i>> \in Holders' <=> i <= Len(contexts'[d]) /\ Holds(contexts'[d][i])
    BY DEF Holders
  <2>3. CASE d # c
    BY <1>2, <2>1, <2>2, <2>3
  <2>4. CASE d = c /\ i = Len(contexts[c])
    BY <1>1, <1>2, <2>2, <2>4
  <2>5. CASE d = c /\ i # Len(contexts[c])
    <3>1. i <= Len(contexts[c]) => contexts'[c][i] = contexts[c][i]
      BY <1>1, <1>2, <2>5
    <3> QED
      BY <1>2, <2>1, <2>2, <2>5, <3>1
  <2> QED
    BY <2>3, <2>4, <2>5
<1>5. Holders \subseteq Core \X {1, 2} /\ Holders' \subseteq Core \X {1, 2}
  BY DEF Holders
<1>6. ASSUME NEW p \in Core \X {1, 2}
      PROVE  p \in Holders' <=> IF p = <<c, Len(contexts[c])>> THEN Holds(x)
                                ELSE p \in Holders
  <2>1. PICK d \in Core, i \in {1, 2} : p = <<d, i>>
    OBVIOUS
  <2>2. p = <<c, Len(contexts[c])>> <=> d = c /\ i = Len(contexts[c])
    BY <2>1
  <2> QED
    BY <1>4, <2>1, <2>2
<1>7. <<c, Len(contexts[c])>> \in Core \X {1, 2}
  BY <1>1
<1> QED
  BY <1>3, <1>5, <1>6, <1>7

\* Who is on top of a core whose contexts fit.
LEMMA TopFits ==
    ASSUME SectionTypes, NEW c \in Core, CoreFits(c), Top(c).kind # "fast"
    PROVE  /\ Fits(Top(c), masked[c], savedMask[c]) /\ nesting[c] = Top(c).depth
           /\ Top(c).kind = IF Len(contexts[c]) = 1 THEN "task" ELSE "interrupt"
           /\ Len(contexts[c]) = 2 => UnderInterrupt(c)
BY ContextShape DEF CoreFits, UnderInterrupt, UnderFast

\* A fast interrupt lies on one other context and is in no section.
LEMMA FastTop ==
    ASSUME SectionTypes, NEW c \in Core, CoreFits(c), Top(c).kind = "fast"
    PROVE  /\ Len(contexts[c]) = 2 /\ UnderFast(c) /\ Top(c) = contexts[c][2]
           /\ Top(c).depth = 0 /\ Top(c).at \in {"code", "masking", "trapped"}
BY ContextShape DEF CoreFits, UnderInterrupt, UnderFast

\* A step of a task, or of a handler that may enter the kernel.
LEMMA TopMoves ==
    ASSUME SectionTypes, NEW c \in Core, CoreFits(c), Top(c).kind # "fast",
           NEW x \in Context, SetTop(c, x), x.kind = Top(c).kind,
           x.prior = Top(c).prior \/ Len(contexts[c]) = 1,
           masking' = masking, nesting'[c] = x.depth,
           Fits(x, masked'[c], savedMask'[c])
    PROVE  CoreFits(c)'
<1>1. Len(contexts[c]) \in {1, 2} /\ Top(c) = contexts[c][Len(contexts[c])]
  BY ContextShape
<1>2. /\ Len(contexts'[c]) = Len(contexts[c]) /\ contexts'[c][Len(contexts[c])] = x
      /\ \A i \in 1 .. Len(contexts[c]) :
            i # Len(contexts[c]) => contexts'[c][i] = contexts[c][i]
  BY TopSet
<1>3. CASE Len(contexts[c]) = 1
  BY <1>1, <1>2, <1>3, TopFits DEF CoreFits
<1>4. CASE Len(contexts[c]) = 2
  <2>1. UnderInterrupt(c) /\ contexts[c][1].kind = "task" /\ Top(c) = contexts[c][2]
    BY <1>1, <1>4, TopFits DEF CoreFits
  <2>2. contexts'[c][1] = contexts[c][1] /\ contexts'[c][2] = x
    BY <1>2, <1>4
  <2>3. Fits(contexts[c][1], FALSE, savedMask'[c])
    BY <2>1 DEF UnderInterrupt, Fits
  <2>4. UnderInterrupt(c)'
    BY <1>4, <2>1, <2>2, <2>3 DEF UnderInterrupt
  <2> QED
    BY <1>2, <1>4, <2>1, <2>2, <2>4 DEF CoreFits
<1> QED
  BY <1>1, <1>3, <1>4

\* The other cores do not see it.
LEMMA OthersKeep ==
    ASSUME NEW c \in Core, \A d \in Core : CoreFits(d), CoreFits(c)',
           masking' = masking,
           \A d \in Core : d # c =>
               /\ contexts'[d] = contexts[d] /\ masked'[d] = masked[d]
               /\ nesting'[d] = nesting[d] /\ savedMask'[d] = savedMask[d]
    PROVE  (\A d \in Core : CoreFits(d))'
<1>1. ASSUME NEW d \in Core, d # c
      PROVE  CoreFits(d)'
  <2>1. UnderInterrupt(d) => UnderInterrupt(d)'
    BY <1>1 DEF UnderInterrupt
  <2>2. UnderFast(d) => UnderFast(d)'
    BY <1>1 DEF UnderFast
  <2> QED
    BY <1>1, <2>1, <2>2 DEF CoreFits
<1> QED
  BY <1>1

-----------------------------------------------------------------------------
(* The steps.                                                              *)

\* The lock after a step of c that neither takes it nor gives it back.
LEMMA LockUnmoved ==
    ASSUME SectionIInv, NEW c \in Core, NEW x \in Context, SetTop(c, x),
           Holds(x) <=> Holds(Top(c)), locked' = locked,
           \A d \in Core : d # c => reserved'[d] = reserved[d],
           reserved'[c] => reserved[c] \/ ~locked
                              \/ \A i \in DOMAIN contexts'[c] : contexts'[c][i].at # "store",
           x.at = "store" => (reserved'[c] => ~locked)
    PROVE  LockFits'
<1>1. SectionTypes /\ LockFits
  BY DEF SectionIInv
<1>2. Holders' = Holders
  BY <1>1, HoldersAfter
<1>3. ASSUME NEW d \in Core, NEW i \in DOMAIN contexts'[d],
             contexts'[d][i].at = "store", reserved'[d]
      PROVE  ~locked
  <2>1. CASE d # c
    <3>1. contexts'[d] = contexts[d]
      BY <1>1, <2>1, TopSet
    <3> QED
      BY <1>1, <1>3, <2>1, <3>1 DEF LockFits
  <2>2. CASE d = c
    <3>1. reserved[c] \/ ~locked
      BY <1>3, <2>2
    <3>2. DOMAIN contexts'[c] = 1 .. Len(contexts[c]) /\ DOMAIN contexts[c] = 1 .. Len(contexts[c])
      <4>1. contexts'[c] \in Seq(Context) /\ Len(contexts'[c]) = Len(contexts[c])
        BY <1>1, TopSet
      <4> QED
        BY <1>1, <4>1, LenProperties, ContextShape
    <3>3. CASE i = Len(contexts[c])
      <4>1. contexts'[c][i] = x
        BY <1>1, <3>3, TopSet
      <4> QED
        BY <1>3, <2>2, <4>1
    <3>4. CASE i # Len(contexts[c])
      <4>1. contexts'[c][i] = contexts[c][i] /\ i \in DOMAIN contexts[c]
        BY <1>1, <2>2, <3>2, <3>4, TopSet
      <4> QED
        BY <1>1, <1>3, <2>2, <3>1, <4>1 DEF LockFits
    <3> QED
      BY <3>3, <3>4
  <2> QED
    BY <2>1, <2>2
<1> QED
  BY <1>1, <1>2, <1>3 DEF LockFits

\* The application's own masking.
LEMMA MaskByHandKeeps ==
    ASSUME SectionIInv, NEW c \in Core, MaskByHand(c)
    PROVE  SectionIInv'
<1> DEFINE x == [Top(c) EXCEPT !.prior = ~masked[c]]
<1>1. SectionTypes /\ CoreFits(c) /\ (\A d \in Core : CoreFits(d)) /\ LockFits
  BY DEF SectionIInv
<1>2. Top(c) \in Context /\ masked \in [Core -> BOOLEAN]
  BY <1>1, ContextShape DEF SectionTypes
<1>3. /\ SetTop(c, x) /\ x \in Context /\ x.kind = Top(c).kind /\ x.at = "code" /\ x.depth = 0
      /\ x.prior = ~masked[c] /\ x.walk = Top(c).walk /\ Top(c).kind # "fast"
      /\ Top(c).kind = "task" /\ Top(c).at = "code" /\ Top(c).depth = 0
  BY <1>2 DEF MaskByHand, Context
<1> HIDE DEF x
<1>4. Len(contexts[c]) = 1 /\ Fits(Top(c), masked[c], savedMask[c]) /\ nesting[c] = 0
  BY <1>1, <1>3, TopFits, ContextShape
<1>5. masked'[c] = ~masked[c] /\ \A d \in Core : d # c => masked'[d] = masked[d]
  BY <1>2 DEF MaskByHand
<1>6. Fits(x, masked'[c], savedMask'[c])
  BY <1>3, <1>4, <1>5 DEF Fits
<1>7. CoreFits(c)'
  <2>1. nesting'[c] = x.depth /\ masking' = masking
    BY <1>3, <1>4 DEF MaskByHand
  <2> QED
    BY <1>1, <1>3, <1>4, <1>6, <2>1, TopMoves
<1>8. (\A d \in Core : CoreFits(d))'
  <2>1. \A d \in Core : d # c => contexts'[d] = contexts[d]
    BY <1>1, <1>3, TopSet
  <2> QED
    BY <1>1, <1>5, <1>7, <2>1, OthersKeep DEF MaskByHand
<1>9. LockFits'
  <2>1. Holds(x) <=> Holds(Top(c))
    BY <1>3 DEF Holds
  <2>2. locked' = locked /\ reserved' = reserved
    BY DEF MaskByHand
  <2> QED
    BY <1>3, <2>1, <2>2, LockUnmoved
<1>10. SectionTypes'
  <2>1. masked' \in [Core -> BOOLEAN]
    BY <1>2 DEF MaskByHand
  <2>2. contexts' \in [Core -> Seq(Context)] /\ \A d \in Core : Len(contexts'[d]) \in {1, 2}
    BY <1>1, <1>3, TopSet
  <2> QED
    BY <1>1, <2>1, <2>2 DEF SectionTypes, MaskByHand
<1> QED
  BY <1>8, <1>9, <1>10 DEF SectionIInv

\* A step of a context that may enter the kernel, but for what it does to the lock.
LEMMA SectionStepKeeps ==
    ASSUME SectionIInv, NEW c \in Core, Top(c).kind # "fast",
           NEW x \in Context, SetTop(c, x), x.kind = Top(c).kind, x.prior = Top(c).prior,
           masking' = masking, locked' \in BOOLEAN, reserved' \in [Core -> BOOLEAN],
           masked' \in [Core -> BOOLEAN], nesting' \in [Core -> Nat],
           savedMask' \in [Core -> BOOLEAN],
           \A d \in Core : d # c =>
               /\ masked'[d] = masked[d] /\ nesting'[d] = nesting[d]
               /\ savedMask'[d] = savedMask[d],
           nesting'[c] = x.depth, Fits(x, masked'[c], savedMask'[c]), LockFits'
    PROVE  SectionIInv'
<1>1. SectionTypes /\ (\A d \in Core : CoreFits(d))
  BY DEF SectionIInv
<1>2. CoreFits(c)'
  BY <1>1, TopMoves
<1>3. (\A d \in Core : CoreFits(d))'
  <2>1. \A d \in Core : d # c => contexts'[d] = contexts[d]
    BY <1>1, TopSet
  <2> QED
    BY <1>1, <1>2, <2>1, OthersKeep
<1>4. SectionTypes'
  <2>1. contexts' \in [Core -> Seq(Context)] /\ \A d \in Core : Len(contexts'[d]) \in {1, 2}
    BY <1>1, TopSet
  <2> QED
    BY <1>1, <2>1 DEF SectionTypes
<1> QED
  BY <1>3, <1>4 DEF SectionIInv

\* The fields of the context on top of a core.
LEMMA TopIs ==
    ASSUME SectionIInv, NEW c \in Core
    PROVE  /\ SectionTypes /\ CoreFits(c) /\ LockFits /\ Top(c) \in Context
           /\ Top(c).mask \in BOOLEAN /\ Top(c).depth \in Nat /\ Top(c).walk \in BOOLEAN
           /\ Top(c).kind # "fast" =>
                 Fits(Top(c), masked[c], savedMask[c]) /\ nesting[c] = Top(c).depth
           /\ Top(c).kind = "fast" =>
                 Top(c).depth = 0 /\ Top(c).at \in {"code", "masking", "trapped"}
<1>1. SectionTypes /\ CoreFits(c) /\ LockFits /\ Top(c) \in Context
  BY ContextShape DEF SectionIInv
<1>2. Top(c).mask \in BOOLEAN /\ Top(c).depth \in Nat /\ Top(c).walk \in BOOLEAN
  BY <1>1 DEF Context
<1> QED
  BY <1>1, <1>2, TopFits, FastTop

\* A fast handler reads the mask, and is caught.
LEMMA FastMoves ==
    ASSUME SectionIInv, NEW c \in Core, Top(c).kind = "fast",
           NEW x \in Context, SetTop(c, x),
           x.kind = "fast", x.depth = 0, x.walk = FALSE, x.prior = Top(c).prior,
           masking' = masking, locked' = locked, reserved' = reserved, nesting' = nesting,
           savedMask' = savedMask, masked' \in [Core -> BOOLEAN],
           \A d \in Core : d # c => masked'[d] = masked[d],
           \/ x.at = "masking" /\ Top(c).at # "trapped" /\ masked' = masked
           \/ x.at = "trapped" /\ masked'[c]
    PROVE  SectionIInv'
<1>1. SectionTypes /\ (\A d \in Core : CoreFits(d)) /\ LockFits
  BY DEF SectionIInv
<1>2. /\ Len(contexts[c]) = 2 /\ UnderFast(c) /\ Top(c) = contexts[c][2]
      /\ Top(c).depth = 0 /\ Top(c).at \in {"code", "masking", "trapped"}
  BY <1>1, FastTop
<1>3. /\ Len(contexts'[c]) = 2 /\ contexts'[c][2] = x /\ contexts'[c][1] = contexts[c][1]
      /\ \A d \in Core : d # c => contexts'[d] = contexts[d]
  <2>1. /\ Len(contexts'[c]) = Len(contexts[c]) /\ contexts'[c][Len(contexts[c])] = x
        /\ \A i \in 1 .. Len(contexts[c]) :
              i # Len(contexts[c]) => contexts'[c][i] = contexts[c][i]
        /\ \A d \in Core : d # c => contexts'[d] = contexts[d]
    BY <1>1, TopSet
  <2> QED
    BY <1>2, <2>1
<1>4. UnderFast(c)'
  BY <1>2, <1>3 DEF UnderFast
<1>5. CoreFits(c)'
  BY <1>1, <1>2, <1>3, <1>4 DEF CoreFits
<1>6. (\A d \in Core : CoreFits(d))'
  BY <1>1, <1>3, <1>5, OthersKeep
<1>7. LockFits'
  <2>1. ~Holds(x) /\ ~Holds(Top(c)) /\ x.at # "store"
    BY <1>2 DEF Holds
  <2> QED
    BY <2>1, LockUnmoved, <1>1 DEF SectionTypes
<1>8. SectionTypes'
  <2>1. contexts' \in [Core -> Seq(Context)] /\ \A d \in Core : Len(contexts'[d]) \in {1, 2}
    BY <1>1, TopSet
  <2> QED
    BY <1>1, <2>1 DEF SectionTypes
<1> QED
  BY <1>6, <1>7, <1>8 DEF SectionIInv

\* Enter: the mask is read.
LEMMA ReadMaskKeeps ==
    ASSUME SectionIInv, NEW c \in Core, NEW walk \in BOOLEAN, ReadMask(c, walk)
    PROVE  SectionIInv'
<1> DEFINE x == [Top(c) EXCEPT !.at = "masking", !.mask = masked[c], !.walk = walk]
<1>1. /\ SectionTypes /\ Top(c) \in Context /\ masked[c] \in BOOLEAN
      /\ Top(c).depth \in Nat
  BY TopIs DEF SectionTypes
<1>2. /\ SetTop(c, x) /\ x \in Context /\ x.kind = Top(c).kind /\ x.at = "masking"
      /\ x.mask = masked[c] /\ x.depth = Top(c).depth /\ x.walk = walk
      /\ x.prior = Top(c).prior
  BY <1>1 DEF ReadMask, Context, Step
<1> HIDE DEF x
<1>3. Top(c).at = "code" /\ (walk => Top(c).kind = "interrupt" /\ Top(c).depth = 0)
  BY DEF ReadMask
<1>4. /\ masking' = masking /\ locked' = locked /\ reserved' = reserved /\ masked' = masked
      /\ nesting' = nesting /\ savedMask' = savedMask
  BY DEF ReadMask
<1>5. CASE Top(c).kind = "fast"
  <2>1. Top(c).depth = 0 /\ x.walk = FALSE
    BY <1>2, <1>3, <1>5, TopIs
  <2> QED
    BY <1>1, <1>2, <1>3, <1>4, <1>5, <2>1, FastMoves DEF SectionTypes
<1>6. CASE Top(c).kind # "fast"
  <2>1. Fits(Top(c), masked[c], savedMask[c]) /\ nesting[c] = Top(c).depth
    BY <1>6, TopIs
  <2>2. Fits(x, masked[c], savedMask[c])
    BY <1>1, <1>2, <1>3, <2>1 DEF Fits
  <2>3. LockFits'
    <3>1. Holds(x) <=> Holds(Top(c))
      BY <1>2, <1>3 DEF Holds
    <3> QED
      BY <1>2, <1>4, <3>1, LockUnmoved
  <2> QED
    BY <1>1, <1>2, <1>4, <1>6, <2>1, <2>2, <2>3, SectionStepKeeps DEF SectionTypes
<1> QED
  BY <1>5, <1>6

\* Enter: the mask is raised.
LEMMA RaiseMaskKeeps ==
    ASSUME SectionIInv, NEW c \in Core, RaiseMask(c)
    PROVE  SectionIInv'
<1>1. /\ SectionTypes /\ Top(c) \in Context /\ Top(c).depth \in Nat
      /\ masked \in [Core -> BOOLEAN] /\ nesting \in [Core -> Nat]
  BY TopIs DEF SectionTypes
<1>2. /\ masking' = masking /\ locked' = locked /\ reserved' = reserved
      /\ savedMask' = savedMask /\ Top(c).at = "masking"
      /\ masked' = [masked EXCEPT ![c] = TRUE]
  BY DEF RaiseMask
<1>3. /\ masked' \in [Core -> BOOLEAN] /\ masked'[c] = TRUE
      /\ \A d \in Core : d # c => masked'[d] = masked[d]
  BY <1>1, <1>2
<1>4. CASE Top(c).kind = "fast"
  <2> DEFINE x == [Top(c) EXCEPT !.at = "trapped"]
  <2>1. SetTop(c, x) /\ nesting' = nesting
    BY <1>4 DEF RaiseMask, MayCall, GoTo
  <2>2. /\ x \in Context /\ x.kind = "fast" /\ x.at = "trapped" /\ x.depth = Top(c).depth
        /\ x.walk = Top(c).walk /\ x.prior = Top(c).prior
    BY <1>1, <1>4 DEF Context, Step
  <2> HIDE DEF x
  <2>3. Top(c).depth = 0 /\ Top(c).walk = FALSE
    BY <1>1, <1>4, FastTop, TopIs DEF UnderFast, Context
  <2> QED
    BY <1>2, <1>3, <1>4, <2>1, <2>2, <2>3, FastMoves
<1>5. CASE Top(c).kind # "fast" /\ (nesting[c] = 0 \/ Top(c).walk)
  <2> DEFINE x == [Top(c) EXCEPT !.at = "load"]
  <2>1. SetTop(c, x) /\ nesting' = nesting
    BY <1>5 DEF RaiseMask, MayCall, GoTo
  <2>2. /\ x \in Context /\ x.kind = Top(c).kind /\ x.at = "load" /\ x.depth = Top(c).depth
        /\ x.walk = Top(c).walk /\ x.prior = Top(c).prior /\ x.mask = Top(c).mask
    BY <1>1 DEF Context, Step
  <2> HIDE DEF x
  <2>3. Fits(Top(c), masked[c], savedMask[c]) /\ nesting[c] = Top(c).depth
    BY <1>5, TopIs
  <2>4. Top(c).depth = 0
    BY <1>1, <1>5, <2>3 DEF Fits
  <2>5. Fits(x, masked'[c], savedMask'[c])
    BY <1>2, <1>3, <2>2, <2>3, <2>4 DEF Fits
  <2>6. LockFits'
    <3>1. Holds(x) <=> Holds(Top(c))
      BY <1>2, <2>2 DEF Holds
    <3> QED
      BY <1>2, <2>1, <2>2, <3>1, LockUnmoved
  <2> QED
    BY <1>1, <1>2, <1>3, <1>5, <2>1, <2>2, <2>3, <2>5, <2>6, SectionStepKeeps DEF SectionTypes
<1>6. CASE Top(c).kind # "fast" /\ ~(nesting[c] = 0 \/ Top(c).walk)
  <2> DEFINE x == [Top(c) EXCEPT !.at = "code", !.depth = @ + 1]
  <2>1. SetTop(c, x) /\ nesting' = [nesting EXCEPT ![c] = @ + 1]
    BY <1>6 DEF RaiseMask, MayCall
  <2>2. /\ x \in Context /\ x.kind = Top(c).kind /\ x.at = "code"
        /\ x.depth = Top(c).depth + 1 /\ x.depth > 0 /\ x.depth # 0
        /\ x.walk = Top(c).walk /\ x.prior = Top(c).prior
    <3>1. /\ x.kind = Top(c).kind /\ x.at = "code" /\ x.depth = Top(c).depth + 1
          /\ x.walk = Top(c).walk /\ x.prior = Top(c).prior
      BY <1>1 DEF Context
    <3>2. Top(c).depth + 1 \in Nat /\ Top(c).depth + 1 > 0
      BY <1>1
    <3>3. x \in Context
      <4> DEFINE n == Top(c).depth + 1
      <4>1. n \in Nat
        BY <3>2
      <4> HIDE DEF n
      <4>2. [Top(c) EXCEPT !.at = "code", !.depth = n] \in Context
        BY <1>1, <4>1 DEF Context, Step
      <4> QED
        BY <4>2 DEF n
    <3> QED
      BY <3>1, <3>2, <3>3
  <2> HIDE DEF x
  <2>3. Fits(Top(c), masked[c], savedMask[c]) /\ nesting[c] = Top(c).depth
    BY <1>6, TopIs
  <2>4. Top(c).depth > 0 /\ ~x.walk
    BY <1>1, <1>6, <2>2, <2>3
  <2>5. Fits(x, masked'[c], savedMask'[c])
    <3>1. savedMask[c] = x.prior
      BY <2>2, <2>3, <2>4 DEF Fits
    <3> QED
      BY <1>2, <1>3, <2>2, <2>4, <3>1 DEF Fits
  <2>6. LockFits'
    <3>1. Holds(x) /\ Holds(Top(c))
      BY <2>2, <2>4 DEF Holds
    <3> QED
      BY <1>2, <2>1, <2>2, <3>1, LockUnmoved
  <2>7. /\ nesting' \in [Core -> Nat] /\ nesting'[c] = x.depth
        /\ \A d \in Core : d # c => nesting'[d] = nesting[d]
    BY <1>1, <2>1, <2>2, <2>3
  <2> QED
    BY <1>1, <1>2, <1>3, <1>6, <2>1, <2>2, <2>5, <2>6, <2>7, SectionStepKeeps DEF SectionTypes
<1> QED
  BY <1>4, <1>5, <1>6

\* Under a context that may enter the kernel, nobody is on the way to the lock.
LEMMA OnlyTop ==
    ASSUME SectionIInv, NEW c \in Core, Top(c).kind # "fast",
           NEW i \in DOMAIN contexts[c], i # Len(contexts[c])
    PROVE  contexts[c][i].at \in {"code", "masking"}
<1>1. /\ SectionTypes /\ CoreFits(c) /\ Len(contexts[c]) \in {1, 2}
      /\ DOMAIN contexts[c] = 1 .. Len(contexts[c]) /\ contexts[c][1] \in Context
  <2>1. SectionTypes /\ CoreFits(c)
    BY DEF SectionIInv
  <2> QED
    BY <2>1, ContextShape
<1>2. Len(contexts[c]) = 2 /\ i = 1
  <2> DEFINE n == Len(contexts[c])
  <2>1. i \in 1 .. n /\ (n = 1 \/ n = 2) /\ i # n
    BY <1>1
  <2> HIDE DEF n
  <2>2. n = 2 /\ i = 1
    BY <2>1
  <2> QED
    BY <2>2 DEF n
<1>3. Fits(contexts[c][1], FALSE, savedMask[c])
  BY <1>1, <1>2, TopFits DEF UnderInterrupt
<1> QED
  BY <1>1, <1>2, <1>3 DEF Fits, Context, Step

\* Enter: the lock is looked at.
LEMMA LoadLockKeeps ==
    ASSUME SectionIInv, NEW c \in Core, LoadLock(c)
    PROVE  SectionIInv'
<1>1. /\ SectionTypes /\ LockFits /\ Top(c) \in Context /\ Top(c).at = "load"
      /\ Top(c).kind # "fast" /\ reserved \in [Core -> BOOLEAN]
      /\ Fits(Top(c), masked[c], savedMask[c]) /\ nesting[c] = Top(c).depth
  BY TopIs DEF SectionTypes, LoadLock
<1>2. /\ masking' = masking /\ locked' = locked /\ masked' = masked /\ nesting' = nesting
      /\ savedMask' = savedMask /\ reserved' = [reserved EXCEPT ![c] = TRUE]
  BY DEF LoadLock
<1>3. reserved' \in [Core -> BOOLEAN] /\ \A d \in Core : d # c => reserved'[d] = reserved[d]
  BY <1>1, <1>2
<1>4. CASE locked
  <2>1. contexts' = contexts
    BY <1>4 DEF LoadLock
  <2>2. ASSUME NEW d \in Core PROVE CoreFits(d)'
    <3>1. CoreFits(d)
      BY DEF SectionIInv
    <3> QED
      BY <1>2, <2>1, <3>1 DEF CoreFits, UnderInterrupt, UnderFast
  <2>3. Holders' = Holders
    BY <2>1 DEF Holders
  <2>4. ASSUME NEW d \in Core, NEW i \in DOMAIN contexts[d],
               contexts[d][i].at = "store", reserved'[d]
        PROVE  ~locked
    <3>1. CASE d # c
      BY <1>1, <1>3, <2>4, <3>1 DEF LockFits
    <3>2. CASE d = c
      <4>1. i = Len(contexts[c])
        BY <1>1, <2>4, <3>2, OnlyTop
      <4> QED
        BY <1>1, <2>4, <3>2, <4>1, ContextShape
    <3> QED
      BY <3>1, <3>2
  <2>5. LockFits'
    BY <1>1, <1>2, <2>1, <2>3, <2>4 DEF LockFits
  <2>6. SectionTypes'
    BY <1>1, <1>2, <1>3, <2>1 DEF SectionTypes
  <2> QED
    BY <2>2, <2>5, <2>6 DEF SectionIInv
<1>5. CASE ~locked
  <2> DEFINE x == [Top(c) EXCEPT !.at = "store"]
  <2>1. SetTop(c, x)
    BY <1>5 DEF LoadLock, GoTo
  <2>2. /\ x \in Context /\ x.kind = Top(c).kind /\ x.at = "store" /\ x.depth = Top(c).depth
        /\ x.walk = Top(c).walk /\ x.prior = Top(c).prior /\ x.mask = Top(c).mask
    BY <1>1 DEF Context, Step
  <2> HIDE DEF x
  <2>3. Fits(x, masked[c], savedMask[c])
    BY <1>1, <2>2 DEF Fits
  <2>4. LockFits'
    <3>1. Holds(x) <=> Holds(Top(c))
      BY <1>1, <2>2 DEF Holds
    <3> QED
      BY <1>2, <1>3, <1>5, <2>1, <2>2, <3>1, LockUnmoved
  <2> QED
    BY <1>1, <1>2, <1>3, <2>1, <2>2, <2>3, <2>4, SectionStepKeeps DEF SectionTypes
<1> QED
  BY <1>4, <1>5

\* The store that wins takes a free lock: nobody holds it.
LEMMA StoreLockKeeps ==
    ASSUME SectionIInv, NEW c \in Core, StoreLock(c)
    PROVE  SectionIInv'
<1>1. /\ SectionTypes /\ LockFits /\ Top(c) \in Context /\ Top(c).at = "store"
      /\ Top(c).kind # "fast" /\ reserved \in [Core -> BOOLEAN]
      /\ Fits(Top(c), masked[c], savedMask[c]) /\ nesting[c] = Top(c).depth
  BY TopIs DEF SectionTypes, StoreLock
<1>2. /\ masking' = masking /\ masked' = masked /\ nesting' = nesting /\ savedMask' = savedMask
  BY DEF StoreLock
<1>3. CASE StoreSucceeds(c)
  <2> DEFINE x == [Top(c) EXCEPT !.at = "door"]
  <2>1. SetTop(c, x) /\ locked' = TRUE /\ reserved' = [d \in Core |-> FALSE]
    BY <1>3 DEF StoreLock, GoTo
  <2>2. /\ x \in Context /\ x.kind = Top(c).kind /\ x.at = "door" /\ x.depth = Top(c).depth
        /\ x.walk = Top(c).walk /\ x.prior = Top(c).prior /\ x.mask = Top(c).mask
    BY <1>1 DEF Context, Step
  <2> HIDE DEF x
  <2>3. Fits(x, masked[c], savedMask[c])
    BY <1>1, <2>2 DEF Fits
  <2>4. Holders = {}
    <3>1. Len(contexts[c]) \in DOMAIN contexts[c] /\ Top(c) = contexts[c][Len(contexts[c])]
      <4> DEFINE n == Len(contexts[c])
      <4>1. n \in {1, 2} /\ DOMAIN contexts[c] = 1 .. n /\ Top(c) = contexts[c][n]
        BY <1>1, ContextShape
      <4> HIDE DEF n
      <4>2. n \in 1 .. n
        BY <4>1
      <4> QED
        BY <4>1, <4>2 DEF n
    <3>2. ~locked
      BY <1>1, <1>3, <3>1 DEF LockFits, StoreSucceeds
    <3> QED
      BY <1>1, <3>2 DEF LockFits
  <2>5. Holders' = {<<c, Len(contexts[c])>>}
    <3>1. Holds(x)
      BY <2>2 DEF Holds
    <3> QED
      BY <1>1, <2>1, <2>2, <2>4, <3>1, HoldersAfter
  <2>6. LockFits'
    <3>1. \A d \in Core : ~reserved'[d]
      BY <2>1
    <3> QED
      BY <2>1, <2>5, <3>1 DEF LockFits
  <2>7. locked' \in BOOLEAN /\ reserved' \in [Core -> BOOLEAN]
    BY <2>1
  <2> QED
    BY <1>1, <1>2, <2>1, <2>2, <2>3, <2>6, <2>7, SectionStepKeeps DEF SectionTypes
<1>4. CASE ~StoreSucceeds(c)
  <2> DEFINE x == [Top(c) EXCEPT !.at = "load"]
  <2>1. SetTop(c, x) /\ locked' = locked /\ reserved' = reserved
    BY <1>4 DEF StoreLock, GoTo
  <2>2. /\ x \in Context /\ x.kind = Top(c).kind /\ x.at = "load" /\ x.depth = Top(c).depth
        /\ x.walk = Top(c).walk /\ x.prior = Top(c).prior /\ x.mask = Top(c).mask
    BY <1>1 DEF Context, Step
  <2> HIDE DEF x
  <2>3. Fits(x, masked[c], savedMask[c])
    BY <1>1, <2>2 DEF Fits
  <2>4. LockFits'
    <3>1. Holds(x) <=> Holds(Top(c))
      BY <1>1, <2>2 DEF Holds
    <3> QED
      BY <2>1, <2>2, <3>1, LockUnmoved
  <2> QED
    BY <1>1, <1>2, <2>1, <2>2, <2>3, <2>4, SectionStepKeeps DEF SectionTypes
<1> QED
  BY <1>3, <1>4

\* The one holder gives the lock back.
LEMMA LockFreed ==
    ASSUME SectionIInv, NEW c \in Core, NEW x \in Context, SetTop(c, x),
           Holds(Top(c)), ~Holds(x), FreeLock
    PROVE  LockFits'
<1>1. SectionTypes /\ LockFits
  BY DEF SectionIInv
<1>2. Holders' = {}
  <2>1. Holders = {<<c, Len(contexts[c])>>}
    BY <1>1, HoldersAfter DEF LockFits
  <2> QED
    BY <1>1, <2>1, HoldersAfter
<1>3. locked' = FALSE /\ \A d \in Core : ~reserved'[d]
  BY DEF FreeLock
<1> QED
  BY <1>2, <1>3 DEF LockFits

\* Enter: the wait at the lock ends.
LEMMA LeaveDoorKeeps ==
    ASSUME SectionIInv, NEW c \in Core, LeaveDoor(c)
    PROVE  SectionIInv'
<1> DEFINE x == [Top(c) EXCEPT !.at = "load"]
<1>1. /\ SectionTypes /\ Top(c) \in Context /\ Top(c).at = "door"
      /\ Top(c).kind # "fast"
      /\ Fits(Top(c), masked[c], savedMask[c]) /\ nesting[c] = Top(c).depth
  BY TopIs DEF LeaveDoor
<1>2. /\ masking' = masking /\ masked' = masked /\ nesting' = nesting /\ savedMask' = savedMask
      /\ FreeLock /\ SetTop(c, x)
  BY DEF LeaveDoor, GoTo
<1>3. /\ x \in Context /\ x.kind = Top(c).kind /\ x.at = "load" /\ x.depth = Top(c).depth
      /\ x.walk = Top(c).walk /\ x.prior = Top(c).prior /\ x.mask = Top(c).mask
  BY <1>1 DEF Context, Step
<1> HIDE DEF x
<1>4. Fits(x, masked[c], savedMask[c])
  BY <1>1, <1>3 DEF Fits
<1>5. LockFits'
  <2>1. Holds(Top(c)) /\ ~Holds(x)
    BY <1>1, <1>3 DEF Holds, Fits
  <2> QED
    BY <1>2, <1>3, <2>1, LockFreed
<1>6. locked' \in BOOLEAN /\ reserved' \in [Core -> BOOLEAN]
  BY <1>2 DEF FreeLock
<1> QED
  BY <1>1, <1>2, <1>3, <1>4, <1>5, <1>6, SectionStepKeeps DEF SectionTypes

\* Enter: the lock is taken.
LEMMA PassDoorKeeps ==
    ASSUME SectionIInv, NEW c \in Core, PassDoor(c)
    PROVE  SectionIInv'
<1>1. /\ SectionTypes /\ Top(c) \in Context /\ Top(c).at = "door" /\ Top(c).kind # "fast"
      /\ Fits(Top(c), masked[c], savedMask[c]) /\ nesting[c] = Top(c).depth
      /\ nesting \in [Core -> Nat] /\ savedMask \in [Core -> BOOLEAN] /\ Top(c).depth \in Nat
      /\ Top(c).mask \in BOOLEAN
  BY TopIs DEF PassDoor, SectionTypes
<1>2. /\ masking' = masking /\ masked' = masked /\ locked' = locked /\ reserved' = reserved
  BY DEF PassDoor
<1>3. Top(c).depth = 0 /\ nesting[c] = 0 /\ masked[c] /\ Top(c).mask = Top(c).prior
  BY <1>1 DEF Fits
<1>4. CASE Top(c).walk
  <2> DEFINE x == [Top(c) EXCEPT !.at = "walking"]
  <2>1. SetTop(c, x) /\ nesting' = nesting /\ savedMask' = savedMask
    BY <1>4 DEF PassDoor, GoTo
  <2>2. /\ x \in Context /\ x.kind = Top(c).kind /\ x.at = "walking" /\ x.depth = Top(c).depth
        /\ x.walk = Top(c).walk /\ x.prior = Top(c).prior /\ x.mask = Top(c).mask
    BY <1>1 DEF Context, Step
  <2> HIDE DEF x
  <2>3. Fits(x, masked[c], savedMask[c])
    BY <1>1, <1>4, <2>2 DEF Fits
  <2>4. LockFits'
    <3>1. Holds(x) <=> Holds(Top(c))
      BY <1>1, <2>2 DEF Holds
    <3> QED
      BY <1>2, <2>1, <2>2, <3>1, LockUnmoved
  <2> QED
    BY <1>1, <1>2, <2>1, <2>2, <2>3, <2>4, SectionStepKeeps DEF SectionTypes
<1>5. CASE ~Top(c).walk
  <2> DEFINE x == [Top(c) EXCEPT !.at = "code", !.depth = @ + 1]
  <2>1. /\ SetTop(c, x) /\ nesting' = [nesting EXCEPT ![c] = @ + 1]
        /\ savedMask' = [savedMask EXCEPT ![c] = Top(c).mask]
    BY <1>5 DEF PassDoor
  <2>2. /\ x \in Context /\ x.kind = Top(c).kind /\ x.at = "code" /\ x.depth = 1
        /\ x.walk = Top(c).walk /\ x.prior = Top(c).prior
    <3>1. Top(c).depth + 1 = 1
      BY <1>3
    <3>2. x = [Top(c) EXCEPT !.at = "code", !.depth = 1]
      BY <1>1, <3>1 DEF Context
    <3> HIDE DEF x
    <3> QED
      BY <1>1, <3>2 DEF Context, Step
  <2> HIDE DEF x
  <2>3. /\ nesting' \in [Core -> Nat] /\ nesting'[c] = x.depth
        /\ \A d \in Core : d # c => nesting'[d] = nesting[d]
    BY <1>1, <1>3, <2>1, <2>2
  <2>4. /\ savedMask' \in [Core -> BOOLEAN] /\ savedMask'[c] = Top(c).mask
        /\ \A d \in Core : d # c => savedMask'[d] = savedMask[d]
    BY <1>1, <2>1
  <2>5. Fits(x, masked[c], savedMask'[c])
    <3>1. savedMask'[c] = x.prior
      BY <1>3, <2>2, <2>4
    <3> QED
      BY <1>3, <1>5, <2>2, <3>1 DEF Fits
  <2>6. LockFits'
    <3>1. Holds(x) /\ Holds(Top(c))
      BY <1>1, <2>2 DEF Holds
    <3> QED
      BY <1>2, <2>1, <2>2, <3>1, LockUnmoved
  <2> QED
    BY <1>1, <1>2, <2>1, <2>2, <2>3, <2>4, <2>5, <2>6, SectionStepKeeps DEF SectionTypes
<1> QED
  BY <1>4, <1>5

\* Exit of a nested section.
LEMMA ExitNestedKeeps ==
    ASSUME SectionIInv, NEW c \in Core, ExitNested(c)
    PROVE  SectionIInv'
<1> DEFINE x == [Top(c) EXCEPT !.depth = @ - 1]
<1>1. /\ SectionTypes /\ Top(c) \in Context /\ Top(c).at = "code" /\ Top(c).kind # "fast"
      /\ Fits(Top(c), masked[c], savedMask[c]) /\ nesting[c] = Top(c).depth
      /\ nesting \in [Core -> Nat] /\ Top(c).depth \in Nat /\ Top(c).depth > 1
  <2>1. Top(c).at = "code" /\ Top(c).depth > 0 /\ nesting[c] > 1
    BY DEF ExitNested
  <2>2. Top(c).kind # "fast"
    BY <2>1, TopIs
  <2> QED
    BY <2>1, <2>2, TopIs DEF SectionTypes
<1>2. /\ masking' = masking /\ masked' = masked /\ locked' = locked /\ reserved' = reserved
      /\ savedMask' = savedMask /\ SetTop(c, x) /\ nesting' = [nesting EXCEPT ![c] = @ - 1]
  BY DEF ExitNested
<1>3. /\ x \in Context /\ x.kind = Top(c).kind /\ x.at = "code" /\ x.depth = Top(c).depth - 1
      /\ x.walk = Top(c).walk /\ x.prior = Top(c).prior
  <2> DEFINE n == Top(c).depth - 1
  <2>1. n \in Nat
    BY <1>1
  <2> HIDE DEF n
  <2>2. [Top(c) EXCEPT !.depth = n] \in Context
    BY <1>1, <2>1 DEF Context
  <2>3. x = [Top(c) EXCEPT !.depth = n]
    BY <1>1 DEF Context, n
  <2>4. /\ x.kind = Top(c).kind /\ x.at = "code" /\ x.depth = Top(c).depth - 1
        /\ x.walk = Top(c).walk /\ x.prior = Top(c).prior
    BY <1>1 DEF Context
  <2> QED
    BY <2>2, <2>3, <2>4
<1> HIDE DEF x
<1>4. /\ nesting' \in [Core -> Nat] /\ nesting'[c] = x.depth /\ x.depth > 0 /\ x.depth # 0
      /\ \A d \in Core : d # c => nesting'[d] = nesting[d]
  BY <1>1, <1>2, <1>3
<1>5. Fits(x, masked[c], savedMask[c])
  <2>1. masked[c] /\ savedMask[c] = x.prior /\ ~x.walk
    BY <1>1, <1>3 DEF Fits
  <2> QED
    BY <1>3, <1>4, <2>1 DEF Fits
<1>6. LockFits'
  <2>1. Holds(x) /\ Holds(Top(c))
    BY <1>1, <1>4 DEF Holds
  <2> QED
    BY <1>2, <1>3, <2>1, LockUnmoved
<1> QED
  BY <1>1, <1>2, <1>3, <1>4, <1>5, <1>6, SectionStepKeeps DEF SectionTypes

\* Exit: the lock is given up.
LEMMA UnlockKeeps ==
    ASSUME SectionIInv, NEW c \in Core, Unlock(c)
    PROVE  SectionIInv'
<1> DEFINE x == [Top(c) EXCEPT !.at = "unmask", !.depth = 0]
<1>1. /\ SectionTypes /\ Top(c) \in Context /\ nesting \in [Core -> Nat]
      /\ \/ Top(c).at = "code" /\ Top(c).depth > 0
         \/ Top(c).at = "walking"
  BY TopIs DEF Unlock, SectionTypes
<1>2. /\ Top(c).kind # "fast" /\ Fits(Top(c), masked[c], savedMask[c])
      /\ Top(c).depth \in Nat
  <2>1. Top(c).kind # "fast"
    BY <1>1, TopIs
  <2> QED
    BY <2>1, TopIs
<1>3. /\ masking' = masking /\ masked' = masked /\ savedMask' = savedMask
      /\ FreeLock /\ SetTop(c, x) /\ nesting' = [nesting EXCEPT ![c] = 0]
  BY DEF Unlock
<1>4. /\ x \in Context /\ x.kind = Top(c).kind /\ x.at = "unmask" /\ x.depth = 0
      /\ x.walk = Top(c).walk /\ x.prior = Top(c).prior /\ x.mask = Top(c).mask
  BY <1>1 DEF Context, Step
<1> HIDE DEF x
<1>5. Fits(x, masked[c], savedMask[c])
  <2>1. CASE Top(c).at = "walking"
    BY <1>2, <1>4, <2>1 DEF Fits
  <2>2. CASE Top(c).at = "code" /\ Top(c).depth > 0
    <3>1. masked[c] /\ savedMask[c] = x.prior /\ ~x.walk
      BY <1>2, <1>4, <2>2 DEF Fits
    <3> QED
      BY <1>4, <3>1 DEF Fits
  <2> QED
    BY <1>1, <2>1, <2>2
<1>6. LockFits'
  <2>1. Holds(Top(c)) /\ ~Holds(x)
    BY <1>1, <1>4 DEF Holds
  <2> QED
    BY <1>3, <1>4, <2>1, LockFreed
<1>7. /\ nesting' \in [Core -> Nat] /\ nesting'[c] = x.depth
      /\ \A d \in Core : d # c => nesting'[d] = nesting[d]
  BY <1>1, <1>3, <1>4
<1>8. locked' \in BOOLEAN /\ reserved' \in [Core -> BOOLEAN]
  BY <1>3 DEF FreeLock
<1> QED
  BY <1>1, <1>2, <1>3, <1>4, <1>5, <1>6, <1>7, <1>8, SectionStepKeeps DEF SectionTypes

\* Exit: the mask is restored.
LEMMA RestoreMaskKeeps ==
    ASSUME SectionIInv, NEW c \in Core, RestoreMask(c)
    PROVE  SectionIInv'
<1> DEFINE x == [Top(c) EXCEPT !.at = "code", !.walk = FALSE]
<1>1. /\ SectionTypes /\ Top(c) \in Context /\ Top(c).at = "unmask" /\ Top(c).kind # "fast"
      /\ Fits(Top(c), masked[c], savedMask[c]) /\ nesting[c] = Top(c).depth
      /\ masked \in [Core -> BOOLEAN] /\ savedMask[c] \in BOOLEAN /\ Top(c).mask \in BOOLEAN
  BY TopIs DEF RestoreMask, SectionTypes
<1>2. /\ masking' = masking /\ nesting' = nesting /\ locked' = locked /\ reserved' = reserved
      /\ savedMask' = savedMask /\ SetTop(c, x)
      /\ masked' = [masked EXCEPT ![c] = SavedState(c)]
  BY DEF RestoreMask
<1>3. /\ x \in Context /\ x.kind = Top(c).kind /\ x.at = "code" /\ x.depth = Top(c).depth
      /\ x.walk = FALSE /\ x.prior = Top(c).prior
  BY <1>1 DEF Context, Step
<1> HIDE DEF x
<1>4. SavedState(c) \in BOOLEAN
  BY <1>1 DEF SavedState
<1>5. /\ masked' \in [Core -> BOOLEAN] /\ masked'[c] = SavedState(c)
      /\ \A d \in Core : d # c => masked'[d] = masked[d]
  BY <1>1, <1>2, <1>4
<1>6. Top(c).depth = 0 /\ SavedState(c) = Top(c).prior
  BY <1>1 DEF Fits, SavedState
<1>7. Fits(x, masked'[c], savedMask[c])
  BY <1>3, <1>5, <1>6 DEF Fits
<1>8. LockFits'
  <2>1. Holds(x) <=> Holds(Top(c))
    BY <1>1, <1>3 DEF Holds
  <2> QED
    BY <1>2, <1>3, <2>1, LockUnmoved
<1> QED
  BY <1>1, <1>2, <1>3, <1>5, <1>7, <1>8, SectionStepKeeps DEF SectionTypes

-----------------------------------------------------------------------------
(* Handlers come and go.                                                   *)

\* A context that does not hold the lock appears on a core, or ends.
LEMMA LockNotTouched ==
    ASSUME SectionIInv, NEW c \in Core, locked' = locked,
           \A d \in Core : d # c => contexts'[d] = contexts[d] /\ reserved'[d] = reserved[d],
           contexts'[c][1] = contexts[c][1], DOMAIN contexts'[c] = 1 .. Len(contexts'[c]),
           Len(contexts[c]) \in {1, 2}, Len(contexts'[c]) \in {1, 2},
           Len(contexts[c]) = 2 => ~Holds(contexts[c][2]),
           Len(contexts'[c]) = 2 => ~Holds(contexts'[c][2]) /\ contexts'[c][2].at # "store",
           reserved'[c] => reserved[c]
    PROVE  LockFits'
<1>1. SectionTypes /\ LockFits
  BY DEF SectionIInv
<1>2. ASSUME NEW d \in Core, NEW i \in {1, 2}
      PROVE  <<d, i>> \in Holders' <=> <<d, i>> \in Holders
  <2>1. <<d, i>> \in Holders <=> i <= Len(contexts[d]) /\ Holds(contexts[d][i])
    BY DEF Holders
  <2>2. <<d, i>> \in Holders' <=> i <= Len(contexts'[d]) /\ Holds(contexts'[d][i])
    BY DEF Holders
  <2>3. CASE d # c
    BY <2>1, <2>2, <2>3
  <2>4. CASE d = c /\ i = 1
    BY <2>1, <2>2, <2>4
  <2>5. CASE d = c /\ i = 2
    <3>1. <<d, i>> \notin Holders
      BY <2>1, <2>5
    <3>2. <<d, i>> \notin Holders'
      BY <2>2, <2>5
    <3> QED
      BY <3>1, <3>2
  <2> QED
    BY <2>3, <2>4, <2>5
<1>3. Holders' = Holders
  <2>1. Holders \subseteq Core \X {1, 2} /\ Holders' \subseteq Core \X {1, 2}
    BY DEF Holders
  <2>2. ASSUME NEW p \in Core \X {1, 2}
        PROVE  p \in Holders' <=> p \in Holders
    <3>1. PICK d \in Core, i \in {1, 2} : p = <<d, i>>
      OBVIOUS
    <3> QED
      BY <1>2, <3>1
  <2> QED
    BY <2>1, <2>2
<1>4. ASSUME NEW d \in Core, NEW i \in DOMAIN contexts'[d],
             contexts'[d][i].at = "store", reserved'[d]
      PROVE  ~locked
  <2>1. CASE d # c
    BY <1>1, <1>4, <2>1 DEF LockFits
  <2>2. CASE d = c
    <3> DEFINE n == Len(contexts'[c])
    <3>1. i \in 1 .. n /\ n \in {1, 2} /\ (n = 2 => i # 2)
      BY <1>4, <2>2
    <3> HIDE DEF n
    <3>2. i = 1
      BY <3>1
    <3>3. 1 \in DOMAIN contexts[c]
      <4> DEFINE k == Len(contexts[c])
      <4>1. DOMAIN contexts[c] = 1 .. k /\ k \in {1, 2}
        BY <1>1, ContextShape
      <4> HIDE DEF k
      <4> QED
        BY <4>1
    <3> QED
      BY <1>1, <1>4, <2>2, <3>2, <3>3 DEF LockFits
  <2> QED
    BY <2>1, <2>2
<1> QED
  BY <1>1, <1>3, <1>4 DEF LockFits

\* An interrupt is taken.
LEMMA TakeInterruptKeeps ==
    ASSUME SectionIInv, NEW c \in Core, NEW kind \in {"interrupt", "fast"},
           TakeInterrupt(c, kind)
    PROVE  SectionIInv'
<1> DEFINE x == FreshContext(kind, masked'[c])
           s == contexts[c]
<1>1. /\ SectionTypes /\ (\A d \in Core : CoreFits(d)) /\ CoreFits(c)
      /\ masked \in [Core -> BOOLEAN] /\ reserved \in [Core -> BOOLEAN]
      /\ contexts \in [Core -> Seq(Context)] /\ \A d \in Core : Len(contexts[d]) \in {1, 2}
  BY DEF SectionIInv, SectionTypes
<1>2. /\ Len(s) = 1 /\ masking' = masking /\ locked' = locked /\ nesting' = nesting
      /\ savedMask' = savedMask
      /\ masked' = [masked EXCEPT ![c] = @ \/ masking = "mie"]
      /\ reserved' = [reserved EXCEPT ![c] = FALSE]
      /\ contexts' = [contexts EXCEPT ![c] = Append(s, x)]
      /\ IF kind = "fast" THEN masking = "basepri" ELSE ~masked[c]
  BY <1>1 DEF TakeInterrupt
<1>3. /\ masked'[c] = (masked[c] \/ masking = "mie") /\ masked'[c] \in BOOLEAN
      /\ masked' \in [Core -> BOOLEAN] /\ \A d \in Core : d # c => masked'[d] = masked[d]
  BY <1>1, <1>2
<1>4. /\ reserved' \in [Core -> BOOLEAN] /\ ~reserved'[c]
      /\ \A d \in Core : d # c => reserved'[d] = reserved[d]
  BY <1>1, <1>2
<1>5. /\ x \in Context /\ x.kind = kind /\ x.at = "code" /\ x.depth = 0 /\ x.walk = FALSE
      /\ x.prior = masked'[c]
  BY <1>3 DEF FreshContext, Context, Step
<1> HIDE DEF x
<1>6. /\ Append(s, x) \in Seq(Context) /\ Len(Append(s, x)) = 2
      /\ Append(s, x)[1] = s[1] /\ Append(s, x)[2] = x
  <2>1. s \in Seq(Context) /\ Len(s) = 1 /\ x \in Context
    BY <1>1, <1>2, <1>5
  <2>2. /\ Append(s, x) \in Seq(Context) /\ Len(Append(s, x)) = Len(s) + 1
        /\ \A i \in 1 .. Len(s) : Append(s, x)[i] = s[i]
        /\ Append(s, x)[Len(s) + 1] = x
    BY <2>1, AppendedContext
  <2>3. Len(s) + 1 = 2 /\ 1 \in 1 .. Len(s)
    BY <2>1
  <2> QED
    BY <2>2, <2>3
<1>7. /\ contexts'[c] = Append(s, x) /\ contexts' \in [Core -> Seq(Context)]
      /\ \A d \in Core : d # c => contexts'[d] = contexts[d]
  BY <1>1, <1>2, <1>6
<1> HIDE DEF s
<1>8. /\ Len(contexts'[c]) = 2 /\ contexts'[c][1] = contexts[c][1] /\ contexts'[c][2] = x
      /\ Len(contexts[c]) = 1
  BY <1>2, <1>6, <1>7 DEF s
<1>9. /\ contexts[c][1].kind = "task" /\ nesting[c] = contexts[c][1].depth
      /\ Fits(contexts[c][1], masked[c], savedMask[c]) /\ contexts[c][1].depth \in Nat
  <2>1. contexts[c][1] \in Context
    BY <1>1, <1>8, ContextShape
  <2> QED
    BY <1>1, <1>8, <2>1 DEF CoreFits, Context
<1>10. CoreFits(c)'
  <2>1. CASE kind = "interrupt"
    <3>1. ~masked[c] /\ masked'[c] = (masking = "mie")
      BY <1>2, <1>3, <2>1
    <3>2. Fits(contexts[c][1], FALSE, savedMask[c])
      BY <1>1, <1>9, <3>1
    <3>3. contexts[c][1].depth = 0
      BY <1>9, <3>2 DEF Fits
    <3>4. Fits(x, masked'[c], savedMask[c])
      BY <1>5 DEF Fits
    <3>5. UnderInterrupt(c)'
      BY <1>2, <1>5, <1>8, <1>9, <2>1, <3>1, <3>2, <3>3, <3>4 DEF UnderInterrupt
    <3> QED
      BY <1>8, <1>9, <3>5 DEF CoreFits
  <2>2. CASE kind = "fast"
    <3>1. masking = "basepri" /\ masked'[c] = masked[c]
      BY <1>1, <1>2, <1>3, <2>2
    <3>2. UnderFast(c)'
      BY <1>2, <1>5, <1>8, <1>9, <2>2, <3>1 DEF UnderFast
    <3> QED
      BY <1>8, <1>9, <3>2 DEF CoreFits
  <2> QED
    BY <2>1, <2>2
<1>11. (\A d \in Core : CoreFits(d))'
  BY <1>1, <1>2, <1>3, <1>7, <1>10, OthersKeep
<1>12. LockFits'
  <2>1. ~Holds(x) /\ x.at # "store"
    BY <1>5 DEF Holds
  <2>2. DOMAIN contexts'[c] = 1 .. Len(contexts'[c])
    BY <1>6, <1>7, LenProperties
  <2>3. Len(contexts[c]) \in {1, 2} /\ Len(contexts'[c]) \in {1, 2}
    BY <1>8
  <2>4. /\ Len(contexts[c]) = 2 => ~Holds(contexts[c][2])
        /\ Len(contexts'[c]) = 2 => ~Holds(contexts'[c][2]) /\ contexts'[c][2].at # "store"
    BY <1>8, <2>1
  <2>5. reserved'[c] => reserved[c]
    BY <1>4
  <2> QED
    BY <1>2, <1>4, <1>7, <1>8, <2>2, <2>3, <2>4, <2>5, LockNotTouched
<1>13. SectionTypes'
  <2>1. \A d \in Core : Len(contexts'[d]) \in {1, 2}
    BY <1>1, <1>7, <1>8
  <2> QED
    BY <1>1, <1>2, <1>3, <1>4, <1>7, <2>1 DEF SectionTypes
<1> QED
  BY <1>11, <1>12, <1>13 DEF SectionIInv

\* An interrupt returns.
LEMMA ReturnFromInterruptKeeps ==
    ASSUME SectionIInv, NEW c \in Core, ReturnFromInterrupt(c)
    PROVE  SectionIInv'
<1> DEFINE s == contexts[c]
<1>1. /\ SectionTypes /\ (\A d \in Core : CoreFits(d)) /\ CoreFits(c)
      /\ masked \in [Core -> BOOLEAN]
      /\ contexts \in [Core -> Seq(Context)] /\ \A d \in Core : Len(contexts[d]) \in {1, 2}
  BY DEF SectionIInv, SectionTypes
<1>2. /\ Len(s) = 2 /\ masking' = masking /\ locked' = locked /\ nesting' = nesting
      /\ savedMask' = savedMask /\ reserved' = reserved
      /\ masked' = [masked EXCEPT ![c] = @ /\ masking # "mie"]
      /\ contexts' = [contexts EXCEPT ![c] = Front(s)]
      /\ Top(c).at = "code" /\ Top(c).depth = 0
  BY <1>1 DEF ReturnFromInterrupt
<1>3. /\ masked'[c] = (masked[c] /\ masking # "mie") /\ masked[c] \in BOOLEAN
      /\ masked' \in [Core -> BOOLEAN] /\ \A d \in Core : d # c => masked'[d] = masked[d]
  BY <1>1, <1>2
<1>4. /\ Top(c) = s[2] /\ s \in Seq(Context) /\ s[1] \in Context /\ s[2] \in Context
  <2>1. Top(c) = s[Len(s)] /\ s \in Seq(Context) /\ \A i \in 1 .. Len(s) : s[i] \in Context
    BY <1>1, ContextShape
  <2> QED
    BY <1>2, <2>1
<1>5. /\ Front(s) \in Seq(Context) /\ Len(Front(s)) = 1 /\ Front(s)[1] = s[1]
  <2>1. Front(s) = SubSeq(s, 1, 1)
    BY <1>2 DEF Front
  <2>2. \A i \in 1 .. 1 : s[i] \in Context
    BY <1>4
  <2> QED
    BY <2>1, <2>2, SubSeqProperties
<1>6. /\ contexts'[c] = Front(s) /\ contexts' \in [Core -> Seq(Context)]
      /\ \A d \in Core : d # c => contexts'[d] = contexts[d]
  BY <1>1, <1>2, <1>5
<1>7. /\ Len(contexts'[c]) = 1 /\ contexts'[c][1] = contexts[c][1] /\ Len(contexts[c]) = 2
      /\ Top(c) = contexts[c][2]
  BY <1>2, <1>4, <1>5, <1>6
<1> HIDE DEF s
<1>8. contexts[c][1].kind = "task" /\ (UnderInterrupt(c) \/ UnderFast(c))
  BY <1>1, <1>7 DEF CoreFits
<1>9. Fits(contexts[c][1], masked'[c], savedMask[c]) /\ nesting[c] = contexts[c][1].depth
  <2>1. CASE UnderInterrupt(c)
    <3>1. masked[c] = (masking = "mie") /\ nesting[c] = 0
      BY <1>2, <1>7, <2>1 DEF UnderInterrupt, Fits
    <3>2. masked'[c] = FALSE
      BY <1>3, <3>1
    <3>3. Fits(contexts[c][1], FALSE, savedMask[c])
      BY <2>1 DEF UnderInterrupt
    <3>4. contexts[c][1].depth = 0
      <4>1. contexts[c][1].depth \in Nat
        BY <1>4 DEF s, Context
      <4> QED
        BY <3>3, <4>1 DEF Fits
    <3> QED
      BY <3>1, <3>2, <3>3, <3>4
  <2>2. CASE UnderFast(c)
    <3>1. /\ masking = "basepri" /\ Fits(contexts[c][1], masked[c], savedMask[c])
          /\ nesting[c] = contexts[c][1].depth
      BY <1>2, <1>7, <2>2 DEF UnderFast
    <3>2. masked'[c] = masked[c]
      BY <1>3, <3>1
    <3> QED
      BY <3>1, <3>2
  <2> QED
    BY <1>8, <2>1, <2>2
<1>10. CoreFits(c)'
  BY <1>2, <1>7, <1>8, <1>9 DEF CoreFits
<1>11. (\A d \in Core : CoreFits(d))'
  BY <1>1, <1>2, <1>3, <1>6, <1>10, OthersKeep
<1>12. LockFits'
  <2>1. ~Holds(contexts[c][2])
    BY <1>2, <1>7 DEF Holds
  <2>2. DOMAIN contexts'[c] = 1 .. Len(contexts'[c])
    BY <1>5, <1>6, LenProperties
  <2>3. /\ \A d \in Core : d # c => contexts'[d] = contexts[d] /\ reserved'[d] = reserved[d]
        /\ contexts'[c][1] = contexts[c][1]
        /\ Len(contexts[c]) \in {1, 2} /\ Len(contexts'[c]) = 1
        /\ reserved'[c] => reserved[c]
    BY <1>2, <1>6, <1>7
  <2> QED
    BY <1>2, <2>1, <2>2, <2>3, LockNotTouched, SMTT(30)
<1>13. SectionTypes'
  <2>1. \A d \in Core : Len(contexts'[d]) \in {1, 2}
    BY <1>1, <1>6, <1>7
  <2> QED
    BY <1>1, <1>2, <1>3, <1>6, <2>1 DEF SectionTypes
<1> QED
  BY <1>11, <1>12, <1>13 DEF SectionIInv

-----------------------------------------------------------------------------
(* The invariant, and what it is for.                                      *)

\* The variables of the section as they were: the invariant too.
LEMMA SameSectionKeeps ==
    ASSUME SectionIInv, masking' = masking, locked' = locked, reserved' = reserved,
           masked' = masked, nesting' = nesting, savedMask' = savedMask,
           contexts' = contexts
    PROVE  SectionIInv'
<1>1. SectionTypes'
  BY DEF SectionIInv, SectionTypes
<1>2. Holders' = Holders
  BY DEF Holders
<1>3. LockFits'
  BY <1>2 DEF SectionIInv, LockFits
<1>4. ASSUME NEW d \in Core PROVE CoreFits(d)'
  <2>1. CoreFits(d)
    BY DEF SectionIInv
  <2>2. UnderInterrupt(d)' = UnderInterrupt(d)
    BY DEF UnderInterrupt
  <2>3. UnderFast(d)' = UnderFast(d)
    BY DEF UnderFast
  <2> QED
    BY <2>1, <2>2, <2>3 DEF CoreFits
<1> QED
  BY <1>1, <1>3, <1>4 DEF SectionIInv

\* The lock is opened or waited at by another core.
LEMMA MoveDoorKeeps ==
    ASSUME SectionIInv, MoveDoor
    PROVE  SectionIInv'
<1>1. /\ masking' = masking /\ locked' = locked /\ reserved' = reserved /\ masked' = masked
      /\ nesting' = nesting /\ savedMask' = savedMask /\ contexts' = contexts
  BY DEF MoveDoor
<1> QED
  BY <1>1, SameSectionKeeps

\* The invariant of the sections holds at first.
LEMMA SectionInitIInv == SectionInit => SectionIInv
<1> SUFFICES ASSUME SectionInit
             PROVE  SectionIInv
  OBVIOUS
<1> DEFINE x == FreshContext("task", FALSE)
<1>1. /\ x \in Context /\ x.kind = "task" /\ x.at = "code" /\ x.depth = 0 /\ x.walk = FALSE
      /\ x.prior = FALSE
  BY DEF FreshContext, Context, Step
<1>2. /\ masking \in Masking /\ locked = FALSE
      /\ reserved = [c \in Core |-> FALSE] /\ masked = [c \in Core |-> FALSE]
      /\ nesting = [c \in Core |-> 0] /\ savedMask = [c \in Core |-> FALSE]
      /\ contexts = [c \in Core |-> <<x>>]
  BY DEF SectionInit
<1> HIDE DEF x
<1>3. <<x>> \in Seq(Context) /\ Len(<<x>>) = 1 /\ <<x>>[1] = x
  BY <1>1
<1>4. \A c \in Core : Len(contexts[c]) = 1 /\ contexts[c][1] = x
  BY <1>2, <1>3
<1>5. SectionTypes
  <2>1. reserved \in [Core -> BOOLEAN] /\ masked \in [Core -> BOOLEAN]
    BY <1>2
  <2>2. nesting \in [Core -> Nat] /\ savedMask \in [Core -> BOOLEAN]
    BY <1>2
  <2>3. contexts \in [Core -> Seq(Context)]
    BY <1>2, <1>3
  <2> QED
    BY <1>2, <1>4, <2>1, <2>2, <2>3 DEF SectionTypes
<1>6. ASSUME NEW c \in Core
      PROVE  CoreFits(c)
  <2>1. masked[c] = FALSE /\ nesting[c] = 0
    BY <1>2
  <2>2. masked[c] = x.prior /\ ~x.walk
    BY <1>1, <2>1
  <2>3. ~(x.depth > 0)
    BY <1>1
  <2>4. Fits(x, masked[c], savedMask[c])
    BY <1>1, <2>2, <2>3 DEF Fits
  <2> QED
    BY <1>1, <1>4, <2>1, <2>4 DEF CoreFits
<1>7. LockFits
  <2>1. ~Holds(x) /\ \A c \in Core : ~reserved[c]
    BY <1>1, <1>2 DEF Holds
  <2>2. ASSUME NEW p \in Holders
        PROVE  FALSE
    <3>1. PICK c \in Core, i \in {1, 2} :
              p = <<c, i>> /\ i <= Len(contexts[c]) /\ Holds(contexts[c][i])
      BY DEF Holders
    <3>2. i = 1
      BY <1>4, <3>1
    <3> QED
      BY <1>4, <2>1, <3>1, <3>2
  <2> QED
    BY <1>2, <2>1, <2>2 DEF LockFits
<1> QED
  BY <1>5, <1>6, <1>7 DEF SectionIInv

\* Each step keeps it.
LEMMA SectionNextKeeps == SectionIInv /\ [SectionNext]_sectionVars => SectionIInv'
<1> SUFFICES ASSUME SectionIInv, [SectionNext]_sectionVars
             PROVE  SectionIInv'
  OBVIOUS
<1>1. ASSUME UNCHANGED sectionVars
      PROVE  SectionIInv'
  <2>1. /\ masking' = masking /\ locked' = locked /\ reserved' = reserved /\ masked' = masked
        /\ nesting' = nesting /\ savedMask' = savedMask /\ contexts' = contexts
    BY <1>1 DEF sectionVars
  <2> QED
    BY <2>1, SameSectionKeeps
<1>2. ASSUME NEW c \in Core, MaskByHand(c) PROVE SectionIInv'
  BY <1>2, MaskByHandKeeps
<1>3. ASSUME NEW c \in Core, NEW kind \in {"interrupt", "fast"}, TakeInterrupt(c, kind)
      PROVE  SectionIInv'
  BY <1>3, TakeInterruptKeeps
<1>4. ASSUME NEW c \in Core, ReturnFromInterrupt(c) PROVE SectionIInv'
  BY <1>4, ReturnFromInterruptKeeps
<1>5. ASSUME NEW c \in Core, TrapLoop(c) PROVE SectionIInv'
  BY <1>1, <1>5 DEF TrapLoop
<1>6. ASSUME NEW c \in Core, NEW walk \in BOOLEAN, ReadMask(c, walk) PROVE SectionIInv'
  BY <1>6, ReadMaskKeeps
<1>7. ASSUME NEW c \in Core, RaiseMask(c) PROVE SectionIInv'
  BY <1>7, RaiseMaskKeeps
<1>8. ASSUME NEW c \in Core, LoadLock(c) PROVE SectionIInv'
  BY <1>8, LoadLockKeeps
<1>9. ASSUME NEW c \in Core, StoreLock(c) PROVE SectionIInv'
  BY <1>9, StoreLockKeeps
<1>10. ASSUME NEW c \in Core, LeaveDoor(c) PROVE SectionIInv'
  BY <1>10, LeaveDoorKeeps
<1>11. ASSUME NEW c \in Core, PassDoor(c) PROVE SectionIInv'
  BY <1>11, PassDoorKeeps
<1>12. ASSUME MoveDoor PROVE SectionIInv'
  BY <1>12, MoveDoorKeeps
<1>13. ASSUME NEW c \in Core, ExitNested(c) PROVE SectionIInv'
  BY <1>13, ExitNestedKeeps
<1>14. ASSUME NEW c \in Core, Unlock(c) PROVE SectionIInv'
  BY <1>14, UnlockKeeps
<1>15. ASSUME NEW c \in Core, RestoreMask(c) PROVE SectionIInv'
  BY <1>15, RestoreMaskKeeps
<1> QED
  BY <1>1, <1>2, <1>3, <1>4, <1>5, <1>6, <1>7, <1>8, <1>9, <1>10, <1>11, <1>12, <1>13, <1>14,
     <1>15 DEF SectionNext

\* The strengthened invariant of the critical sections holds: os_arch_critical_enter and _exit.
THEOREM SectionInvariant == SectionSpec => []SectionIInv
BY SectionInitIInv, SectionNextKeeps, PTL DEF SectionSpec

\* What a context of a core knows of the core's mask.
LEMMA HolderMasked ==
    ASSUME SectionIInv, NEW c \in Core, NEW i \in DOMAIN contexts[c],
           Holds(contexts[c][i]) \/ contexts[c][i].at = "load"
    PROVE  masked[c]
<1>1. /\ SectionTypes /\ CoreFits(c) /\ contexts[c][i] \in Context
      /\ DOMAIN contexts[c] = 1 .. Len(contexts[c]) /\ Len(contexts[c]) \in {1, 2}
      /\ Top(c) = contexts[c][Len(contexts[c])] /\ masked[c] \in BOOLEAN
  <2>1. SectionTypes /\ CoreFits(c) /\ masked[c] \in BOOLEAN
    BY DEF SectionIInv, SectionTypes
  <2> QED
    BY <2>1, ContextShape
<1>2. ASSUME NEW saved, Fits(contexts[c][i], masked[c], saved)
      PROVE  masked[c]
  BY <1>1, <1>2 DEF Fits, Holds
<1>3. CASE Top(c).kind = "fast"
  <2>1. Len(contexts[c]) = 2 /\ UnderFast(c)
    BY <1>1, <1>3, FastTop
  <2>2. i \in {1, 2}
    BY <1>1, <2>1
  <2>3. CASE i = 2
    <3>1. ~Holds(contexts[c][2]) /\ contexts[c][2].at # "load"
      BY <2>1 DEF UnderFast, Holds
    <3> QED
      BY <2>3, <3>1
  <2>4. CASE i = 1
    BY <1>2, <2>1, <2>4 DEF UnderFast
  <2> QED
    BY <2>2, <2>3, <2>4
<1>4. CASE Top(c).kind # "fast"
  <2>1. CASE i = Len(contexts[c])
    BY <1>1, <1>2, <1>4, <2>1, TopFits
  <2>2. CASE i # Len(contexts[c])
    <3> DEFINE n == Len(contexts[c])
    <3>1. n \in {1, 2} /\ i \in 1 .. n /\ i # n
      BY <1>1, <2>2
    <3> HIDE DEF n
    <3>2. n = 2 /\ i = 1
      BY <3>1
    <3>3. Fits(contexts[c][i], FALSE, savedMask[c])
      BY <1>1, <1>4, <3>2, TopFits DEF n, UnderInterrupt
    <3> QED
      BY <1>1, <3>3 DEF Fits, Holds
  <2> QED
    BY <2>1, <2>2
<1> QED
  BY <1>3, <1>4

\* It gives what the runs check.
LEMMA SectionIInvSafe == SectionIInv => SectionSafe
<1> SUFFICES ASSUME SectionIInv
             PROVE  SectionSafe
  OBVIOUS
<1>1. SectionTypes /\ LockFits /\ \A c \in Core : CoreFits(c)
  BY DEF SectionIInv
<1>2. ASSUME NEW c \in Core, NEW i
      PROVE  i \in DOMAIN contexts[c] /\ Holds(contexts[c][i])
                 <=> i \in {1, 2} /\ <<c, i>> \in Holders
  <2>1. DOMAIN contexts[c] = 1 .. Len(contexts[c]) /\ Len(contexts[c]) \in {1, 2}
    BY <1>1, ContextShape
  <2>2. <<c, i>> \in Holders
            <=> i \in {1, 2} /\ i <= Len(contexts[c]) /\ Holds(contexts[c][i])
    BY DEF Holders
  <2>3. i \in 1 .. Len(contexts[c]) <=> i \in {1, 2} /\ i <= Len(contexts[c])
    <3> DEFINE n == Len(contexts[c])
    <3>1. n \in {1, 2}
      BY <2>1
    <3> HIDE DEF n
    <3>2. i \in 1 .. n <=> i \in {1, 2} /\ i <= n
      BY <3>1
    <3> QED
      BY <3>2 DEF n
  <2> QED
    BY <2>1, <2>2, <2>3
<1>3. LockExcludes
  <2>1. locked <=> \E c \in Core : \E i \in DOMAIN contexts[c] : Holds(contexts[c][i])
    <3>1. Holders \subseteq Core \X {1, 2}
      BY DEF Holders
    <3>2. Holders # {} <=> \E c \in Core : \E i \in {1, 2} : <<c, i>> \in Holders
      <4>1. ASSUME NEW p \in Holders
            PROVE  \E c \in Core : \E i \in {1, 2} : <<c, i>> \in Holders
        <5>1. PICK c \in Core, i \in {1, 2} : p = <<c, i>>
          BY <3>1
        <5> QED
          BY <5>1
      <4> QED
        BY <4>1
    <3> QED
      BY <1>1, <1>2, <3>2 DEF LockFits
  <2>2. ASSUME NEW c \in Core, NEW d \in Core,
               NEW i \in DOMAIN contexts[c], NEW j \in DOMAIN contexts[d],
               Holds(contexts[c][i]), Holds(contexts[d][j])
        PROVE  c = d /\ i = j
    <3>1. <<c, i>> \in Holders /\ <<d, j>> \in Holders
      BY <1>2, <2>2
    <3>2. <<c, i>> = <<d, j>>
      BY <1>1, <3>1 DEF LockFits
    <3> QED
      BY <3>2
  <2> QED
    BY <2>1, <2>2, HolderMasked DEF LockExcludes
<1>4. MaskRestored
  <2>1. ASSUME NEW c \in Core, Top(c).at = "code", Top(c).depth = 0
        PROVE  masked[c] = Top(c).prior
    <3>1. CASE Top(c).kind = "fast"
      BY <1>1, <2>1, <3>1, FastTop DEF UnderFast
    <3>2. CASE Top(c).kind # "fast"
      BY <1>1, <2>1, <3>2, TopFits DEF Fits
    <3> QED
      BY <3>1, <3>2
  <2> QED
    BY <2>1 DEF MaskRestored
<1> QED
  BY <1>3, <1>4 DEF SectionSafe

\* A critical section excludes every other core and every handler that may enter
\* the kernel, and gives its caller its interrupt mask back: for any number of
\* cores, each way of masking, any nesting and interrupts at every instruction.
THEOREM SectionAlwaysSafe == SectionSpec => []SectionSafe
BY SectionInvariant, SectionIInvSafe, PTL

-----------------------------------------------------------------------------
(* How deep the sections nest.                                             *)

\* No context enters more sections than it may, and no core counts more.
NestFits ==
    /\ doorShut \in BOOLEAN
    /\ \A c \in Core :
          /\ nesting[c] <= MaxNest
          /\ \A i \in 1 .. Len(contexts[c]) :
                /\ contexts[c][i].depth <= MaxNest
                /\ contexts[c][i].at = "masking" => contexts[c][i].depth < MaxNest

\* A step of the context on top keeps the bound if that context does.
LEMMA NestSet ==
    ASSUME SectionIInv, NestFits, NEW c \in Core, NEW x \in Context, SetTop(c, x),
           x.depth <= MaxNest, x.at = "masking" => x.depth < MaxNest,
           nesting'[c] <= MaxNest, \A d \in Core : d # c => nesting'[d] = nesting[d],
           doorShut' \in BOOLEAN
    PROVE  NestFits'
<1>1. /\ \A d \in Core : d # c => contexts'[d] = contexts[d]
      /\ Len(contexts'[c]) = Len(contexts[c])
      /\ contexts'[c][Len(contexts[c])] = x
      /\ \A i \in 1 .. Len(contexts[c]) :
            i # Len(contexts[c]) => contexts'[c][i] = contexts[c][i]
  BY TopSet DEF SectionIInv
<1>2. ASSUME NEW d \in Core, d # c
      PROVE  /\ nesting'[d] <= MaxNest
             /\ \A i \in 1 .. Len(contexts'[d]) :
                   /\ contexts'[d][i].depth <= MaxNest
                   /\ contexts'[d][i].at = "masking" => contexts'[d][i].depth < MaxNest
  BY <1>1, <1>2 DEF NestFits
<1>3. ASSUME NEW i \in 1 .. Len(contexts'[c])
      PROVE  /\ contexts'[c][i].depth <= MaxNest
             /\ contexts'[c][i].at = "masking" => contexts'[c][i].depth < MaxNest
  BY <1>1 DEF NestFits
<1> QED
  BY <1>2, <1>3 DEF NestFits

\* What the bound says of the context on top.
LEMMA NestTop ==
    ASSUME SectionIInv, NestFits, NEW c \in Core
    PROVE  /\ Top(c) \in Context /\ Top(c).depth \in Nat /\ Top(c).depth <= MaxNest
           /\ Top(c).at = "masking" => Top(c).depth < MaxNest
           /\ nesting \in [Core -> Nat] /\ nesting[c] \in Nat /\ nesting[c] <= MaxNest
           /\ MaxNest \in Nat /\ MaxNest >= 1 /\ doorShut \in BOOLEAN
<1>1. /\ Top(c) \in Context /\ Top(c).depth \in Nat /\ Top(c) = contexts[c][Len(contexts[c])]
      /\ Len(contexts[c]) \in {1, 2}
  <2>1. SectionTypes
    BY DEF SectionIInv
  <2> QED
    BY <2>1, TopIs, ContextShape
<1>2. Len(contexts[c]) \in 1 .. Len(contexts[c])
  <2>1. \A n \in {1, 2} : n \in 1 .. n
    OBVIOUS
  <2> QED
    BY <1>1, <2>1
<1>3. nesting \in [Core -> Nat] /\ MaxNest \in Nat /\ MaxNest >= 1
  BY SectionAssumption DEF SectionIInv, SectionTypes
<1> QED
  BY <1>1, <1>2, <1>3 DEF NestFits

\* A handler comes, or the one on top goes.
LEMMA NestHandlers ==
    ASSUME SectionIInv, NestFits, NEW c \in Core,
           (\E kind \in {"interrupt", "fast"} : TakeInterrupt(c, kind)) \/ ReturnFromInterrupt(c)
    PROVE  NestFits'
<1>1. /\ contexts \in [Core -> Seq(Context)] /\ contexts[c] \in Seq(Context)
      /\ Len(contexts[c]) \in {1, 2} /\ MaxNest \in Nat /\ MaxNest >= 1
  BY NestTop DEF SectionIInv, SectionTypes
<1>2. nesting' = nesting /\ doorShut' = doorShut
  BY DEF TakeInterrupt, ReturnFromInterrupt
<1>3. ASSUME NEW q, contexts' = [contexts EXCEPT ![c] = q],
             \A i \in 1 .. Len(q) : /\ q[i].depth <= MaxNest
                                    /\ q[i].at = "masking" => q[i].depth < MaxNest
      PROVE  NestFits'
  <2>1. contexts'[c] = q /\ \A d \in Core : d # c => contexts'[d] = contexts[d]
    BY <1>1, <1>3
  <2> QED
    BY <1>2, <1>3, <2>1 DEF NestFits
<1>4. ASSUME NEW kind \in {"interrupt", "fast"}, TakeInterrupt(c, kind)
      PROVE  NestFits'
  <2> DEFINE s == contexts[c]
             x == FreshContext(kind, masked'[c])
  <2>1. contexts' = [contexts EXCEPT ![c] = Append(s, x)]
    BY <1>1, <1>4 DEF TakeInterrupt
  <2>2. x.at = "code" /\ x.depth = 0
    BY DEF FreshContext
  <2> HIDE DEF x
  <2>3. s \in Seq(Context) /\ \A i \in 1 .. Len(s) : /\ s[i].depth <= MaxNest
                                                     /\ s[i].at = "masking" => s[i].depth < MaxNest
    BY <1>1 DEF NestFits
  <2> HIDE DEF s
  <2>4. /\ Len(Append(s, x)) = Len(s) + 1 /\ Append(s, x)[Len(s) + 1] = x
        /\ \A i \in 1 .. Len(s) : Append(s, x)[i] = s[i]
    BY <2>3
  <2>5. ASSUME NEW i \in 1 .. Len(Append(s, x))
        PROVE  /\ Append(s, x)[i].depth <= MaxNest
               /\ Append(s, x)[i].at = "masking" => Append(s, x)[i].depth < MaxNest
    <3>1. CASE i = Len(s) + 1
      <4>1. Append(s, x)[i] = x
        BY <2>4, <3>1
      <4> QED
        BY <1>1, <2>2, <4>1
    <3>2. CASE i # Len(s) + 1
      <4>1. Len(s) \in Nat /\ i \in 1 .. Len(s) + 1
        BY <2>3, <2>4
      <4>2. i \in 1 .. Len(s)
        BY <3>2, <4>1
      <4>3. Append(s, x)[i] = s[i]
        BY <2>4, <4>2
      <4> QED
        BY <2>3, <4>2, <4>3
    <3> QED
      BY <3>1, <3>2
  <2> QED
    BY <1>3, <2>1, <2>5
<1>5. CASE ReturnFromInterrupt(c)
  <2> DEFINE s == contexts[c]
  <2>1. contexts' = [contexts EXCEPT ![c] = Front(s)] /\ Len(s) = 2
    BY <1>1, <1>5 DEF ReturnFromInterrupt
  <2>2. s \in Seq(Context) /\ \A i \in 1 .. Len(s) : /\ s[i].depth <= MaxNest
                                                     /\ s[i].at = "masking" => s[i].depth < MaxNest
    BY <1>1 DEF NestFits
  <2> HIDE DEF s
  <2>3. Len(Front(s)) = 1 /\ Front(s)[1] = s[1]
    BY <2>1, <2>2 DEF Front
  <2>4. 1 \in 1 .. Len(s)
    BY <2>1
  <2>5. ASSUME NEW i \in 1 .. Len(Front(s))
        PROVE  /\ Front(s)[i].depth <= MaxNest
               /\ Front(s)[i].at = "masking" => Front(s)[i].depth < MaxNest
    <3>1. i = 1
      BY <2>3
    <3> QED
      BY <2>2, <2>3, <2>4, <3>1
  <2> QED
    BY <1>3, <2>1, <2>5
<1> QED
  BY <1>4, <1>5

\* No step goes beyond the bound.
LEMMA NestStep == SectionIInv /\ NestFits /\ [SectionNext]_sectionVars => NestFits'
<1> SUFFICES ASSUME SectionIInv, NestFits, [SectionNext]_sectionVars
             PROVE  NestFits'
  OBVIOUS
<1>1. CASE nesting' = nesting /\ contexts' = contexts /\ doorShut' \in BOOLEAN
  BY <1>1 DEF NestFits
<1>2. ASSUME NEW c \in Core, NEW x \in Context, SetTop(c, x), x.depth = Top(c).depth,
             x.at # "masking" \/ x.depth < MaxNest, nesting' = nesting, doorShut' = doorShut
      PROVE  NestFits'
  BY <1>2, NestTop, NestSet
<1>3. ASSUME NEW c \in Core, NEW step \in Step \ {"masking"}, GoTo(c, step),
             nesting' = nesting, doorShut' = doorShut
      PROVE  NestFits'
  <2> DEFINE x == [Top(c) EXCEPT !.at = step]
  <2>1. x \in Context /\ x.depth = Top(c).depth /\ x.at = step
    BY NestTop DEF Context, Step
  <2>2. SetTop(c, x)
    BY <1>3 DEF GoTo
  <2> HIDE DEF x
  <2> QED
    BY <1>2, <1>3, <2>1, <2>2
<1>4. ASSUME NEW c \in Core, NEW n \in Nat, n <= MaxNest, NEW step \in Step \ {"masking"},
             SetTop(c, [Top(c) EXCEPT !.at = step, !.depth = n]),
             NEW k \in Nat, k <= MaxNest, nesting' = [nesting EXCEPT ![c] = k],
             doorShut' = doorShut
      PROVE  NestFits'
  <2> DEFINE x == [Top(c) EXCEPT !.at = step, !.depth = n]
  <2>1. x \in Context /\ x.depth = n /\ x.at = step
    BY NestTop DEF Context, Step
  <2>2. SetTop(c, x)
    BY <1>4
  <2> HIDE DEF x
  <2>3. nesting'[c] = k /\ \A d \in Core : d # c => nesting'[d] = nesting[d]
    BY <1>4, NestTop
  <2> QED
    BY <1>4, <2>1, <2>2, <2>3, NestSet, NestTop
<1>5. CASE \E c \in Core : MaskByHand(c)
  <2>1. PICK c \in Core : MaskByHand(c)
    BY <1>5
  <2> DEFINE x == [Top(c) EXCEPT !.prior = ~masked[c]]
  <2>2. x \in Context /\ x.depth = Top(c).depth /\ x.at = "code"
    BY <2>1, NestTop DEF MaskByHand, Context
  <2>3. SetTop(c, x) /\ nesting' = nesting /\ doorShut' = doorShut
    BY <2>1 DEF MaskByHand
  <2> HIDE DEF x
  <2> QED
    BY <1>2, <2>2, <2>3
<1>6. CASE \E c \in Core, kind \in {"interrupt", "fast"} : TakeInterrupt(c, kind)
  BY <1>6, NestHandlers
<1>7. CASE \E c \in Core : ReturnFromInterrupt(c)
  BY <1>7, NestHandlers
<1>8. CASE UNCHANGED sectionVars
  BY <1>1, <1>8 DEF sectionVars, NestFits
<1>9. CASE \E c \in Core, walk \in BOOLEAN : ReadMask(c, walk)
  <2>1. PICK c \in Core, walk \in BOOLEAN : ReadMask(c, walk)
    BY <1>9
  <2> DEFINE x == [Top(c) EXCEPT !.at = "masking", !.mask = masked[c], !.walk = walk]
  <2>2. masked[c] \in BOOLEAN
    BY DEF SectionIInv, SectionTypes
  <2>3. x \in Context /\ x.depth = Top(c).depth
    BY <2>2, NestTop DEF Context, Step
  <2>4. SetTop(c, x) /\ nesting' = nesting /\ doorShut' = doorShut /\ Top(c).depth < MaxNest
    BY <2>1 DEF ReadMask
  <2> HIDE DEF x
  <2> QED
    BY <1>2, <2>3, <2>4
<1>10. CASE \E c \in Core : RaiseMask(c)
  <2>1. PICK c \in Core : RaiseMask(c)
    BY <1>10
  <2>2. Top(c).at = "masking" /\ doorShut' = doorShut
    BY <2>1 DEF RaiseMask
  <2>3. CASE \E step \in {"trapped", "load"} : GoTo(c, step) /\ nesting' = nesting
    BY <1>3, <2>2, <2>3 DEF Step
  <2>4. CASE /\ Top(c).kind # "fast"
             /\ SetTop(c, [Top(c) EXCEPT !.at = "code", !.depth = @ + 1])
             /\ nesting' = [nesting EXCEPT ![c] = @ + 1]
    <3>1. nesting[c] = Top(c).depth
      BY <2>4, TopIs
    <3>2. Top(c).depth + 1 \in Nat /\ Top(c).depth + 1 <= MaxNest
      BY <2>2, NestTop
    <3>3. "code" \in Step \ {"masking"}
      BY DEF Step
    <3>4. /\ SetTop(c, [Top(c) EXCEPT !.at = "code", !.depth = Top(c).depth + 1])
          /\ nesting' = [nesting EXCEPT ![c] = Top(c).depth + 1]
      <4>1. [Top(c) EXCEPT !.at = "code", !.depth = @ + 1]
                = [Top(c) EXCEPT !.at = "code", !.depth = Top(c).depth + 1]
        BY NestTop DEF Context
      <4> QED
        BY <2>4, <3>1, <4>1
    <3> QED
      BY <1>4, <2>2, <3>2, <3>3, <3>4
  <2> QED
    BY <2>1, <2>3, <2>4 DEF RaiseMask, MayCall
<1>11. CASE \E c \in Core : LoadLock(c)
  <2>1. PICK c \in Core : LoadLock(c)
    BY <1>11
  <2>2. nesting' = nesting /\ doorShut' = doorShut /\ (contexts' = contexts \/ GoTo(c, "store"))
    BY <2>1 DEF LoadLock
  <2>3. doorShut \in BOOLEAN
    BY DEF NestFits
  <2> QED
    BY <1>1, <1>3, <2>2, <2>3 DEF Step
<1>12. CASE \E c \in Core : StoreLock(c)
  <2>1. PICK c \in Core : StoreLock(c)
    BY <1>12
  <2>2. nesting' = nesting /\ doorShut' = doorShut /\ (GoTo(c, "door") \/ GoTo(c, "load"))
    BY <2>1 DEF StoreLock
  <2> QED
    BY <1>3, <2>2 DEF Step
<1>13. CASE \E c \in Core : LeaveDoor(c)
  <2>1. PICK c \in Core : LeaveDoor(c)
    BY <1>13
  <2>2. nesting' = nesting /\ doorShut' = doorShut /\ GoTo(c, "load")
    BY <2>1 DEF LeaveDoor
  <2> QED
    BY <1>3, <2>2 DEF Step
<1>14. CASE \E c \in Core : PassDoor(c)
  <2>1. PICK c \in Core : PassDoor(c)
    BY <1>14
  <2>2. Top(c).at = "door" /\ doorShut' = doorShut
    BY <2>1 DEF PassDoor
  <2>3. CASE GoTo(c, "walking") /\ nesting' = nesting
    BY <1>3, <2>2, <2>3 DEF Step
  <2>4. CASE /\ SetTop(c, [Top(c) EXCEPT !.at = "code", !.depth = @ + 1])
             /\ nesting' = [nesting EXCEPT ![c] = @ + 1]
    <3>1. nesting[c] = Top(c).depth /\ Top(c).depth = 0
      <4>1. Top(c).kind # "fast"
        BY <2>2, TopIs
      <4> QED
        BY <2>2, <4>1, TopIs DEF Fits
    <3>2. 1 \in Nat /\ 1 <= MaxNest /\ "code" \in Step \ {"masking"}
      BY NestTop DEF Step
    <3>3. /\ SetTop(c, [Top(c) EXCEPT !.at = "code", !.depth = 1])
          /\ nesting' = [nesting EXCEPT ![c] = 1]
      <4>1. [Top(c) EXCEPT !.at = "code", !.depth = @ + 1]
                = [Top(c) EXCEPT !.at = "code", !.depth = 1]
        BY <3>1, NestTop DEF Context
      <4> QED
        BY <2>4, <3>1, <4>1
    <3> QED
      BY <1>4, <2>2, <3>2, <3>3
  <2> QED
    BY <2>1, <2>3, <2>4 DEF PassDoor
<1>15. CASE MoveDoor
  <2>1. nesting' = nesting /\ contexts' = contexts /\ doorShut' = ~doorShut
    BY <1>15 DEF MoveDoor
  <2> QED
    BY <1>1, <2>1
<1>16. CASE \E c \in Core : ExitNested(c)
  <2>1. PICK c \in Core : ExitNested(c)
    BY <1>16
  <2>2. /\ Top(c).at = "code" /\ Top(c).depth > 0 /\ nesting[c] > 1 /\ doorShut' = doorShut
        /\ nesting' = [nesting EXCEPT ![c] = @ - 1]
        /\ SetTop(c, [Top(c) EXCEPT !.depth = @ - 1])
    BY <2>1 DEF ExitNested
  <2>3. /\ Top(c).depth - 1 \in Nat /\ Top(c).depth - 1 <= MaxNest
        /\ nesting[c] - 1 \in Nat /\ nesting[c] - 1 <= MaxNest /\ "code" \in Step \ {"masking"}
    BY <2>2, NestTop DEF Step
  <2>4. /\ SetTop(c, [Top(c) EXCEPT !.at = "code", !.depth = Top(c).depth - 1])
        /\ nesting' = [nesting EXCEPT ![c] = nesting[c] - 1]
    <3>1. [Top(c) EXCEPT !.depth = @ - 1]
              = [Top(c) EXCEPT !.at = "code", !.depth = Top(c).depth - 1]
      BY <2>2, NestTop DEF Context
    <3> QED
      BY <2>2, <3>1
  <2> QED
    BY <1>4, <2>2, <2>3, <2>4
<1>17. CASE \E c \in Core : Unlock(c)
  <2>1. PICK c \in Core : Unlock(c)
    BY <1>17
  <2>2. /\ nesting' = [nesting EXCEPT ![c] = 0] /\ doorShut' = doorShut
        /\ SetTop(c, [Top(c) EXCEPT !.at = "unmask", !.depth = 0])
    BY <2>1 DEF Unlock
  <2>3. 0 \in Nat /\ 0 <= MaxNest /\ "unmask" \in Step \ {"masking"}
    BY SectionAssumption DEF Step
  <2> QED
    BY <1>4, <2>2, <2>3
<1>18. CASE \E c \in Core : RestoreMask(c)
  <2>1. PICK c \in Core : RestoreMask(c)
    BY <1>18
  <2> DEFINE x == [Top(c) EXCEPT !.at = "code", !.walk = FALSE]
  <2>2. x \in Context /\ x.depth = Top(c).depth /\ x.at = "code"
    BY NestTop DEF Context, Step
  <2>3. SetTop(c, x) /\ nesting' = nesting /\ doorShut' = doorShut
    BY <2>1 DEF RestoreMask
  <2> HIDE DEF x
  <2> QED
    BY <1>2, <2>2, <2>3
<1> QED
  BY <1>5, <1>6, <1>7, <1>8, <1>9, <1>10, <1>11, <1>12, <1>13, <1>14, <1>15, <1>16, <1>17, <1>18
     DEF SectionNext, TrapLoop

\* Nobody has entered a section at first.
LEMMA NestStarts == SectionInit => NestFits
<1> SUFFICES ASSUME SectionInit
             PROVE  NestFits
  OBVIOUS
<1> DEFINE x == FreshContext("task", FALSE)
<1>1. ASSUME NEW c \in Core
      PROVE  nesting[c] = 0 /\ contexts[c] = <<x>>
  BY DEF SectionInit
<1>2. x.depth = 0 /\ x.at = "code"
  BY DEF FreshContext
<1> HIDE DEF x
<1>3. doorShut \in BOOLEAN /\ MaxNest \in Nat
  BY SectionAssumption DEF SectionInit
<1> QED
  BY <1>1, <1>2, <1>3 DEF NestFits

\* The nesting counter and the contexts of every core stay within their bounds, whatever
\* nests in what: os_critical_enter and os_critical_exit.
THEOREM SectionTypesHold == SectionSpec => []SectionTypeOK
<1>1. SectionIInv /\ NestFits => SectionTypeOK
  <2> SUFFICES ASSUME SectionIInv, NestFits
               PROVE  SectionTypeOK
    OBVIOUS
  <2>1. /\ locked \in BOOLEAN /\ reserved \in [Core -> BOOLEAN] /\ masked \in [Core -> BOOLEAN]
        /\ savedMask \in [Core -> BOOLEAN] /\ nesting \in [Core -> Nat]
        /\ \A c \in Core : Len(contexts[c]) \in {1, 2}
    BY DEF SectionIInv, SectionTypes
  <2>2. doorShut \in BOOLEAN /\ \A c \in Core : nesting[c] <= MaxNest
    BY DEF NestFits
  <2>3. MaxNest \in Nat
    BY SectionAssumption
  <2>4. nesting \in [Core -> 0 .. 2 * MaxNest]
    BY <2>1, <2>2, <2>3
  <2>5. \A c \in Core : Len(contexts[c]) \in 1 .. 2
    BY <2>1
  <2> QED
    BY <2>1, <2>2, <2>4, <2>5 DEF SectionTypeOK
<1> QED
  BY <1>1, SectionInvariant, NestStarts, NestStep, PTL DEF SectionSpec

-----------------------------------------------------------------------------
(***************************************************************************)
(* The context switch.                                                     *)
(***************************************************************************)

\* A core has a task from os_task_stack_select_next until it has parked it.
Owns(c) == place[c] \in {"thread", "push", "save", "unbank", "restore"}

\* The task that is owned by the core, and nobody else.
Ownership ==
    /\ \A c \in SwitchCore : Owns(c) =>
           current[c] \in SwitchTask /\ runningCore[current[c]] = c
    /\ \A t \in SwitchTask : runningCore[t] # NoHost =>
           Owns(runningCore[t]) /\ current[runningCore[t]] = t
    /\ \A c \in SwitchCore : runningCore[IdleOf[c]] \in {NoHost, c}
    /\ \A c \in SwitchCore : place[c] # "boot" => c \in build.cores
    /\ \A c \in SwitchCore : place[c] = "bank" => current[c] \in SwitchTask

\* A frame that holds all its task left.
FrameOf(f, t) ==
    /\ f.core = <<t, version[t]>>
    /\ HasLimit => f.limit = <<t, 0>>
    /\ f.exc = usedFp[t]
    /\ f.exc => f.fp = <<t, version[t]>>

\* Registers that do.
RegistersOf(c, t) ==
    /\ regs[c].core = <<t, version[t]>>
    /\ HasLimit => regs[c].limit = <<t, 0>>
    /\ fpca[c] = usedFp[t]
    /\ fpca[c] => regs[c].fp = <<t, version[t]>>

\* Where the context of a task is.
FramesFit ==
    /\ \A t \in SwitchTask : runningCore[t] = NoHost => FrameOf(frame[t], t)
    /\ \A c \in SwitchCore : place[c] \in {"unbank", "restore"} =>
           FrameOf(frame[current[c]], current[c])
    /\ \A c \in SwitchCore : place[c] = "save" => FrameOf(pushed[c], current[c])
    /\ \A c \in SwitchCore : place[c] \in {"thread", "push"} => RegistersOf(c, current[c])

\* One core at most has been started.
Alone == \A c, d \in build.cores : c = d

\* Where its secure context is.
SecureFit ==
    build.banks /\ Alone =>
        /\ \A t \in SwitchTask :
               runningCore[t] = NoHost
                   /\ (\A c \in SwitchCore : place[c] = "bank" => current[c] # t)
                   => bank[t] = <<t, version[t]>>
        /\ \A c \in SwitchCore : place[c] = "unbank" =>
               bank[current[c]] = <<current[c], version[current[c]]>>
        /\ \A c \in SwitchCore : place[c] \in {"thread", "push", "save", "bank", "restore"} =>
               regs[c].secure = <<current[c], version[current[c]]>>

HandlersFit ==
    \A c \in SwitchCore :
        handlerStack[c] \in {<<"boot", c>>} \cup (IF RiscV THEN {} ELSE {<<"handler", c>>})

SwitchTypes ==
    /\ build \in Builds /\ regs \in [SwitchCore -> [Part -> Value]]
    /\ fpca \in [SwitchCore -> BOOLEAN] /\ usedFp \in [SwitchTask -> BOOLEAN]
    /\ version \in [SwitchTask -> {0, 1}]
    /\ frame \in [SwitchTask -> Frame] /\ pushed \in [SwitchCore -> Frame]
    /\ bank \in [SwitchTask -> Value]
    /\ taskState \in [SwitchTask -> {"ready", "running", "blocked"}]
    /\ runningCore \in [SwitchTask -> SwitchCore \cup {NoHost}]
    /\ current \in [SwitchCore -> SwitchTask \cup {NoTask}]
    /\ place \in [SwitchCore -> {"boot", "thread", "push", "save", "bank", "select",
                              "unbank", "restore"}]

SwitchIInv == SwitchTypes /\ Ownership /\ FramesFit /\ SecureFit /\ HandlersFit

USE SwitchAssumption

\* What a register of a task holds is a value.
LEMMA ValueOf == \A t \in SwitchTask \cup {NoTask}, n \in {0, 1} : <<t, n>> \in Value
BY DEF Value

\* A task computes.
LEMMA ComputeKeeps ==
    ASSUME SwitchIInv, NEW c \in SwitchCore, Compute(c)
    PROVE  SwitchIInv'
<1>1. SwitchTypes'
  <2>1. current[c] \in SwitchTask
    BY DEF SwitchIInv, Ownership, Owns, Compute
  <2>2. 1 - version[current[c]] \in {0, 1}
    BY <2>1 DEF SwitchIInv, SwitchTypes
  <2>3. <<current[c], 1 - version[current[c]]>> \in Value
    BY <2>1, <2>2, ValueOf
  <2>4. regs' \in [SwitchCore -> [Part -> Value]]
    <3> DEFINE new == <<current[c], 1 - version[current[c]]>>
               row == [regs[c] EXCEPT !.core = new, !.fp = IF fpca[c] THEN new ELSE @,
                                      !.secure = IF build.banks THEN new ELSE @]
    <3>1. regs \in [SwitchCore -> [Part -> Value]] /\ regs[c] \in [Part -> Value]
      BY DEF SwitchIInv, SwitchTypes
    <3>2. new \in Value
      BY <2>3
    <3> HIDE DEF new
    <3>3. row \in [Part -> Value]
      BY <3>1, <3>2 DEF Part
    <3>4. regs' = [regs EXCEPT ![c] = row]
      BY <3>1 DEF Compute, Part, new
    <3> QED
      BY <3>1, <3>3, <3>4
  <2>5. version' \in [SwitchTask -> {0, 1}]
    BY <2>1 DEF SwitchIInv, SwitchTypes, Compute
  <2> QED
    BY <2>4, <2>5 DEF SwitchIInv, SwitchTypes, Compute, kernelVars
<1>2. Ownership'
  BY DEF SwitchIInv, Compute, Ownership, Owns, kernelVars
<1>3. FramesFit'
  <2> DEFINE t == current[c]
             new == <<t, 1 - version[t]>>
  <2>1. t \in SwitchTask /\ runningCore[t] = c
    BY DEF SwitchIInv, Ownership, Owns, Compute
  <2>2. version'[t] = 1 - version[t] /\ \A u \in SwitchTask : u # t => version'[u] = version[u]
    BY <2>1 DEF SwitchIInv, SwitchTypes, Compute
  <2>3. /\ regs'[c].core = new /\ regs'[c].limit = regs[c].limit
        /\ fpca[c] => regs'[c].fp = new
        /\ \A d \in SwitchCore : d # c => regs'[d] = regs[d]
    BY DEF SwitchIInv, SwitchTypes, Compute, Part
  <2>4. /\ build' = build /\ place' = place /\ current' = current /\ fpca' = fpca
        /\ runningCore' = runningCore /\ frame' = frame /\ pushed' = pushed
        /\ usedFp' = usedFp /\ place[c] = "thread"
    BY DEF Compute, kernelVars
  <2>5. RegistersOf(c, t)'
    BY <2>2, <2>3, <2>4 DEF SwitchIInv, FramesFit, RegistersOf, HasLimit
  <2>6. ASSUME NEW u \in SwitchTask, u # t, NEW f
        PROVE  FrameOf(f, u)' <=> FrameOf(f, u)
    BY <2>2, <2>4, <2>6 DEF FrameOf, HasLimit
  <2>7. ASSUME NEW u \in SwitchTask, u # t, NEW d \in SwitchCore, d # c
        PROVE  RegistersOf(d, u)' <=> RegistersOf(d, u)
    BY <2>2, <2>3, <2>4, <2>7 DEF RegistersOf, HasLimit
  <2>8. \A d \in SwitchCore : Owns(d) /\ d # c => current[d] \in SwitchTask /\ current[d] # t
    BY <2>1 DEF SwitchIInv, Ownership
  <2> HIDE DEF t, new
  <2> QED
    BY <2>1, <2>4, <2>5, <2>6, <2>7, <2>8 DEF SwitchIInv, FramesFit, Owns, t
<1>4. SecureFit'
  <2> SUFFICES ASSUME build.banks, Alone
               PROVE  SecureFit'
    BY DEF SecureFit, Compute, Alone
  <2>1. \A d \in SwitchCore : d # c => place[d] = "boot"
    BY DEF SwitchIInv, Alone, Ownership, Compute
  <2>2. current[c] \in SwitchTask /\ runningCore[current[c]] = c
    BY DEF SwitchIInv, Ownership, Owns, Compute
  <2>3. regs'[c].secure = <<current[c], 1 - version[current[c]]>>
    BY DEF SwitchIInv, SwitchTypes, Compute, Part
  <2>4. /\ version'[current[c]] = 1 - version[current[c]]
        /\ \A t \in SwitchTask : t # current[c] => version'[t] = version[t]
    BY <2>2 DEF SwitchIInv, SwitchTypes, Compute
  <2>5. /\ build' = build /\ place' = place /\ current' = current
        /\ runningCore' = runningCore /\ bank' = bank /\ place[c] = "thread"
    BY DEF Compute, kernelVars
  <2>6. ASSUME NEW t \in SwitchTask, runningCore[t] = NoHost,
               \A d \in SwitchCore : place[d] = "bank" => current[d] # t
        PROVE  bank[t] = <<t, version'[t]>>
    BY <2>2, <2>4, <2>6 DEF SwitchIInv, SecureFit
  <2> QED
    BY <2>1, <2>3, <2>4, <2>5, <2>6 DEF SecureFit
<1>5. HandlersFit'
  BY DEF SwitchIInv, Compute, HandlersFit, RiscV
<1> QED
  BY <1>1, <1>2, <1>3, <1>4, <1>5 DEF SwitchIInv

\* A task uses the floating point unit.
LEMMA UseFpKeeps ==
    ASSUME SwitchIInv, NEW c \in SwitchCore, UseFp(c)
    PROVE  SwitchIInv'
<1>1. SwitchTypes'
  <2>1. current[c] \in SwitchTask
    BY DEF SwitchIInv, Ownership, Owns, UseFp
  <2>2. <<current[c], version[current[c]]>> \in Value
    <3>1. version[current[c]] \in {0, 1}
      BY <2>1 DEF SwitchIInv, SwitchTypes
    <3> QED
      BY <2>1, <3>1, ValueOf
  <2>3. regs' \in [SwitchCore -> [Part -> Value]]
    BY <2>2 DEF SwitchIInv, SwitchTypes, UseFp, Part
  <2> QED
    BY <2>1, <2>3 DEF SwitchIInv, SwitchTypes, UseFp, kernelVars
<1>2. Ownership'
  BY DEF SwitchIInv, UseFp, Ownership, Owns, kernelVars
<1>3. FramesFit'
  <2>1. current[c] \in SwitchTask /\ runningCore[current[c]] = c
    BY DEF SwitchIInv, Ownership, Owns, UseFp
  <2>2. ASSUME NEW t \in SwitchTask, t # current[c]
        PROVE  \A f : FrameOf(f, t)' <=> FrameOf(f, t)
    BY <2>2 DEF UseFp, FrameOf, HasLimit
  <2>3. RegistersOf(c, current[c])'
    <3>1. RegistersOf(c, current[c]) /\ regs[c] \in [Part -> Value]
      BY DEF SwitchIInv, SwitchTypes, UseFp, FramesFit
    <3>2. /\ regs'[c] = [regs[c] EXCEPT !.fp = <<current[c], version[current[c]]>>]
          /\ fpca'[c] = TRUE /\ usedFp'[current[c]] = TRUE
      BY <2>1 DEF SwitchIInv, SwitchTypes, UseFp
    <3>3. /\ regs'[c].core = regs[c].core /\ regs'[c].limit = regs[c].limit
          /\ regs'[c].fp = <<current[c], version[current[c]]>>
      BY <3>1, <3>2 DEF Part
    <3> QED
      BY <3>1, <3>2, <3>3 DEF UseFp, RegistersOf, HasLimit, kernelVars
  <2>4. ASSUME NEW d \in SwitchCore, d # c, NEW t \in SwitchTask, t # current[c]
        PROVE  RegistersOf(d, t)' <=> RegistersOf(d, t)
    BY <2>4 DEF UseFp, RegistersOf, HasLimit
  <2>5. ASSUME NEW d \in SwitchCore, d # c, Owns(d)
        PROVE  current[d] \in SwitchTask /\ current[d] # current[c]
    BY <2>1, <2>5 DEF SwitchIInv, Ownership
  <2> QED
    BY <2>1, <2>2, <2>3, <2>4, <2>5 DEF SwitchIInv, UseFp, FramesFit, Owns, kernelVars
<1>4. SecureFit'
  BY DEF SwitchIInv, UseFp, Alone, SecureFit, kernelVars
<1>5. HandlersFit'
  BY DEF SwitchIInv, UseFp, HandlersFit, RiscV
<1> QED
  BY <1>1, <1>2, <1>3, <1>4, <1>5 DEF SwitchIInv

\* A core starts its first task.
LEMMA StartFirstKeeps ==
    ASSUME SwitchIInv, NEW c \in SwitchCore, StartFirst(c)
    PROVE  SwitchIInv'
<1>1. SwitchTypes'
  BY DEF SwitchIInv, SwitchTypes, StartFirst, kernelVars
<1>2. Ownership'
  BY DEF SwitchIInv, StartFirst, Ownership, Owns, kernelVars
<1>3. FramesFit'
  <2>1. \A f, t : FrameOf(f, t)' <=> FrameOf(f, t)
    BY DEF StartFirst, FrameOf, HasLimit
  <2>2. ASSUME NEW d \in SwitchCore, d # c, NEW t
        PROVE  RegistersOf(d, t)' <=> RegistersOf(d, t)
    BY <2>2 DEF StartFirst, RegistersOf, HasLimit
  <2> QED
    BY <2>1, <2>2 DEF SwitchIInv, StartFirst, FramesFit, kernelVars
<1>4. SecureFit'
  BY DEF SwitchIInv, StartFirst, Alone, SecureFit, kernelVars
<1>5. HandlersFit'
  BY DEF SwitchIInv, StartFirst, HandlersFit, RiscV
<1> QED
  BY <1>1, <1>2, <1>3, <1>4, <1>5 DEF SwitchIInv

\* The handler of the switch is entered.
LEMMA EnterKeeps ==
    ASSUME SwitchIInv, NEW c \in SwitchCore, Enter(c)
    PROVE  SwitchIInv'
<1>1. SwitchTypes'
  BY DEF SwitchIInv, SwitchTypes, Enter, kernelVars
<1>2. Ownership'
  BY DEF SwitchIInv, Enter, Ownership, Owns, kernelVars
<1>3. FramesFit'
  BY DEF SwitchIInv, SwitchTypes, Enter, FramesFit, FrameOf, RegistersOf, HasLimit,
     kernelVars
<1>4. SecureFit'
  BY DEF SwitchIInv, Enter, Alone, SecureFit, kernelVars
<1>5. HandlersFit'
  BY DEF SwitchIInv, Enter, HandlersFit, RiscV
<1> QED
  BY <1>1, <1>2, <1>3, <1>4, <1>5 DEF SwitchIInv

\* The callee-saved registers are pushed.
LEMMA PushKeeps ==
    ASSUME SwitchIInv, NEW c \in SwitchCore, Push(c)
    PROVE  SwitchIInv'
<1>1. SwitchTypes'
  <2>1. <<NoTask, 0>> \in Value
    BY ValueOf
  <2>2. regs' \in [SwitchCore -> [Part -> Value]]
    BY <2>1 DEF SwitchIInv, SwitchTypes, Push, Part
  <2>3. pushed' \in [SwitchCore -> Frame]
    BY <2>1 DEF SwitchIInv, SwitchTypes, Push, Part, Frame
  <2> QED
    BY <2>2, <2>3 DEF SwitchIInv, SwitchTypes, Push, kernelVars
<1>2. Ownership'
  BY DEF SwitchIInv, Push, Ownership, Owns, kernelVars
<1>3. FramesFit'
  BY DEF SwitchIInv, SwitchTypes, Push, FramesFit, FrameOf, RegistersOf, HasLimit,
     kernelVars, FpFrame
<1>4. SecureFit'
  BY DEF SwitchIInv, Push, Alone, SecureFit, kernelVars
<1>5. HandlersFit'
  BY DEF SwitchIInv, Push, HandlersFit, RiscV
<1> QED
  BY <1>1, <1>2, <1>3, <1>4, <1>5 DEF SwitchIInv

\* The stack pointer of the task that leaves is saved.
LEMMA SaveCurrentKeeps ==
    ASSUME SwitchIInv, NEW c \in SwitchCore, SaveCurrent(c)
    PROVE  SwitchIInv'
<1>1. SwitchTypes'
  <2>1. NewFrame(NoTask) \in Frame
    BY ValueOf DEF NewFrame, Frame
  <2>2. current[c] \in SwitchTask
    BY DEF SwitchIInv, Ownership, Owns, SaveCurrent
  <2> QED
    BY <2>1, <2>2 DEF SwitchIInv, SwitchTypes, SaveCurrent
<1>2. Ownership'
  BY DEF SwitchIInv, SwitchTypes, SaveCurrent, Ownership, Owns
<1>3. FramesFit'
  BY DEF SwitchIInv, SwitchTypes, SaveCurrent, FramesFit, FrameOf, RegistersOf, HasLimit
<1>4. SecureFit'
  BY DEF SwitchIInv, SwitchTypes, SaveCurrent, Alone, SecureFit
<1>5. HandlersFit'
  BY DEF SwitchIInv, SaveCurrent, HandlersFit, RiscV
<1> QED
  BY <1>1, <1>2, <1>3, <1>4, <1>5 DEF SwitchIInv

\* The secure bank of the task that leaves is saved.
LEMMA BankSaveKeeps ==
    ASSUME SwitchIInv, NEW c \in SwitchCore, BankSave(c)
    PROVE  SwitchIInv'
<1>1. SwitchTypes'
  BY DEF SwitchIInv, SwitchTypes, BankSave, kernelVars, Part, Ownership
<1>2. Ownership'
  BY DEF SwitchIInv, BankSave, Ownership, Owns, kernelVars
<1>3. FramesFit'
  BY DEF SwitchIInv, SwitchTypes, BankSave, FramesFit, FrameOf, RegistersOf, HasLimit,
     kernelVars
<1>4. SecureFit'
  BY DEF SwitchIInv, SwitchTypes, BankSave, Alone, SecureFit, kernelVars
<1>5. HandlersFit'
  BY DEF SwitchIInv, BankSave, HandlersFit, RiscV
<1> QED
  BY <1>1, <1>2, <1>3, <1>4, <1>5 DEF SwitchIInv

\* The next task is selected.
LEMMA SelectNextKeeps ==
    ASSUME SwitchIInv, NEW c \in SwitchCore, SelectNext(c)
    PROVE  SwitchIInv'
<1>1. SwitchTypes'
  BY DEF SwitchIInv, SwitchTypes, SelectNext
<1>2. Ownership'
  BY DEF SwitchIInv, SwitchTypes, SelectNext, Ownership, Owns, Takeable
<1>3. FramesFit'
  BY DEF SwitchIInv, SwitchTypes, SelectNext, Ownership, Owns, FramesFit, FrameOf,
     RegistersOf, HasLimit, Takeable
<1>4. SecureFit'
  <2> SUFFICES ASSUME build.banks, Alone
               PROVE  SecureFit'
    BY DEF SecureFit, SelectNext, Alone
  <2>1. \A d \in SwitchCore : d # c => place[d] = "boot"
    BY DEF SwitchIInv, Alone, Ownership, SelectNext
  <2>2. PICK t \in SwitchTask : /\ runningCore[t] = NoHost
                                /\ runningCore' = [runningCore EXCEPT ![t] = c]
                                /\ current' = [current EXCEPT ![c] = t]
    <3>1. runningCore[IdleOf[c]] = NoHost
      BY DEF SwitchIInv, SelectNext, Ownership, Owns
    <3> QED
      BY <3>1 DEF SelectNext, Takeable
  <2>3. bank[t] = <<t, version[t]>>
    BY <2>1, <2>2 DEF SwitchIInv, SecureFit, SelectNext
  <2> QED
    BY <2>1, <2>2, <2>3 DEF SwitchIInv, SwitchTypes, SelectNext, SecureFit
<1>5. HandlersFit'
  BY DEF SwitchIInv, SelectNext, HandlersFit, RiscV
<1> QED
  BY <1>1, <1>2, <1>3, <1>4, <1>5 DEF SwitchIInv

\* The secure bank of the task that comes is loaded.
LEMMA BankLoadKeeps ==
    ASSUME SwitchIInv, NEW c \in SwitchCore, BankLoad(c)
    PROVE  SwitchIInv'
<1>1. SwitchTypes'
  <2>1. current[c] \in SwitchTask
    BY DEF SwitchIInv, Ownership, Owns, BankLoad
  <2>2. regs' \in [SwitchCore -> [Part -> Value]]
    BY <2>1 DEF SwitchIInv, SwitchTypes, BankLoad
  <2> QED
    BY <2>2 DEF SwitchIInv, SwitchTypes, BankLoad, kernelVars
<1>2. Ownership'
  BY DEF SwitchIInv, BankLoad, Ownership, Owns, kernelVars
<1>3. FramesFit'
  BY DEF SwitchIInv, SwitchTypes, BankLoad, FramesFit, FrameOf, RegistersOf, HasLimit,
     kernelVars
<1>4. SecureFit'
  BY DEF SwitchIInv, SwitchTypes, BankLoad, Alone, SecureFit, kernelVars
<1>5. HandlersFit'
  BY DEF SwitchIInv, BankLoad, HandlersFit, RiscV
<1> QED
  BY <1>1, <1>2, <1>3, <1>4, <1>5 DEF SwitchIInv

\* Its registers are restored.
LEMMA RestoreKeeps ==
    ASSUME SwitchIInv, NEW c \in SwitchCore, Restore(c)
    PROVE  SwitchIInv'
<1>1. SwitchTypes'
  <2>1. current[c] \in SwitchTask
    BY DEF SwitchIInv, Ownership, Owns, Restore
  <2>2. /\ {frame[current[c]].core, frame[current[c]].fp, frame[current[c]].limit} \subseteq Value
        /\ frame[current[c]].exc \in BOOLEAN
    BY <2>1 DEF SwitchIInv, SwitchTypes, Frame
  <2>3. regs' \in [SwitchCore -> [Part -> Value]]
    <3> DEFINE f == frame[current[c]]
               row == [regs[c] EXCEPT !.core = f.core, !.fp = IF f.exc THEN f.fp ELSE @,
                                      !.limit = IF HasLimit THEN f.limit ELSE @]
    <3>1. regs \in [SwitchCore -> [Part -> Value]] /\ regs[c] \in [Part -> Value]
      BY DEF SwitchIInv, SwitchTypes
    <3>2. {f.core, f.fp, f.limit} \subseteq Value
      BY <2>2
    <3>3. regs' = [regs EXCEPT ![c] = row]
      BY <3>1 DEF Restore, Part
    <3> HIDE DEF f
    <3>4. row \in [Part -> Value]
      BY <3>1, <3>2 DEF Part
    <3> QED
      BY <3>1, <3>3, <3>4
  <2> QED
    BY <2>2, <2>3 DEF SwitchIInv, SwitchTypes, Restore, kernelVars
<1>2. Ownership'
  BY DEF SwitchIInv, Restore, Ownership, Owns, kernelVars
<1>3. FramesFit'
  <2> DEFINE t == current[c]
  <2>1. t \in SwitchTask /\ runningCore[t] = c
    BY DEF SwitchIInv, Ownership, Owns, Restore
  <2>2. \A f, u : FrameOf(f, u)' <=> FrameOf(f, u)
    BY DEF Restore, FrameOf, HasLimit
  <2>3. ASSUME NEW d \in SwitchCore, d # c, NEW u
        PROVE  RegistersOf(d, u)' <=> RegistersOf(d, u)
    BY <2>3 DEF SwitchIInv, SwitchTypes, Restore, RegistersOf, HasLimit
  <2>4. FrameOf(frame[t], t)
    BY DEF SwitchIInv, FramesFit, Restore
  <2>5. /\ regs'[c].core = frame[t].core /\ fpca'[c] = frame[t].exc
        /\ HasLimit => regs'[c].limit = frame[t].limit
        /\ frame[t].exc => regs'[c].fp = frame[t].fp
    BY DEF SwitchIInv, SwitchTypes, Restore, Part
  <2>6. frame[t].exc \in BOOLEAN
    BY <2>1 DEF SwitchIInv, SwitchTypes, Frame
  <2>7. /\ place' = [place EXCEPT ![c] = "thread"] /\ frame' = frame /\ pushed' = pushed
        /\ current' = current /\ runningCore' = runningCore /\ version' = version
        /\ usedFp' = usedFp /\ build' = build
    BY DEF Restore, kernelVars
  <2>8. t' = t
    BY <2>7
  <2> HIDE DEF t
  <2>9. RegistersOf(c, t)'
    BY <2>4, <2>5, <2>7, <2>8 DEF FrameOf, RegistersOf, HasLimit
  <2> QED
    BY <2>2, <2>3, <2>7, <2>9 DEF SwitchIInv, FramesFit, t
<1>4. SecureFit'
  BY DEF SwitchIInv, SwitchTypes, Restore, Alone, SecureFit, kernelVars
<1>5. HandlersFit'
  BY DEF SwitchIInv, Restore, HandlersFit, RiscV, HandlerTop
<1> QED
  BY <1>1, <1>2, <1>3, <1>4, <1>5 DEF SwitchIInv

\* A switch is asked for.
LEMMA RequestKeeps ==
    ASSUME SwitchIInv, NEW c \in SwitchCore, NEW b \in BOOLEAN, Request(c, b)
    PROVE  SwitchIInv'
<1>1. SwitchTypes'
  BY DEF SwitchIInv, SwitchTypes, Request, Ownership, Owns
<1>2. Ownership'
  BY DEF SwitchIInv, Request, Ownership, Owns
<1>3. FramesFit'
  BY DEF SwitchIInv, Request, Ownership, FramesFit, FrameOf, RegistersOf, HasLimit
<1>4. SecureFit'
  BY DEF SwitchIInv, Request, Alone, SecureFit
<1>5. HandlersFit'
  BY DEF SwitchIInv, Request, HandlersFit, RiscV
<1> QED
  BY <1>1, <1>2, <1>3, <1>4, <1>5 DEF SwitchIInv

\* A task becomes ready.
LEMMA WakesKeeps ==
    ASSUME SwitchIInv, NEW t \in SwitchTask, Wakes(t)
    PROVE  SwitchIInv'
<1>1. SwitchTypes'
  BY DEF SwitchIInv, SwitchTypes, Wakes
<1>2. Ownership'
  BY DEF SwitchIInv, Wakes, Ownership, Owns
<1>3. FramesFit'
  BY DEF SwitchIInv, Wakes, FramesFit, FrameOf, RegistersOf, HasLimit
<1>4. SecureFit'
  BY DEF SwitchIInv, Wakes, Alone, SecureFit
<1>5. HandlersFit'
  BY DEF SwitchIInv, Wakes, HandlersFit, RiscV
<1> QED
  BY <1>1, <1>2, <1>3, <1>4, <1>5 DEF SwitchIInv

\* The invariant of the switch holds at first.
LEMMA SwitchInitIInv ==
    ASSUME SwitchInit
    PROVE  SwitchIInv
<1>1. SwitchTypes
  <2>1. \A t \in SwitchTask : NewFrame(t) \in Frame /\ <<t, 0>> \in Value
    BY ValueOf DEF NewFrame, Frame
  <2>2. NewFrame(NoTask) \in Frame /\ <<NoTask, 0>> \in Value
    BY ValueOf DEF NewFrame, Frame
  <2> QED
    BY <2>1, <2>2 DEF SwitchInit, SwitchTypes
<1>2. Ownership
  BY DEF Ownership, Owns, SwitchInit
<1>3. FramesFit
  BY DEF FramesFit, FrameOf, NewFrame, SwitchInit
<1>4. SecureFit
  BY DEF SecureFit, SwitchInit
<1>5. HandlersFit
  BY DEF HandlersFit, SwitchInit
<1> QED
  BY <1>1, <1>2, <1>3, <1>4, <1>5 DEF SwitchIInv

\* Each step keeps it.
LEMMA SwitchStepKeeps == SwitchIInv /\ [SwitchNext]_switchVars => SwitchIInv'
<1> SUFFICES ASSUME SwitchIInv, [SwitchNext]_switchVars
             PROVE  SwitchIInv'
  OBVIOUS
<1>1. CASE UNCHANGED switchVars
  <2> USE <1>1 DEF switchVars, kernelVars
  <2>1. SwitchTypes'
    BY DEF SwitchIInv, SwitchTypes
  <2>2. Ownership'
    BY DEF SwitchIInv, Ownership, Owns
  <2>3. FramesFit'
    BY DEF SwitchIInv, FramesFit, FrameOf, RegistersOf, HasLimit
  <2>4. SecureFit' /\ HandlersFit'
    BY DEF SwitchIInv, SecureFit, Alone, HandlersFit, RiscV
  <2> QED
    BY <2>1, <2>2, <2>3, <2>4 DEF SwitchIInv
<1>2. ASSUME NEW c \in SwitchCore, NEW blocks \in BOOLEAN, Request(c, blocks)
      PROVE  SwitchIInv'
  BY <1>2, RequestKeeps
<1>3. ASSUME NEW t \in SwitchTask, Wakes(t)
      PROVE  SwitchIInv'
  BY <1>3, WakesKeeps
<1>4. ASSUME NEW c \in SwitchCore,
             \/ Compute(c) \/ UseFp(c) \/ StartFirst(c) \/ Enter(c) \/ Push(c)
             \/ SaveCurrent(c) \/ BankSave(c) \/ SelectNext(c) \/ BankLoad(c) \/ Restore(c)
      PROVE  SwitchIInv'
  BY <1>4, ComputeKeeps, UseFpKeeps, StartFirstKeeps, EnterKeeps, PushKeeps,
     SaveCurrentKeeps, BankSaveKeeps, SelectNextKeeps, BankLoadKeeps, RestoreKeeps
<1> QED
  BY <1>1, <1>2, <1>3, <1>4 DEF SwitchNext

\* It gives the types, the stacks apart and the contexts intact.
LEMMA SwitchIInvSafe ==
    SwitchIInv => SwitchTypeOK /\ StacksApart /\ ((build.banks => Alone) => ContextIntact)
<1> SUFFICES ASSUME SwitchIInv
             PROVE  SwitchTypeOK /\ StacksApart /\ ((build.banks => Alone) => ContextIntact)
  OBVIOUS
<1>1. SwitchTypeOK
  BY DEF SwitchIInv, SwitchTypes, SwitchTypeOK
<1>2. (build.banks => Alone) => ContextIntact
  BY DEF SwitchIInv, FramesFit, SecureFit, RegistersOf, ContextIntact
<1>3. ASSUME NEW c \in SwitchCore, NEW d \in SwitchCore, c # d
      PROVE  StackOf(c) # StackOf(d)
  <2>1. ASSUME NEW e \in SwitchCore
        PROVE  \/ /\ StackOf(e) = <<"boot", e>>
                  /\ place[e] = "boot" \/ handlerStack[e] = <<"boot", e>>
               \/ StackOf(e) = <<"handler", e>>
               \/ StackOf(e) = <<"task", current[e]>> /\ Owns(e)
    BY DEF SwitchIInv, HandlersFit, StackOf, Owns
  <2>2. Owns(c) /\ Owns(d) => current[c] # current[d]
    BY <1>3 DEF SwitchIInv, Ownership
  <2> QED
    BY <1>3, <2>1, <2>2
<1> QED
  BY <1>1, <1>2, <1>3 DEF StacksApart

\* No two cores ever work on one stack, and a task comes back to the registers it left, on any
\* number of cores; with a secure bank, on one core: the PendSV and trap handlers of the ports.
THEOREM StacksAlwaysApart ==
    SwitchSpec => [](SwitchTypeOK /\ StacksApart /\ ((build.banks => Alone) => ContextIntact))
BY SwitchInitIInv, SwitchStepKeeps, SwitchIInvSafe, PTL DEF SwitchSpec

\* The property of the run, for builds that bank a secure context on one core only.  With two, the
\* context is not always intact: another core may load a bank before PendSV has saved it.
THEOREM SwitchAlwaysSafe ==
    ASSUME \A b \in Builds : b.banks => \A c, d \in b.cores : c = d
    PROVE  SwitchSpec => []SwitchSafe
<1>1. SwitchIInv => SwitchSafe
  <2>1. SwitchIInv => (build.banks => Alone)
    BY DEF SwitchIInv, SwitchTypes, Alone
  <2> QED
    BY <2>1, SwitchIInvSafe DEF SwitchSafe
<1> QED
  BY <1>1, SwitchInitIInv, SwitchStepKeeps, PTL DEF SwitchSpec

HIDE SwitchAssumption

-----------------------------------------------------------------------------
(***************************************************************************)
(* The watermark of a stack.                                               *)
(***************************************************************************)

\* What a creation has painted so far, and what a live task has not touched.
Painted ==
    /\ creating # "no" => ~live
    /\ creating = "fill" => \A i \in Cell : i < filled => cells[i]
    /\ creating = "frame" => \A i \in Cell : cells[i]
    /\ creating = "claim" => /\ ~cells[Depth - 1]
                             /\ \A i \in Cell : i < Depth - 1 => cells[i]
    /\ live => /\ deepest \in Cell /\ ~cells[deepest]
               /\ \A i \in Cell : i < deepest => cells[i]

\* What the scan has found of a task that has lived on.
ScanFits ==
    watermark.at # "no" /\ watermark.same =>
        /\ live /\ watermark.from \in Cell /\ ~cells[watermark.from]
        /\ watermark.index <= watermark.from
        /\ watermark.at # "scan" => deepest <= watermark.index

StackTypes ==
    /\ cells \in [Cell -> BOOLEAN] /\ live \in BOOLEAN
    /\ creating \in {"no", "fill", "frame", "claim"}
    /\ filled \in 0 .. Depth /\ deepest \in 0 .. Depth
    /\ watermark \in [at : {"no", "scan", "recheck", "published"}, index : 0 .. Depth,
                      from : 0 .. Depth, same : BOOLEAN]

StackIInv == StackTypes /\ Painted /\ ScanFits

\* The invariant of the watermark holds at first.
LEMMA StackInitIInv == StackInit => StackIInv
<1> SUFFICES ASSUME StackInit
             PROVE  StackIInv
  OBVIOUS
<1>1. StackTypes
  <2>1. 0 \in 0 .. Depth /\ Depth \in 0 .. Depth
    BY StackAssumption
  <2> QED
    BY <2>1 DEF StackInit, NotAsked, StackTypes
<1>2. Painted /\ ScanFits
  BY DEF StackInit, NotAsked, Painted, ScanFits
<1> QED
  BY <1>1, <1>2 DEF StackIInv

\* Each step keeps it.
LEMMA StackStepKeeps == StackIInv /\ [StackNext]_stackVars => StackIInv'
<1> SUFFICES ASSUME StackIInv, [StackNext]_stackVars
             PROVE  StackIInv'
  OBVIOUS
<1> USE StackAssumption
<1>1. CASE UNCHANGED stackVars
  BY <1>1 DEF StackIInv, StackTypes, Painted, ScanFits, stackVars, Cell
<1>2. CASE CreateStack
  BY <1>2 DEF StackIInv, StackTypes, Painted, ScanFits, CreateStack, Cell
<1>3. CASE Fill
  <2>1. StackTypes'
    <3>1. filled' \in 0 .. Depth
      BY <1>3 DEF StackIInv, StackTypes, Fill
    <3>2. cells' \in [Cell -> BOOLEAN]
      BY <1>3 DEF StackIInv, StackTypes, Fill
    <3> QED
      BY <1>3, <3>1, <3>2 DEF StackIInv, StackTypes, Fill
  <2>2. Painted'
    BY <1>3 DEF StackIInv, StackTypes, Painted, Fill, Cell
  <2>3. ScanFits'
    BY <1>3 DEF StackIInv, StackTypes, Painted, ScanFits, Fill, Cell
  <2> QED
    BY <2>1, <2>2, <2>3 DEF StackIInv
<1>4. CASE LayFrame
  <2>1. StackTypes'
    BY <1>4 DEF StackIInv, StackTypes, LayFrame, GuardPainted, Cell
  <2>2. Painted'
    BY <1>4 DEF StackIInv, StackTypes, Painted, LayFrame, GuardPainted, Cell
  <2>3. ScanFits'
    BY <1>4 DEF StackIInv, StackTypes, Painted, ScanFits, LayFrame, GuardPainted, Cell
  <2> QED
    BY <2>1, <2>2, <2>3 DEF StackIInv
<1>5. CASE Claim
  BY <1>5 DEF StackIInv, StackTypes, Painted, ScanFits, Claim, Cell
<1>6. CASE DeleteStack
  <2>1. StackTypes'
    <3>1. Depth \in 0 .. Depth
      OBVIOUS
    <3> QED
      BY <1>6, <3>1 DEF StackIInv, StackTypes, DeleteStack
  <2>2. Painted'
    BY <1>6 DEF StackIInv, StackTypes, Painted, DeleteStack, Cell
  <2>3. ScanFits'
    BY <1>6 DEF StackIInv, StackTypes, Painted, ScanFits, DeleteStack, Cell
  <2> QED
    BY <2>1, <2>2, <2>3 DEF StackIInv
<1>7. ASSUME NEW i \in Cell, Descend(i) PROVE StackIInv'
  BY <1>7 DEF StackIInv, StackTypes, Painted, ScanFits, Descend, Cell
<1>8. CASE Ask
  BY <1>8 DEF StackIInv, StackTypes, Painted, ScanFits, Ask, Cell
<1>9. CASE Scan
  BY <1>9 DEF StackIInv, StackTypes, Painted, ScanFits, Scan, Cell
<1>10. CASE Recheck
  BY <1>10 DEF StackIInv, StackTypes, Painted, ScanFits, Recheck, StillThere, NotAsked, Cell
<1>11. CASE Publish
  BY <1>11 DEF StackIInv, StackTypes, Painted, ScanFits, Publish, NotAsked, Cell
<1> QED
  BY <1>1, <1>2, <1>3, <1>4, <1>5, <1>6, <1>7, <1>8, <1>9, <1>10, <1>11 DEF StackNext

\* It gives what the run checks.
LEMMA StackIInvHonest == StackIInv => StackTypeOK /\ WatermarkHonest
BY DEF StackIInv, StackTypes, Painted, ScanFits, StackTypeOK, WatermarkHonest

\* The watermark of a stack never claims less use than was made of it, though the stack is used
\* while it is scanned: os_task_stack_watermark_get, for stacks of any depth.
THEOREM WatermarkAlwaysHonest == StackSpec => [](StackTypeOK /\ WatermarkHonest)
BY StackInitIInv, StackStepKeeps, StackIInvHonest, PTL DEF StackSpec

-----------------------------------------------------------------------------
(***************************************************************************)
(* Atomics.                                                                *)
(***************************************************************************)

CallOf == [at : {"idle", "load", "store"}, op : Op \cup {"get"}, arg : Word, expected : Word,
         seen : Word, ok : BOOLEAN]

AtomicTypes ==
    /\ way \in {"exclusive", "amo", "section"} /\ hostOf \in [Updater -> Host]
    /\ word \in Word /\ monitor \in [Host -> BOOLEAN] /\ onHost \in [Host -> Updater]
    /\ operation \in [Updater -> CallOf]
    /\ \A t \in Updater : operation[t].at # "idle" => operation[t].op \in Op

\* A reservation that is there vouches for what its task has loaded; only a core
\* with exclusives is between a load and a store.
ReservationFits ==
    /\ \A t \in Updater : operation[t].at = "store" =>
           /\ way # "section"
           /\ Runs(t) /\ monitor[hostOf[t]] => operation[t].seen = word

AtomicIInv == AtomicTypes /\ ReservationFits

USE AtomicsAssumption

\* What is computed fits into a word.
LEMMA UpdatedIsWord ==
    ASSUME NEW op \in Op, NEW v \in Word, NEW arg \in Word
    PROVE  Updated(op, v, arg) \in Word
<1>1. Sum(v, arg) \in Word /\ Difference(v, arg) \in Word
  BY DEF Sum, Difference, WordOf, Word
<1>2. CASE op \in {"or", "and", "xor", "nand"}
  <2>1. Bitwise(op, v, arg) \in Word
    BY <1>2 DEF Bitwise, Word
  <2> QED
    BY <1>2, <2>1 DEF Updated
<1> QED
  BY <1>1, <1>2 DEF Updated, Op

\* What a call that is over, or goes on, leaves in its task.
LEMMA CallRows ==
    ASSUME NEW t \in Updater, operation \in [Updater -> CallOf], NEW v \in Word
    PROVE  /\ \A ok \in BOOLEAN : Finish(t, v, ok) =>
                /\ operation' \in [Updater -> CallOf]
                /\ operation'[t].at = "idle" /\ operation'[t].ok = ok /\ operation'[t].seen = v
                /\ \A u \in Updater : u # t => operation'[u] = operation[u]
           /\ \A step \in {"load", "store"} : SetCall(t, step, v) =>
                /\ operation' \in [Updater -> CallOf]
                /\ operation'[t].at = step /\ operation'[t].op = operation[t].op
                /\ operation'[t].seen = v
                /\ \A u \in Updater : u # t => operation'[u] = operation[u]
<1>1. ASSUME NEW ok \in BOOLEAN, Finish(t, v, ok)
      PROVE  /\ operation' \in [Updater -> CallOf]
             /\ operation'[t].at = "idle" /\ operation'[t].ok = ok /\ operation'[t].seen = v
             /\ \A u \in Updater : u # t => operation'[u] = operation[u]
  <2>1. [Uncalled EXCEPT !.seen = v, !.ok = ok] \in CallOf
    BY DEF Uncalled, CallOf, Word
  <2> QED
    BY <1>1, <2>1 DEF Finish, Uncalled
<1>2. ASSUME NEW step \in {"load", "store"}, SetCall(t, step, v)
      PROVE  /\ operation' \in [Updater -> CallOf]
             /\ operation'[t].at = step /\ operation'[t].op = operation[t].op
             /\ operation'[t].seen = v
             /\ \A u \in Updater : u # t => operation'[u] = operation[u]
  <2>1. operation[t] \in CallOf
    OBVIOUS
  <2>2. operation' = [operation EXCEPT ![t] = [operation[t] EXCEPT !.at = step, !.seen = v]]
    BY <1>2 DEF SetCall
  <2>3. [operation[t] EXCEPT !.at = step, !.seen = v] \in CallOf
    BY <2>1 DEF CallOf
  <2> QED
    BY <2>2, <2>3
<1> QED
  BY <1>1, <1>2

\* The invariant of the atomics holds at first.
LEMMA AtomicInitIInv == AtomicInit => AtomicIInv
<1>1. Uncalled \in CallOf /\ {} \in Word
  BY DEF Uncalled, CallOf, Word
<1> QED
  BY <1>1 DEF AtomicInit, AtomicIInv, AtomicTypes, ReservationFits, Uncalled

\* Each step keeps it.
LEMMA AtomicStepKeeps == AtomicIInv /\ [AtomicNext]_atomicVars => AtomicIInv'
<1> SUFFICES ASSUME AtomicIInv, [AtomicNext]_atomicVars
             PROVE  AtomicIInv'
  OBVIOUS
<1> USE DEF AtomicIInv
<1>1. CASE UNCHANGED atomicVars
  BY <1>1 DEF AtomicTypes, ReservationFits, Runs, atomicVars
<1>2. ASSUME NEW t \in Updater, NEW op \in Op, NEW arg \in Args, NEW expected \in Args,
             CallAtomic(t, op, arg, expected)
      PROVE  AtomicIInv'
  <2>1. [at |-> "load", op |-> op, arg |-> arg, expected |-> expected,
         seen |-> {}, ok |-> TRUE] \in CallOf
    BY DEF CallOf, Word, Bit
  <2> QED
    BY <1>2, <2>1 DEF CallAtomic, AtomicTypes, ReservationFits, Runs
<1>3. ASSUME NEW t \in Updater, InOne(t) PROVE AtomicIInv'
  <2>1. /\ operation \in [Updater -> CallOf] /\ word \in Word /\ operation[t].seen \in Word
        /\ operation[t].arg \in Word /\ operation[t].op \in Op
    BY <1>3 DEF InOne, AtomicTypes, CallOf
  <2>2. AtomicTypes'
    BY <1>3, <2>1, CallRows, UpdatedIsWord DEF InOne, AtomicTypes, Word
  <2>3. ReservationFits'
    BY <1>3 DEF InOne, AtomicTypes, ReservationFits
  <2> QED
    BY <2>2, <2>3
<1>4. ASSUME NEW t \in Updater, InSection(t) PROVE AtomicIInv'
  <2>1. /\ operation \in [Updater -> CallOf] /\ word \in Word /\ operation[t].seen \in Word
        /\ operation[t].arg \in Word /\ operation[t].op \in Op
    BY <1>4 DEF InSection, AtomicTypes, CallOf
  <2>2. PICK ok \in BOOLEAN : Finish(t, word, ok)
    BY <1>4 DEF InSection
  <2>3. /\ operation' \in [Updater -> CallOf] /\ operation'[t].at = "idle"
        /\ \A u \in Updater : u # t => operation'[u] = operation[u]
    BY <2>1, <2>2, CallRows
  <2>4. word' \in Word
    BY <1>4, <2>1, UpdatedIsWord DEF InSection
  <2>5. AtomicTypes'
    BY <1>4, <2>3, <2>4 DEF InSection, AtomicTypes
  <2>6. ReservationFits'
    BY <1>4, <2>3 DEF InSection, ReservationFits
  <2> QED
    BY <2>5, <2>6
<1>5. ASSUME NEW t \in Updater, LoadExclusive(t) PROVE AtomicIInv'
  <2>1. /\ operation \in [Updater -> CallOf] /\ word \in Word /\ operation[t].seen \in Word
        /\ operation[t].arg \in Word /\ operation[t].op \in Op
    BY <1>5 DEF LoadExclusive, AtomicTypes, CallOf
  <2>2. AtomicTypes'
    BY <1>5, <2>1, CallRows, UpdatedIsWord DEF LoadExclusive, AtomicTypes, Word
  <2>3. ReservationFits'
    <3>1. /\ operation'[t].at = "store" => operation'[t].seen = word
          /\ \A u \in Updater : u # t => operation'[u] = operation[u]
      BY <1>5, <2>1, CallRows DEF LoadExclusive
    <3>2. \A u \in Updater : Runs(u) /\ u # t => hostOf[u] # hostOf[t]
      BY <1>5 DEF LoadExclusive, Runs
    <3>3. way # "section" /\ way' = way /\ hostOf' = hostOf /\ onHost' = onHost /\ word' = word
      BY <1>5 DEF LoadExclusive
    <3>4. \A u \in Updater : Runs(u) /\ u # t => monitor'[hostOf[u]] = monitor[hostOf[u]]
      BY <1>5, <3>2 DEF LoadExclusive
    <3> QED
      BY <3>1, <3>3, <3>4 DEF ReservationFits, Runs
  <2> QED
    BY <2>2, <2>3
<1>6. ASSUME NEW t \in Updater, StoreExclusive(t) PROVE AtomicIInv'
  <2>1. /\ operation \in [Updater -> CallOf] /\ word \in Word /\ operation[t].seen \in Word
        /\ operation[t].arg \in Word /\ operation[t].op \in Op
    BY <1>6 DEF StoreExclusive, AtomicTypes, CallOf
  <2>2. AtomicTypes'
    BY <1>6, <2>1, CallRows, UpdatedIsWord DEF StoreExclusive, AtomicTypes, Word
  <2>3. ReservationFits'
    BY <1>6 DEF StoreExclusive, AtomicTypes, ReservationFits
  <2> QED
    BY <2>2, <2>3
<1>7. ASSUME NEW t \in Updater, StoreFails(t) PROVE AtomicIInv'
  <2>1. /\ operation \in [Updater -> CallOf] /\ word \in Word /\ operation[t].seen \in Word
        /\ operation[t].arg \in Word /\ operation[t].op \in Op
    BY <1>7 DEF StoreFails, AtomicTypes, CallOf
  <2>2. AtomicTypes'
    BY <1>7, CallRows DEF StoreFails, TryAgain, AtomicTypes, Word
  <2>3. ReservationFits'
    BY <1>7, CallRows DEF StoreFails, TryAgain, AtomicTypes, ReservationFits, Runs, Word
  <2> QED
    BY <2>2, <2>3
<1>8. ASSUME NEW t \in Updater, SwitchTo(t) PROVE AtomicIInv'
  BY <1>8 DEF SwitchTo, AfterSwitch, AtomicTypes, ReservationFits, Runs
<1> QED
  BY <1>1, <1>2, <1>3, <1>4, <1>5, <1>6, <1>7, <1>8 DEF AtomicNext

\* A word changes only as one whole operation.
LEMMA StepIndivisible ==
    ASSUME AtomicIInv, AtomicNext
    PROVE  word' # word =>
              \E t \in Updater :
                  /\ Completes(t) /\ operation'[t].ok
                  /\ word' = Updated(operation[t].op, word, operation[t].arg)
                  /\ operation'[t].seen = word
<1>1. ASSUME NEW t \in Updater, InOne(t), word' # word
      PROVE  /\ Completes(t) /\ operation'[t].ok
             /\ word' = Updated(operation[t].op, word, operation[t].arg)
             /\ operation'[t].seen = word
  <2>1. operation \in [Updater -> CallOf] /\ word \in Word /\ operation[t].seen \in Word
    BY DEF AtomicIInv, AtomicTypes, CallOf
  <2> QED
    BY <1>1, <2>1, CallRows DEF InOne, Completes, AtomicIInv, ReservationFits
<1>2. ASSUME NEW t \in Updater, InSection(t), word' # word
      PROVE  /\ Completes(t) /\ operation'[t].ok
             /\ word' = Updated(operation[t].op, word, operation[t].arg)
             /\ operation'[t].seen = word
  <2>1. operation \in [Updater -> CallOf] /\ word \in Word /\ operation[t].seen \in Word
    BY DEF AtomicIInv, AtomicTypes, CallOf
  <2> QED
    BY <1>2, <2>1, CallRows DEF InSection, Completes, AtomicIInv, ReservationFits
<1>3. ASSUME NEW t \in Updater, StoreExclusive(t), word' # word
      PROVE  /\ Completes(t) /\ operation'[t].ok
             /\ word' = Updated(operation[t].op, word, operation[t].arg)
             /\ operation'[t].seen = word
  <2>1. operation \in [Updater -> CallOf] /\ word \in Word /\ operation[t].seen \in Word
    BY DEF AtomicIInv, AtomicTypes, CallOf
  <2> QED
    BY <1>3, <2>1, CallRows DEF StoreExclusive, Completes, AtomicIInv, ReservationFits
<1> QED
  BY <1>1, <1>2, <1>3 DEF AtomicNext, CallAtomic, LoadExclusive, StoreFails, SwitchTo

\* An exchange is refused only when the word differs from what was expected.
LEMMA StepRefusesForCause ==
    ASSUME AtomicIInv, AtomicNext, NEW t \in Updater, Completes(t), ~operation'[t].ok
    PROVE  word # operation[t].expected
<1>1. /\ operation \in [Updater -> CallOf] /\ word \in Word
      /\ \A u \in Updater : operation[u].seen \in Word
  BY DEF AtomicIInv, AtomicTypes, CallOf
<1>2. ASSUME NEW u \in Updater, InOne(u) \/ StoreExclusive(u) \/ StoreFails(u)
      PROVE  FALSE
  <2>1. operation'[t].at = "idle" /\ operation[t].at # "idle" /\ ~operation'[t].ok
    BY DEF Completes
  <2>2. CASE InOne(u)
    BY <1>1, <2>1, <2>2, CallRows DEF InOne
  <2>3. CASE StoreExclusive(u)
    BY <1>1, <2>1, <2>3, CallRows DEF StoreExclusive
  <2>4. CASE StoreFails(u)
    BY <1>1, <2>1, <2>4, CallRows DEF StoreFails, TryAgain, Word
  <2> QED
    BY <1>2, <2>2, <2>3, <2>4
<1>3. ASSUME NEW u \in Updater, LoadExclusive(u) \/ InSection(u)
      PROVE  word # operation[t].expected
  <2>1. operation'[t].at = "idle" /\ operation[t].at # "idle" /\ ~operation'[t].ok
    BY DEF Completes
  <2>2. CASE LoadExclusive(u)
    BY <1>1, <2>1, <2>2, CallRows DEF LoadExclusive
  <2>3. CASE InSection(u)
    BY <1>1, <2>1, <2>3, CallRows DEF InSection
  <2> QED
    BY <1>3, <2>2, <2>3
<1>4. ASSUME NEW u \in Updater, NEW op \in Op, NEW arg \in Args, NEW expected \in Args,
             CallAtomic(u, op, arg, expected)
      PROVE  FALSE
  BY <1>4 DEF CallAtomic, Completes
<1>5. ASSUME NEW u \in Updater, SwitchTo(u)
      PROVE  FALSE
  BY <1>5 DEF SwitchTo, Completes
<1> QED
  BY <1>2, <1>4, <1>5, <1>3 DEF AtomicNext

\* Each operation takes effect at once and whole, and a comparison fails only for cause, with
\* exclusive accesses, a reservation or a section: os_atomic.c, for any number of updaters.
THEOREM AtomicsAlwaysSafe == AtomicSpec => []AtomicTypeOK /\ AtomicsSafe
<1>1. AtomicIInv => AtomicTypeOK
  BY DEF AtomicIInv, AtomicTypes, AtomicTypeOK, CallOf
<1>2. AtomicIInv /\ [AtomicNext]_atomicVars =>
        [word' # word =>
              \E t \in Updater :
                  /\ Completes(t) /\ operation'[t].ok
                  /\ word' = Updated(operation[t].op, word, operation[t].arg)
                  /\ operation'[t].seen = word]_atomicVars
  BY StepIndivisible
<1>3. AtomicIInv /\ [AtomicNext]_atomicVars =>
        [\A t \in Updater :
              Completes(t) /\ ~operation'[t].ok => word # operation[t].expected]_atomicVars
  BY StepRefusesForCause
<1> QED
  BY <1>1, <1>2, <1>3, AtomicInitIInv, AtomicStepKeeps, PTL
  DEF AtomicSpec, AtomicsSafe, Indivisible, RefusesForCause

HIDE AtomicsAssumption

-----------------------------------------------------------------------------
(***************************************************************************)
(* The start of the cores.                                                 *)
(***************************************************************************)

BootWordTypes ==
    /\ package \in Packages /\ stage \in [BootCore -> Stage]
    /\ bootPsp \in [BootCore -> {"unknown", "none", "task"}]
    /\ fifo \in [BootCore -> 0 .. FifoDepth]
    /\ launched \in 0 .. LaunchWords

BootFlagTypes ==
    /\ irqOff \in [BootCore -> BOOLEAN]
    /\ switchDue \in [BootCore -> BOOLEAN] /\ tickOn \in [BootCore -> BOOLEAN]
    /\ ipiArmed \in [BootCore -> BOOLEAN] /\ bell \in [BootCore -> BOOLEAN]
    /\ echoDue \in BOOLEAN
    /\ tasksMade \in BOOLEAN /\ initialized \in BOOLEAN /\ kernelRunning \in BOOLEAN
    /\ strayStore \in BOOLEAN

Unready == {"soc", "arch", "create", "tick", "inited", "start"}
AfterArm == {"first", "spin", "tasks"}

\* Core 0 makes the kernel step by step, and nothing makes it dispatch before.
Core0Fits ==
    /\ stage[0] \in Unready \cup {"launch", "arm"} \cup AfterArm
    /\ bootPsp[0] = "unknown" => stage[0] \in {"soc", "arch"}
    /\ tasksMade \/ stage[0] \in {"soc", "arch", "create"}
    /\ initialized \/ stage[0] \in Unready
    /\ initialized => stage[0] \notin Unready \ {"start"}
    /\ kernelRunning \/ stage[0] \in Unready
    /\ kernelRunning => stage[0] \notin Unready
    /\ ipiArmed[0] => stage[0] \in AfterArm
    /\ switchDue[0] => kernelRunning

\* Core 1 leaves the boot ROM for a kernel that runs, and until its first task
\* it is masked, or has nothing that could interrupt it.
Core1Fits ==
    /\ stage[1] # "rom" => kernelRunning
    /\ stage[1] \in {"rom", "entry"} => ~tickOn[1] /\ ~ipiArmed[1]
    /\ stage[1] \in {"arm", "enter", "arch", "tick", "first"} => irqOff[1]
    /\ stage[1] \in {"tick", "first"} => bootPsp[1] # "unknown"
    /\ stage[1] \in {"rom", "entry", "arm", "enter", "arch", "tick", "first"} \cup {"spin", "tasks"}
    /\ switchDue[1] => stage[1] \in {"spin", "tasks"}
    /\ stage[1] \in {"spin", "tasks"} => bootPsp[1] # "unknown"

\* A word that is on its way is in a FIFO, and the last one in that of core 0
\* before core 1 can enable what drains its own.
LaunchFits ==
    /\ echoDue \/ launched > 0 => kernelRunning
    /\ stage[0] = "launch" => launched < LaunchWords
    /\ EchoHeard
    /\ stage[0] = "launch" /\ stage[1] # "rom" =>
          echoDue /\ launched + 1 = LaunchWords /\ fifo[0] > 0

BootIInv ==
    /\ BootWordTypes /\ BootFlagTypes
    /\ Core0Fits /\ Core1Fits /\ LaunchFits /\ ~strayStore

\* The invariant of the start holds at first.
LEMMA BootInitIInv == BootInit => BootIInv
<1> SUFFICES ASSUME BootInit
             PROVE  BootIInv
  OBVIOUS
<1>1. BootWordTypes
  BY BootAssumption DEF BootInit, BootWordTypes, Stage
<1>2. BootFlagTypes
  BY BootAssumption
  DEF BootInit, BootIInv, BootWordTypes, BootFlagTypes, Unready, AfterArm, Core0Fits,
      Core1Fits, LaunchFits, EchoHeard, BootCore, Stage
<1>3. Core0Fits
  BY DEF BootInit, Unready, Core0Fits, BootCore
<1>4. Core1Fits
  BY DEF BootInit, Core1Fits, BootCore
<1>5. LaunchFits
  BY DEF BootInit, LaunchFits, EchoHeard, BootCore
<1>6. ~strayStore
  BY DEF BootInit
<1> QED
  BY <1>1, <1>2, <1>3, <1>4, <1>5, <1>6 DEF BootIInv

\* Core 0 sets up the package.
LEMMA SocInitKeeps ==
    ASSUME BootIInv, SocInit
    PROVE  BootIInv'
<1>1. BootWordTypes'
  BY DEF BootIInv, BootWordTypes, irqVars, signalVars, launchVars, BootCore, Stage, SocInit,
     Goes
<1>2. BootFlagTypes'
  BY DEF BootIInv, BootFlagTypes, irqVars, signalVars, launchVars, kernelFlags, SocInit,
     Goes
<1>3. Core0Fits'
  BY DEF BootIInv, Unready, AfterArm, Core0Fits, irqVars, kernelFlags, SocInit, Goes
<1>4. Core1Fits'
  BY DEF BootIInv, Core1Fits, irqVars, kernelFlags, SocInit, Goes
<1>5. LaunchFits'
  BY DEF BootIInv, LaunchFits, EchoHeard, launchVars, kernelFlags, SocInit, Goes
<1>6. ~strayStore'
  BY DEF BootIInv, SocInit, Goes
<1> QED
  BY <1>1, <1>2, <1>3, <1>4, <1>5, <1>6 DEF BootIInv

\* It creates the tasks.
LEMMA CreateTasksKeeps ==
    ASSUME BootIInv, CreateTasks
    PROVE  BootIInv'
<1>1. BootWordTypes'
  BY DEF BootIInv, BootWordTypes, irqVars, signalVars, launchVars, BootCore, Stage,
     CreateTasks, Goes
<1>2. BootFlagTypes'
  BY DEF BootIInv, BootFlagTypes, irqVars, signalVars, launchVars, CreateTasks, Goes
<1>3. Core0Fits'
  BY DEF BootIInv, Unready, AfterArm, Core0Fits, irqVars, CreateTasks, Goes
<1>4. Core1Fits'
  BY DEF BootIInv, Core1Fits, irqVars, CreateTasks, Goes
<1>5. LaunchFits'
  BY DEF BootIInv, LaunchFits, EchoHeard, launchVars, CreateTasks, Goes
<1>6. ~strayStore'
  BY DEF BootIInv, CreateTasks, Goes
<1> QED
  BY <1>1, <1>2, <1>3, <1>4, <1>5, <1>6 DEF BootIInv

\* os_init is done.
LEMMA InitializedKeeps ==
    ASSUME BootIInv, Initialized
    PROVE  BootIInv'
<1>1. BootWordTypes'
  BY DEF BootIInv, BootWordTypes, irqVars, signalVars, launchVars, BootCore, Stage,
     Initialized, Goes
<1>2. BootFlagTypes'
  BY DEF BootIInv, BootFlagTypes, irqVars, signalVars, launchVars, Initialized, Goes
<1>3. Core0Fits'
  BY DEF BootIInv, BootWordTypes, Unready, AfterArm, Core0Fits, irqVars, BootCore,
     Initialized, Goes
<1>4. Core1Fits'
  BY DEF BootIInv, Core1Fits, irqVars, Initialized, Goes
<1>5. LaunchFits'
  BY DEF BootIInv, LaunchFits, EchoHeard, launchVars, Initialized, Goes
<1>6. ~strayStore'
  BY DEF BootIInv, Initialized, Goes
<1> QED
  BY <1>1, <1>2, <1>3, <1>4, <1>5, <1>6 DEF BootIInv

\* Core 0 enters os_start.
LEMMA StartKeeps ==
    ASSUME BootIInv, Start
    PROVE  BootIInv'
<1>1. BootWordTypes'
  BY DEF BootIInv, BootWordTypes, irqVars, signalVars, launchVars, BootCore, Stage, Start,
     Goes
<1>2. BootFlagTypes'
  BY DEF BootIInv, BootFlagTypes, irqVars, signalVars, launchVars, Start, Goes
<1>3. Core0Fits'
  BY DEF BootIInv, BootWordTypes, Unready, AfterArm, Core0Fits, irqVars, BootCore, Start,
     Goes
<1>4. Core1Fits'
  BY DEF BootIInv, Core1Fits, irqVars, Start, Goes
<1>5. LaunchFits'
  BY BootAssumption
  DEF BootIInv, BootWordTypes, Core1Fits, LaunchFits, EchoHeard, launchVars, Start, Goes
<1>6. ~strayStore'
  BY DEF BootIInv, Start, Goes
<1> QED
  BY <1>1, <1>2, <1>3, <1>4, <1>5, <1>6 DEF BootIInv

\* It sends a word of the launch.
LEMMA SendWordKeeps ==
    ASSUME BootIInv, SendWord
    PROVE  BootIInv'
<1>1. BootWordTypes'
  BY BootAssumption DEF BootIInv, BootWordTypes, irqVars, BootCore, SendWord, Goes
<1>2. BootFlagTypes'
  BY DEF BootIInv, BootFlagTypes, irqVars, kernelFlags, SendWord, Goes
<1>3. Core0Fits'
  BY DEF BootIInv, Core0Fits, irqVars, kernelFlags, SendWord, Goes
<1>4. Core1Fits'
  BY DEF BootIInv, Core1Fits, irqVars, kernelFlags, SendWord, Goes
<1>5. LaunchFits'
  BY DEF BootIInv, BootWordTypes, Unready, Core0Fits, LaunchFits, EchoHeard, kernelFlags,
     BootCore, SendWord, Goes
<1>6. ~strayStore'
  BY DEF BootIInv, SendWord, Goes
<1> QED
  BY <1>1, <1>2, <1>3, <1>4, <1>5, <1>6 DEF BootIInv

\* It hears the echo.
LEMMA HearEchoKeeps ==
    ASSUME BootIInv, HearEcho
    PROVE  BootIInv'
<1>1. BootWordTypes'
  BY BootAssumption
  DEF BootIInv, BootWordTypes, LaunchFits, irqVars, BootCore, Stage, HearEcho, Goes
<1>2. BootFlagTypes'
  BY BootAssumption
  DEF BootIInv, BootWordTypes, BootFlagTypes, Unready, AfterArm, Core0Fits, Core1Fits,
      LaunchFits, EchoHeard, irqVars, signalVars, launchVars, kernelFlags, BootCore,
      OtherCore, Stage, HearEcho, Goes
<1>3. Core0Fits'
  BY DEF BootIInv, Unready, AfterArm, Core0Fits, irqVars, kernelFlags, HearEcho, Goes
<1>4. Core1Fits'
  BY DEF BootIInv, Core1Fits, irqVars, kernelFlags, HearEcho, Goes
<1>5. LaunchFits'
  BY BootAssumption
  DEF BootIInv, BootWordTypes, LaunchFits, EchoHeard, kernelFlags, BootCore, HearEcho, Goes
<1>6. ~strayStore'
  BY DEF BootIInv, HearEcho, Goes
<1> QED
  BY <1>1, <1>2, <1>3, <1>4, <1>5, <1>6 DEF BootIInv

\* The ROM of core 1 echoes the word.
LEMMA RomEchoKeeps ==
    ASSUME BootIInv, RomEcho
    PROVE  BootIInv'
<1>1. BootWordTypes'
  BY BootAssumption
  DEF BootIInv, BootWordTypes, irqVars, launchVars, BootCore, Stage, RomEcho, Goes
<1>2. BootFlagTypes'
  BY DEF BootIInv, BootFlagTypes, irqVars, launchVars, kernelFlags, RomEcho, Goes
<1>3. Core0Fits'
  BY DEF BootIInv, Core0Fits, irqVars, kernelFlags, RomEcho, Goes
<1>4. Core1Fits'
  BY DEF BootIInv, Core1Fits, LaunchFits, irqVars, kernelFlags, RomEcho, Goes
<1>5. LaunchFits'
  BY DEF BootIInv, BootWordTypes, LaunchFits, EchoHeard, launchVars, kernelFlags, BootCore,
     RomEcho, Goes
<1>6. ~strayStore'
  BY DEF BootIInv, RomEcho, Goes
<1> QED
  BY <1>1, <1>2, <1>3, <1>4, <1>5, <1>6 DEF BootIInv

\* Core 1 enters the program.
LEMMA Core1EntryKeeps ==
    ASSUME BootIInv, Core1Entry
    PROVE  BootIInv'
<1>1. BootWordTypes'
  BY DEF BootIInv, BootWordTypes, signalVars, launchVars, BootCore, Stage, Core1Entry, Goes
<1>2. BootFlagTypes'
  BY DEF BootIInv, BootFlagTypes, signalVars, launchVars, kernelFlags, BootCore, Core1Entry,
     Goes
<1>3. Core0Fits'
  BY DEF BootIInv, Core0Fits, kernelFlags, Core1Entry, Goes
<1>4. Core1Fits'
  BY DEF BootIInv, BootFlagTypes, Core1Fits, kernelFlags, BootCore, Core1Entry, Goes
<1>5. LaunchFits'
  BY DEF BootIInv, LaunchFits, EchoHeard, signalVars, launchVars, kernelFlags, Core1Entry,
     Goes
<1>6. ~strayStore'
  BY DEF BootIInv, Core1Entry, Goes
<1> QED
  BY <1>1, <1>2, <1>3, <1>4, <1>5, <1>6 DEF BootIInv

\* It enters the kernel.
LEMMA EnterKernelKeeps ==
    ASSUME BootIInv, EnterKernel
    PROVE  BootIInv'
<1>1. BootWordTypes'
  BY DEF BootIInv, BootWordTypes, irqVars, signalVars, launchVars, BootCore, Stage,
     EnterKernel, Goes
<1>2. BootFlagTypes'
  BY DEF BootIInv, BootFlagTypes, irqVars, signalVars, launchVars, kernelFlags, EnterKernel,
     Goes
<1>3. Core0Fits'
  BY DEF BootIInv, Core0Fits, irqVars, kernelFlags, EnterKernel, Goes
<1>4. Core1Fits'
  BY DEF BootIInv, AfterArm, Core0Fits, Core1Fits, irqVars, kernelFlags, EnterKernel, Goes
<1>5. LaunchFits'
  BY DEF BootIInv, LaunchFits, EchoHeard, signalVars, launchVars, kernelFlags, EnterKernel,
     Goes
<1>6. ~strayStore'
  BY DEF BootIInv, EnterKernel, Goes
<1> QED
  BY <1>1, <1>2, <1>3, <1>4, <1>5, <1>6 DEF BootIInv

\* A core sets up its port.
LEMMA ArchInitKeeps ==
    ASSUME BootIInv, NEW c \in BootCore, ArchInit(c)
    PROVE  BootIInv'
<1>1. BootWordTypes'
  BY DEF BootIInv, BootWordTypes, signalVars, launchVars, Stage, ArchInit, Goes
<1>2. BootFlagTypes'
  BY DEF BootIInv, BootFlagTypes, signalVars, launchVars, kernelFlags, ArchInit, Goes
<1>3. Core0Fits'
  BY DEF BootIInv, BootWordTypes, Unready, AfterArm, Core0Fits, kernelFlags, ArchInit, Goes
<1>4. Core1Fits'
  BY DEF BootIInv, BootWordTypes, Core1Fits, kernelFlags, ArchInit, Goes
<1>5. LaunchFits'
  BY DEF BootIInv, LaunchFits, EchoHeard, signalVars, launchVars, kernelFlags, ArchInit,
     Goes
<1>6. ~strayStore'
  BY DEF BootIInv, ArchInit, Goes
<1> QED
  BY <1>1, <1>2, <1>3, <1>4, <1>5, <1>6 DEF BootIInv

\* Core 0 starts the tick.
LEMMA TickInitKeeps ==
    ASSUME BootIInv, NEW c \in BootCore, TickInit(c)
    PROVE  BootIInv'
<1>1. BootWordTypes'
  BY DEF BootIInv, BootWordTypes, signalVars, launchVars, Stage, TickInit, Goes
<1>2. BootFlagTypes'
  BY DEF BootIInv, BootFlagTypes, signalVars, launchVars, kernelFlags, TickInit, Goes
<1>3. Core0Fits'
  BY DEF BootIInv, Unready, AfterArm, Core0Fits, kernelFlags, TickInit, Goes
<1>4. Core1Fits'
  BY DEF BootIInv, Core1Fits, kernelFlags, TickInit, Goes
<1>5. LaunchFits'
  BY DEF BootIInv, LaunchFits, EchoHeard, signalVars, launchVars, kernelFlags, TickInit,
     Goes
<1>6. ~strayStore'
  BY DEF BootIInv, TickInit, Goes
<1> QED
  BY <1>1, <1>2, <1>3, <1>4, <1>5, <1>6 DEF BootIInv

\* A core lets the interrupts of its peer in.
LEMMA ArmIpiKeeps ==
    ASSUME BootIInv, NEW c \in BootCore, ArmIpi(c)
    PROVE  BootIInv'
<1>1. BootWordTypes'
  BY DEF BootIInv, BootWordTypes, signalVars, launchVars, Stage, ArmIpi, Goes
<1>2. BootFlagTypes'
  BY DEF BootIInv, BootFlagTypes, signalVars, launchVars, kernelFlags, ArmIpi, Goes
<1>3. Core0Fits'
  BY DEF BootIInv, BootWordTypes, Unready, AfterArm, Core0Fits, kernelFlags, ArmIpi, Goes
<1>4. Core1Fits'
  BY DEF BootIInv, Core1Fits, kernelFlags, ArmIpi, Goes
<1>5. LaunchFits'
  BY DEF BootIInv, LaunchFits, EchoHeard, signalVars, launchVars, kernelFlags, ArmIpi, Goes
<1>6. ~strayStore'
  BY DEF BootIInv, ArmIpi, Goes
<1> QED
  BY <1>1, <1>2, <1>3, <1>4, <1>5, <1>6 DEF BootIInv

\* A core starts its first task.
LEMMA FirstTaskKeeps ==
    ASSUME BootIInv, NEW c \in BootCore, FirstTask(c)
    PROVE  BootIInv'
<1>1. BootWordTypes'
  BY DEF BootIInv, BootWordTypes, signalVars, launchVars, Stage, FirstTask, Goes
<1>2. BootFlagTypes'
  BY DEF BootIInv, BootFlagTypes, signalVars, launchVars, kernelFlags, FirstTask, Goes
<1>3. Core0Fits'
  BY DEF BootIInv, Unready, AfterArm, Core0Fits, kernelFlags, FirstTask, Goes
<1>4. Core1Fits'
  BY DEF BootIInv, BootWordTypes, Core1Fits, kernelFlags, FirstTask, Goes
<1>5. LaunchFits'
  BY DEF BootIInv, LaunchFits, EchoHeard, signalVars, launchVars, kernelFlags, FirstTask,
     Goes
<1>6. ~strayStore'
  BY DEF BootIInv, FirstTask, Goes
<1> QED
  BY <1>1, <1>2, <1>3, <1>4, <1>5, <1>6 DEF BootIInv

\* The tick comes.
LEMMA TickInterruptKeeps ==
    ASSUME BootIInv, NEW c \in BootCore, TickInterrupt(c)
    PROVE  BootIInv'
<1>1. BootWordTypes'
  BY DEF BootIInv, BootWordTypes, signalVars, launchVars, TickInterrupt, Taken
<1>2. BootFlagTypes'
  BY DEF BootIInv, BootFlagTypes, signalVars, launchVars, kernelFlags, TickInterrupt, Taken
<1>3. Core0Fits'
  BY DEF BootIInv, Core0Fits, kernelFlags, TickInterrupt, Taken
<1>4. Core1Fits'
  BY DEF BootIInv, Core1Fits, kernelFlags, TickInterrupt, Taken
<1>5. LaunchFits'
  BY DEF BootIInv, LaunchFits, EchoHeard, signalVars, launchVars, kernelFlags,
     TickInterrupt, Taken
<1>6. ~strayStore'
  BY DEF BootIInv, TickInterrupt, Taken
<1> QED
  BY <1>1, <1>2, <1>3, <1>4, <1>5, <1>6 DEF BootIInv

\* The interrupt of the peer comes.
LEMMA IpiInterruptKeeps ==
    ASSUME BootIInv, NEW c \in BootCore, IpiInterrupt(c)
    PROVE  BootIInv'
<1>1. BootWordTypes'
  BY BootAssumption DEF BootIInv, BootWordTypes, launchVars, IpiInterrupt, Taken
<1>2. BootFlagTypes'
  <2>1. irqOff' \in [BootCore -> BOOLEAN]
    BY DEF BootIInv, BootFlagTypes, IpiInterrupt
  <2>2. switchDue' \in [BootCore -> BOOLEAN] /\ tickOn' \in [BootCore -> BOOLEAN]
    BY DEF BootIInv, BootFlagTypes, IpiInterrupt
  <2>3. ipiArmed' \in [BootCore -> BOOLEAN]
    BY DEF BootIInv, BootFlagTypes, IpiInterrupt
  <2>4. bell' \in [BootCore -> BOOLEAN]
    BY DEF BootIInv, BootFlagTypes, irqVars, signalVars, launchVars, kernelFlags, BootCore,
       OtherCore, Stage, IpiInterrupt, Taken
  <2>5. echoDue' \in BOOLEAN /\ tasksMade' \in BOOLEAN
    BY DEF BootIInv, BootFlagTypes, launchVars, kernelFlags, IpiInterrupt
  <2>6. initialized' \in BOOLEAN /\ kernelRunning' \in BOOLEAN
    BY DEF BootIInv, BootFlagTypes, kernelFlags, IpiInterrupt
  <2>7. strayStore' \in BOOLEAN
    BY DEF BootIInv, BootFlagTypes, IpiInterrupt, Taken
  <2> QED
    BY <2>1, <2>2, <2>3, <2>4, <2>5, <2>6, <2>7 DEF BootFlagTypes
<1>3. Core0Fits'
  BY DEF BootIInv, Unready, AfterArm, Core0Fits, kernelFlags, IpiInterrupt, Taken
<1>4. Core1Fits'
  BY DEF BootIInv, Core1Fits, kernelFlags, IpiInterrupt, Taken
<1>5. LaunchFits'
  BY DEF BootIInv, BootWordTypes, AfterArm, Core0Fits, LaunchFits, EchoHeard, launchVars,
     kernelFlags, BootCore, IpiInterrupt, Taken
<1>6. ~strayStore'
  BY DEF BootIInv, IpiInterrupt, Taken
<1> QED
  BY <1>1, <1>2, <1>3, <1>4, <1>5, <1>6 DEF BootIInv

\* A core interrupts its peer.
LEMMA IpiRequestKeeps ==
    ASSUME BootIInv, NEW c \in BootCore, IpiRequest(c)
    PROVE  BootIInv'
<1>1. BootWordTypes'
  BY BootAssumption DEF BootIInv, BootWordTypes, irqVars, launchVars, IpiRequest
<1>2. BootFlagTypes'
  <2>1. irqOff' \in [BootCore -> BOOLEAN]
    BY DEF BootIInv, BootFlagTypes, irqVars, IpiRequest
  <2>2. switchDue' \in [BootCore -> BOOLEAN] /\ tickOn' \in [BootCore -> BOOLEAN]
    BY DEF BootIInv, BootFlagTypes, irqVars, IpiRequest
  <2>3. ipiArmed' \in [BootCore -> BOOLEAN]
    BY DEF BootIInv, BootFlagTypes, irqVars, IpiRequest
  <2>4. bell' \in [BootCore -> BOOLEAN]
    BY DEF BootIInv, BootFlagTypes, irqVars, signalVars, launchVars, kernelFlags, BootCore,
       OtherCore, Stage, IpiRequest
  <2>5. echoDue' \in BOOLEAN /\ tasksMade' \in BOOLEAN
    BY DEF BootIInv, BootFlagTypes, launchVars, kernelFlags, IpiRequest
  <2>6. initialized' \in BOOLEAN /\ kernelRunning' \in BOOLEAN
    BY DEF BootIInv, BootFlagTypes, kernelFlags, IpiRequest
  <2>7. strayStore' \in BOOLEAN
    BY DEF BootIInv, BootFlagTypes, IpiRequest
  <2> QED
    BY <2>1, <2>2, <2>3, <2>4, <2>5, <2>6, <2>7 DEF BootFlagTypes
<1>3. Core0Fits'
  BY DEF BootIInv, Core0Fits, irqVars, kernelFlags, IpiRequest
<1>4. Core1Fits'
  BY DEF BootIInv, Core1Fits, irqVars, kernelFlags, IpiRequest
<1>5. LaunchFits'
  BY DEF BootIInv, BootWordTypes, LaunchFits, EchoHeard, launchVars, kernelFlags, BootCore,
     IpiRequest
<1>6. ~strayStore'
  BY DEF BootIInv, IpiRequest
<1> QED
  BY <1>1, <1>2, <1>3, <1>4, <1>5, <1>6 DEF BootIInv

\* A core switches.
LEMMA TakeSwitchKeeps ==
    ASSUME BootIInv, NEW c \in BootCore, TakeSwitch(c)
    PROVE  BootIInv'
<1>1. BootWordTypes'
  BY DEF BootIInv, BootWordTypes, signalVars, launchVars, Stage, TakeSwitch
<1>2. BootFlagTypes'
  <2>1. irqOff' \in [BootCore -> BOOLEAN]
    BY DEF BootIInv, BootFlagTypes, TakeSwitch
  <2>2. switchDue' \in [BootCore -> BOOLEAN] /\ tickOn' \in [BootCore -> BOOLEAN]
    BY DEF BootIInv, BootFlagTypes, TakeSwitch
  <2>3. ipiArmed' \in [BootCore -> BOOLEAN]
    BY DEF BootIInv, BootFlagTypes, TakeSwitch
  <2>4. bell' \in [BootCore -> BOOLEAN]
    BY DEF BootIInv, BootFlagTypes, signalVars, TakeSwitch
  <2>5. echoDue' \in BOOLEAN /\ tasksMade' \in BOOLEAN
    BY DEF BootIInv, BootFlagTypes, launchVars, kernelFlags, TakeSwitch
  <2>6. initialized' \in BOOLEAN /\ kernelRunning' \in BOOLEAN
    BY DEF BootIInv, BootFlagTypes, kernelFlags, TakeSwitch
  <2>7. strayStore' \in BOOLEAN
    BY DEF TakeSwitch
  <2> QED
    BY <2>1, <2>2, <2>3, <2>4, <2>5, <2>6, <2>7 DEF BootFlagTypes
<1>3. Core0Fits'
  BY DEF BootIInv, Unready, AfterArm, Core0Fits, kernelFlags, TakeSwitch
<1>4. Core1Fits'
  BY DEF BootIInv, Core1Fits, kernelFlags, TakeSwitch
<1>5. LaunchFits'
  BY DEF BootIInv, Core1Fits, LaunchFits, EchoHeard, signalVars, launchVars, kernelFlags,
     TakeSwitch
<1>6. ~strayStore'
  BY DEF BootIInv, BootFlagTypes, AfterArm, Core0Fits, Core1Fits, BootCore, TakeSwitch
<1> QED
  BY <1>1, <1>2, <1>3, <1>4, <1>5, <1>6 DEF BootIInv

\* No core dispatches from a kernel half made, stores a context through a PSP that was never a
\* stack, or loses a word of the launch, whatever interrupts: os_init, os_start and soc_cb.c.
THEOREM BootAlwaysSafe == BootSpec => [](BootTypeOK /\ BootSafe)
<1>1. BootIInv /\ [BootNext]_bootVars => BootIInv'
  <2>1. BootIInv /\ UNCHANGED bootVars => BootIInv'
    BY DEF bootVars, BootIInv, BootWordTypes, BootFlagTypes, Core0Fits, Core1Fits,
       LaunchFits, EchoHeard, irqVars, signalVars, launchVars, kernelFlags
  <2> QED
    BY <2>1, SocInitKeeps, CreateTasksKeeps, InitializedKeeps, StartKeeps, SendWordKeeps,
       HearEchoKeeps, RomEchoKeeps, Core1EntryKeeps, EnterKernelKeeps, ArchInitKeeps,
       TickInitKeeps, ArmIpiKeeps, FirstTaskKeeps, TickInterruptKeeps, IpiInterruptKeeps,
       IpiRequestKeeps, TakeSwitchKeeps
    DEF BootNext
<1>2. BootIInv => BootTypeOK /\ BootSafe
  BY DEF BootTypeOK, BootSafe, CompleteKernel, BootCore, BootIInv, BootWordTypes,
     BootFlagTypes, Unready, AfterArm, Core0Fits, Core1Fits, LaunchFits
<1> QED
  BY <1>1, <1>2, BootInitIInv, PTL DEF BootSpec

-----------------------------------------------------------------------------
(***************************************************************************)
(* The parking of the peer before the PLL goes off.                        *)
(***************************************************************************)

ParkWordTypes ==
    /\ port \in Ports
    /\ request \in Generation \cup {0} /\ ack \in Generation \cup {0}
    /\ abort \in Generation \cup {0} /\ generation \in Generation \cup {0}
    /\ seen \in Generation \cup {0}
    /\ ownerAt \in {"idle", "ask", "open", "retire", "wfi", "finish"}
    /\ peerAt \in {"out", "look", "confirm", "acknowledge", "loop", "abort", "wfe",
                   "restore", "withdraw", "return"}

ParkFlagTypes ==
    /\ peerIdle \in BOOLEAN /\ held \in BOOLEAN /\ pllOff \in BOOLEAN
    /\ irq0 \in BOOLEAN /\ swi0 \in BOOLEAN /\ again \in BOOLEAN
    /\ wakeSent \in BOOLEAN /\ irq1 \in BOOLEAN /\ event1 \in BOOLEAN /\ tick1 \in BOOLEAN

\* The peer has stopped its tick for a request, and has not restored it.
InPark == peerAt \in {"confirm", "acknowledge", "loop", "abort", "wfe", "restore"}

\* The acknowledgement is of the generation the peer parks for, from its store
\* to its withdrawal; a peer on its way out has said so or was released.
AckFits ==
    /\ InPark => seen # 0 /\ ~tick1
    /\ peerAt \in {"loop", "abort", "wfe"} => ack = seen
    /\ peerAt \in {"restore", "withdraw"} =>
          ack = 0 \/ (ack = seen /\ (request # seen \/ abort = seen))
    /\ peerAt \in {"out", "look", "confirm", "acknowledge", "return"} => ack = 0

\* A release that finds the peer on its way to WFE leaves an event behind.
EventFits == peerAt \in {"abort", "wfe"} /\ request # seen => event1

\* The PLL is off between the last look of the owner and the restore only.
PllFits ==
    pllOff =>
        /\ ownerAt \in {"retire", "wfi"}
        /\ request # 0 /\ seen = request
        /\ peerAt \in {"loop", "abort", "wfe"}
        /\ port = "arm" /\ abort = request => irq0 \/ swi0 \/ peerAt = "abort"

ParkIInv == ParkWordTypes /\ ParkFlagTypes /\ AckFits /\ EventFits /\ PllFits

\* The invariant of the parking holds at first.
LEMMA ParkInitIInv == ParkInit => ParkIInv
BY ParkAssumption
DEF ParkInit, ParkIInv, ParkWordTypes, ParkFlagTypes, InPark, AckFits, EventFits, PllFits

\* Each step of the core that goes to sleep keeps it.
LEMMA OwnerKeeps == ParkIInv /\ Owner => ParkIInv'
<1> SUFFICES ASSUME ParkIInv, Owner
             PROVE  ParkIInv'
  OBVIOUS
<1> USE ParkAssumption DEF Generation, ownerVars, peerVars
<1>1. CASE PrepareDeclines
  <2>1. ParkWordTypes'
    BY <1>1 DEF ParkIInv, ParkWordTypes, PrepareDeclines, Release
  <2>2. ParkFlagTypes'
    BY <1>1 DEF ParkIInv, ParkFlagTypes, PrepareDeclines, Release, TellPeer, Work0
  <2>3. AckFits'
    BY <1>1 DEF ParkIInv, InPark, AckFits, PrepareDeclines, Release
  <2>4. EventFits'
    BY <1>1 DEF ParkIInv, ParkFlagTypes, EventFits, PrepareDeclines, Release, TellPeer, Work0
  <2>5. PllFits'
    BY <1>1 DEF ParkIInv, PllFits, PrepareDeclines
  <2> QED
    BY <2>1, <2>3, <2>4, <2>5, <2>2 DEF ParkIInv
<1>2. CASE PrepareLight
  <2>1. ParkWordTypes'
    BY <1>2 DEF ParkIInv, ParkWordTypes, PrepareLight, Release
  <2>2. ParkFlagTypes'
    BY <1>2 DEF ParkIInv, ParkFlagTypes, PrepareLight, Release, TellPeer, Work0
  <2>3. AckFits'
    BY <1>2 DEF ParkIInv, InPark, AckFits, PrepareLight, Release
  <2>4. EventFits'
    BY <1>2
    DEF ParkIInv, ParkWordTypes, ParkFlagTypes, InPark, AckFits, EventFits, PllFits, PrepareLight,
        Release, TellPeer, Work0
  <2>5. PllFits'
    BY <1>2 DEF ParkIInv, PllFits, PrepareLight
  <2> QED
    BY <2>1, <2>3, <2>4, <2>5, <2>2 DEF ParkIInv
<1>3. CASE PrepareAsks
  <2>1. ParkWordTypes'
    BY <1>3 DEF ParkIInv, ParkWordTypes, PrepareAsks, NextGeneration
  <2>2. ParkFlagTypes'
    BY <1>3 DEF ParkIInv, ParkFlagTypes, PrepareAsks
  <2>3. AckFits'
    BY <1>3 DEF ParkIInv, InPark, AckFits, PrepareAsks
  <2>4. EventFits'
    BY <1>3 DEF EventFits, PrepareAsks
  <2>5. PllFits'
    BY <1>3 DEF ParkIInv, PllFits, PrepareAsks
  <2> QED
    BY <2>1, <2>3, <2>4, <2>5, <2>2 DEF ParkIInv
<1>4. CASE \E isReady \in BOOLEAN : PrepareDecides(isReady)
  <2>1. ParkWordTypes'
    BY <1>4 DEF ParkIInv, ParkWordTypes, PrepareDecides, Release
  <2>2. ParkFlagTypes'
    BY <1>4 DEF ParkIInv, ParkFlagTypes, PrepareDecides, Release, TellPeer, Acknowledged, Work0
  <2>3. AckFits'
    BY <1>4 DEF ParkIInv, InPark, AckFits, PrepareDecides, Release
  <2>4. EventFits'
    BY <1>4
    DEF ParkIInv, ParkWordTypes, ParkFlagTypes, InPark, AckFits, EventFits, PllFits, PrepareDecides,
        Release, TellPeer, Acknowledged, Work0
  <2>5. PllFits'
    BY <1>4 DEF ParkIInv, PllFits, PrepareDecides
  <2> QED
    BY <2>1, <2>3, <2>4, <2>5, <2>2 DEF ParkIInv
<1>5. CASE TooShort
  <2>1. ParkWordTypes'
    BY <1>5 DEF ParkIInv, ParkWordTypes, TooShort
  <2>2. ParkFlagTypes'
    BY <1>5 DEF ParkIInv, ParkFlagTypes, TooShort
  <2>3. AckFits'
    BY <1>5 DEF ParkIInv, InPark, AckFits, TooShort
  <2>4. EventFits'
    BY <1>5 DEF ParkIInv, EventFits, TooShort
  <2>5. PllFits'
    BY <1>5 DEF ParkIInv, PllFits, TooShort
  <2> QED
    BY <2>1, <2>3, <2>4, <2>5, <2>2 DEF ParkIInv
<1>6. CASE SleepDeep
  <2>1. ParkWordTypes'
    BY <1>6 DEF ParkIInv, ParkWordTypes, SleepDeep
  <2>2. ParkFlagTypes'
    BY <1>6 DEF ParkIInv, ParkFlagTypes, SleepDeep
  <2>3. AckFits'
    BY <1>6 DEF ParkIInv, InPark, AckFits, SleepDeep
  <2>4. EventFits'
    BY <1>6 DEF ParkIInv, EventFits, SleepDeep
  <2>5. PllFits'
    BY <1>6 DEF ParkIInv, ParkWordTypes, AckFits, PllFits, SleepDeep
  <2> QED
    BY <2>1, <2>3, <2>4, <2>5, <2>2 DEF ParkIInv
<1>7. CASE SleepLight
  <2>1. ParkWordTypes'
    BY <1>7 DEF ParkIInv, ParkWordTypes, SleepLight
  <2>2. ParkFlagTypes'
    BY <1>7 DEF ParkIInv, ParkFlagTypes, SleepLight
  <2>3. AckFits'
    BY <1>7 DEF ParkIInv, InPark, AckFits, SleepLight
  <2>4. EventFits'
    BY <1>7 DEF ParkIInv, EventFits, SleepLight
  <2>5. PllFits'
    BY <1>7 DEF ParkIInv, PllFits, SleepLight
  <2> QED
    BY <2>1, <2>3, <2>4, <2>5, <2>2 DEF ParkIInv
<1>8. CASE Retire
  <2>1. ParkWordTypes'
    BY <1>8 DEF ParkIInv, ParkWordTypes, Retire
  <2>2. ParkFlagTypes'
    BY <1>8 DEF ParkIInv, ParkFlagTypes, Retire
  <2>3. AckFits'
    BY <1>8 DEF ParkIInv, InPark, AckFits, Retire
  <2>4. EventFits'
    BY <1>8 DEF ParkIInv, EventFits, Retire
  <2>5. PllFits'
    BY <1>8 DEF ParkIInv, ParkFlagTypes, PllFits, Retire
  <2> QED
    BY <2>1, <2>3, <2>4, <2>5, <2>2 DEF ParkIInv
<1>9. CASE Wake
  <2>1. ParkWordTypes'
    BY <1>9 DEF ParkIInv, ParkWordTypes, Wake
  <2>2. ParkFlagTypes'
    BY <1>9 DEF ParkIInv, ParkFlagTypes, Wake, Work0
  <2>3. AckFits'
    BY <1>9 DEF ParkIInv, InPark, AckFits, Wake
  <2>4. EventFits'
    BY <1>9 DEF ParkIInv, EventFits, Wake
  <2>5. PllFits'
    BY <1>9 DEF PllFits, Wake
  <2> QED
    BY <2>1, <2>3, <2>4, <2>5, <2>2 DEF ParkIInv
<1>10. CASE FinishSleep
  <2>1. ParkWordTypes'
    BY <1>10 DEF ParkIInv, ParkWordTypes, FinishSleep, Release
  <2>2. ParkFlagTypes'
    BY <1>10 DEF ParkIInv, ParkFlagTypes, FinishSleep, Release, TellPeer
  <2>3. AckFits'
    BY <1>10 DEF ParkIInv, InPark, AckFits, FinishSleep, Release
  <2>4. EventFits'
    BY <1>10 DEF ParkIInv, ParkFlagTypes, EventFits, FinishSleep, Release, TellPeer
  <2>5. PllFits'
    BY <1>10 DEF ParkIInv, PllFits, FinishSleep
  <2> QED
    BY <2>1, <2>3, <2>4, <2>5, <2>2 DEF ParkIInv
<1>11. CASE Handle0
  <2>1. ParkWordTypes'
    BY <1>11 DEF ParkIInv, ParkWordTypes, Handle0
  <2>2. ParkFlagTypes'
    BY <1>11 DEF ParkIInv, ParkFlagTypes, Handle0, Work0
  <2>3. AckFits'
    BY <1>11 DEF ParkIInv, InPark, AckFits, Handle0
  <2>4. EventFits'
    BY <1>11 DEF ParkIInv, EventFits, Handle0
  <2>5. PllFits'
    BY <1>11 DEF ParkIInv, PllFits, Handle0
  <2> QED
    BY <2>1, <2>3, <2>4, <2>5, <2>2 DEF ParkIInv
<1> QED
  BY <1>1, <1>2, <1>3, <1>4, <1>5, <1>6, <1>7, <1>8, <1>9, <1>10, <1>11 DEF Owner

\* So does each step of its peer.
LEMMA PeerKeeps == ParkIInv /\ Peer => ParkIInv'
<1> SUFFICES ASSUME ParkIInv, Peer
             PROVE  ParkIInv'
  OBVIOUS
<1> USE ParkAssumption DEF Generation, ownerVars, peerVars
<1>1. CASE EnterIdle
  <2>1. ParkWordTypes'
    BY <1>1 DEF ParkIInv, ParkWordTypes, EnterIdle, PeerOnly
  <2>2. ParkFlagTypes'
    BY <1>1 DEF ParkIInv, ParkFlagTypes, EnterIdle, PeerOnly
  <2>3. AckFits'
    BY <1>1 DEF ParkIInv, InPark, AckFits, EnterIdle
  <2>4. EventFits'
    BY <1>1 DEF EventFits, EnterIdle
  <2>5. PllFits'
    BY <1>1 DEF ParkIInv, PllFits, EnterIdle, PeerOnly
  <2> QED
    BY <2>1, <2>3, <2>4, <2>5, <2>2 DEF ParkIInv
<1>2. CASE Look
  <2>1. ParkWordTypes'
    BY <1>2 DEF ParkIInv, ParkWordTypes, Look, PeerOnly
  <2>2. ParkFlagTypes'
    BY <1>2 DEF ParkIInv, ParkFlagTypes, Look, PeerOnly
  <2>3. AckFits'
    BY <1>2 DEF ParkIInv, InPark, AckFits, Look
  <2>4. EventFits'
    BY <1>2 DEF EventFits, Look
  <2>5. PllFits'
    BY <1>2 DEF ParkIInv, PllFits, Look, PeerOnly
  <2> QED
    BY <2>1, <2>3, <2>4, <2>5, <2>2 DEF ParkIInv
<1>3. CASE Confirm
  <2>1. ParkWordTypes'
    BY <1>3 DEF ParkIInv, ParkWordTypes, Confirm, PeerOnly
  <2>2. ParkFlagTypes'
    BY <1>3 DEF ParkIInv, ParkFlagTypes, Confirm, PeerOnly
  <2>3. AckFits'
    BY <1>3 DEF ParkIInv, InPark, AckFits, Confirm
  <2>4. EventFits'
    BY <1>3 DEF EventFits, Confirm
  <2>5. PllFits'
    BY <1>3 DEF ParkIInv, PllFits, Confirm, PeerOnly
  <2> QED
    BY <2>1, <2>3, <2>4, <2>5, <2>2 DEF ParkIInv
<1>4. CASE Acknowledge
  <2>1. ParkWordTypes'
    BY <1>4 DEF ParkIInv, ParkWordTypes, Acknowledge, PeerOnly
  <2>2. ParkFlagTypes'
    BY <1>4 DEF ParkIInv, ParkFlagTypes, Acknowledge, PeerOnly
  <2>3. AckFits'
    BY <1>4 DEF ParkIInv, InPark, AckFits, Acknowledge
  <2>4. EventFits'
    BY <1>4 DEF EventFits, Acknowledge
  <2>5. PllFits'
    BY <1>4 DEF ParkIInv, PllFits, Acknowledge, PeerOnly
  <2> QED
    BY <2>1, <2>3, <2>4, <2>5, <2>2 DEF ParkIInv
<1>5. CASE ParkLoop
  <2>1. ParkWordTypes'
    BY <1>5 DEF ParkIInv, ParkWordTypes, ParkLoop, PeerOnly
  <2>2. ParkFlagTypes'
    BY <1>5 DEF ParkIInv, ParkFlagTypes, ParkLoop, PeerOnly
  <2>3. AckFits'
    BY <1>5 DEF ParkIInv, InPark, AckFits, ParkLoop, PeerOnly
  <2>4. EventFits'
    BY <1>5 DEF EventFits, ParkLoop, PeerOnly
  <2>5. PllFits'
    BY <1>5 DEF ParkIInv, PllFits, ParkLoop, PeerOnly
  <2> QED
    BY <2>1, <2>3, <2>4, <2>5, <2>2 DEF ParkIInv
<1>6. CASE ParkAbort
  <2>1. ParkWordTypes'
    BY <1>6 DEF ParkIInv, ParkWordTypes, ParkAbort, PeerOnly
  <2>2. ParkFlagTypes'
    BY <1>6 DEF ParkIInv, ParkFlagTypes, ParkAbort, PeerOnly
  <2>3. AckFits'
    BY <1>6 DEF ParkIInv, InPark, AckFits, ParkAbort
  <2>4. EventFits'
    BY <1>6 DEF ParkIInv, EventFits, ParkAbort, PeerOnly
  <2>5. PllFits'
    BY <1>6
    DEF ParkIInv, ParkWordTypes, ParkFlagTypes, InPark, AckFits, EventFits, PllFits, ParkAbort,
        PeerOnly, AbortByInterrupt
  <2> QED
    BY <2>1, <2>3, <2>4, <2>5, <2>2 DEF ParkIInv
<1>7. CASE ParkWake
  <2>1. ParkWordTypes'
    BY <1>7 DEF ParkIInv, ParkWordTypes, ParkWake, PeerOnly
  <2>2. ParkFlagTypes'
    BY <1>7 DEF ParkIInv, ParkFlagTypes, ParkWake, PeerOnly, Woken1
  <2>3. AckFits'
    BY <1>7 DEF ParkIInv, InPark, AckFits, ParkWake
  <2>4. EventFits'
    BY <1>7 DEF EventFits, ParkWake
  <2>5. PllFits'
    BY <1>7 DEF ParkIInv, PllFits, ParkWake, PeerOnly
  <2> QED
    BY <2>1, <2>3, <2>4, <2>5, <2>2 DEF ParkIInv
<1>8. CASE RestoreTick
  <2>1. ParkWordTypes'
    BY <1>8 DEF ParkIInv, ParkWordTypes, RestoreTick, PeerOnly
  <2>2. ParkFlagTypes'
    BY <1>8 DEF ParkIInv, ParkFlagTypes, RestoreTick, PeerOnly
  <2>3. AckFits'
    BY <1>8 DEF ParkIInv, InPark, AckFits, RestoreTick, PeerOnly
  <2>4. EventFits'
    BY <1>8 DEF EventFits, RestoreTick
  <2>5. PllFits'
    BY <1>8 DEF ParkIInv, PllFits, RestoreTick, PeerOnly
  <2> QED
    BY <2>1, <2>3, <2>4, <2>5, <2>2 DEF ParkIInv
<1>9. CASE Withdraw
  <2>1. ParkWordTypes'
    BY <1>9 DEF ParkIInv, ParkWordTypes, Withdraw, PeerOnly
  <2>2. ParkFlagTypes'
    BY <1>9 DEF ParkIInv, ParkFlagTypes, Withdraw, PeerOnly
  <2>3. AckFits'
    BY <1>9 DEF InPark, AckFits, Withdraw
  <2>4. EventFits'
    BY <1>9 DEF EventFits, Withdraw
  <2>5. PllFits'
    BY <1>9 DEF ParkIInv, PllFits, Withdraw, PeerOnly
  <2> QED
    BY <2>1, <2>3, <2>4, <2>5, <2>2 DEF ParkIInv
<1>10. CASE IdleWait
  <2>1. ParkWordTypes'
    BY <1>10 DEF ParkIInv, ParkWordTypes, IdleWait, PeerOnly
  <2>2. ParkFlagTypes'
    BY <1>10 DEF ParkIInv, ParkFlagTypes, IdleWait, PeerOnly
  <2>3. AckFits'
    BY <1>10 DEF ParkIInv, InPark, AckFits, IdleWait
  <2>4. EventFits'
    BY <1>10 DEF EventFits, IdleWait
  <2>5. PllFits'
    BY <1>10 DEF ParkIInv, PllFits, IdleWait, PeerOnly
  <2> QED
    BY <2>1, <2>3, <2>4, <2>5, <2>2 DEF ParkIInv
<1>11. CASE LeaveIdle
  <2>1. ParkWordTypes'
    BY <1>11 DEF ParkIInv, ParkWordTypes, LeaveIdle, PeerOnly
  <2>2. ParkFlagTypes'
    BY <1>11 DEF ParkIInv, ParkFlagTypes, LeaveIdle, PeerOnly
  <2>3. AckFits'
    BY <1>11 DEF ParkIInv, InPark, AckFits, LeaveIdle
  <2>4. EventFits'
    BY <1>11 DEF EventFits, LeaveIdle
  <2>5. PllFits'
    BY <1>11 DEF ParkIInv, PllFits, LeaveIdle, PeerOnly
  <2> QED
    BY <2>1, <2>3, <2>4, <2>5, <2>2 DEF ParkIInv
<1>12. CASE Handle1
  <2>1. ParkWordTypes'
    BY <1>12 DEF ParkIInv, ParkWordTypes, Handle1, PeerOnly
  <2>2. ParkFlagTypes'
    BY <1>12 DEF ParkIInv, ParkFlagTypes, Handle1, PeerOnly, Unmasked1
  <2>3. AckFits'
    BY <1>12 DEF ParkIInv, InPark, AckFits, Handle1, Unmasked1
  <2>4. EventFits'
    BY <1>12 DEF EventFits, Handle1, Unmasked1
  <2>5. PllFits'
    BY <1>12 DEF ParkIInv, PllFits, Handle1, PeerOnly
  <2> QED
    BY <2>1, <2>3, <2>4, <2>5, <2>2 DEF ParkIInv
<1>13. CASE Ipi0
  <2>1. ParkWordTypes'
    BY <1>13 DEF ParkIInv, ParkWordTypes, Ipi0, PeerOnly
  <2>2. ParkFlagTypes'
    BY <1>13 DEF ParkIInv, ParkFlagTypes, Ipi0, PeerOnly
  <2>3. AckFits'
    BY <1>13 DEF ParkIInv, InPark, AckFits, Ipi0, Unmasked1
  <2>4. EventFits'
    BY <1>13 DEF EventFits, Ipi0, Unmasked1
  <2>5. PllFits'
    BY <1>13 DEF ParkIInv, PllFits, Ipi0, PeerOnly
  <2> QED
    BY <2>1, <2>3, <2>4, <2>5, <2>2 DEF ParkIInv
<1> QED
  BY <1>1, <1>2, <1>3, <1>4, <1>5, <1>6, <1>7, <1>8, <1>9, <1>10, <1>11, <1>12, <1>13 DEF Peer

\* So does an interrupt.
LEMMA InterruptKeeps == ParkIInv /\ (Interrupt0 \/ Interrupt1) => ParkIInv'
<1> SUFFICES ASSUME ParkIInv, Interrupt0 \/ Interrupt1
             PROVE  ParkIInv'
  OBVIOUS
<1> USE ParkAssumption DEF Generation, ownerVars, peerVars
<1>1. CASE Interrupt0
  <2>1. ParkWordTypes'
    BY <1>1 DEF ParkIInv, ParkWordTypes, Interrupt0
  <2>2. ParkFlagTypes'
    BY <1>1 DEF ParkIInv, ParkFlagTypes, Interrupt0
  <2>3. AckFits'
    BY <1>1 DEF ParkIInv, InPark, AckFits, Interrupt0
  <2>4. EventFits'
    BY <1>1 DEF ParkIInv, EventFits, Interrupt0
  <2>5. PllFits'
    BY <1>1 DEF ParkIInv, PllFits, Interrupt0
  <2> QED
    BY <2>1, <2>3, <2>4, <2>5, <2>2 DEF ParkIInv
<1>2. CASE Interrupt1
  <2>1. ParkWordTypes'
    BY <1>2 DEF ParkIInv, ParkWordTypes, Interrupt1
  <2>2. ParkFlagTypes'
    BY <1>2 DEF ParkIInv, ParkFlagTypes, Interrupt1
  <2>3. AckFits'
    BY <1>2 DEF ParkIInv, InPark, AckFits, Interrupt1
  <2>4. EventFits'
    BY <1>2 DEF ParkIInv, ParkFlagTypes, EventFits, Interrupt1
  <2>5. PllFits'
    BY <1>2 DEF ParkIInv, PllFits, Interrupt1
  <2> QED
    BY <2>1, <2>3, <2>4, <2>5, <2>2 DEF ParkIInv
<1> QED
  BY <1>1, <1>2

\* It gives what the run checks.
LEMMA ParkIInvSafe == ParkIInv => ParkTypeOK /\ ParkSafe
BY DEF ParkIInv, ParkWordTypes, ParkFlagTypes, InPark, AckFits, EventFits, PllFits, ParkTypeOK,
   ParkSafe, DeepMeansParked, ReleaseHeard, Woken1, AbortHeardOnArm, AbortHeard, Work0

\* The PLL stops only while the peer stands in the park of this very request, and neither core
\* sleeps through the other: soc_sleep_peer_park and os_arch_soc_sleep_cb, on both ports.
THEOREM ParkAlwaysSafe == ParkSpec => [](ParkTypeOK /\ ParkSafe)
<1>1. ParkIInv /\ [ParkNext]_parkVars => ParkIInv'
  <2>1. ParkIInv /\ UNCHANGED parkVars => ParkIInv'
    BY DEF parkVars, ownerVars, peerVars, ParkIInv, ParkWordTypes, ParkFlagTypes, InPark, AckFits,
       EventFits, PllFits
  <2> QED
    BY <2>1, OwnerKeeps, PeerKeeps, InterruptKeeps DEF ParkNext
<1> QED
  BY <1>1, ParkInitIInv, ParkIInvSafe, PTL DEF ParkSpec

-----------------------------------------------------------------------------
(***************************************************************************)
(* The clocks in deep sleep.                                               *)
(***************************************************************************)

DeepIInv ==
    /\ DeepTypeOK
    /\ source \in [Slice -> {"other", "pll_sys", "clk_sys"} \cup Slice]
    /\ enabled \in [Slice -> BOOLEAN]
    /\ device \in [Device -> {"off", "idle", "slave", "busy", "held", "listening", "heard"}]
    /\ deep => PeripheralsReady

\* What the checks look at is what the checked configuration consists of.
LEMMA ReadyKept ==
    ASSUME DeepIInv, deep, UNCHANGED <<normalTree, source, enabled>>, DeepTypeOK',
           \A d \in Device : device'[d] # device[d] => device[d] = "slave" /\ device'[d] = "busy"
    PROVE  PeripheralsReady'
BY DEF DeepIInv, DeepTypeOK, PeripheralsReady, DevicesReady, SlicesReady, OutputReady, Changes,
       UartReady, SpiReady, I2cReady, Device, Doing

\* Each step keeps the invariant.
LEMMA DeepStepKeeps == DeepIInv /\ [DeepNext]_deepVars => DeepIInv'
<1> SUFFICES ASSUME DeepIInv, [DeepNext]_deepVars
             PROVE  DeepIInv'
  OBVIOUS
<1> USE DEF DeepIInv, DeepTypeOK
<1>1. CASE UNCHANGED deepVars
  BY <1>1 DEF deepVars, PeripheralsReady, DevicesReady, SlicesReady, OutputReady, Changes,
       UartReady, SpiReady, I2cReady
<1>2. CASE SwitchTree
  BY <1>2 DEF SwitchTree
<1>3. ASSUME NEW s \in Slice, NEW from \in SourceOf(s), SetSource(s, from)
      PROVE  DeepIInv'
  BY <1>3 DEF SetSource, Slice, SourceOf
<1>4. ASSUME NEW s \in Slice, EnableSlice(s)
      PROVE  DeepIInv'
  BY <1>4 DEF EnableSlice, Slice
<1>5. ASSUME NEW d \in Device, NEW what \in Doing(d), Use(d, what)
      PROVE  DeepIInv'
  BY <1>5 DEF Use, Device, Doing
<1>6. ASSUME NEW d \in Device, Addressed(d)
      PROVE  DeepIInv'
  BY <1>6, ReadyKept DEF Addressed, Doing, Device
<1>7. CASE SlowDown
  BY <1>7 DEF SlowDown, PeripheralsReady, DevicesReady, SlicesReady, OutputReady, Changes,
       UartReady, SpiReady, I2cReady
<1>8. CASE SpeedUp
  BY <1>8 DEF SpeedUp
<1> QED
  BY <1>1, <1>2, <1>3, <1>4, <1>5, <1>6, <1>7, <1>8 DEF DeepNext

\* It gives what the run checks.
LEMMA DeepIInvQuiet == DeepIInv => DeepIsQuiet
<1> SUFFICES ASSUME DeepIInv, deep
             PROVE  DeepIsQuiet
  BY DEF DeepIsQuiet
<1> USE DEF DeepIInv, DeepTypeOK, PeripheralsReady
<1>1. ASSUME NEW d \in Device, device[d] = "busy"
      PROVE  ClockOf(d) # "clk_sys" /\ ~Slowed(ClockOf(d))
  BY <1>1 DEF DevicesReady, SlicesReady, OutputReady, Changes,
       UartReady, SpiReady, I2cReady, ClockOf, Slowed, Root, Device, Doing, Slice, SourceOf
<1>2. ASSUME NEW s \in Slice \ {"peri", "hstx"}
      PROVE  ~Slowed(s)
  BY <1>2 DEF SlicesReady, OutputReady, Changes, Slowed, Root, Slice, SourceOf
<1>3. ASSUME NEW s \in {"peri", "hstx"}, Slowed(s)
      PROVE  source[s] = "clk_sys"
  BY <1>3 DEF SlicesReady, OutputReady, Changes, Slowed, Root, Slice, SourceOf
<1> QED
  BY <1>1, <1>2, <1>3 DEF DeepIsQuiet

\* With the clocks slowed nothing works on one of them: soc_deep_peripherals_ready, for any
\* changes the application made to the clocks and the devices before.
THEOREM DeepAlwaysQuiet == DeepSpec => [](DeepTypeOK /\ DeepIsQuiet)
<1>1. DeepInit => DeepIInv
  BY DEF DeepInit, DeepIInv, DeepTypeOK, Slice, SourceOf, Device, Doing
<1> QED
  BY <1>1, DeepStepKeeps, DeepIInvQuiet, PTL DEF DeepSpec, DeepIInv

(***************************************************************************)
(* Windows on SysTick.                                                     *)
(***************************************************************************)

\* The timer's registers, and the ticks they are compared with.
TimerStates == [cvr : Nat, rvr : Nat \ {0}, tickint : BOOLEAN, pend : BOOLEAN,
                grid : 1 .. Cycles, uncounted : Int]

\* One cycle of the hardware.
LEMMA ClockedOn ==
    ASSUME NEW t \in TimerStates, NEW u, u = Clocked(t)
    PROVE  /\ u \in TimerStates /\ u.rvr = t.rvr /\ u.tickint = t.tickint
           /\ OnGrid(u) = OnGrid(t) + 1
           /\ ToTick(t) = 1 => u.cvr = 0 /\ ToTick(u) = 1 + t.rvr /\ (u.pend <=> t.pend \/ t.tickint)
           /\ ToTick(t) # 1 => /\ u.cvr = ToTick(t) - 1 /\ u.cvr # 0 /\ ToTick(u) = ToTick(t) - 1
                               /\ u.pend = t.pend
           /\ u.uncounted = IF t.grid = 1 THEN t.uncounted + 1 ELSE t.uncounted
           /\ t.pend => u.pend
           /\ t.cvr <= t.rvr => u.cvr <= u.rvr
<1>1. /\ t.cvr \in Nat /\ t.rvr \in Nat /\ t.rvr # 0 /\ t.tickint \in BOOLEAN /\ t.pend \in BOOLEAN
      /\ t.grid \in 1 .. Cycles /\ t.uncounted \in Int
      /\ t = [cvr |-> t.cvr, rvr |-> t.rvr, tickint |-> t.tickint, pend |-> t.pend,
              grid |-> t.grid, uncounted |-> t.uncounted]
  BY DEF TimerStates
<1>2. Cycles \in Nat /\ Cycles >= 4
  BY SysTickAssumption
<1>3. /\ u.cvr = IF t.cvr = 0 THEN t.rvr ELSE t.cvr - 1
      /\ u.pend = (t.pend \/ (t.cvr = 1 /\ t.tickint))
      /\ u.grid = IF t.grid = 1 THEN Cycles ELSE t.grid - 1
      /\ u.uncounted = IF t.grid = 1 THEN t.uncounted + 1 ELSE t.uncounted
      /\ u.rvr = t.rvr /\ u.tickint = t.tickint
      /\ u = [cvr |-> u.cvr, rvr |-> u.rvr, tickint |-> u.tickint, pend |-> u.pend,
              grid |-> u.grid, uncounted |-> u.uncounted]
  BY <1>1 DEF Clocked
<1>4. u.cvr \in Nat /\ u.grid \in 1 .. Cycles /\ u.uncounted \in Int
  BY <1>1, <1>2, <1>3
<1>5. u.pend \in BOOLEAN
  BY <1>1, <1>3
<1>6. u \in TimerStates
  BY <1>1, <1>3, <1>4, <1>5 DEF TimerStates
<1>7. OnGrid(u) = OnGrid(t) + 1
  <2>1. CASE t.grid = 1
    <3>1. (t.uncounted + 1) * Cycles = t.uncounted * Cycles + Cycles
      BY <1>1, <1>2
    <3> QED
      BY <1>1, <1>2, <1>3, <2>1, <3>1 DEF OnGrid
  <2>2. CASE t.grid # 1
    <3>1. t.uncounted * Cycles \in Int
      BY <1>1, <1>2
    <3> QED
      BY <1>1, <1>2, <1>3, <2>2, <3>1 DEF OnGrid
  <2> QED
    BY <2>1, <2>2
<1>8. ToTick(t) = 1 <=> t.cvr = 1
  BY <1>1 DEF ToTick
<1>11. t.cvr <= t.rvr => u.cvr <= u.rvr
  BY <1>1, <1>3
<1>9. CASE t.cvr = 1
  BY <1>1, <1>3, <1>6, <1>11, <1>7, <1>8, <1>9 DEF ToTick
<1>10. CASE t.cvr # 1
  <2>1. u.cvr = ToTick(t) - 1 /\ u.cvr # 0 /\ ToTick(u) = ToTick(t) - 1
    BY <1>1, <1>3, <1>10 DEF ToTick
  <2>2. u.pend = t.pend
    BY <1>1, <1>3, <1>10
  <2> QED
    BY <1>3, <1>6, <1>7, <1>8, <1>10, <1>11, <2>1, <2>2
<1> QED
  BY <1>9, <1>10

\* on is what the timer shows after each of the first n cycles.
IsRun(on, n) == on = [i \in 0 .. n |-> IF i = 0 THEN timer ELSE Clocked(on[i - 1])]

\* There is such a run of any length.
LEMMA RunExists ==
    ASSUME NEW n \in Nat
    PROVE  \E on : IsRun(on, n)
<1> DEFINE Stuck == {i \in Nat : ~ \E on : IsRun(on, i)}
<1>1. SUFFICES ASSUME Stuck # {}
               PROVE  FALSE
  OBVIOUS
<1>2. PICK least \in Stuck : \A j \in Stuck : least <= j
  <2>1. Stuck \subseteq Nat
    OBVIOUS
  <2> HIDE DEF Stuck
  <2> QED
    BY <1>1, <2>1, LeastNatural
<1>3. least # 0
  <2>1. IsRun([i \in 0 .. 0 |-> timer], 0)
    BY DEF IsRun
  <2> QED
    BY <2>1
<1>4. least - 1 \in Nat /\ least \in Nat /\ ~(least <= least - 1)
  BY <1>3
<1>5. PICK on : IsRun(on, least - 1)
  BY <1>2, <1>4
<1> DEFINE more == [i \in 0 .. least |-> IF i < least THEN on[i] ELSE Clocked(on[i - 1])]
<1>6. ASSUME NEW i \in 0 .. least
      PROVE  more[i] = IF i = 0 THEN timer ELSE Clocked(more[i - 1])
  <2>1. i < least => i \in 0 .. least - 1
    BY <1>4
  <2>2. i # 0 => i - 1 \in 0 .. least - 1 /\ i - 1 \in 0 .. least /\ i - 1 < least
    BY <1>4
  <2>3. 0 \in 0 .. least - 1 /\ 0 < least
    BY <1>4
  <2>4. \A k \in 0 .. least - 1 : on[k] = IF k = 0 THEN timer ELSE Clocked(on[k - 1])
    BY <1>5 DEF IsRun
  <2>5. i # 0 => more[i - 1] = on[i - 1]
    BY <2>2
  <2>6. CASE i < least
    BY <2>1, <2>4, <2>5, <2>6
  <2>7. CASE ~(i < least)
    BY <1>3, <1>4, <2>2, <2>5, <2>7
  <2> QED
    BY <2>6, <2>7
<1>7. IsRun(more, least)
  <2> DEFINE same == [i \in 0 .. least |-> IF i = 0 THEN timer ELSE Clocked(more[i - 1])]
  <2>1. more = same
    <3>1. \A i \in 0 .. least : more[i] = same[i]
      <4> HIDE DEF more
      <4> QED
        BY <1>6
    <3> QED
      BY <3>1
  <2> HIDE DEF more
  <2> QED
    BY <2>1 DEF IsRun
<1> QED
  BY <1>2, <1>7

\* The registers n cycles on: the same tick is pending unless the timer has come
\* to zero, which sets it.
LEMMA AfterCyclesIs ==
    ASSUME timer \in TimerStates, NEW n \in Nat, NEW u, u = AfterCycles(n)
    PROVE  /\ u \in TimerStates /\ u.rvr = timer.rvr /\ u.tickint = timer.tickint
           /\ OnGrid(u) = OnGrid(timer) + n
           /\ n < ToTick(timer) => /\ ToTick(u) = ToTick(timer) - n
                                   /\ u.pend = timer.pend
           /\ n >= ToTick(timer) /\ timer.tickint => u.pend
           /\ timer.cvr <= timer.rvr => u.cvr <= u.rvr
<1> DEFINE on == CHOOSE f : IsRun(f, n)
           Good(i) == /\ on[i] \in TimerStates
                      /\ on[i].rvr = timer.rvr /\ on[i].tickint = timer.tickint
                      /\ OnGrid(on[i]) = OnGrid(timer) + i
                      /\ i < ToTick(timer) => /\ ToTick(on[i]) = ToTick(timer) - i
                                              /\ on[i].pend = timer.pend
                      /\ i >= ToTick(timer) /\ timer.tickint => on[i].pend
                      /\ timer.cvr <= timer.rvr => on[i].cvr <= on[i].rvr
<1>1. IsRun(on, n)
  BY RunExists
<1>2. u = on[n]
  BY DEF AfterCycles, IsRun
<1> HIDE DEF on
<1>3. on[0] = timer /\ \A i \in 1 .. n : on[i] = Clocked(on[i - 1])
  <2>1. \A i \in 0 .. n : on[i] = IF i = 0 THEN timer ELSE Clocked(on[i - 1])
    BY <1>1 DEF IsRun
  <2>2. 0 \in 0 .. n /\ \A i \in 1 .. n : i \in 0 .. n /\ i # 0
    OBVIOUS
  <2> QED
    BY <2>1, <2>2
<1>4. ToTick(timer) \in Nat /\ ToTick(timer) >= 1 /\ OnGrid(timer) \in Int
  BY SysTickAssumption DEF ToTick, OnGrid, TimerStates
<1>5. Good(0)
  BY <1>3, <1>4
<1>6. ASSUME NEW i \in 1 .. n, Good(i - 1)
      PROVE  Good(i)
  <2>1. on[i] = Clocked(on[i - 1]) /\ i \in Nat /\ i >= 1
    BY <1>3
  <2>2. /\ on[i] \in TimerStates /\ on[i].rvr = on[i - 1].rvr /\ on[i].tickint = on[i - 1].tickint
        /\ OnGrid(on[i]) = OnGrid(on[i - 1]) + 1
        /\ ToTick(on[i - 1]) = 1 => on[i].pend <=> on[i - 1].pend \/ on[i - 1].tickint
        /\ ToTick(on[i - 1]) # 1 => /\ on[i].cvr = ToTick(on[i - 1]) - 1
                                    /\ ToTick(on[i]) = ToTick(on[i - 1]) - 1
                                    /\ on[i].pend = on[i - 1].pend
        /\ on[i - 1].pend => on[i].pend
        /\ on[i - 1].cvr <= on[i - 1].rvr => on[i].cvr <= on[i].rvr
    BY <1>6, <2>1, ClockedOn
  <2>3. OnGrid(on[i]) = OnGrid(timer) + i
    BY <1>4, <1>6, <2>1, <2>2
  <2>4. CASE i < ToTick(timer)
    <3>1. i - 1 < ToTick(timer) /\ ~(i >= ToTick(timer))
      BY <1>4, <2>1, <2>4
    <3>2. ToTick(on[i - 1]) = ToTick(timer) - (i - 1) /\ on[i - 1].pend = timer.pend
      BY <1>6, <3>1
    <3>3. ToTick(on[i - 1]) # 1 /\ ToTick(on[i - 1]) - 1 = ToTick(timer) - i
      BY <1>4, <2>1, <2>4, <3>2
    <3> QED
      BY <1>6, <2>2, <2>3, <3>1, <3>2, <3>3
  <2>5. CASE ~(i < ToTick(timer))
    <3>1. CASE i - 1 < ToTick(timer)
      <4>1. ToTick(on[i - 1]) = 1
        BY <1>4, <1>6, <2>1, <2>5, <3>1
      <4> QED
        BY <1>6, <2>2, <2>3, <2>5, <4>1
    <3>2. CASE ~(i - 1 < ToTick(timer))
      <4>1. i - 1 >= ToTick(timer)
        BY <1>4, <2>1, <3>2
      <4> QED
        BY <1>6, <2>2, <2>3, <2>5, <4>1
    <3> QED
      BY <3>1, <3>2
  <2> QED
    BY <2>4, <2>5
<1> HIDE DEF Good
<1>7. Good(n)
  <2> DEFINE Bad == {i \in 0 .. n : ~ Good(i)}
  <2>1. SUFFICES ASSUME Bad # {}
                 PROVE  FALSE
    OBVIOUS
  <2>2. PICK i \in Bad : \A j \in Bad : i <= j
    <3>1. Bad \subseteq Nat
      OBVIOUS
    <3> HIDE DEF Bad
    <3> QED
      BY <2>1, <3>1, LeastNatural
  <2>3. i # 0
    BY <1>5, <2>2
  <2>4. i \in 1 .. n /\ i - 1 \in 0 .. n /\ ~(i <= i - 1)
    BY <2>2, <2>3
  <2>5. Good(i - 1)
    BY <2>2, <2>4
  <2> QED
    BY <1>6, <2>2, <2>4, <2>5
<1> QED
  BY <1>2, <1>7 DEF Good

\* The types of the state, one by one.
LEMMA GridFacts ==
    ASSUME GridIInv
    PROVE  /\ timer \in TimerStates
           /\ timer.cvr \in Nat /\ timer.rvr \in Nat /\ timer.rvr # 0 /\ timer.grid \in 1 .. Cycles
           /\ timer.tickint \in BOOLEAN /\ timer.pend \in BOOLEAN /\ timer.uncounted \in Int
           /\ timer.cvr <= timer.rvr /\ timer.rvr <= MaxWindowTicks * Cycles
           /\ startCount \in [cvr : Nat, pend : BOOLEAN]
           /\ startCount.cvr \in Nat /\ startCount.pend \in BOOLEAN
           /\ mode \in {"tick", "self"} \cup Light
           /\ windowTicks \in 0 .. MaxWindowTicks /\ head \in 0 .. Cycles
           /\ elapsedCycles \in Nat /\ gap \in Nat
           /\ ToTick(timer) \in Nat /\ ToTick(timer) >= 1 /\ ToTick(timer) <= 1 + timer.rvr
           /\ timer.cvr = 0 => ToTick(timer) = 1 + timer.rvr
           /\ timer.cvr # 0 => ToTick(timer) = timer.cvr
           /\ OnGrid(timer) \in Int
           /\ Cycles \in Nat /\ Cycles >= 4 /\ MaxGap \in Nat /\ 10 * MaxGap <= Cycles
           /\ MaxWindowTicks \in Nat /\ MaxWindowTicks >= 2
           /\ FullIfZero(startCount.cvr) \in Nat
<1>1. timer \in TimerStates /\ timer.cvr <= timer.rvr /\ SysTickTypeOK
      /\ startCount \in [cvr : Nat, pend : BOOLEAN]
  BY DEF GridIInv, TimerStates
<1>2. /\ timer.cvr \in Nat /\ timer.rvr \in Nat /\ timer.rvr # 0 /\ timer.grid \in 1 .. Cycles
      /\ timer.tickint \in BOOLEAN /\ timer.pend \in BOOLEAN /\ timer.uncounted \in Int
      /\ startCount.cvr \in Nat /\ startCount.pend \in BOOLEAN
  BY <1>1 DEF TimerStates
<1>3. /\ Cycles \in Nat /\ Cycles >= 4 /\ MaxGap \in Nat /\ 10 * MaxGap <= Cycles
      /\ MaxWindowTicks \in Nat /\ MaxWindowTicks >= 2
  BY SysTickAssumption
<1>4. /\ mode \in {"tick", "self"} \cup Light
      /\ windowTicks \in 0 .. MaxWindowTicks /\ head \in 0 .. Cycles
      /\ elapsedCycles \in Nat /\ gap \in Nat /\ timer.rvr \in 1 .. MaxWindowTicks * Cycles
  BY <1>1 DEF SysTickTypeOK
<1>5. timer.rvr <= MaxWindowTicks * Cycles
  <2>1. MaxWindowTicks * Cycles \in Int
    BY <1>3
  <2> QED
    BY <1>4, <2>1
<1>6. OnGrid(timer) \in Int
  BY <1>2, <1>3 DEF OnGrid
<1>7. FullIfZero(startCount.cvr) \in Nat
  BY <1>2, <1>3 DEF FullIfZero
<1> QED
  BY <1>1, <1>2, <1>3, <1>4, <1>5, <1>6, <1>7 DEF ToTick

\* The types after a step, one by one.
LEMMA GridTypes ==
    ASSUME timer' \in TimerStates, timer'.cvr <= timer'.rvr, timer'.rvr <= MaxWindowTicks * Cycles,
           startCount' \in [cvr : Nat, pend : BOOLEAN], mode' \in {"tick", "self"} \cup Light,
           windowTicks' \in 0 .. MaxWindowTicks, head' \in 0 .. Cycles,
           elapsedCycles' \in Nat, gap' \in Nat
    PROVE  /\ SysTickTypeOK'
           /\ (timer \in [cvr : Nat, rvr : Nat \ {0}, tickint : BOOLEAN, pend : BOOLEAN,
                          grid : 1 .. Cycles, uncounted : Int])'
           /\ (timer.cvr <= timer.rvr)'
           /\ (startCount \in [cvr : Nat, pend : BOOLEAN])'
<1>1. /\ timer'.cvr \in Nat /\ timer'.rvr \in Nat /\ timer'.rvr # 0 /\ timer'.grid \in 1 .. Cycles
      /\ timer'.tickint \in BOOLEAN /\ timer'.pend \in BOOLEAN /\ timer'.uncounted \in Int
      /\ startCount'.cvr \in Nat /\ startCount'.pend \in BOOLEAN
  BY DEF TimerStates
<1>2. MaxWindowTicks * Cycles \in Int
  BY SysTickAssumption
<1>3. timer'.cvr \in 0 .. MaxWindowTicks * Cycles /\ timer'.rvr \in 1 .. MaxWindowTicks * Cycles
  BY <1>1, <1>2
<1>4. SysTickTypeOK'
  BY <1>1, <1>3 DEF SysTickTypeOK
<1> QED
  BY <1>4 DEF TimerStates

\* A multiple of a tick that is in the first tick is one tick.
LEMMA OneTick ==
    ASSUME NEW x \in Int, x * Cycles >= 1, x * Cycles <= Cycles
    PROVE  x = 1
<1>1. Cycles \in Nat /\ Cycles >= 4
  BY SysTickAssumption
<1>2. x <= 0 => x * Cycles <= 0
  BY <1>1
<1>3. x >= 2 => x * Cycles >= 2 * Cycles
  BY <1>1
<1> QED
  BY <1>1, <1>2, <1>3

\* A cycle outside a window.
LEMMA CycleInTick ==
    ASSUME GridIInv, Cycle, mode = "tick"
    PROVE  /\ timer'.tickint /\ timer'.rvr = Cycles - 1
           /\ (OnGrid(timer) - PendingCycles(timer.pend) + CyclesToTick \in 0 .. 2)'
<1> DEFINE u == Clocked(timer)
<1>1. /\ u \in TimerStates /\ u.rvr = timer.rvr /\ u.tickint = timer.tickint
      /\ OnGrid(u) = OnGrid(timer) + 1
      /\ ToTick(timer) = 1 => ToTick(u) = 1 + timer.rvr /\ (u.pend <=> timer.pend \/ timer.tickint)
      /\ ToTick(timer) # 1 => ToTick(u) = ToTick(timer) - 1 /\ u.pend = timer.pend
  BY GridFacts, ClockedOn
<1> HIDE DEF u
<1>2. /\ timer.tickint /\ timer.rvr = Cycles - 1
      /\ OnGrid(timer) - PendingCycles(timer.pend) + ToTick(timer) \in 0 .. 2
  BY DEF GridIInv, CyclesToTick
<1>3. ToTick(timer) = 1 => ~timer.pend
  <2>1. timer.pend => Recent
    BY DEF Cycle, InTime
  <2>2. ToTick(timer) = 1 => timer.cvr = 1
    BY GridFacts
  <2>3. ~ (1 >= Cycles - MaxGap)
    BY GridFacts
  <2> QED
    BY <2>1, <2>2, <2>3 DEF Recent
<1>4. OnGrid(u) - PendingCycles(u.pend) + ToTick(u)
         = OnGrid(timer) - PendingCycles(timer.pend) + ToTick(timer)
  <2>1. CASE ToTick(timer) = 1
    <3>1. PendingCycles(u.pend) = Cycles /\ PendingCycles(timer.pend) = 0
      BY <1>1, <1>2, <1>3, <2>1 DEF PendingCycles
    <3> QED
      BY <1>1, <1>2, <2>1, <3>1, GridFacts
  <2>2. CASE ToTick(timer) # 1
    <3>1. PendingCycles(u.pend) = PendingCycles(timer.pend)
          /\ PendingCycles(timer.pend) \in Int
      BY <1>1, <2>2, GridFacts DEF PendingCycles
    <3> QED
      BY <1>1, <2>2, <3>1, GridFacts
  <2> QED
    BY <2>1, <2>2
<1>5. timer' = u
  BY DEF Cycle, u
<1>6. (OnGrid(timer) - PendingCycles(timer.pend) + CyclesToTick)'
         = OnGrid(u) - PendingCycles(u.pend) + ToTick(u)
  BY <1>5 DEF CyclesToTick, OnGrid, ToTick
<1> QED
  BY <1>1, <1>2, <1>4, <1>5, <1>6

\* A cycle of a self window.
LEMMA CycleInSelf ==
    ASSUME GridIInv, Cycle, mode = "self"
    PROVE  InSelf'
<1> DEFINE u == Clocked(timer)
<1>1. /\ u \in TimerStates /\ u.rvr = timer.rvr /\ u.tickint = timer.tickint
      /\ OnGrid(u) = OnGrid(timer) + 1
      /\ ToTick(timer) = 1 => ToTick(u) = 1 + timer.rvr /\ (u.pend <=> timer.pend \/ timer.tickint)
      /\ ToTick(timer) # 1 => ToTick(u) = ToTick(timer) - 1 /\ u.pend = timer.pend
      /\ u.uncounted = IF timer.grid = 1 THEN timer.uncounted + 1 ELSE timer.uncounted
  BY GridFacts, ClockedOn
<1> HIDE DEF u
<1>2. /\ windowTicks \in 2 .. MaxWindowTicks /\ head \in 1 .. Cycles
      /\ timer.tickint /\ timer.rvr = head + (windowTicks - 1) * Cycles - 1
      /\ OnGrid(timer) + head = (IF timer.pend THEN 1 + timer.rvr ELSE 0)
                                   + (1 + timer.rvr - ToTick(timer))
      /\ timer.pend => timer.uncounted = windowTicks
  BY DEF GridIInv, InSelf, CyclesToTick
<1>3. timer.pend => timer.grid # 1
  BY DEF Cycle, InTime
<1>4. windowTicks \in Nat /\ windowTicks >= 2 /\ head \in Nat /\ head >= 1
      /\ (windowTicks - 1) * Cycles \in Int
      /\ windowTicks * Cycles = (windowTicks - 1) * Cycles + Cycles
      /\ (windowTicks - 1) * Cycles >= Cycles
  <2>1. windowTicks \in Nat /\ windowTicks >= 2 /\ head \in Nat /\ head >= 1 /\ Cycles \in Nat
    BY <1>2, GridFacts
  <2>2. /\ (windowTicks - 1) * Cycles \in Int
        /\ windowTicks * Cycles = (windowTicks - 1) * Cycles + Cycles
        /\ (windowTicks - 1) * Cycles = (windowTicks - 2) * Cycles + Cycles
    BY <2>1
  <2>3. windowTicks - 2 \in Nat
    BY <2>1
  <2>4. (windowTicks - 2) * Cycles >= 0 /\ (windowTicks - 2) * Cycles \in Int
    BY <2>1, <2>3
  <2> QED
    BY <2>1, <2>2, <2>4
<1>5. ASSUME timer.pend
      PROVE  ToTick(timer) # 1
  <2>1. OnGrid(timer) = windowTicks * Cycles - timer.grid
    BY <1>2, <1>5 DEF OnGrid
  <2>2. windowTicks * Cycles \in Int
    BY <1>4, GridFacts
  <2> HIDE DEF OnGrid
  <2> QED
    BY <1>2, <1>4, <1>5, <2>1, <2>2, GridFacts
<1>6. OnGrid(u) + head = (IF u.pend THEN 1 + u.rvr ELSE 0) + (1 + u.rvr - ToTick(u))
  <2>1. CASE ToTick(timer) = 1
    <3>1. u.pend /\ ~timer.pend
      BY <1>1, <1>2, <1>5, <2>1
    <3> QED
      BY <1>1, <1>2, <1>4, <2>1, <3>1, GridFacts
  <2>2. CASE ToTick(timer) # 1
    <3>1. ToTick(u) = ToTick(timer) - 1 /\ u.pend = timer.pend /\ u.rvr = timer.rvr
      BY <1>1, <2>2
    <3>2. OnGrid(u) = OnGrid(timer) + 1
      BY <1>1
    <3>3. /\ OnGrid(timer) \in Int /\ head \in Int /\ timer.rvr \in Int /\ ToTick(timer) \in Int
          /\ OnGrid(timer) + head = (IF timer.pend THEN 1 + timer.rvr ELSE 0)
                                       + (1 + timer.rvr - ToTick(timer))
      BY <1>2, <1>4, GridFacts
    <3>4. CASE timer.pend
      BY <3>1, <3>2, <3>3, <3>4
    <3>5. CASE ~timer.pend
      BY <3>1, <3>2, <3>3, <3>5
    <3> QED
      BY <3>4, <3>5
  <2> QED
    BY <2>1, <2>2
<1>7. ASSUME u.pend
      PROVE  u.uncounted = windowTicks
  <2>1. CASE timer.pend
    BY <1>1, <1>2, <1>3, <2>1
  <2>2. CASE ~timer.pend
    <3>1. ToTick(timer) = 1
      BY <1>1, <1>7, <2>2
    <3>2. OnGrid(u) = (windowTicks - 1) * Cycles
      <4>1. ToTick(u) = 1 + timer.rvr /\ u.rvr = timer.rvr /\ OnGrid(u) = OnGrid(timer) + 1
        BY <1>1, <3>1
      <4>2. OnGrid(u) + head = 1 + timer.rvr
        BY <1>6, <1>7, <4>1, GridFacts
      <4>3. timer.rvr = head + (windowTicks - 1) * Cycles - 1 /\ (windowTicks - 1) * Cycles \in Int
        BY <1>2, <1>4
      <4> HIDE DEF OnGrid
      <4> QED
        BY <1>4, <4>1, <4>2, <4>3, GridFacts
    <3>3. u.uncounted \in Int /\ u.grid \in 1 .. Cycles
      BY <1>1 DEF TimerStates
    <3>4. u.uncounted * Cycles - u.grid = (windowTicks - 1) * Cycles
      BY <3>2 DEF OnGrid
    <3>5. (u.uncounted - (windowTicks - 1)) * Cycles
             = u.uncounted * Cycles - (windowTicks - 1) * Cycles
      BY <1>4, <3>3, GridFacts
    <3>6. (u.uncounted - (windowTicks - 1)) * Cycles = u.grid
      <4>1. u.uncounted * Cycles \in Int
        BY <3>3, GridFacts
      <4> QED
        BY <1>4, <3>3, <3>4, <3>5, <4>1
    <3>7. u.uncounted - (windowTicks - 1) = 1
      <4>1. u.uncounted - (windowTicks - 1) \in Int
        BY <1>4, <3>3
      <4> QED
        BY <3>3, <3>6, <4>1, OneTick, GridFacts
    <3> QED
      BY <1>4, <3>3, <3>7
  <2> QED
    BY <2>1, <2>2
<1>8. timer' = u /\ windowTicks' = windowTicks /\ head' = head
  BY DEF Cycle, u
<1>9. OnGrid(timer') + head' = (IF timer'.pend THEN 1 + timer'.rvr ELSE 0)
                                  + (1 + timer'.rvr - ToTick(timer'))
  BY <1>6, <1>8
<1> QED
  BY <1>1, <1>2, <1>7, <1>8, <1>9 DEF InSelf, CyclesToTick, OnGrid, ToTick

\* A cycle of a light window.
LEMMA CycleInLight ==
    ASSUME GridIInv, Cycle, mode \in Light
    PROVE  InLight'
<1> DEFINE u == Clocked(timer)
           S == FullIfZero(startCount.cvr)
<1>1. /\ u \in TimerStates /\ u.rvr = timer.rvr /\ u.tickint = timer.tickint
      /\ OnGrid(u) = OnGrid(timer) + 1
      /\ ToTick(timer) = 1 => ToTick(u) = 1 + timer.rvr /\ (u.pend <=> timer.pend \/ timer.tickint)
      /\ ToTick(timer) # 1 => ToTick(u) = ToTick(timer) - 1 /\ u.pend = timer.pend
      /\ timer.pend => u.pend
  BY GridFacts, ClockedOn
<1> HIDE DEF u
<1>2. /\ timer.rvr = Cycles - 1 /\ startCount.cvr < Cycles /\ gap <= MaxGap
      /\ timer.tickint = (mode # "silenced")
      /\ OnGrid(timer) + S - elapsedCycles - PendingCycles(startCount.pend) \in 0 .. 2
      /\ \E rounds \in 0 .. elapsedCycles :
            /\ elapsedCycles + ToTick(timer) = S + rounds * Cycles
            /\ timer.pend /\ ~startCount.pend => rounds # 0
      /\ startCount.pend => timer.pend
      /\ timer.pend => ToTick(timer) >= Cycles - OldestPend - gap
  BY DEF GridIInv, InLight, CyclesToTick
<1>3. S \in Nat /\ PendingCycles(startCount.pend) \in Nat
  BY GridFacts DEF PendingCycles
<1> HIDE DEF S
<1>4. /\ timer' = u /\ elapsedCycles' = elapsedCycles + 1
      /\ gap' = IF mode = "silenced" => timer.pend THEN gap + 1 ELSE 0
      /\ UNCHANGED <<mode, startCount, windowTicks, head>>
  BY DEF Cycle, u, Light
<1>5. gap' \in Nat /\ gap' <= MaxGap /\ (timer.pend => gap' = gap + 1)
  <2>1. CASE mode = "silenced" => timer.pend
    <3>1. gap < MaxGap
      BY <2>1 DEF Cycle, InTime, Light
    <3> QED
      BY <1>4, <2>1, <3>1, GridFacts
  <2>2. CASE ~ (mode = "silenced" => timer.pend)
    BY <1>4, <2>2, GridFacts
  <2> QED
    BY <2>1, <2>2
<1>6. OnGrid(u) + S - (elapsedCycles + 1) - PendingCycles(startCount.pend) \in 0 .. 2
  BY <1>1, <1>2, <1>3, GridFacts
<1>7. \E rounds \in 0 .. elapsedCycles + 1 :
         /\ elapsedCycles + 1 + ToTick(u) = S + rounds * Cycles
         /\ u.pend /\ ~startCount.pend => rounds # 0
  <2>1. PICK rounds \in 0 .. elapsedCycles :
           /\ elapsedCycles + ToTick(timer) = S + rounds * Cycles
           /\ timer.pend /\ ~startCount.pend => rounds # 0
    BY <1>2
  <2>2. rounds \in Nat /\ rounds <= elapsedCycles /\ rounds * Cycles \in Nat
    BY <2>1, GridFacts
  <2>3. CASE ToTick(timer) = 1
    <3>1. (rounds + 1) * Cycles = rounds * Cycles + Cycles
      BY <2>2, GridFacts
    <3>2. rounds + 1 \in 0 .. elapsedCycles + 1 /\ rounds + 1 # 0
      BY <2>2, GridFacts
    <3>3. elapsedCycles + 1 + ToTick(u) = S + (rounds + 1) * Cycles
      BY <1>1, <1>2, <1>3, <2>1, <2>2, <2>3, <3>1, GridFacts
    <3> QED
      BY <3>2, <3>3
  <2>4. CASE ToTick(timer) # 1
    <3>1. rounds \in 0 .. elapsedCycles + 1
      BY <2>2, GridFacts
    <3>2. elapsedCycles + 1 + ToTick(u) = S + rounds * Cycles
      BY <1>1, <1>3, <2>1, <2>2, <2>4, GridFacts
    <3> QED
      BY <1>1, <2>1, <2>4, <3>1, <3>2
  <2> QED
    BY <2>3, <2>4
<1>8. u.pend => ToTick(u) >= Cycles - OldestPend - gap'
  <2>1. OldestPend \in Nat
    BY GridFacts DEF OldestPend, Light
  <2> HIDE DEF OldestPend
  <2>2. CASE ToTick(timer) = 1
    BY <1>1, <1>2, <1>5, <2>1, <2>2, GridFacts
  <2>3. CASE ToTick(timer) # 1
    <3>1. ASSUME timer.pend
          PROVE  ToTick(u) >= Cycles - OldestPend - gap'
      <4>1. /\ ToTick(timer) >= Cycles - OldestPend - gap /\ gap' = gap + 1
            /\ ToTick(u) = ToTick(timer) - 1
        BY <1>1, <1>2, <1>5, <2>3, <3>1
      <4> QED
        BY <2>1, <4>1, GridFacts
    <3> QED
      BY <1>1, <2>3, <3>1
  <2> QED
    BY <2>2, <2>3
<1>9. /\ startCount.pend => u.pend
      /\ u.rvr = Cycles - 1 /\ u.tickint = (mode # "silenced")
  BY <1>1, <1>2
<1>10. /\ CyclesToTick' = ToTick(u) /\ OldestPend' = OldestPend
       /\ OnGrid(timer)' = OnGrid(u) /\ FullIfZero(startCount.cvr)' = S
       /\ PendingCycles(startCount.pend)' = PendingCycles(startCount.pend)
  BY <1>4 DEF CyclesToTick, ToTick, OldestPend, OnGrid, S, FullIfZero, PendingCycles
<1> QED
  BY <1>2, <1>4, <1>5, <1>6, <1>7, <1>8, <1>9, <1>10 DEF InLight

\* A cycle, in any mode.
LEMMA CycleKeeps ==
    ASSUME GridIInv, Cycle
    PROVE  GridIInv'
<1> DEFINE u == Clocked(timer)
<1>1. /\ u \in TimerStates /\ u.rvr = timer.rvr
      /\ ToTick(timer) = 1 => u.cvr = 0
      /\ ToTick(timer) # 1 => u.cvr = ToTick(timer) - 1
  BY GridFacts, ClockedOn
<1> HIDE DEF u
<1>2. u.cvr <= u.rvr
  BY <1>1, GridFacts
<1>3. /\ timer' = u
      /\ elapsedCycles' = IF mode = "tick" THEN 0 ELSE elapsedCycles + 1
      /\ gap' = IF mode \in Light /\ (mode = "silenced" => timer.pend) THEN gap + 1 ELSE 0
      /\ UNCHANGED <<mode, startCount, windowTicks, head>>
  BY DEF Cycle, u
<1>4. elapsedCycles' \in Nat /\ gap' \in Nat
  BY <1>3, GridFacts
<1>5. /\ timer' \in TimerStates /\ timer'.cvr <= timer'.rvr
      /\ timer'.rvr <= MaxWindowTicks * Cycles
      /\ startCount' \in [cvr : Nat, pend : BOOLEAN] /\ mode' \in {"tick", "self"} \cup Light
      /\ windowTicks' \in 0 .. MaxWindowTicks /\ head' \in 0 .. Cycles
  BY <1>1, <1>2, <1>3, GridFacts
<1>6. /\ mode' = "tick" => mode = "tick"
      /\ mode' = "self" => mode = "self"
      /\ mode' \in Light => mode \in Light
  BY <1>3
<1> QED
  BY <1>4, <1>5, <1>6, GridTypes, CycleInTick, CycleInSelf, CycleInLight DEF GridIInv

\* The handler counts the tick that is pending.
LEMMA CountPendingKeeps ==
    ASSUME GridIInv, CountPending
    PROVE  GridIInv'
<1> DEFINE u == [timer EXCEPT !.pend = FALSE, !.uncounted = @ - 1]
<1>1. /\ mode = "tick" /\ timer.pend /\ timer' = u
      /\ UNCHANGED <<mode, startCount, elapsedCycles, gap, windowTicks, head>>
  BY DEF CountPending
<1>2. /\ timer.tickint /\ timer.rvr = Cycles - 1
      /\ OnGrid(timer) - PendingCycles(timer.pend) + ToTick(timer) \in 0 .. 2
  BY <1>1 DEF GridIInv, CyclesToTick
<1>3. /\ u \in TimerStates /\ u.cvr = timer.cvr /\ u.rvr = timer.rvr /\ u.tickint = timer.tickint
      /\ u.pend = FALSE /\ u.uncounted = timer.uncounted - 1 /\ u.grid = timer.grid
  <2>1. timer \in TimerStates /\ timer.uncounted - 1 \in Int
    BY GridFacts
  <2> QED
    BY <2>1 DEF TimerStates
<1> HIDE DEF u
<1>4. OnGrid(u) = OnGrid(timer) - Cycles
  <2>1. (timer.uncounted - 1) * Cycles = timer.uncounted * Cycles - Cycles
        /\ timer.uncounted * Cycles \in Int
    BY GridFacts
  <2> QED
    BY <1>3, <2>1, GridFacts DEF OnGrid
<1>5. OnGrid(u) - PendingCycles(u.pend) + ToTick(u) \in 0 .. 2
  <2>1. PendingCycles(u.pend) = 0 /\ PendingCycles(timer.pend) = Cycles
    BY <1>1, <1>3 DEF PendingCycles
  <2>2. ToTick(u) = ToTick(timer)
    BY <1>3 DEF ToTick
  <2> QED
    BY <1>2, <1>4, <2>1, <2>2, GridFacts
<1>6. (OnGrid(timer) - PendingCycles(timer.pend) + CyclesToTick \in 0 .. 2)'
  BY <1>1, <1>5 DEF CyclesToTick, OnGrid, ToTick
<1>7. mode' = "tick" /\ mode' # "self" /\ mode' \notin Light
  BY <1>1 DEF Light
<1>8. timer' \in TimerStates /\ timer'.cvr <= timer'.rvr /\ timer'.rvr <= MaxWindowTicks * Cycles
  BY <1>1, <1>3, GridFacts
<1> QED
  BY <1>1, <1>2, <1>3, <1>6, <1>7, <1>8, GridFacts, GridTypes DEF GridIInv

\* The stretched timer starts on the grid.
LEMMA SelfOpenKeeps ==
    ASSUME GridIInv, NEW n \in 2 .. MaxWindowTicks, SelfOpen(n)
    PROVE  GridIInv'
<1>1. n \in Nat /\ n >= 2 /\ n <= MaxWindowTicks
  BY GridFacts
<1>2. /\ mode = "tick" /\ ~timer.pend /\ timer.rvr = Cycles - 1
      /\ windowTicks' = n /\ head' = RemainingHead
      /\ timer' = [timer EXCEPT !.cvr = 0, !.rvr = head' + (n - 1) * Cycles - 1,
                                !.grid = IF timer.cvr = 0 THEN Cycles ELSE timer.cvr,
                                !.uncounted = 0]
      /\ mode' = "self" /\ elapsedCycles' = 0 /\ gap' = 0
      /\ UNCHANGED startCount
  BY DEF SelfOpen
<1>3. timer.tickint
  BY <1>2 DEF GridIInv
<1>4. head' \in 1 .. Cycles /\ head' = IF timer.cvr = 0 THEN Cycles ELSE timer.cvr
  BY <1>2, GridFacts DEF RemainingHead
<1>5. /\ (n - 1) * Cycles \in Nat /\ (n - 1) * Cycles >= Cycles
      /\ (n - 1) * Cycles + Cycles <= MaxWindowTicks * Cycles
      /\ MaxWindowTicks * Cycles \in Nat
  <2>1. n - 2 \in Nat /\ MaxWindowTicks - n \in Nat /\ Cycles \in Nat /\ MaxWindowTicks \in Nat
    BY <1>1, GridFacts
  <2>2. /\ (n - 2) * Cycles \in Nat /\ (MaxWindowTicks - n) * Cycles \in Nat
        /\ MaxWindowTicks * Cycles \in Nat
    BY <2>1
  <2>3. /\ (n - 1) * Cycles = (n - 2) * Cycles + Cycles
        /\ MaxWindowTicks * Cycles = (MaxWindowTicks - n) * Cycles + (n - 1) * Cycles + Cycles
    BY <1>1, <2>1
  <2> QED
    BY <2>1, <2>2, <2>3
<1> DEFINE r == head' + (n - 1) * Cycles - 1
<1>6. r \in Nat /\ r # 0 /\ r <= MaxWindowTicks * Cycles
  BY <1>4, <1>5, GridFacts
<1>7. /\ timer' \in TimerStates /\ timer'.cvr = 0 /\ timer'.rvr = r /\ timer'.tickint
      /\ timer'.pend = FALSE /\ timer'.grid = head' /\ timer'.uncounted = 0
  <2> HIDE DEF r
  <2>1. timer' = [timer EXCEPT !.cvr = 0, !.rvr = r, !.grid = head', !.uncounted = 0]
    BY <1>2, <1>4 DEF r
  <2>2. timer \in TimerStates /\ head' \in 1 .. Cycles
    BY <1>4, GridFacts
  <2> QED
    <3>1. /\ timer = [cvr |-> timer.cvr, rvr |-> timer.rvr, tickint |-> timer.tickint,
                      pend |-> timer.pend, grid |-> timer.grid, uncounted |-> timer.uncounted]
          /\ timer.tickint = TRUE /\ timer.pend = FALSE
      BY <1>2, <1>3, <2>2 DEF TimerStates
    <3>2. timer' = [cvr |-> 0, rvr |-> r, tickint |-> TRUE, pend |-> FALSE, grid |-> head',
                    uncounted |-> 0]
      BY <2>1, <3>1
    <3> QED
      BY <1>6, <2>2, <3>2 DEF TimerStates
<1>8. InSelf'
  <2>1. 0 * Cycles = 0
    BY GridFacts
  <2>2. OnGrid(timer)' + head' = 0
    BY <1>4, <1>7, <2>1, GridFacts DEF OnGrid
  <2>3. CyclesToTick' = 1 + timer'.rvr
    BY <1>7 DEF CyclesToTick, ToTick
  <2>4. (OnGrid(timer) + head = (IF timer.pend THEN 1 + timer.rvr ELSE 0)
                                   + (1 + timer.rvr - CyclesToTick))'
    BY <1>6, <1>7, <2>2, <2>3
  <2> QED
    BY <1>1, <1>2, <1>4, <1>7, <2>4 DEF InSelf
<1>9. mode' # "tick" /\ mode' \notin Light /\ mode' \in {"tick", "self"} \cup Light
  BY <1>2 DEF Light
<1>10. /\ timer'.cvr <= timer'.rvr /\ timer'.rvr <= MaxWindowTicks * Cycles
       /\ windowTicks' \in 0 .. MaxWindowTicks /\ head' \in 0 .. Cycles
       /\ elapsedCycles' \in Nat /\ gap' \in Nat
  BY <1>1, <1>2, <1>4, <1>6, <1>7, GridFacts
<1> QED
  BY <1>2, <1>7, <1>8, <1>9, <1>10, GridFacts, GridTypes DEF GridIInv

\* What a self window announces and what it leaves of the tick it closes in are
\* the cycles that passed, but for the one that loaded the timer.
LEMMA SelfSplits ==
    ASSUME GridIInv, mode = "self"
    PROVE  /\ SelfTicks \in Int /\ SelfRemaining \in 1 .. Cycles
           /\ OnGrid(timer) - SelfTicks * Cycles - PendingCycles(timer.pend) + SelfRemaining
                 \in 0 .. 1
<1> DEFINE s == SelfElapsed
           P == (windowTicks - 1) * Cycles
           T == ToTick(timer)
<1>1. /\ windowTicks \in 2 .. MaxWindowTicks /\ head \in 1 .. Cycles
      /\ timer.rvr = head + P - 1
      /\ OnGrid(timer) + head = (IF timer.pend THEN 1 + timer.rvr ELSE 0) + (1 + timer.rvr - T)
      /\ timer.pend => timer.uncounted = windowTicks
  BY DEF GridIInv, InSelf, CyclesToTick
<1>2. /\ windowTicks \in Nat /\ windowTicks >= 2 /\ head \in Nat /\ head >= 1 /\ head <= Cycles
      /\ P \in Int /\ windowTicks * Cycles = P + Cycles
  <2>1. windowTicks \in Nat /\ windowTicks >= 2 /\ head \in Nat /\ head >= 1 /\ head <= Cycles
        /\ Cycles \in Nat
    BY <1>1, GridFacts
  <2> QED
    BY <2>1
<1> HIDE DEF P
<1>3. s \in Nat /\ 1 + timer.rvr - T - s \in 0 .. 1
  BY GridFacts DEF SelfElapsed
<1>0. /\ OnGrid(timer) \in Int /\ T \in Nat /\ timer.rvr \in Nat /\ Cycles \in Nat /\ Cycles >= 4
      /\ timer.grid \in Nat /\ timer.grid >= 1 /\ timer.grid <= Cycles
  BY GridFacts
<1> HIDE DEF T, s
<1>4. CASE ~timer.pend
  <2>1. OnGrid(timer) + head - s \in 0 .. 1
    BY <1>0, <1>1, <1>2, <1>3, <1>4
  <2>2. CASE s < head
    <3>1. SelfTicks = 0 /\ SelfRemaining = head - s
      BY <1>4, <2>2 DEF SelfTicks, SelfRemaining, s
    <3>2. PendingCycles(timer.pend) = 0 /\ 0 * Cycles = 0
      BY <1>4, GridFacts DEF PendingCycles
    <3> QED
      <4>1. SelfTicks \in Int /\ SelfRemaining \in 1 .. Cycles
        BY <1>0, <1>2, <1>3, <2>2, <3>1
      <4>2. OnGrid(timer) - 0 - 0 + (head - s) \in 0 .. 1
        BY <1>0, <1>2, <1>3, <2>1
      <4> QED
        BY <3>1, <3>2, <4>1, <4>2
  <2>3. CASE ~ (s < head)
    <3> DEFINE q == (s - head) \div Cycles
               m == (s - head) % Cycles
    <3>1. SelfTicks = 1 + q /\ SelfRemaining = Cycles - m
      BY <1>4, <2>3 DEF SelfTicks, SelfRemaining, s
    <3>2. PendingCycles(timer.pend) = 0
      BY <1>4 DEF PendingCycles
    <3>3. s - head \in Nat /\ Cycles \in Nat /\ Cycles >= 1
      BY <1>0, <1>2, <1>3, <2>3
    <3>4. q \in Nat /\ m \in Nat /\ m < Cycles /\ s - head = Cycles * q + m
      BY <3>3, Z3
    <3> HIDE DEF q, m
    <3>5. (1 + q) * Cycles = Cycles * q + Cycles /\ Cycles * q \in Nat
      BY <3>3, <3>4
    <3>6. SelfRemaining \in 1 .. Cycles
      BY <3>1, <3>3, <3>4
    <3>7. OnGrid(timer) - (Cycles * q + Cycles) + (Cycles - m) = OnGrid(timer) + head - s
      BY <1>0, <1>2, <1>3, <3>3, <3>4, <3>5
    <3> QED
      <4>1. SelfTicks * Cycles = Cycles * q + Cycles /\ SelfTicks \in Int
        BY <3>1, <3>4, <3>5
      <4>2. OnGrid(timer) - (Cycles * q + Cycles) - 0 + (Cycles - m) = OnGrid(timer) + head - s
        BY <1>0, <3>3, <3>4, <3>5, <3>7
      <4> QED
        BY <2>1, <3>1, <3>2, <3>6, <4>1, <4>2
  <2> QED
    BY <2>2, <2>3
<1>5. CASE timer.pend
  <2>1. OnGrid(timer) = P + Cycles - timer.grid
    <3>1. OnGrid(timer) = windowTicks * Cycles - timer.grid
      BY <1>1, <1>5 DEF OnGrid
    <3> QED
      BY <1>0, <1>2, <3>1
  <2>2. 1 + timer.rvr - T = Cycles - timer.grid
    BY <1>0, <1>1, <1>2, <1>5, <2>1
  <2>3. s < Cycles
    BY <1>0, <1>3, <2>2
  <2>4. s % Cycles = s
    BY <1>0, <1>3, <2>3, Z3
  <2>5. SelfTicks = windowTicks - 1 /\ SelfRemaining = Cycles - s
    BY <1>5, <2>4 DEF SelfTicks, SelfRemaining, s
  <2>6. SelfTicks * Cycles = P /\ SelfTicks \in Int
    BY <1>2, <2>5 DEF P
  <2>7. PendingCycles(timer.pend) = Cycles
    BY <1>5 DEF PendingCycles
  <2>8. SelfRemaining \in 1 .. Cycles
    BY <1>0, <1>3, <2>3, <2>5
  <2>9. OnGrid(timer) - P - Cycles + (Cycles - s) \in 0 .. 1
    BY <1>0, <1>2, <1>3, <2>1, <2>2
  <2> QED
    BY <2>5, <2>6, <2>7, <2>8, <2>9
<1> QED
  BY <1>4, <1>5

\* The timer goes on where the window leaves it.
LEMMA SelfCloseKeeps ==
    ASSUME GridIInv, SelfClose
    PROVE  GridIInv'
<1> DEFINE R == Max({SelfRemaining, 2})
           loaded == [timer EXCEPT !.cvr = 0, !.rvr = R - 1]
           u == Clocked(loaded)
<1>1. /\ mode = "self"
      /\ timer' = [u EXCEPT !.rvr = Cycles - 1, !.uncounted = @ - SelfTicks]
      /\ mode' = "tick" /\ elapsedCycles' = 0 /\ windowTicks' = 0 /\ head' = 0
      /\ UNCHANGED <<startCount, gap>>
  BY DEF SelfClose
<1>2. timer.tickint = TRUE
  BY <1>1, GridFacts DEF GridIInv, InSelf
<1>3. /\ SelfTicks \in Int /\ SelfRemaining \in 1 .. Cycles
      /\ OnGrid(timer) - SelfTicks * Cycles - PendingCycles(timer.pend) + SelfRemaining \in 0 .. 1
  BY <1>1, SelfSplits
<1>4. R \in Nat /\ R >= 2 /\ R <= Cycles /\ R - SelfRemaining \in 0 .. 1
  <2>1. R = IF SelfRemaining >= 2 THEN SelfRemaining ELSE 2
    <3>1. R \in {SelfRemaining, 2} /\ \A y \in {SelfRemaining, 2} : R >= y
      <4>1. \E x \in {SelfRemaining, 2} : \A y \in {SelfRemaining, 2} : x >= y
        BY <1>3, GridFacts
      <4> QED
        BY <4>1 DEF Max
    <3> HIDE DEF R
    <3> QED
      BY <1>3, <3>1, GridFacts
  <2> HIDE DEF R
  <2> QED
    BY <1>3, <2>1, GridFacts
<1> HIDE DEF R
<1>5. /\ loaded \in TimerStates /\ loaded.cvr = 0 /\ loaded.rvr = R - 1
      /\ loaded.tickint = TRUE /\ loaded.pend = timer.pend
      /\ OnGrid(loaded) = OnGrid(timer)
  <2>1. R - 1 \in Nat /\ R - 1 # 0 /\ timer \in TimerStates
    BY <1>4, GridFacts
  <2>2. /\ loaded \in TimerStates /\ loaded.cvr = 0 /\ loaded.rvr = R - 1
        /\ loaded.tickint = timer.tickint /\ loaded.pend = timer.pend
        /\ loaded.grid = timer.grid /\ loaded.uncounted = timer.uncounted
    BY <2>1 DEF TimerStates
  <2> QED
    BY <1>2, <2>2 DEF OnGrid
<1> HIDE DEF loaded
<1>6. ToTick(loaded) = R /\ ToTick(loaded) # 1
  BY <1>4, <1>5 DEF ToTick
<1>7. /\ u \in TimerStates /\ u.tickint = TRUE /\ u.pend = timer.pend
      /\ u.cvr = R - 1 /\ OnGrid(u) = OnGrid(timer) + 1
  BY <1>5, <1>6, ClockedOn
<1> HIDE DEF u
<1> DEFINE v == timer'
<1>8. /\ v \in TimerStates /\ v.cvr = R - 1 /\ v.rvr = Cycles - 1 /\ v.tickint = TRUE
      /\ v.pend = timer.pend /\ v.grid = u.grid /\ v.uncounted = u.uncounted - SelfTicks
  <2>1. Cycles - 1 \in Nat /\ Cycles - 1 # 0 /\ u.uncounted \in Int
    BY <1>7, GridFacts DEF TimerStates
  <2>2. u.uncounted - SelfTicks \in Int
    BY <1>3, <2>1
  <2> QED
    BY <1>1, <1>7, <2>1, <2>2 DEF TimerStates
<1> HIDE DEF v
<1>9. OnGrid(v) = OnGrid(timer) + 1 - SelfTicks * Cycles
  <2>1. u.uncounted \in Int /\ u.grid \in Int
    BY <1>7, GridFacts DEF TimerStates
  <2>2. (u.uncounted - SelfTicks) * Cycles = u.uncounted * Cycles - SelfTicks * Cycles
        /\ u.uncounted * Cycles \in Int /\ SelfTicks * Cycles \in Int
    BY <1>3, <2>1, GridFacts
  <2>3. OnGrid(v) = (u.uncounted - SelfTicks) * Cycles - u.grid
        /\ OnGrid(u) = u.uncounted * Cycles - u.grid
    BY <1>8 DEF OnGrid
  <2> QED
    <3>1. OnGrid(timer) \in Int /\ OnGrid(u) = OnGrid(timer) + 1
      BY <1>7, GridFacts
    <3> QED
      BY <2>1, <2>2, <2>3, <3>1
<1>10. OnGrid(v) - PendingCycles(v.pend) + ToTick(v) \in 0 .. 2
  <2>1. ToTick(v) = R - 1 /\ v.pend = timer.pend
    BY <1>4, <1>8 DEF ToTick
  <2>2. SelfTicks * Cycles \in Int /\ PendingCycles(timer.pend) \in Int
    BY <1>3, GridFacts DEF PendingCycles
  <2> QED
    BY <1>3, <1>4, <1>9, <2>1, <2>2, GridFacts
<1>11. (OnGrid(timer) - PendingCycles(timer.pend) + CyclesToTick \in 0 .. 2)'
  BY <1>10 DEF CyclesToTick, OnGrid, ToTick, v
<1>12. mode' = "tick" /\ mode' # "self" /\ mode' \notin Light
  BY <1>1 DEF Light
<1>13. v.cvr <= v.rvr /\ v.rvr <= MaxWindowTicks * Cycles
  <2>1. MaxWindowTicks * Cycles = (MaxWindowTicks - 1) * Cycles + Cycles
        /\ (MaxWindowTicks - 1) * Cycles \in Nat
    <3>1. MaxWindowTicks - 1 \in Nat /\ Cycles \in Nat
      BY GridFacts
    <3> QED
      BY <3>1, GridFacts
  <2> QED
    BY <1>4, <1>8, <2>1, GridFacts
<1>14. /\ timer' \in TimerStates /\ timer'.cvr <= timer'.rvr
       /\ timer'.rvr <= MaxWindowTicks * Cycles /\ timer'.tickint /\ timer'.rvr = Cycles - 1
  BY <1>8, <1>13 DEF v
<1>15. /\ startCount' \in [cvr : Nat, pend : BOOLEAN] /\ windowTicks' \in 0 .. MaxWindowTicks
       /\ head' \in 0 .. Cycles /\ elapsedCycles' \in Nat /\ gap' \in Nat
  BY <1>1, GridFacts
<1> QED
  BY <1>11, <1>12, <1>14, <1>15, GridTypes DEF GridIInv

\* A sample straddles no tick: the timer is read again if it does, and one that
\* is pending is too young for the next.
LEMMA SamplesClose ==
    ASSUME GridIInv, NEW a \in 0 .. MaxGap, NEW b \in 0 .. MaxGap,
           timer.rvr = Cycles - 1, timer.tickint,
           Coherent(timer, AfterCycles(a), AfterCycles(a + b)),
           timer.pend => ToTick(timer) >= Cycles - 6 * MaxGap,
           NEW u, u = AfterCycles(a), NEW v, v = AfterCycles(a + b)
    PROVE  /\ a \in Nat /\ b \in Nat /\ a + b <= 2 * MaxGap
           /\ u.cvr \in Nat /\ u.cvr < Cycles /\ FullIfZero(u.cvr) = ToTick(timer) - a
           /\ v \in TimerStates /\ v.rvr = Cycles - 1 /\ v.tickint = timer.tickint
           /\ v.pend = timer.pend /\ v.cvr <= v.rvr
           /\ OnGrid(v) = OnGrid(timer) + a + b /\ ToTick(v) = ToTick(timer) - a - b
<1> DEFINE T == ToTick(timer)
<1>1. a \in Nat /\ b \in Nat /\ a + b \in Nat /\ a + b <= 2 * MaxGap /\ a <= a + b
  BY GridFacts
<1>2. T \in Nat /\ T >= 1 /\ OnGrid(timer) \in Int /\ timer.cvr <= timer.rvr /\ Cycles \in Nat
      /\ Cycles >= 4 /\ MaxGap \in Nat /\ 10 * MaxGap <= Cycles /\ timer \in TimerStates
      /\ timer.pend \in BOOLEAN
  BY GridFacts
<1>3. /\ v \in TimerStates /\ v.rvr = timer.rvr /\ v.tickint = timer.tickint
      /\ OnGrid(v) = OnGrid(timer) + (a + b)
      /\ a + b < T => ToTick(v) = T - (a + b) /\ v.pend = timer.pend
      /\ a + b >= T => v.pend
      /\ v.cvr <= v.rvr
  BY <1>1, <1>2, AfterCyclesIs
<1>4. /\ u \in TimerStates /\ u.rvr = timer.rvr
      /\ a < T => ToTick(u) = T - a
      /\ u.cvr <= u.rvr
  BY <1>1, <1>2, AfterCyclesIs
<1> HIDE DEF T
<1>5. a + b < T
  <2>1. CASE timer.pend
    <3>1. T >= Cycles - 6 * MaxGap
      BY <2>1 DEF T
    <3> QED
      BY <1>1, <1>2, <3>1
  <2>2. CASE ~timer.pend
    <3>1. ~v.pend
      BY <2>2 DEF Coherent
    <3> QED
      BY <1>1, <1>2, <1>3, <3>1
  <2> QED
    BY <2>1, <2>2
<1>6. a < T
  BY <1>1, <1>2, <1>5
<1>7. u.cvr \in Nat /\ u.rvr = Cycles - 1
  BY <1>4 DEF TimerStates
<1>8. u.cvr < Cycles /\ FullIfZero(u.cvr) = ToTick(u)
  BY <1>2, <1>4, <1>7 DEF FullIfZero, ToTick
<1>9. OnGrid(v) = OnGrid(timer) + a + b /\ ToTick(v) = T - a - b
  BY <1>1, <1>2, <1>3, <1>5
<1> QED
  BY <1>1, <1>3, <1>4, <1>5, <1>6, <1>7, <1>8, <1>9 DEF T

\* A light window opens: the sample is the grid's.
LEMMA LightOpenKeeps ==
    ASSUME GridIInv, NEW n \in 2 .. MaxWindowTicks, NEW a \in 0 .. MaxGap, NEW b \in 0 .. MaxGap,
           LightOpen(n, a, b)
    PROVE  GridIInv'
<1> DEFINE u == AfterCycles(a)
           v == AfterCycles(a + b)
           T == ToTick(timer)
<1>1. /\ mode = "tick" /\ timer.rvr = Cycles - 1 /\ (timer.pend => Recent)
      /\ Coherent(timer, u, v)
      /\ startCount' = [cvr |-> u.cvr, pend |-> v.pend]
      /\ timer' = v /\ windowTicks' = n
      /\ mode' = "sampled" /\ elapsedCycles' = b /\ gap' = 0
      /\ UNCHANGED head
  BY DEF LightOpen
<1> HIDE DEF u, v
<1>2. timer.tickint /\ OnGrid(timer) - PendingCycles(timer.pend) + T \in 0 .. 2
  BY <1>1 DEF GridIInv, CyclesToTick
<1>3. timer.pend => T >= Cycles - MaxGap
  BY <1>1, GridFacts DEF Recent
<1>0. /\ T \in Nat /\ OnGrid(timer) \in Int /\ Cycles \in Nat /\ MaxGap \in Nat
      /\ 10 * MaxGap <= Cycles /\ timer.pend \in BOOLEAN /\ timer.tickint = TRUE
      /\ PendingCycles(timer.pend) \in Int
  BY <1>2, GridFacts DEF PendingCycles
<1>4. /\ a \in Nat /\ b \in Nat /\ a + b <= 2 * MaxGap
      /\ u.cvr \in Nat /\ u.cvr < Cycles /\ FullIfZero(u.cvr) = T - a
      /\ v \in TimerStates /\ v.rvr = Cycles - 1 /\ v.tickint = timer.tickint
      /\ v.pend = timer.pend /\ v.cvr <= v.rvr
      /\ OnGrid(v) = OnGrid(timer) + a + b /\ ToTick(v) = T - a - b
  <2>1. timer.pend => T >= Cycles - 6 * MaxGap
    BY <1>0, <1>3
  <2> QED
    BY <1>1, <1>2, <2>1, SamplesClose DEF u, v
<1> HIDE DEF T
<1>5. OnGrid(v) + (T - a) - b - PendingCycles(v.pend) \in 0 .. 2
  BY <1>0, <1>2, <1>4
<1>6. b + ToTick(v) = (T - a) + 0 * Cycles
  BY <1>0, <1>4
<1>7. v.pend => ToTick(v) >= Cycles - 3 * MaxGap - 0
  BY <1>0, <1>3, <1>4
<1>8. /\ OnGrid(timer)' = OnGrid(v) /\ CyclesToTick' = ToTick(v) /\ OldestPend' = 3 * MaxGap
      /\ FullIfZero(startCount.cvr)' = T - a
      /\ PendingCycles(startCount.pend)' = PendingCycles(v.pend)
  <2>1. FullIfZero(startCount.cvr)' = FullIfZero(u.cvr)
    BY <1>1 DEF FullIfZero
  <2> QED
    BY <1>1, <1>4, <2>1 DEF OnGrid, CyclesToTick, ToTick, OldestPend, PendingCycles
<1>9. InLight'
  <2>1. 0 \in 0 .. b /\ elapsedCycles' = b /\ gap' = 0 /\ 0 <= MaxGap /\ timer' = v
        /\ startCount'.cvr = u.cvr /\ startCount'.pend = v.pend /\ mode' = "sampled"
    BY <1>0, <1>1, <1>4
  <2>2. \E rounds \in 0 .. elapsedCycles' :
           /\ elapsedCycles' + CyclesToTick' = FullIfZero(startCount.cvr)' + rounds * Cycles
           /\ timer'.pend /\ ~startCount'.pend => rounds # 0
    BY <1>6, <1>8, <2>1
  <2> QED
    BY <1>0, <1>4, <1>5, <1>7, <1>8, <2>1, <2>2 DEF InLight
<1>10. mode' # "tick" /\ mode' # "self" /\ mode' \in {"tick", "self"} \cup Light
  BY <1>1 DEF Light
<1>11. timer' \in TimerStates /\ timer'.cvr <= timer'.rvr /\ timer'.rvr <= MaxWindowTicks * Cycles
  BY <1>1, <1>4, GridFacts
<1>12. /\ startCount' \in [cvr : Nat, pend : BOOLEAN] /\ windowTicks' \in 0 .. MaxWindowTicks
       /\ head' \in 0 .. Cycles /\ elapsedCycles' \in Nat /\ gap' \in Nat
  BY <1>0, <1>1, <1>4, GridFacts
<1> QED
  BY <1>9, <1>10, <1>11, <1>12, GridTypes DEF GridIInv

\* Masking the interrupt moves no tick.
LEMMA SilenceKeeps ==
    ASSUME GridIInv, Silence \/ Unsilence
    PROVE  GridIInv'
<1>1. /\ mode \in Light
      /\ timer' = [timer EXCEPT !.tickint = (mode' # "silenced")]
      /\ \/ mode = "sampled" /\ mode' = "silenced"
         \/ mode = "silenced" /\ mode' = "restored"
      /\ gap' = 0
      /\ UNCHANGED <<startCount, elapsedCycles, windowTicks, head>>
  BY DEF Silence, Unsilence, Light
<1>2. InLight
  BY <1>1 DEF GridIInv
<1>3. /\ timer' \in TimerStates /\ timer'.cvr = timer.cvr /\ timer'.rvr = timer.rvr
      /\ timer'.tickint = (mode' # "silenced") /\ timer'.pend = timer.pend
      /\ timer'.grid = timer.grid /\ timer'.uncounted = timer.uncounted
  <2>1. timer \in TimerStates /\ (mode' # "silenced") \in BOOLEAN
    BY GridFacts
  <2> QED
    BY <1>1, <2>1 DEF TimerStates
<1>4. /\ OnGrid(timer)' = OnGrid(timer) /\ CyclesToTick' = CyclesToTick
      /\ FullIfZero(startCount.cvr)' = FullIfZero(startCount.cvr)
      /\ PendingCycles(startCount.pend)' = PendingCycles(startCount.pend)
  BY <1>1, <1>3 DEF OnGrid, CyclesToTick, ToTick, FullIfZero, PendingCycles
<1>5. OldestPend \in Nat /\ OldestPend' = OldestPend + MaxGap
  BY <1>1, GridFacts DEF OldestPend
<1>6. timer'.pend => CyclesToTick' >= Cycles - OldestPend' - gap'
  <2>1. timer.pend => CyclesToTick >= Cycles - OldestPend - gap
    BY <1>2 DEF InLight
  <2>2. gap <= MaxGap /\ gap \in Nat /\ Cycles \in Nat /\ MaxGap \in Nat /\ CyclesToTick \in Nat
    BY <1>2, GridFacts DEF InLight, CyclesToTick
  <2> QED
    BY <1>1, <1>3, <1>4, <1>5, <2>1, <2>2
<1>7. InLight'
  <2>1. gap' <= MaxGap
    BY <1>1, GridFacts
  <2> HIDE DEF OnGrid, CyclesToTick, FullIfZero, OldestPend
  <2> QED
    BY <1>1, <1>2, <1>3, <1>4, <1>6, <2>1 DEF InLight
<1>8. mode' # "tick" /\ mode' # "self" /\ mode' \in {"tick", "self"} \cup Light
  BY <1>1 DEF Light
<1>9. /\ timer'.cvr <= timer'.rvr /\ timer'.rvr <= MaxWindowTicks * Cycles
      /\ startCount' \in [cvr : Nat, pend : BOOLEAN] /\ windowTicks' \in 0 .. MaxWindowTicks
      /\ head' \in 0 .. Cycles /\ elapsedCycles' \in Nat /\ gap' \in Nat
  BY <1>1, <1>3, GridFacts
<1> QED
  BY <1>3, <1>7, <1>8, <1>9, GridTypes DEF GridIInv

\* The reference clock, as inexact as it may be, tells the whole ticks.
LEMMA WrapsExact ==
    ASSUME NEW rounds \in Nat, NEW e \in -MaxError .. MaxError, NEW reference \in Int,
           NEW startCvr, NEW endCvr,
           FullIfZero(startCvr) \in Int, FullIfZero(endCvr) \in Int,
           reference + FullIfZero(endCvr) - FullIfZero(startCvr) = rounds * Cycles + e
    PROVE  Wraps(reference, startCvr, endCvr) = rounds
<1> DEFINE h == Cycles \div 2
           P == rounds * Cycles
<1>1. Cycles \in Nat /\ Cycles >= 4 /\ MaxError \in Nat /\ 2 * MaxError < Cycles
  BY SysTickAssumption
<1>2. h \in Nat /\ 2 * h <= Cycles /\ Cycles <= 2 * h + 1
  BY <1>1, Z3
<1>3. P \in Nat
  BY <1>1
<1>4. e \in Int /\ -MaxError <= e /\ e <= MaxError
  BY <1>1
<1> HIDE DEF h
<1>5. e + h \in Nat /\ e + h < Cycles
  BY <1>1, <1>2, <1>4
<1>6. (P + e + h) \div Cycles = rounds
  <2>1. /\ rounds * Cycles + (e + h) \in Nat /\ (e + h) \in Nat /\ (e + h) < Cycles
    BY <1>1, <1>3, <1>5
  <2>2. \A x \in Nat : x < Cycles => (rounds * Cycles + x) \div Cycles = rounds
    BY <1>1, Z3
  <2>3. (rounds * Cycles + (e + h)) \div Cycles = rounds
    BY <2>1, <2>2
  <2>4. P + e + h = rounds * Cycles + (e + h)
    BY <1>2, <1>3, <1>4
  <2> QED
    BY <2>3, <2>4
<1>7. Wraps(reference, startCvr, endCvr) = IF P + e <= 0 THEN 0 ELSE (P + e + h) \div Cycles
  BY DEF Wraps, h
<1>8. ASSUME P + e <= 0
      PROVE  rounds = 0
  <2>1. ASSUME rounds # 0
        PROVE  FALSE
    <3>1. rounds - 1 \in Nat /\ P = (rounds - 1) * Cycles + Cycles
      BY <1>1, <2>1
    <3>2. (rounds - 1) * Cycles \in Nat
      BY <1>1, <3>1
    <3> HIDE DEF P
    <3> QED
      BY <1>1, <1>3, <1>4, <1>8, <3>1, <3>2
  <2> QED
    BY <2>1
<1> QED
  BY <1>6, <1>7, <1>8

\* The announcement and the handler count every tick of a light window once.
LEMMA LightCloseKeeps ==
    ASSUME GridIInv, NEW a \in 0 .. MaxGap, NEW b \in 0 .. MaxGap,
           NEW error \in -MaxError .. MaxError, LightClose(a, b, error)
    PROVE  GridIInv'
<1> DEFINE u == AfterCycles(a)
           v == AfterCycles(a + b)
           T == ToTick(timer)
           S == FullIfZero(startCount.cvr)
           wraps == Wraps(elapsedCycles + a + error, startCount.cvr, u.cvr)
           adj == Adjusted(wraps, v.pend)
           sp == startCount.pend
<1>1. /\ mode = "restored" /\ Coherent(timer, u, v)
      /\ timer' = [v EXCEPT !.uncounted = @ - adj]
      /\ mode' = "tick" /\ elapsedCycles' = 0 /\ gap' = 0 /\ windowTicks' = 0
      /\ startCount' = [cvr |-> 0, pend |-> FALSE]
      /\ UNCHANGED head
  BY DEF LightClose
<1> HIDE DEF u, v
<1>2. /\ timer.rvr = Cycles - 1 /\ gap <= MaxGap
      /\ timer.tickint = (mode # "silenced")
      /\ OnGrid(timer) + S - elapsedCycles - PendingCycles(sp) \in 0 .. 2
      /\ \E rounds \in 0 .. elapsedCycles :
            /\ elapsedCycles + T = S + rounds * Cycles
            /\ timer.pend /\ ~sp => rounds # 0
      /\ sp => timer.pend
      /\ timer.pend => T >= Cycles - OldestPend - gap
  BY <1>1 DEF GridIInv, InLight, CyclesToTick, Light
<1>0. /\ T \in Nat /\ OnGrid(timer) \in Int /\ Cycles \in Nat /\ MaxGap \in Nat /\ MaxError \in Nat
      /\ 10 * MaxGap <= Cycles /\ timer.pend \in BOOLEAN /\ timer.tickint = TRUE
      /\ S \in Nat /\ elapsedCycles \in Nat /\ gap \in Nat /\ sp \in BOOLEAN
      /\ error \in Int
  <2>1. Cycles \in Nat /\ MaxGap \in Nat /\ MaxError \in Nat /\ 10 * MaxGap <= Cycles
    BY SysTickAssumption
  <2>2. OnGrid(timer) \in Int /\ T \in Nat /\ S \in Nat
    BY GridFacts
  <2>3. timer.pend \in BOOLEAN /\ sp \in BOOLEAN /\ elapsedCycles \in Nat /\ gap \in Nat
    BY GridFacts
  <2>4. timer.tickint = TRUE
    <3>1. mode # "silenced"
      BY <1>1
    <3>2. timer.tickint = (mode # "silenced")
      BY <1>2
    <3> QED
      BY <3>1, <3>2, Zenon
  <2>5. error \in Int
    BY <2>1
  <2> HIDE DEF T, S, sp
  <2> QED
    BY <2>1, <2>2, <2>3, <2>4, <2>5
<1>3. timer.pend => T >= Cycles - 6 * MaxGap
  <2>1. OldestPend = 5 * MaxGap
    BY <1>1 DEF OldestPend
  <2> HIDE DEF T, S, sp
  <2> QED
    BY <1>0, <1>2, <2>1
<1>4. /\ a \in Nat /\ b \in Nat /\ a + b <= 2 * MaxGap
      /\ u.cvr \in Nat /\ u.cvr < Cycles /\ FullIfZero(u.cvr) = T - a
      /\ v \in TimerStates /\ v.rvr = Cycles - 1 /\ v.tickint = timer.tickint
      /\ v.pend = timer.pend /\ v.cvr <= v.rvr
      /\ OnGrid(v) = OnGrid(timer) + a + b /\ ToTick(v) = T - a - b
  BY <1>0, <1>1, <1>2, <1>3, SamplesClose DEF u, v
<1>5. PICK rounds \in 0 .. elapsedCycles :
         /\ elapsedCycles + T = S + rounds * Cycles
         /\ timer.pend /\ ~sp => rounds # 0
  BY <1>2
<1>6. rounds \in Nat /\ rounds * Cycles \in Nat
  BY <1>0, <1>5
<1>7. wraps = rounds
  <2> HIDE DEF T, S
  <2>1. elapsedCycles + a + error + FullIfZero(u.cvr) - S = rounds * Cycles + error
    BY <1>0, <1>4, <1>5, <1>6
  <2>2. FullIfZero(startCount.cvr) = S /\ FullIfZero(u.cvr) \in Int
    BY <1>0, <1>4 DEF S
  <2>3. elapsedCycles + a + error \in Int
    BY <1>0, <1>4
  <2>4. elapsedCycles + a + error + FullIfZero(u.cvr) - FullIfZero(startCount.cvr)
           = rounds * Cycles + error
    BY <2>1, <2>2
  <2>5. FullIfZero(startCount.cvr) \in Int
    BY <1>0, <2>2
  <2> QED
    BY <1>6, <2>2, <2>3, <2>4, <2>5, WrapsExact
<1> HIDE DEF wraps
<1>8. adj \in Int /\ adj * Cycles = rounds * Cycles + PendingCycles(sp) - PendingCycles(timer.pend)
  <2>1. adj = IF ~sp /\ timer.pend /\ rounds # 0 THEN rounds - 1 ELSE rounds
    BY <1>4, <1>7 DEF Adjusted
  <2>2. (rounds - 1) * Cycles = rounds * Cycles - Cycles
    BY <1>0, <1>6
  <2> HIDE DEF adj, sp
  <2>3. CASE timer.pend /\ ~sp
    <3>1. adj = rounds - 1
      BY <1>5, <2>1, <2>3
    <3>2. PendingCycles(sp) = 0 /\ PendingCycles(timer.pend) = Cycles
      BY <2>3 DEF PendingCycles
    <3> QED
      BY <1>0, <1>6, <2>2, <3>1, <3>2
  <2>4. CASE timer.pend /\ sp
    <3>1. adj = rounds
      BY <2>1, <2>4
    <3>2. PendingCycles(sp) = Cycles /\ PendingCycles(timer.pend) = Cycles
      BY <2>4 DEF PendingCycles
    <3> QED
      BY <1>0, <1>6, <3>1, <3>2
  <2>5. CASE ~timer.pend
    <3>1. adj = rounds /\ ~sp
      BY <1>2, <2>1, <2>5
    <3>2. PendingCycles(sp) = 0 /\ PendingCycles(timer.pend) = 0
      BY <2>5, <3>1 DEF PendingCycles
    <3> QED
      BY <1>0, <1>6, <3>1, <3>2
  <2> QED
    BY <2>3, <2>4, <2>5
<1> HIDE DEF adj
<1> DEFINE x == timer'
<1>9. /\ x \in TimerStates /\ x.cvr = v.cvr /\ x.rvr = Cycles - 1 /\ x.tickint = TRUE
      /\ x.pend = timer.pend /\ x.grid = v.grid /\ x.uncounted = v.uncounted - adj
  <2>1. v.uncounted \in Int /\ v.uncounted - adj \in Int
    BY <1>4, <1>8 DEF TimerStates
  <2> QED
    BY <1>0, <1>1, <1>4, <2>1 DEF TimerStates
<1> HIDE DEF x
<1>10. OnGrid(x) = OnGrid(timer) + a + b - adj * Cycles
  <2>1. v.uncounted \in Int /\ v.grid \in Int
    BY <1>0, <1>4 DEF TimerStates
  <2>2. (v.uncounted - adj) * Cycles = v.uncounted * Cycles - adj * Cycles
        /\ v.uncounted * Cycles \in Int /\ adj * Cycles \in Int
    BY <1>0, <1>8, <2>1
  <2>3. OnGrid(x) = (v.uncounted - adj) * Cycles - v.grid
        /\ OnGrid(v) = v.uncounted * Cycles - v.grid
    BY <1>9 DEF OnGrid
  <2>4. OnGrid(v) = OnGrid(timer) + a + b
    BY <1>4
  <2>5. \A p, q, r, g \in Int : p = q - r => p - g = (q - g) - r
    OBVIOUS
  <2>6. (v.uncounted - adj) * Cycles \in Int
    BY <1>0, <1>8, <2>1
  <2>7. OnGrid(x) = OnGrid(v) - adj * Cycles
    BY <2>1, <2>2, <2>3, <2>5, <2>6
  <2>8. \A p, q, c, d, r \in Int : (p + c + d) - r = p + c + d - r
    OBVIOUS
  <2>9. OnGrid(timer) \in Int /\ a \in Int /\ b \in Int /\ adj * Cycles \in Int
    BY <1>0, <1>4, <2>2
  <2> QED
    BY <2>4, <2>7, <2>8, <2>9
<1>11. ToTick(x) = T - a - b
  BY <1>4, <1>9 DEF ToTick
<1>12. OnGrid(x) - PendingCycles(x.pend) + ToTick(x) \in 0 .. 2
  <2>1. PendingCycles(sp) \in Int /\ PendingCycles(timer.pend) \in Int
    BY <1>0 DEF PendingCycles
  <2> HIDE DEF T, S, sp
  <2>2. OnGrid(x) - PendingCycles(timer.pend) + ToTick(x)
           = OnGrid(timer) + S - elapsedCycles - PendingCycles(sp)
    BY <1>0, <1>4, <1>5, <1>6, <1>8, <1>10, <1>11, <2>1
  <2> QED
    BY <1>2, <1>9, <2>2
<1>13. (OnGrid(timer) - PendingCycles(timer.pend) + CyclesToTick \in 0 .. 2)'
  BY <1>12 DEF CyclesToTick, OnGrid, ToTick, x
<1>14. mode' = "tick" /\ mode' # "self" /\ mode' \notin Light
  BY <1>1 DEF Light
<1>15. /\ timer' \in TimerStates /\ timer'.cvr <= timer'.rvr
       /\ timer'.rvr <= MaxWindowTicks * Cycles /\ timer'.tickint /\ timer'.rvr = Cycles - 1
  BY <1>2, <1>4, <1>9, GridFacts DEF x
<1>16. /\ startCount' \in [cvr : Nat, pend : BOOLEAN] /\ windowTicks' \in 0 .. MaxWindowTicks
       /\ head' \in 0 .. Cycles /\ elapsedCycles' \in Nat /\ gap' \in Nat
  BY <1>1, GridFacts
<1> QED
  BY <1>13, <1>14, <1>15, <1>16, GridTypes DEF GridIInv

\* The initial state.
LEMMA GridInitHolds == SysTickInit => GridIInv
<1>1. SUFFICES ASSUME SysTickInit
               PROVE  GridIInv
  OBVIOUS
<1>2. /\ timer = [cvr |-> Cycles - 1, rvr |-> Cycles - 1, tickint |-> TRUE, pend |-> FALSE,
                  grid |-> Cycles - 1, uncounted |-> 0]
      /\ mode = "tick" /\ startCount = [cvr |-> 0, pend |-> FALSE]
      /\ elapsedCycles = 0 /\ gap = 0 /\ windowTicks = 0 /\ head = 0
  BY <1>1 DEF SysTickInit, TimerRuns
<1>3. Cycles \in Nat /\ Cycles >= 4 /\ MaxWindowTicks \in Nat /\ MaxWindowTicks >= 2
  BY SysTickAssumption
<1>4. /\ timer.cvr = Cycles - 1 /\ timer.rvr = Cycles - 1 /\ timer.tickint = TRUE
      /\ timer.pend = FALSE /\ timer.grid = Cycles - 1 /\ timer.uncounted = 0
      /\ startCount.cvr = 0 /\ startCount.pend = FALSE
  BY <1>2
<1>5. MaxWindowTicks * Cycles = (MaxWindowTicks - 1) * Cycles + Cycles
      /\ (MaxWindowTicks - 1) * Cycles \in Nat
  <2>1. MaxWindowTicks - 1 \in Nat
    BY <1>3
  <2> QED
    BY <1>3, <2>1
<1>6. Cycles - 1 \in 0 .. MaxWindowTicks * Cycles /\ Cycles - 1 \in 1 .. MaxWindowTicks * Cycles
  BY <1>3, <1>5
<1>7. SysTickTypeOK
  BY <1>2, <1>3, <1>4, <1>6 DEF SysTickTypeOK
<1>8. OnGrid(timer) - PendingCycles(timer.pend) + CyclesToTick = 0
  <2>1. 0 * Cycles = 0
    BY <1>3
  <2> QED
    BY <1>3, <1>4, <2>1 DEF OnGrid, PendingCycles, CyclesToTick, ToTick
<1>9. /\ timer \in [cvr : Nat, rvr : Nat \ {0}, tickint : BOOLEAN, pend : BOOLEAN,
                    grid : 1 .. Cycles, uncounted : Int]
      /\ startCount \in [cvr : Nat, pend : BOOLEAN]
  <2>1. Cycles - 1 \in Nat /\ Cycles - 1 \in Nat \ {0} /\ Cycles - 1 \in 1 .. Cycles /\ 0 \in Nat
    BY <1>3
  <2> QED
    BY <1>2, <2>1
<1>10. mode = "tick" /\ mode # "self" /\ mode \notin Light
  BY <1>2 DEF Light
<1>11. timer.cvr <= timer.rvr /\ timer.tickint
  BY <1>3, <1>4
<1>12. OnGrid(timer) - PendingCycles(timer.pend) + CyclesToTick \in 0 .. 2
  BY <1>8
<1> QED
  BY <1>4, <1>7, <1>9, <1>10, <1>11, <1>12 DEF GridIInv

\* The inductive invariant of the windows on SysTick: what the timer shows and
\* what has been counted add up to the grid, in every step of a window.
THEOREM GridInvariance == SysTickSpec => []GridIInv
<1>1. GridIInv /\ [SysTickNext]_sysTickVars => GridIInv'
  <2> SUFFICES ASSUME GridIInv, [SysTickNext]_sysTickVars
               PROVE  GridIInv'
    OBVIOUS
  <2>1. CASE Cycle
    BY <2>1, CycleKeeps
  <2>2. CASE CountPending
    BY <2>2, CountPendingKeeps
  <2>3. CASE \E n \in 2 .. MaxWindowTicks : SelfOpen(n)
    BY <2>3, SelfOpenKeeps
  <2>4. CASE SelfClose
    BY <2>4, SelfCloseKeeps
  <2>5. CASE \E n \in 2 .. MaxWindowTicks, a, b \in 0 .. MaxGap : LightOpen(n, a, b)
    BY <2>5, LightOpenKeeps
  <2>6. CASE Silence \/ Unsilence
    BY <2>6, SilenceKeeps
  <2>7. CASE \E a, b \in 0 .. MaxGap, error \in -MaxError .. MaxError : LightClose(a, b, error)
    BY <2>7, LightCloseKeeps
  <2>8. CASE UNCHANGED sysTickVars
    BY <2>8 DEF sysTickVars, GridIInv, SysTickTypeOK, InSelf, InLight, OnGrid, CyclesToTick,
                ToTick, OldestPend, FullIfZero, PendingCycles
  <2> QED
    BY <2>1, <2>2, <2>3, <2>4, <2>5, <2>6, <2>7, <2>8 DEF SysTickNext
<1> QED
  BY <1>1, GridInitHolds, PTL DEF SysTickSpec

\* A window on SysTick neither loses nor repeats a tick, and leaves the next one
\* where it would have been, for any tick, window and error of the clock.
THEOREM GridAlwaysKept == SysTickSpec => [](SysTickTypeOK /\ GridKept)
<1>1. GridIInv => SysTickTypeOK /\ GridKept
  <2> SUFFICES ASSUME GridIInv, mode = "tick"
               PROVE  (timer.uncounted - (IF timer.pend THEN 1 ELSE 0)) * Cycles
                         + CyclesToTick - timer.grid \in 0 .. 2
    BY DEF GridIInv, GridKept
  <2>1. OnGrid(timer) - PendingCycles(timer.pend) + CyclesToTick \in 0 .. 2
    BY DEF GridIInv
  <2>2. /\ timer.uncounted \in Int /\ timer.grid \in Int /\ Cycles \in Nat /\ CyclesToTick \in Int
        /\ timer.pend \in BOOLEAN
    BY GridFacts DEF CyclesToTick
  <2>3. timer.uncounted * Cycles \in Int
        /\ (timer.uncounted - 1) * Cycles = timer.uncounted * Cycles - Cycles
        /\ (timer.uncounted - 0) * Cycles = timer.uncounted * Cycles
    BY <2>2
  <2> HIDE DEF CyclesToTick
  <2>4. CASE timer.pend
    BY <2>1, <2>2, <2>3, <2>4 DEF OnGrid, PendingCycles
  <2>5. CASE ~timer.pend
    BY <2>1, <2>2, <2>3, <2>5 DEF OnGrid, PendingCycles
  <2> QED
    BY <2>2, <2>4, <2>5
<1> QED
  BY <1>1, GridInvariance, PTL

(***************************************************************************)
(* The cycle counter.                                                      *)
(***************************************************************************)

\* The constants, and what the bounds on them leave of half the counter.
LEMMA CycleConstants ==
    /\ PeriodCycles \in Nat /\ PeriodCycles >= 2 /\ CountLimit \in Nat /\ CountLimit > 0
    /\ MaxReadGap \in Nat /\ 2 * MaxReadGap < PeriodCycles
    /\ MaxWindow \in Nat /\ MaxInterval \in Nat
    /\ Reload \in Nat /\ Reload = PeriodCycles - 1 /\ Reload # 0
    /\ (MaxInterval + MaxWindow) * PeriodCycles \in Nat
    /\ MaxInterval <= (MaxInterval + MaxWindow) * PeriodCycles
    /\ 2 * ((MaxInterval + MaxWindow) * PeriodCycles) + 4 * PeriodCycles < CountLimit
<1> DEFINE s == MaxInterval + MaxWindow
           MP == (MaxInterval + MaxWindow) * PeriodCycles
<1>1. /\ PeriodCycles \in Nat /\ PeriodCycles >= 2 /\ CountLimit \in Nat
      /\ MaxReadGap \in Nat /\ 2 * MaxReadGap < PeriodCycles
      /\ MaxWindow \in Nat /\ MaxInterval \in Nat
      /\ 2 * (MaxInterval + MaxWindow + 2) * PeriodCycles < CountLimit
  BY CycleCounterAssumption
<1>2. Reload \in Nat /\ Reload = PeriodCycles - 1 /\ Reload # 0
  BY <1>1 DEF Reload
<1>3. MP \in Nat /\ s \in Nat
  BY <1>1
<1>4. 2 * (MaxInterval + MaxWindow + 2) * PeriodCycles = 2 * MP + 4 * PeriodCycles
  <2>1. \A x, p \in Nat : 2 * (x + 2) * p = 2 * (x * p) + 4 * p
    OBVIOUS
  <2>2. 2 * (s + 2) * PeriodCycles = 2 * (s * PeriodCycles) + 4 * PeriodCycles
    <3> HIDE DEF s
    <3> QED
      BY <1>1, <1>3, <2>1
  <2> QED
    BY <2>2
<1>5. MaxInterval <= MP
  <2>1. s * PeriodCycles = s + s * Reload /\ s * Reload \in Nat
    <3> HIDE DEF s
    <3> QED
      BY <1>1, <1>2, <1>3
  <2>2. MP = s * PeriodCycles /\ s >= MaxInterval
    BY <1>1
  <2> HIDE DEF s, MP
  <2> QED
    BY <1>1, <1>3, <2>1, <2>2
<1> HIDE DEF MP
<1>6. 2 * MP + 4 * PeriodCycles < CountLimit
  BY <1>1, <1>4
<1>7. CountLimit > 0
  BY <1>1, <1>3, <1>6
<1> QED
  BY <1>1, <1>2, <1>3, <1>5, <1>6, <1>7 DEF MP

\* A count is a number of turns of the counter away from the number it stands for.
LEMMA ModuloTurns ==
    ASSUME NEW n \in Int
    PROVE  /\ Modulo(n) \in 0 .. CountLimit - 1
           /\ \E j \in Int : Modulo(n) = n - j * CountLimit
<1>1. CountLimit \in Nat /\ CountLimit > 0
  BY CycleConstants
<1>2. n % CountLimit \in 0 .. CountLimit - 1 /\ n \div CountLimit \in Int
  BY <1>1, Z3
<1>3. n = CountLimit * (n \div CountLimit) + (n % CountLimit)
  BY <1>1, Z3
<1>4. n % CountLimit = n - (n \div CountLimit) * CountLimit
  <2>1. \A q \in Int : q * CountLimit = CountLimit * q /\ q * CountLimit \in Int
    BY <1>1
  <2> HIDE <1>3
  <2> QED
    BY <1>1, <1>2, <1>3, <2>1
<1> QED
  BY <1>2, <1>4 DEF Modulo

\* The count of a number does not depend on the turns.
LEMMA ModuloUnique ==
    ASSUME NEW x \in 0 .. CountLimit - 1, NEW turns \in Int
    PROVE  Modulo(x + turns * CountLimit) = x
<1>1. CountLimit \in Nat /\ CountLimit > 0
  BY CycleConstants
<1>2. \A y \in Nat : y < CountLimit => (y + turns * CountLimit) % CountLimit = y
  BY <1>1, Z3
<1> QED
  BY <1>1, <1>2 DEF Modulo

\* The furthest the counter has come grows with the cycles, and a window adds
\* what it is announced as and a period.
LEMMA FurthestGrows ==
    ASSUME NEW n \in Nat
    PROVE  /\ FurthestAhead(n) \in Nat
           /\ FurthestAhead(n) <= (MaxInterval + MaxWindow) * PeriodCycles + Reload
           /\ n < MaxInterval => FurthestAhead(n) + 1 <= FurthestAhead(n + 1)
           /\ n <= Reload => n <= FurthestAhead(n)
<1> DEFINE MP == (MaxInterval + MaxWindow) * PeriodCycles
<1>1. /\ PeriodCycles \in Nat /\ PeriodCycles >= 2 /\ MaxInterval \in Nat /\ MaxWindow \in Nat
      /\ MP \in Nat /\ Reload \in Nat
  BY CycleConstants
<1>2. /\ n * PeriodCycles \in Nat /\ (n + 1) * PeriodCycles = n * PeriodCycles + PeriodCycles
      /\ n * PeriodCycles >= n
  <2>1. n * PeriodCycles = n + n * (PeriodCycles - 1) /\ n * (PeriodCycles - 1) \in Nat
    <3>1. PeriodCycles - 1 \in Nat
      BY <1>1
    <3> QED
      BY <1>1, <3>1
  <2>2. (n + 1) * PeriodCycles = n * PeriodCycles + PeriodCycles /\ n * PeriodCycles \in Nat
    BY <1>1
  <2> QED
    BY <2>1, <2>2
<1>3. n < MaxInterval => (n + 1) * PeriodCycles <= MP
  <2>1. ASSUME n < MaxInterval
        PROVE  (n + 1) * PeriodCycles <= MP
    <3> DEFINE r == MaxInterval + MaxWindow - (n + 1)
    <3>1. r \in Nat /\ MaxInterval + MaxWindow = (n + 1) + r
      BY <1>1, <2>1
    <3> HIDE DEF r
    <3>2. ((n + 1) + r) * PeriodCycles = (n + 1) * PeriodCycles + r * PeriodCycles
          /\ r * PeriodCycles \in Nat
      BY <1>1, <3>1
    <3> QED
      BY <1>1, <1>2, <3>1, <3>2
  <2> QED
    BY <2>1
<1> HIDE DEF MP
<1>4. FurthestAhead(n) = IF n < MaxInterval THEN n * PeriodCycles ELSE MP + Reload
  BY DEF FurthestAhead, MP
<1>5. FurthestAhead(n + 1) = IF n + 1 < MaxInterval THEN (n + 1) * PeriodCycles ELSE MP + Reload
  BY DEF FurthestAhead, MP
<1>6. FurthestAhead(n) \in Nat /\ FurthestAhead(n) <= MP + Reload
  BY <1>1, <1>2, <1>3, <1>4
<1>7. n < MaxInterval => FurthestAhead(n) + 1 <= FurthestAhead(n + 1)
  BY <1>1, <1>2, <1>3, <1>4, <1>5
<1>8. n <= Reload => n <= FurthestAhead(n)
  BY <1>1, <1>2, <1>4
<1> QED
  BY <1>6, <1>7, <1>8 DEF MP

\* A window is as long as it is announced, and a period may be over in it.
LEMMA WindowAdds ==
    ASSUME NEW n \in Nat, n < MaxInterval, NEW k \in 0 .. MaxWindow
    PROVE  /\ k * PeriodCycles \in Nat
           /\ Max({1, k * PeriodCycles}) \in Nat
           /\ FurthestAhead(n) + k * PeriodCycles + PeriodCycles
                <= FurthestAhead(n + Max({1, k * PeriodCycles}))
<1> DEFINE MP == (MaxInterval + MaxWindow) * PeriodCycles
           kP == k * PeriodCycles
           M == Max({1, kP})
<1>1. /\ PeriodCycles \in Nat /\ PeriodCycles >= 2 /\ MaxInterval \in Nat /\ MaxWindow \in Nat
      /\ MP \in Nat /\ Reload \in Nat /\ k \in Nat /\ k <= MaxWindow
  BY CycleConstants
<1>2. kP \in Nat /\ (k # 0 => kP >= PeriodCycles /\ kP >= k + 1) /\ (k = 0 => kP = 0)
  <2>1. k # 0 => k * PeriodCycles = PeriodCycles + (k - 1) * PeriodCycles
                 /\ (k - 1) * PeriodCycles \in Nat
                 /\ k * PeriodCycles = k + k * (PeriodCycles - 1)
                 /\ k * (PeriodCycles - 1) >= k
    <3>1. SUFFICES ASSUME k # 0
                   PROVE  /\ k * PeriodCycles = PeriodCycles + (k - 1) * PeriodCycles
                          /\ (k - 1) * PeriodCycles \in Nat
                          /\ k * PeriodCycles = k + k * (PeriodCycles - 1)
                          /\ k * (PeriodCycles - 1) >= k
      OBVIOUS
    <3>2. k - 1 \in Nat /\ PeriodCycles - 2 \in Nat
      BY <1>1, <3>1
    <3>3. k * (PeriodCycles - 1) = k + k * (PeriodCycles - 2) /\ k * (PeriodCycles - 2) \in Nat
      BY <1>1, <3>2
    <3> QED
      BY <1>1, <3>2, <3>3
  <2>2. k * PeriodCycles \in Nat /\ k * (PeriodCycles - 1) \in Int
    BY <1>1
  <2>3. k = 0 => k * PeriodCycles = 0
    BY <1>1
  <2> QED
    BY <1>1, <2>1, <2>2, <2>3
<1>3. M = IF k = 0 THEN 1 ELSE kP
  <2>1. CASE k = 0
    <3>1. {1, kP} = {1, 0}
      BY <1>2, <2>1
    <3>2. Max({1, 0}) = 1
      BY DEF Max
    <3> QED
      BY <2>1, <3>1, <3>2
  <2>2. CASE k # 0
    <3>1. kP \in Nat /\ kP >= 1
      BY <1>1, <1>2, <2>2
    <3>2. \A q \in Nat : q >= 1 => Max({1, q}) = q
      BY DEF Max
    <3> HIDE DEF kP
    <3> QED
      BY <2>2, <3>1, <3>2
  <2> QED
    BY <2>1, <2>2
<1>4. M \in Nat /\ M >= k + 1
  BY <1>1, <1>2, <1>3
<1>5. FurthestAhead(n) = n * PeriodCycles /\ n * PeriodCycles \in Nat
  BY <1>1 DEF FurthestAhead
<1> HIDE DEF M
<1>6. FurthestAhead(n + M) = IF n + M < MaxInterval THEN (n + M) * PeriodCycles ELSE MP + Reload
  BY DEF FurthestAhead
<1>7. (n + M) * PeriodCycles >= n * PeriodCycles + kP + PeriodCycles
  <2> DEFINE r == M - (k + 1)
  <2>1. r \in Nat /\ n + M = n + k + 1 + r
    BY <1>1, <1>4
  <2> HIDE DEF r
  <2>2. (n + k + 1 + r) * PeriodCycles
           = n * PeriodCycles + k * PeriodCycles + PeriodCycles + r * PeriodCycles
        /\ r * PeriodCycles \in Nat
    BY <1>1, <2>1
  <2> QED
    BY <1>1, <1>2, <1>5, <2>1, <2>2
<1>8. n * PeriodCycles + kP + PeriodCycles <= MP
  <2> DEFINE r == MaxInterval + MaxWindow - (n + k + 1)
  <2>1. r \in Nat /\ MaxInterval + MaxWindow = n + k + 1 + r
    BY <1>1
  <2> HIDE DEF r
  <2>2. (n + k + 1 + r) * PeriodCycles
           = n * PeriodCycles + k * PeriodCycles + PeriodCycles + r * PeriodCycles
        /\ r * PeriodCycles \in Nat
    BY <1>1, <2>1
  <2> QED
    BY <1>1, <1>2, <1>5, <2>1, <2>2
<1> HIDE DEF MP, kP
<1>9. FurthestAhead(n) + kP + PeriodCycles <= FurthestAhead(n + M)
  <2>1. (n + M) * PeriodCycles \in Int
    BY <1>1, <1>4
  <2> QED
    BY <1>1, <1>2, <1>5, <1>6, <1>7, <1>8, <2>1
<1> QED
  BY <1>2, <1>4, <1>9 DEF M, kP

Positions == [cvr : 0 .. Reload, pend : BOOLEAN]

\* A cycle, outside a window.
LEMMA OneCycleOn ==
    ASSUME NEW p \in Positions, ~inWindow
    PROVE  /\ CycleOn(p) \in Positions
           /\ p.cvr = 0 => CycleOn(p).cvr = Reload /\ CycleOn(p).pend = p.pend
           /\ p.cvr # 0 => CycleOn(p).cvr = p.cvr - 1
           /\ p.cvr = 1 => CycleOn(p).pend = TRUE
           /\ p.cvr # 0 /\ p.cvr # 1 => CycleOn(p).pend = p.pend
<1>1. Reload \in Nat /\ p.cvr \in 0 .. Reload /\ p.pend \in BOOLEAN
  BY CycleConstants DEF Positions
<1>2. /\ CycleOn(p).cvr = (IF p.cvr = 0 THEN Reload ELSE p.cvr - 1)
      /\ CycleOn(p).pend = (p.pend \/ (p.cvr = 1 /\ ~inWindow))
      /\ CycleOn(p) = [cvr |-> CycleOn(p).cvr, pend |-> CycleOn(p).pend]
  BY DEF CycleOn
<1>3. CycleOn(p).cvr \in 0 .. Reload
  BY <1>1, <1>2
<1>4. CycleOn(p).pend \in BOOLEAN
  BY <1>2
<1>5. CycleOn(p) \in Positions
  BY <1>2, <1>3, <1>4 DEF Positions
<1>8. /\ p.cvr = 0 => CycleOn(p).cvr = Reload /\ p.cvr # 1
      /\ p.cvr # 0 => CycleOn(p).cvr = p.cvr - 1
  BY <1>1, <1>2
<1>6. CASE p.pend
  <2>1. p.pend = TRUE /\ CycleOn(p).pend = TRUE
    BY <1>1, <1>2, <1>6, Zenon
  <2> QED
    BY <1>5, <1>8, <2>1
<1>7. CASE ~p.pend
  <2>1. p.pend = FALSE
    BY <1>1, <1>7, Zenon
  <2>2. p.cvr = 1 => CycleOn(p).pend = TRUE
    BY <1>2, Zenon
  <2>3. p.cvr # 1 => CycleOn(p).pend = FALSE
    BY <1>2, <2>1, Zenon
  <2> QED
    BY <1>5, <1>8, <2>1, <2>2, <2>3
<1> QED
  BY <1>6, <1>7

\* on is the position after each of the first n cycles.
IsPassage(on, n) == on = [i \in 0 .. n |-> IF i = 0 THEN position ELSE CycleOn(on[i - 1])]

\* There is such a passage of any length.
LEMMA PassageExists ==
    ASSUME NEW n \in Nat
    PROVE  \E on : IsPassage(on, n)
<1> DEFINE Stuck == {i \in Nat : ~ \E on : IsPassage(on, i)}
<1>1. SUFFICES ASSUME Stuck # {}
               PROVE  FALSE
  OBVIOUS
<1>2. PICK least \in Stuck : \A j \in Stuck : least <= j
  <2>1. Stuck \subseteq Nat
    OBVIOUS
  <2> HIDE DEF Stuck
  <2> QED
    BY <1>1, <2>1, LeastNatural
<1>3. least # 0
  <2>1. IsPassage([i \in 0 .. 0 |-> position], 0)
    BY DEF IsPassage
  <2> QED
    BY <2>1
<1>4. least - 1 \in Nat /\ least \in Nat /\ ~(least <= least - 1)
  BY <1>3
<1>5. PICK on : IsPassage(on, least - 1)
  BY <1>2, <1>4
<1> DEFINE more == [i \in 0 .. least |-> IF i < least THEN on[i] ELSE CycleOn(on[i - 1])]
<1>6. ASSUME NEW i \in 0 .. least
      PROVE  more[i] = IF i = 0 THEN position ELSE CycleOn(more[i - 1])
  <2>1. i < least => i \in 0 .. least - 1
    BY <1>4
  <2>2. i # 0 => i - 1 \in 0 .. least - 1 /\ i - 1 \in 0 .. least /\ i - 1 < least
    BY <1>4
  <2>3. 0 \in 0 .. least - 1 /\ 0 < least
    BY <1>4
  <2>4. \A k \in 0 .. least - 1 : on[k] = IF k = 0 THEN position ELSE CycleOn(on[k - 1])
    BY <1>5 DEF IsPassage
  <2>5. i # 0 => more[i - 1] = on[i - 1]
    BY <2>2
  <2>6. CASE i < least
    BY <2>1, <2>4, <2>5, <2>6
  <2>7. CASE ~(i < least)
    BY <1>3, <1>4, <2>2, <2>5, <2>7
  <2> QED
    BY <2>6, <2>7
<1>7. IsPassage(more, least)
  <2> DEFINE same == [i \in 0 .. least |-> IF i = 0 THEN position ELSE CycleOn(more[i - 1])]
  <2>1. more = same
    <3>1. \A i \in 0 .. least : more[i] = same[i]
      <4> HIDE DEF more
      <4> QED
        BY <1>6
    <3> QED
      BY <3>1
  <2> HIDE DEF more
  <2> QED
    BY <2>1 DEF IsPassage
<1> QED
  BY <1>2, <1>7

\* Within a period the timer counts down to zero, where it pends a tick, and from
\* there it comes down from the top.
LEMMA PositionAfterIs ==
    ASSUME position \in Positions, ~inWindow, NEW n \in 0 .. Reload
    PROVE  /\ PositionAfter(n) \in Positions
           /\ n <= position.cvr => PositionAfter(n).cvr = position.cvr - n
           /\ n > position.cvr => PositionAfter(n).cvr = position.cvr + PeriodCycles - n
           /\ n < position.cvr \/ position.cvr = 0 => PositionAfter(n).pend = position.pend
           /\ n >= position.cvr /\ position.cvr # 0 => PositionAfter(n).pend = TRUE
<1> DEFINE on == CHOOSE f : IsPassage(f, n)
           c == position.cvr
           Good(i) == /\ on[i] \in Positions
                      /\ i <= c => on[i].cvr = c - i
                      /\ i > c => on[i].cvr = c + PeriodCycles - i
                      /\ i < c \/ c = 0 => on[i].pend = position.pend
                      /\ i >= c /\ c # 0 => on[i].pend = TRUE
<1>1. IsPassage(on, n)
  BY PassageExists
<1>2. PositionAfter(n) = on[n]
  BY DEF PositionAfter, IsPassage
<1> HIDE DEF on
<1>3. on[0] = position /\ \A i \in 1 .. n : on[i] = CycleOn(on[i - 1])
  <2>1. \A i \in 0 .. n : on[i] = IF i = 0 THEN position ELSE CycleOn(on[i - 1])
    BY <1>1 DEF IsPassage
  <2>2. 0 \in 0 .. n /\ \A i \in 1 .. n : i \in 0 .. n /\ i # 0
    BY CycleConstants
  <2> QED
    BY <2>1, <2>2
<1>4. c \in Nat /\ c <= Reload /\ Reload \in Nat /\ PeriodCycles = Reload + 1 /\ n \in Nat /\ n <= Reload
  BY CycleConstants DEF Positions
<1>5. Good(0)
  BY <1>3, <1>4
<1>6. ASSUME NEW i \in 1 .. n, Good(i - 1)
      PROVE  Good(i)
  <2>1. on[i] = CycleOn(on[i - 1]) /\ i \in Nat /\ i >= 1 /\ i <= Reload
    BY <1>3, <1>4
  <2>2. /\ on[i] \in Positions
        /\ on[i - 1].cvr = 0 => on[i].cvr = Reload /\ on[i].pend = on[i - 1].pend
        /\ on[i - 1].cvr # 0 => on[i].cvr = on[i - 1].cvr - 1
        /\ on[i - 1].cvr = 1 => on[i].pend = TRUE
        /\ on[i - 1].cvr # 0 /\ on[i - 1].cvr # 1 => on[i].pend = on[i - 1].pend
    BY <1>6, <2>1, OneCycleOn
  <2>3. CASE i < c
    <3>1. i - 1 <= c /\ i - 1 < c /\ ~(i > c) /\ ~(i >= c) /\ i <= c
      BY <1>4, <2>1, <2>3
    <3>2. on[i - 1].cvr = c - (i - 1) /\ on[i - 1].pend = position.pend
      BY <1>6, <3>1
    <3>3. on[i - 1].cvr # 0 /\ on[i - 1].cvr # 1
      BY <1>4, <2>1, <2>3, <3>2
    <3>4. on[i].cvr = c - i /\ on[i].pend = position.pend
      <4>1. on[i].cvr = on[i - 1].cvr - 1 /\ on[i].pend = on[i - 1].pend
        BY <2>2, <3>3
      <4> QED
        BY <1>4, <2>1, <3>2, <4>1
    <3> QED
      BY <1>4, <2>2, <2>3, <3>1, <3>4
  <2>4. CASE i = c
    <3>1. i - 1 <= c /\ i - 1 < c /\ ~(i > c) /\ ~(i < c) /\ c # 0 /\ i <= c
      BY <1>4, <2>1, <2>4
    <3>2. on[i - 1].cvr = c - (i - 1)
      BY <1>6, <3>1
    <3>3. on[i - 1].cvr = 1
      BY <1>4, <2>1, <2>4, <3>2
    <3>4. on[i].cvr = c - i /\ on[i].pend = TRUE
      BY <1>4, <2>1, <2>2, <2>4, <3>3
    <3> QED
      BY <2>2, <3>1, <3>4
  <2>5. CASE i > c /\ i - 1 = c
    <3>1. i - 1 <= c /\ ~(i <= c) /\ ~(i < c) /\ i >= c
      BY <1>4, <2>1, <2>5
    <3>2. on[i - 1].cvr = c - (i - 1)
      BY <1>6, <3>1
    <3>3. on[i - 1].cvr = 0
      BY <1>4, <2>1, <2>5, <3>2
    <3>4. on[i].cvr = c + PeriodCycles - i /\ on[i].pend = on[i - 1].pend
      BY <1>4, <2>1, <2>2, <2>5, <3>3
    <3>5. (c = 0 => on[i - 1].pend = position.pend) /\ (c # 0 => on[i - 1].pend = TRUE)
      <4>1. i - 1 >= c
        BY <1>4, <2>5
      <4> QED
        BY <1>6, <4>1
    <3> QED
      BY <2>2, <3>1, <3>4, <3>5
  <2>6. CASE i > c /\ i - 1 > c
    <3>1. i - 1 >= c /\ ~(i <= c) /\ ~(i < c) /\ i >= c
      BY <1>4, <2>1, <2>6
    <3>2. on[i - 1].cvr = c + PeriodCycles - (i - 1)
      BY <1>6, <2>6
    <3>3. on[i - 1].cvr # 0 /\ on[i - 1].cvr # 1
      BY <1>4, <2>1, <2>6, <3>2
    <3>4. on[i].cvr = c + PeriodCycles - i /\ on[i].pend = on[i - 1].pend
      <4>1. on[i].cvr = on[i - 1].cvr - 1 /\ on[i].pend = on[i - 1].pend
        BY <2>2, <3>3
      <4> QED
        BY <1>4, <2>1, <3>2, <4>1
    <3>5. (c = 0 => on[i - 1].pend = position.pend) /\ (c # 0 => on[i - 1].pend = TRUE)
      BY <1>6, <3>1
    <3> QED
      BY <2>2, <3>1, <3>4, <3>5
  <2>7. i < c \/ i = c \/ (i > c /\ i - 1 = c) \/ (i > c /\ i - 1 > c)
    BY <1>4, <2>1
  <2> HIDE DEF Good
  <2> QED
    BY <2>3, <2>4, <2>5, <2>6, <2>7
<1> HIDE DEF Good
<1>7. Good(n)
  <2> DEFINE Bad == {i \in 0 .. n : ~ Good(i)}
  <2>1. SUFFICES ASSUME Bad # {}
                 PROVE  FALSE
    BY <1>4
  <2>2. PICK i \in Bad : \A j \in Bad : i <= j
    <3>1. Bad \subseteq Nat
      BY <1>4
    <3> HIDE DEF Bad
    <3> QED
      BY <2>1, <3>1, LeastNatural
  <2>3. i # 0
    BY <1>5, <2>2
  <2>4. i \in 1 .. n /\ i - 1 \in 0 .. n /\ ~(i <= i - 1)
    BY <1>4, <2>2, <2>3
  <2>5. Good(i - 1)
    BY <2>2, <2>4
  <2> QED
    BY <1>6, <2>2, <2>4, <2>5
<1> QED
  BY <1>2, <1>7 DEF Good

\* Passed, of any state.
Height(b, pend, cvr) ==
    b + (IF pend THEN PeriodCycles ELSE 0) + Reload - cvr - (IF cvr = 0 THEN PeriodCycles ELSE 0)

\* With a position that shows zero a cycle is over, not a period.
LEMMA HeightIs ==
    ASSUME NEW b \in Int, NEW pend \in BOOLEAN, NEW cvr \in 0 .. Reload
    PROVE  /\ Height(b, pend, cvr) \in Int
           /\ cvr = 0 => Height(b, pend, cvr) = b + (IF pend THEN PeriodCycles ELSE 0) - 1
           /\ cvr # 0 => Height(b, pend, cvr) = b + (IF pend THEN PeriodCycles ELSE 0) + Reload - cvr
<1>1. PeriodCycles \in Nat /\ Reload \in Nat /\ Reload = PeriodCycles - 1 /\ cvr \in Nat
  BY CycleConstants
<1>2. CASE cvr = 0
  BY <1>1, <1>2 DEF Height
<1>3. CASE cvr # 0
  BY <1>1, <1>3 DEF Height
<1> QED
  BY <1>2, <1>3

\* The types of the state, one by one.
LEMMA CycleTypes ==
    ASSUME CycleIInv
    PROVE  /\ counting \in BOOLEAN /\ inWindow \in BOOLEAN
           /\ position \in Positions /\ position.cvr \in 0 .. Reload /\ position.pend \in BOOLEAN
           /\ base \in 0 .. CountLimit - 1 /\ lastRead \in 0 .. CountLimit - 1
           /\ windowMark \in 0 .. CountLimit - 1 /\ handed \in 0 .. CountLimit - 1
           /\ crossed \in 0 .. MaxWindow /\ truly \in Nat
           /\ ~counting => /\ inWindow = FALSE /\ position.cvr = 0 /\ handed = base
                           /\ lastRead = 0 /\ base <= MaxInterval
           /\ inWindow => truly < MaxInterval /\ counting
<1>1. counting \in BOOLEAN /\ inWindow \in BOOLEAN
  BY DEF CycleIInv
<1>2. position \in Positions /\ position.cvr \in 0 .. Reload /\ position.pend \in BOOLEAN
  BY DEF CycleIInv, Positions
<1>3. /\ base \in 0 .. CountLimit - 1 /\ lastRead \in 0 .. CountLimit - 1
      /\ windowMark \in 0 .. CountLimit - 1 /\ handed \in 0 .. CountLimit - 1
      /\ crossed \in 0 .. MaxWindow /\ truly \in Nat
  BY DEF CycleIInv
<1>4. /\ ~counting => /\ ~inWindow /\ position.cvr = 0 /\ handed = base
                      /\ lastRead = 0 /\ base <= MaxInterval
      /\ inWindow => truly < MaxInterval
  BY DEF CycleIInv
<1>5. (~counting => inWindow = FALSE) /\ (inWindow => counting)
  BY <1>1, <1>4
<1> QED
  BY <1>1, <1>2, <1>3, <1>4, <1>5

\* What the invariant says once the timer runs.
LEMMA AheadIs ==
    ASSUME CycleIInv, counting
    PROVE  \E shown \in 0 .. Reload, ahead \in Int, turns \in Int :
             /\ -PeriodCycles <= ahead /\ ahead <= FurthestAhead(truly)
             /\ Height(base, position.pend, shown) = handed + ahead + turns * CountLimit
             /\ ~inWindow => shown = position.cvr
             /\ inWindow => /\ windowMark = Modulo(base + Reload - shown)
                            /\ position.cvr = 0 => crossed # 0 \/ shown = 0
             /\ lastRead # handed => lastRead = 0 /\ handed <= MaxInterval /\ ahead >= 0
<1>1. AheadOfRead
  BY DEF CycleIInv
<1>2. PICK shown \in 0 .. Reload, ahead \in -PeriodCycles .. FurthestAhead(truly), turns \in Int :
        /\ Passed(shown) = handed + ahead + turns * CountLimit
        /\ ~inWindow => shown = position.cvr
        /\ inWindow => /\ windowMark = Modulo(base + Reload - shown)
                       /\ position.cvr = 0 => crossed # 0 \/ shown = 0
        /\ lastRead # handed => lastRead = 0 /\ handed <= MaxInterval /\ ahead >= 0
  BY <1>1 DEF AheadOfRead
<1>3. Height(base, position.pend, shown) = Passed(shown)
  BY DEF Height, Passed
<1>4. ahead \in Int /\ -PeriodCycles <= ahead /\ ahead <= FurthestAhead(truly)
  BY CycleConstants, CycleTypes, FurthestGrows
<1> QED
  BY <1>2, <1>3, <1>4

\* What shows that a step keeps the invariant.
LEMMA CycleKept ==
    ASSUME counting' \in BOOLEAN, inWindow' \in BOOLEAN, position' \in Positions,
           base' \in 0 .. CountLimit - 1, lastRead' \in 0 .. CountLimit - 1,
           windowMark' \in 0 .. CountLimit - 1, handed' \in 0 .. CountLimit - 1,
           crossed' \in 0 .. MaxWindow, truly' \in Nat,
           counting' = TRUE, inWindow' => truly' < MaxInterval,
           NEW shown \in 0 .. Reload, NEW ahead \in Int, NEW turns \in Int,
           -PeriodCycles <= ahead, ahead <= FurthestAhead(truly'),
           Height(base', position'.pend, shown) = handed' + ahead + turns * CountLimit,
           ~inWindow' => shown = position'.cvr,
           inWindow' => /\ windowMark' = Modulo(base' + Reload - shown)
                        /\ position'.cvr = 0 => crossed' # 0 \/ shown = 0,
           lastRead' # handed' => lastRead' = 0 /\ handed' <= MaxInterval /\ ahead >= 0
    PROVE  CycleIInv'
<1>1. ahead \in -PeriodCycles .. FurthestAhead(truly')
  BY CycleConstants, FurthestGrows
<1>2. Passed(shown)' = handed' + ahead + turns * CountLimit
  BY DEF Height, Passed
<1>3. AheadOfRead'
  BY <1>1, <1>2 DEF AheadOfRead, FurthestAhead
<1>4. /\ {counting, inWindow}' \subseteq BOOLEAN
      /\ {base, lastRead, windowMark, handed}' \subseteq 0 .. CountLimit - 1
  OBVIOUS
<1> QED
  BY <1>3, <1>4 DEF CycleIInv, Positions

\* The initial state.
LEMMA CycleInitHolds == CycleInit => CycleIInv
<1>1. SUFFICES ASSUME CycleInit
               PROVE  CycleIInv
  OBVIOUS
<1>2. 0 \in 0 .. CountLimit - 1 /\ 0 \in 0 .. Reload /\ 0 \in 0 .. MaxWindow /\ 0 <= MaxInterval
  BY CycleConstants
<1> QED
  BY <1>1, <1>2 DEF CycleInit, CycleIInv

\* As the timer starts, nothing has passed since the last read but what it counted.
LEMMA StartTickingKeeps ==
    ASSUME CycleIInv, StartTicking
    PROVE  CycleIInv'
<1>1. /\ counting' = TRUE /\ position' = [cvr |-> Reload, pend |-> FALSE]
      /\ UNCHANGED <<base, lastRead, inWindow, windowMark, crossed, handed, truly>>
      /\ inWindow = FALSE /\ handed = base /\ lastRead = 0 /\ base <= MaxInterval
  BY CycleTypes DEF StartTicking
<1>2. Reload \in 0 .. Reload /\ Reload # 0 /\ 0 \in Int /\ 0 * CountLimit = 0 /\ PeriodCycles \in Nat
  BY CycleConstants
<1>3. position' \in Positions /\ position'.cvr = Reload /\ position'.pend = FALSE
  BY <1>1, <1>2 DEF Positions
<1> DEFINE none == Reload - Reload
<1>4. /\ none = 0 /\ none \in Int /\ none * CountLimit = 0
      /\ Height(base', position'.pend, Reload) = handed' + none + none * CountLimit
  <2>1. base \in Int
    BY CycleTypes, CycleConstants
  <2> QED
    BY <1>1, <1>2, <1>3, <2>1, CycleConstants DEF Height
<1> HIDE DEF none
<1>5. none <= FurthestAhead(truly') /\ -PeriodCycles <= none /\ none >= 0
  BY <1>1, <1>2, <1>4, CycleTypes, FurthestGrows
<1>6. /\ inWindow' = FALSE /\ inWindow' \in BOOLEAN /\ counting' \in BOOLEAN
      /\ base' \in 0 .. CountLimit - 1 /\ lastRead' \in 0 .. CountLimit - 1
      /\ windowMark' \in 0 .. CountLimit - 1 /\ handed' \in 0 .. CountLimit - 1
      /\ crossed' \in 0 .. MaxWindow /\ truly' \in Nat
      /\ lastRead' = 0 /\ handed' <= MaxInterval
  BY <1>1, CycleTypes
<1> QED
  BY <1>1, <1>2, <1>3, <1>4, <1>5, <1>6, CycleKept

\* A read that counts for itself is one more than the last.
LEMMA ReadFallbackKeeps ==
    ASSUME CycleIInv, ReadFallback
    PROVE  CycleIInv' /\ handed' - handed = 1
<1>1. /\ ~counting /\ base < MaxInterval
      /\ base' = Modulo(base + 1) /\ handed' = base' /\ truly' = 0
      /\ UNCHANGED <<counting, position, lastRead, inWindow, windowMark, crossed>>
  BY DEF ReadFallback
<1>2. /\ base \in Nat /\ base + 1 \in 0 .. CountLimit - 1 /\ base + 1 <= MaxInterval
      /\ handed = base
  BY <1>1, CycleTypes, CycleConstants
<1>3. base' = base + 1
  <2>1. Modulo(base + 1 + 0 * CountLimit) = base + 1
    BY <1>2, ModuloUnique
  <2>2. base + 1 + 0 * CountLimit = base + 1
    BY <1>2, CycleConstants
  <2> QED
    BY <1>1, <2>1, <2>2
<1>4. handed' - handed = 1
  BY <1>1, <1>2, <1>3
<1> QED
  BY <1>1, <1>2, <1>3, <1>4 DEF CycleIInv

\* The handler turns the pending period into a counted one.
LEMMA CountPeriodKeeps ==
    ASSUME CycleIInv, CountPeriod
    PROVE  CycleIInv'
<1>1. /\ counting = TRUE /\ position.pend = TRUE /\ inWindow = FALSE
      /\ position' = [position EXCEPT !.pend = FALSE]
      /\ base' = Modulo(base + PeriodCycles)
      /\ UNCHANGED <<counting, lastRead, inWindow, windowMark, crossed, handed, truly>>
  BY CycleTypes DEF CountPeriod
<1>2. PICK shown \in 0 .. Reload, ahead \in Int, turns \in Int :
             /\ -PeriodCycles <= ahead /\ ahead <= FurthestAhead(truly)
             /\ Height(base, position.pend, shown) = handed + ahead + turns * CountLimit
             /\ ~inWindow => shown = position.cvr
             /\ lastRead # handed => lastRead = 0 /\ handed <= MaxInterval /\ ahead >= 0
  BY <1>1, AheadIs
<1>3. base \in Int /\ handed \in Int /\ PeriodCycles \in Nat /\ CountLimit \in Nat /\ Reload \in Nat
  BY CycleTypes, CycleConstants
<1>4. PICK j \in Int : base' = base + PeriodCycles - j * CountLimit
  BY <1>1, <1>3, ModuloTurns
<1>5. base' \in 0 .. CountLimit - 1
  BY <1>1, <1>3, ModuloTurns
<1>6. position' \in Positions /\ position'.cvr = position.cvr /\ position'.pend = FALSE
  BY <1>1, CycleTypes DEF Positions
<1>7. /\ j * CountLimit \in Int /\ turns * CountLimit \in Int /\ turns - j \in Int
      /\ (turns - j) * CountLimit = turns * CountLimit - j * CountLimit
  BY <1>3
<1>8. Height(base', position'.pend, shown) = Height(base, position.pend, shown) - j * CountLimit
  BY <1>1, <1>3, <1>4, <1>6, <1>7 DEF Height
<1>9. Height(base', position'.pend, shown) = handed' + ahead + (turns - j) * CountLimit
  <2>1. Height(base, position.pend, shown) = handed + ahead + turns * CountLimit
    BY <1>2
  <2>2. \A h, a, x, y \in Int : (h + a + x) - y = h + a + (x - y)
    OBVIOUS
  <2>3. handed' = handed
    BY <1>1
  <2> QED
    BY <1>3, <1>7, <1>8, <2>1, <2>2, <2>3
<1> QED
  BY <1>1, <1>2, <1>5, <1>6, <1>7, <1>9, CycleTypes, CycleKept

\* A cycle outside a window is one more cycle.
LEMMA PassKeeps ==
    ASSUME CycleIInv, PassCycle, counting, ~inWindow
    PROVE  CycleIInv'
<1>1. /\ counting = TRUE /\ inWindow = FALSE
      /\ ~(position.pend /\ position.cvr # 0 /\ position.cvr <= 1) /\ truly < MaxInterval
      /\ position' = CycleOn(position) /\ crossed' = crossed /\ truly' = truly + 1
      /\ UNCHANGED <<counting, base, lastRead, inWindow, windowMark, handed>>
  BY CycleTypes DEF PassCycle, Served
<1>2. PICK shown \in 0 .. Reload, ahead \in Int, turns \in Int :
             /\ -PeriodCycles <= ahead /\ ahead <= FurthestAhead(truly)
             /\ Height(base, position.pend, shown) = handed + ahead + turns * CountLimit
             /\ ~inWindow => shown = position.cvr
             /\ lastRead # handed => lastRead = 0 /\ handed <= MaxInterval /\ ahead >= 0
  BY <1>1, AheadIs
<1>3. /\ base \in Int /\ handed \in Int /\ PeriodCycles \in Nat /\ CountLimit \in Nat
      /\ Reload \in Nat /\ Reload = PeriodCycles - 1 /\ Reload # 0
      /\ position.cvr \in Nat /\ position.cvr <= Reload /\ truly \in Nat
      /\ turns * CountLimit \in Int
  BY CycleTypes, CycleConstants
<1> DEFINE u == CycleOn(position)
<1>4. /\ u \in Positions /\ u.cvr \in 0 .. Reload /\ u.pend \in BOOLEAN
      /\ position.cvr = 0 => u.cvr = Reload /\ u.pend = position.pend
      /\ position.cvr # 0 => u.cvr = position.cvr - 1
      /\ position.cvr = 1 => u.pend = TRUE
      /\ position.cvr # 0 /\ position.cvr # 1 => u.pend = position.pend
  BY <1>1, CycleTypes, OneCycleOn DEF Positions
<1> HIDE DEF u
<1> DEFINE Owed(pend) == IF pend THEN PeriodCycles ELSE 0
<1>5. /\ position.cvr = 0 => Height(base, position.pend, position.cvr) = base + Owed(position.pend) - 1
      /\ position.cvr # 0 => Height(base, position.pend, position.cvr)
                                = base + Owed(position.pend) + Reload - position.cvr
      /\ u.cvr = 0 => Height(base, u.pend, u.cvr) = base + Owed(u.pend) - 1
      /\ u.cvr # 0 => Height(base, u.pend, u.cvr) = base + Owed(u.pend) + Reload - u.cvr
      /\ Owed(position.pend) \in Nat /\ Owed(u.pend) \in Nat
      /\ Height(base, position.pend, position.cvr) \in Int
  <2>1. position.pend \in BOOLEAN /\ position.cvr \in 0 .. Reload
    BY CycleTypes
  <2>2. \A pend \in BOOLEAN, c \in 0 .. Reload :
           /\ Height(base, pend, c) \in Int
           /\ c = 0 => Height(base, pend, c) = base + Owed(pend) - 1
           /\ c # 0 => Height(base, pend, c) = base + Owed(pend) + Reload - c
    <3>1. base \in Int
      BY <1>3
    <3> TAKE pend \in BOOLEAN, c \in 0 .. Reload
    <3> QED
      BY <3>1, HeightIs
  <2>3. u.pend \in BOOLEAN /\ u.cvr \in 0 .. Reload
    BY <1>4
  <2>4. Owed(position.pend) \in Nat /\ Owed(u.pend) \in Nat
    BY <1>3
  <2> HIDE DEF Owed
  <2> QED
    BY <2>1, <2>2, <2>3, <2>4
<1>6. Height(base, u.pend, u.cvr) = Height(base, position.pend, position.cvr) + 1
  <2>1. CASE position.cvr = 0
    <3>1. Owed(u.pend) = Owed(position.pend)
      BY <1>4, <2>1
    <3> HIDE DEF Owed
    <3> QED
      BY <1>3, <1>4, <1>5, <2>1, <3>1
  <2>2. CASE position.cvr = 1
    <3>1. Owed(u.pend) = PeriodCycles /\ Owed(position.pend) = 0 /\ u.cvr = 0
      BY <1>1, <1>4, <2>2
    <3> HIDE DEF Owed
    <3> QED
      BY <1>3, <1>5, <2>2, <3>1
  <2>3. CASE position.cvr # 0 /\ position.cvr # 1
    <3>1. Owed(u.pend) = Owed(position.pend) /\ u.cvr = position.cvr - 1 /\ u.cvr # 0
      BY <1>3, <1>4, <2>3
    <3> HIDE DEF Owed
    <3> QED
      BY <1>3, <1>5, <2>3, <3>1
  <2> QED
    BY <2>1, <2>2, <2>3
<1>7. Height(base', position'.pend, u.cvr) = handed' + (ahead + 1) + turns * CountLimit
  <2>1. Height(base, position.pend, position.cvr) = handed + ahead + turns * CountLimit
    BY <1>1, <1>2
  <2>2. base' = base /\ handed' = handed /\ position' = u
    BY <1>1 DEF u
  <2> QED
    BY <1>3, <1>6, <2>1, <2>2
<1>8. ahead + 1 \in Int /\ -PeriodCycles <= ahead + 1 /\ ahead + 1 <= FurthestAhead(truly')
      /\ ahead + 1 >= ahead
  <2>1. /\ FurthestAhead(truly) \in Nat /\ FurthestAhead(truly') \in Nat
        /\ FurthestAhead(truly) + 1 <= FurthestAhead(truly')
    BY <1>1, <1>3, FurthestGrows
  <2> QED
    BY <1>2, <1>3, <2>1
<1>9. /\ inWindow' = FALSE /\ inWindow' \in BOOLEAN /\ counting' \in BOOLEAN /\ counting' = TRUE
      /\ base' \in 0 .. CountLimit - 1 /\ lastRead' \in 0 .. CountLimit - 1
      /\ windowMark' \in 0 .. CountLimit - 1 /\ handed' \in 0 .. CountLimit - 1
      /\ crossed' \in 0 .. MaxWindow /\ truly' \in Nat
      /\ position' \in Positions /\ u.cvr = position'.cvr /\ u.cvr \in 0 .. Reload
      /\ lastRead' # handed' => lastRead' = 0 /\ handed' <= MaxInterval /\ ahead + 1 >= 0
  <2>1. lastRead' # handed' => lastRead' = 0 /\ handed' <= MaxInterval /\ ahead + 1 >= 0
    BY <1>1, <1>2
  <2> QED
    BY <1>1, <1>4, <2>1, CycleTypes DEF u
<1> QED
  BY <1>7, <1>8, <1>9, CycleKept

\* A cycle in a window: what had passed as it was opened stays the same.
LEMMA PassInWindowKeeps ==
    ASSUME CycleIInv, PassCycle, inWindow
    PROVE  CycleIInv'
<1>1. /\ counting = TRUE /\ inWindow = TRUE /\ truly < MaxInterval /\ crossed < MaxWindow
      /\ position' = CycleOn(position) /\ truly' = truly
      /\ crossed' = (IF position.cvr = 1 THEN crossed + 1 ELSE crossed)
      /\ UNCHANGED <<counting, base, lastRead, inWindow, windowMark, handed>>
  BY CycleTypes DEF PassCycle
<1>2. PICK shown \in 0 .. Reload, ahead \in Int, turns \in Int :
             /\ -PeriodCycles <= ahead /\ ahead <= FurthestAhead(truly)
             /\ Height(base, position.pend, shown) = handed + ahead + turns * CountLimit
             /\ inWindow => /\ windowMark = Modulo(base + Reload - shown)
                            /\ position.cvr = 0 => crossed # 0 \/ shown = 0
             /\ lastRead # handed => lastRead = 0 /\ handed <= MaxInterval /\ ahead >= 0
  BY <1>1, AheadIs
<1>3. /\ Reload \in Nat /\ Reload # 0 /\ position.cvr \in 0 .. Reload /\ position.pend \in BOOLEAN
      /\ crossed \in 0 .. MaxWindow /\ MaxWindow \in Nat
  BY CycleTypes, CycleConstants
<1>4. /\ position'.cvr = (IF position.cvr = 0 THEN Reload ELSE position.cvr - 1)
      /\ position'.pend = (position.pend \/ (position.cvr = 1 /\ ~inWindow))
      /\ position' = [cvr |-> position'.cvr, pend |-> position'.pend]
  BY <1>1 DEF CycleOn
<1>5. position'.pend = position.pend
  <2>1. CASE position.pend
    <3>1. position.pend = TRUE /\ position'.pend = TRUE
      BY <1>3, <1>4, <2>1, Zenon
    <3> QED
      BY <3>1
  <2>2. CASE ~position.pend
    <3>1. position.pend = FALSE
      BY <1>3, <2>2, Zenon
    <3>2. position'.pend = FALSE
      BY <1>1, <1>4, <3>1, Zenon
    <3> QED
      BY <3>1, <3>2
  <2> QED
    BY <2>1, <2>2
<1>6. position'.cvr \in 0 .. Reload
  BY <1>3, <1>4
<1>7. position' \in Positions
  BY <1>3, <1>4, <1>5, <1>6 DEF Positions
<1>8. position'.cvr = 0 => crossed' # 0 \/ shown = 0
  BY <1>1, <1>3, <1>4
<1>9. Height(base', position'.pend, shown) = handed' + ahead + turns * CountLimit
  BY <1>1, <1>2, <1>5
<1>10. windowMark' = Modulo(base' + Reload - shown)
  BY <1>1, <1>2
<1>11. crossed' \in 0 .. MaxWindow
  BY <1>1, <1>3
<1>12. ahead <= FurthestAhead(truly')
  BY <1>1, <1>2
<1>13. lastRead' # handed' => lastRead' = 0 /\ handed' <= MaxInterval /\ ahead >= 0
  BY <1>1, <1>2
<1>14. /\ inWindow' = TRUE /\ inWindow' \in BOOLEAN /\ counting' \in BOOLEAN /\ counting' = TRUE
       /\ base' \in 0 .. CountLimit - 1 /\ lastRead' \in 0 .. CountLimit - 1
       /\ windowMark' \in 0 .. CountLimit - 1 /\ handed' \in 0 .. CountLimit - 1
       /\ truly' \in Nat /\ truly' < MaxInterval
  BY <1>1, CycleTypes
<1> QED
  BY <1>2, <1>7, <1>8, <1>9, <1>10, <1>11, <1>12, <1>13, <1>14, CycleKept

\* Before the timer runs there are no cycles to count.
LEMMA PassIdleKeeps ==
    ASSUME CycleIInv, PassCycle, ~counting
    PROVE  CycleIInv'
<1>1. /\ counting = FALSE /\ inWindow = FALSE
      /\ position' = position /\ crossed' = crossed /\ truly' = truly + 1
      /\ UNCHANGED <<counting, base, lastRead, inWindow, windowMark, handed>>
  BY CycleTypes DEF PassCycle
<1>2. truly' \in Nat
  BY <1>1, CycleTypes
<1> QED
  BY <1>1, <1>2 DEF CycleIInv

\* A window starts from where the timer stands.
LEMMA OpenCycleWindowKeeps ==
    ASSUME CycleIInv, OpenCycleWindow
    PROVE  CycleIInv'
<1>1. /\ counting = TRUE /\ inWindow = FALSE /\ truly < MaxInterval
      /\ inWindow' = TRUE /\ windowMark' = RawCount /\ crossed' = 0
      /\ UNCHANGED <<counting, position, base, lastRead, handed, truly>>
  BY CycleTypes DEF OpenCycleWindow
<1>2. PICK shown \in 0 .. Reload, ahead \in Int, turns \in Int :
             /\ -PeriodCycles <= ahead /\ ahead <= FurthestAhead(truly)
             /\ Height(base, position.pend, shown) = handed + ahead + turns * CountLimit
             /\ ~inWindow => shown = position.cvr
             /\ lastRead # handed => lastRead = 0 /\ handed <= MaxInterval /\ ahead >= 0
  BY <1>1, AheadIs
<1>3. /\ windowMark' = Modulo(base + Reload - position.cvr)
      /\ windowMark' \in 0 .. CountLimit - 1
  <2>1. base + Reload - position.cvr \in Int
    BY CycleTypes, CycleConstants
  <2> QED
    BY <1>1, <2>1, ModuloTurns DEF RawCount
<1>4. windowMark' = Modulo(base' + Reload - shown)
  BY <1>1, <1>2, <1>3
<1>5. position'.cvr = 0 => crossed' # 0 \/ shown = 0
  BY <1>1, <1>2
<1>6. Height(base', position'.pend, shown) = handed' + ahead + turns * CountLimit
  BY <1>1, <1>2
<1>7. 0 \in 0 .. MaxWindow
  BY CycleConstants
<1>8. /\ inWindow' \in BOOLEAN /\ counting' \in BOOLEAN /\ counting' = TRUE
      /\ base' \in 0 .. CountLimit - 1 /\ lastRead' \in 0 .. CountLimit - 1
      /\ handed' \in 0 .. CountLimit - 1 /\ position' \in Positions
      /\ truly' \in Nat /\ truly' < MaxInterval /\ crossed' \in 0 .. MaxWindow
      /\ ahead <= FurthestAhead(truly')
      /\ lastRead' # handed' => lastRead' = 0 /\ handed' <= MaxInterval /\ ahead >= 0
  BY <1>1, <1>2, <1>7, CycleTypes
<1> QED
  BY <1>1, <1>2, <1>3, <1>4, <1>5, <1>6, <1>8, CycleKept

\* A window adds the periods announced and, if the timer showed zero as it was
\* shown, the one that was not over.
LEMMA CloseCycleWindowKeeps ==
    ASSUME CycleIInv, CloseCycleWindow
    PROVE  CycleIInv'
<1>1. /\ counting = TRUE /\ inWindow = TRUE /\ truly < MaxInterval
      /\ inWindow' = FALSE
      /\ base' = Modulo(base + crossed * PeriodCycles - (RawCount - windowMark))
      /\ windowMark' = 0 /\ crossed' = 0
      /\ truly' = truly + Max({1, crossed * PeriodCycles})
      /\ UNCHANGED <<counting, position, lastRead, handed>>
  BY CycleTypes DEF CloseCycleWindow
<1>2. PICK shown \in 0 .. Reload, ahead \in Int, turns \in Int :
             /\ -PeriodCycles <= ahead /\ ahead <= FurthestAhead(truly)
             /\ Height(base, position.pend, shown) = handed + ahead + turns * CountLimit
             /\ inWindow => /\ windowMark = Modulo(base + Reload - shown)
                            /\ position.cvr = 0 => crossed # 0 \/ shown = 0
             /\ lastRead # handed => lastRead = 0 /\ handed <= MaxInterval /\ ahead >= 0
  BY <1>1, AheadIs
<1> DEFINE kP == crossed * PeriodCycles
           cvr == position.cvr
           Not(c) == IF c = 0 THEN PeriodCycles ELSE 0
           Owed == IF position.pend THEN PeriodCycles ELSE 0
<1>3. /\ base \in Int /\ handed \in Int /\ PeriodCycles \in Nat /\ CountLimit \in Nat
      /\ Reload \in Nat /\ cvr \in Int /\ shown \in Int /\ truly \in Nat /\ kP \in Nat
      /\ turns * CountLimit \in Int /\ Owed \in Int /\ Not(cvr) \in Nat /\ Not(shown) \in Nat
      /\ Not(cvr) <= PeriodCycles /\ Not(shown) <= PeriodCycles
  <2>1. crossed \in Nat /\ truly \in Nat /\ base \in Int /\ handed \in Int /\ cvr \in Int
    BY CycleTypes, CycleConstants
  <2>2. PeriodCycles \in Nat /\ CountLimit \in Nat /\ Reload \in Nat /\ shown \in Int
    BY CycleConstants
  <2> QED
    BY <2>1, <2>2
<1>4. PICK i \in Int : RawCount = base + Reload - cvr - i * CountLimit
  <2>1. base + Reload - cvr \in Int
    BY <1>3
  <2>2. \E i \in Int : Modulo(base + Reload - cvr) = (base + Reload - cvr) - i * CountLimit
    BY <2>1, ModuloTurns
  <2>3. PICK i \in Int : Modulo(base + Reload - cvr) = (base + Reload - cvr) - i * CountLimit
    BY <2>2
  <2>4. i * CountLimit \in Int
    BY <1>3
  <2>5. (base + Reload - cvr) - i * CountLimit = base + Reload - cvr - i * CountLimit
    BY <1>3, <2>4
  <2> QED
    BY <2>3, <2>5 DEF RawCount
<1>5. PICK m \in Int : windowMark = base + Reload - shown - m * CountLimit
  <2>1. base + Reload - shown \in Int
    BY <1>3
  <2>2. \E m \in Int : Modulo(base + Reload - shown) = (base + Reload - shown) - m * CountLimit
    BY <2>1, ModuloTurns
  <2>3. PICK m \in Int : Modulo(base + Reload - shown) = (base + Reload - shown) - m * CountLimit
    BY <2>2
  <2>4. m * CountLimit \in Int
    BY <1>3
  <2>5. (base + Reload - shown) - m * CountLimit = base + Reload - shown - m * CountLimit
    BY <1>3, <2>4
  <2> QED
    BY <1>1, <1>2, <2>3, <2>5
<1>6. i * CountLimit \in Int /\ m * CountLimit \in Int
  BY <1>3
<1>7. base + kP - (RawCount - windowMark) = base + kP + cvr - shown + i * CountLimit - m * CountLimit
  BY <1>3, <1>4, <1>5, <1>6
<1>8. PICK j \in Int :
        base' = (base + kP + cvr - shown + i * CountLimit - m * CountLimit) - j * CountLimit
  <2>1. base + kP + cvr - shown + i * CountLimit - m * CountLimit \in Int
    BY <1>3, <1>6
  <2> QED
    BY <1>1, <1>7, <2>1, ModuloTurns
<1>9. base' \in 0 .. CountLimit - 1
  <2>1. base + kP + cvr - shown + i * CountLimit - m * CountLimit \in Int
    BY <1>3, <1>6
  <2> QED
    BY <1>1, <1>7, <2>1, ModuloTurns
<1>10. /\ j * CountLimit \in Int /\ turns + i - m - j \in Int
       /\ (turns + i - m - j) * CountLimit
             = turns * CountLimit + i * CountLimit - m * CountLimit - j * CountLimit
  <2>1. \A a, b, c, d \in Int : (a + b - c - d) * CountLimit
                                   = a * CountLimit + b * CountLimit - c * CountLimit - d * CountLimit
    BY <1>3
  <2> QED
    BY <1>3, <2>1
<1> DEFINE moved == ahead + kP + Not(shown) - Not(cvr)
<1>11. /\ Height(base, position.pend, shown) = base + Owed + Reload - shown - Not(shown)
       /\ Height(base', position'.pend, cvr) = base' + Owed + Reload - cvr - Not(cvr)
  BY <1>1 DEF Height
<1>12. moved \in Int /\ moved >= ahead
       /\ moved <= FurthestAhead(truly) + kP + PeriodCycles
  <2>1. Not(cvr) <= kP + Not(shown)
    <3>1. CASE cvr # 0
      BY <1>3, <3>1
    <3>2. CASE shown = 0
      BY <1>3, <3>2
    <3>3. CASE cvr = 0 /\ shown # 0
      <4>1. crossed # 0 /\ crossed \in Nat
        BY <1>1, <1>2, <3>3, CycleTypes, CycleConstants
      <4>2. crossed - 1 \in Nat /\ kP = (crossed - 1) * PeriodCycles + PeriodCycles
        BY <1>3, <4>1
      <4>3. (crossed - 1) * PeriodCycles \in Nat
        BY <1>3, <4>2
      <4> HIDE DEF kP
      <4> QED
        BY <1>3, <3>3, <4>2, <4>3
    <3> QED
      BY <3>1, <3>2, <3>3
  <2>2. FurthestAhead(truly) \in Nat
    BY <1>3, FurthestGrows
  <2> HIDE DEF kP, Not
  <2> QED
    BY <1>2, <1>3, <2>1, <2>2
<1>13. Height(base', position'.pend, cvr) = handed' + moved + (turns + i - m - j) * CountLimit
  <2> HIDE DEF kP, Not, Owed
  <2>1. Height(base, position.pend, shown) = handed + ahead + turns * CountLimit
    BY <1>2
  <2>2. handed' = handed
    BY <1>1
  <2>3. base + Owed + Reload - shown - Not(shown) = handed + ahead + turns * CountLimit
    BY <1>11, <2>1
  <2> QED
    BY <1>3, <1>6, <1>8, <1>10, <1>11, <2>2, <2>3
<1>14. /\ truly' \in Nat /\ FurthestAhead(truly) + kP + PeriodCycles <= FurthestAhead(truly')
       /\ FurthestAhead(truly) \in Int /\ FurthestAhead(truly') \in Int
  <2>1. Max({1, kP}) \in Nat
        /\ FurthestAhead(truly) + kP + PeriodCycles <= FurthestAhead(truly + Max({1, kP}))
    BY <1>1, <1>3, CycleTypes, WindowAdds
  <2>2. truly' = truly + Max({1, kP})
    BY <1>1
  <2> HIDE DEF kP
  <2>3. truly' \in Nat
    BY <1>3, <2>1, <2>2
  <2> QED
    BY <1>3, <2>1, <2>2, <2>3, FurthestGrows
<1> HIDE DEF moved, kP
<1>15. moved <= FurthestAhead(truly') /\ -PeriodCycles <= moved
  BY <1>2, <1>3, <1>12, <1>14
<1>16. lastRead' # handed' => lastRead' = 0 /\ handed' <= MaxInterval /\ moved >= 0
  BY <1>1, <1>2, <1>12
<1>17. /\ inWindow' = FALSE /\ inWindow' \in BOOLEAN /\ counting' \in BOOLEAN /\ counting' = TRUE
       /\ lastRead' \in 0 .. CountLimit - 1 /\ handed' \in 0 .. CountLimit - 1
       /\ position' \in Positions /\ cvr = position'.cvr /\ cvr \in 0 .. Reload
       /\ windowMark' \in 0 .. CountLimit - 1 /\ crossed' \in 0 .. MaxWindow
  <2>1. 0 \in 0 .. CountLimit - 1 /\ 0 \in 0 .. MaxWindow
    BY CycleConstants
  <2> QED
    BY <1>1, <2>1, CycleTypes
<1> QED
  BY <1>9, <1>10, <1>12, <1>13, <1>14, <1>15, <1>16, <1>17, CycleKept

\* The clamp tells a step back from a long step forward.
LEMMA ClampedIs ==
    ASSUME lastRead \in 0 .. CountLimit - 1, NEW z \in Int, NEW t \in Int, NEW value \in Int,
           -PeriodCycles <= z, z <= CountLimit - 2 * PeriodCycles,
           value = lastRead + z + t * CountLimit
    PROVE  /\ z < 0 => Clamped(value) = lastRead
           /\ z >= 0 => Clamped(value) = value
<1>1. PeriodCycles \in Nat /\ PeriodCycles >= 2 /\ CountLimit \in Nat /\ lastRead \in Int
  BY CycleConstants
<1>2. (-t) \in Int /\ (-t) - 1 \in Int /\ t * CountLimit \in Int /\ (-t) * CountLimit = -(t * CountLimit)
      /\ ((-t) - 1) * CountLimit = (-t) * CountLimit - CountLimit
  BY <1>1
<1>3. z < 0 => Modulo(lastRead - value) = -z
  <2>1. ASSUME z < 0
        PROVE  Modulo(lastRead - value) = -z
    <3>1. -z \in 0 .. CountLimit - 1
      BY <1>1, <2>1, CycleConstants
    <3>2. Modulo((-z) + (-t) * CountLimit) = -z
      BY <1>2, <3>1, ModuloUnique
    <3>3. lastRead - value = (-z) + (-t) * CountLimit
      BY <1>1, <1>2
    <3> QED
      BY <3>2, <3>3
  <2> QED
    BY <2>1
<1>4. z = 0 => Modulo(lastRead - value) = 0
  <2>1. ASSUME z = 0
        PROVE  Modulo(lastRead - value) = 0
    <3>1. z \in 0 .. CountLimit - 1
      BY <1>1, <2>1, CycleConstants
    <3>2. Modulo(z + (-t) * CountLimit) = z
      BY <1>2, <3>1, ModuloUnique
    <3>3. lastRead - value = z + (-t) * CountLimit
      BY <1>1, <1>2, <2>1
    <3> QED
      BY <2>1, <3>2, <3>3
  <2> QED
    BY <2>1
<1>5. z > 0 => Modulo(lastRead - value) = CountLimit - z
  <2>1. ASSUME z > 0
        PROVE  Modulo(lastRead - value) = CountLimit - z
    <3>1. CountLimit - z \in 0 .. CountLimit - 1
      BY <1>1, <2>1
    <3>2. Modulo((CountLimit - z) + ((-t) - 1) * CountLimit) = CountLimit - z
      BY <1>2, <3>1, ModuloUnique
    <3>3. lastRead - value = (CountLimit - z) + ((-t) - 1) * CountLimit
      BY <1>1, <1>2
    <3> QED
      BY <3>2, <3>3
  <2> QED
    BY <2>1
<1>6. z < 0 => Modulo(lastRead - value) \in 1 .. 2 * PeriodCycles - 1
  BY <1>1, <1>3
<1>7. z >= 0 => Modulo(lastRead - value) \notin 1 .. 2 * PeriodCycles - 1
  BY <1>1, <1>4, <1>5
<1> QED
  BY <1>6, <1>7 DEF Clamped

\* What a read finds: the cycles that have passed, or a period more.
LEMMA ReadFinds ==
    ASSUME CycleIInv, NEW a \in 0 .. MaxReadGap, NEW b \in 0 .. MaxReadGap,
           counting, ~inWindow, Served(a + b), PositionAfter(a + b).cvr <= position.cvr
    PROVE  /\ PositionAfter(a + b) \in Positions
           /\ Height(base, PositionAfter(a + b).pend, PositionAfter(a + b).cvr)
                 = Height(base, position.pend, position.cvr) + (a + b)
           /\ \E x \in {0, PeriodCycles} :
                 base + (IF PositionAfter(a).pend THEN PeriodCycles ELSE 0) + Reload - position.cvr
                    = Height(base, position.pend, position.cvr) + x
<1> DEFINE u == PositionAfter(a)
           v == PositionAfter(a + b)
           c == position.cvr
           Owed(pend) == IF pend THEN PeriodCycles ELSE 0
<1>1. /\ base \in Int /\ PeriodCycles \in Nat /\ Reload \in Nat /\ Reload = PeriodCycles - 1
      /\ c \in Nat /\ c <= Reload /\ c \in 0 .. Reload /\ position.pend \in BOOLEAN
      /\ position \in Positions /\ inWindow = FALSE
  BY CycleTypes, CycleConstants
<1>2. /\ a \in Nat /\ b \in Nat /\ a \in 0 .. Reload /\ a + b \in 0 .. Reload /\ a <= a + b
  BY CycleConstants
<1>3. /\ v \in Positions
      /\ a + b <= c => v.cvr = c - (a + b)
      /\ a + b > c => v.cvr = c + PeriodCycles - (a + b)
      /\ a + b < c \/ c = 0 => v.pend = position.pend
      /\ a + b >= c /\ c # 0 => v.pend = TRUE
  BY <1>1, <1>2, PositionAfterIs
<1>4. /\ a < c \/ c = 0 => u.pend = position.pend
      /\ a >= c /\ c # 0 => u.pend = TRUE
  BY <1>1, <1>2, PositionAfterIs
<1>5. v.cvr <= c /\ ~(position.pend /\ c # 0 /\ c <= a + b)
  BY DEF Served
<1>6. v.pend \in BOOLEAN /\ v.cvr \in 0 .. Reload
  BY <1>3 DEF Positions
<1> HIDE DEF u, v
<1>7. a + b <= c
  BY <1>1, <1>2, <1>3, <1>5
<1>8. v.cvr = c - (a + b)
  BY <1>3, <1>7
<1>9. \A pend \in BOOLEAN, d \in 0 .. Reload :
           /\ Height(base, pend, d) \in Int
           /\ d = 0 => Height(base, pend, d) = base + Owed(pend) - 1
           /\ d # 0 => Height(base, pend, d) = base + Owed(pend) + Reload - d
  <2>1. base \in Int
    BY <1>1
  <2> TAKE pend \in BOOLEAN, d \in 0 .. Reload
  <2> QED
    BY <2>1, HeightIs
<1>10. Owed(TRUE) = PeriodCycles /\ Owed(FALSE) = 0 /\ Owed(position.pend) \in Int
  BY <1>1
<1> HIDE DEF Owed
<1>11. Height(base, v.pend, v.cvr) = Height(base, position.pend, c) + (a + b)
  <2>1. CASE c = 0
    <3>1. a + b = 0 /\ v.cvr = 0 /\ v.pend = position.pend
      BY <1>1, <1>2, <1>3, <1>7, <1>8, <2>1
    <3>2. Height(base, position.pend, c) \in Int
      BY <1>1, <1>9
    <3> QED
      BY <2>1, <3>1, <3>2
  <2>2. CASE c # 0 /\ a + b = c
    <3>1. v.cvr = 0 /\ v.pend = TRUE /\ position.pend = FALSE
      <4>1. v.cvr = 0 /\ v.pend = TRUE
        BY <1>1, <1>2, <1>3, <1>8, <2>2
      <4>2. ~position.pend
        BY <1>1, <1>5, <2>2
      <4> QED
        BY <1>1, <4>1, <4>2
    <3>2. Height(base, v.pend, v.cvr) = base + PeriodCycles - 1
      BY <1>6, <1>9, <1>10, <3>1
    <3>3. Height(base, position.pend, c) = base + 0 + Reload - c
      BY <1>1, <1>9, <1>10, <2>2, <3>1
    <3> QED
      BY <1>1, <1>2, <2>2, <3>2, <3>3
  <2>3. CASE c # 0 /\ a + b < c
    <3>1. v.cvr # 0 /\ v.pend = position.pend
      BY <1>1, <1>2, <1>3, <1>8, <2>3
    <3>2. Height(base, v.pend, v.cvr) = base + Owed(position.pend) + Reload - v.cvr
      BY <1>6, <1>9, <3>1
    <3>3. Height(base, position.pend, c) = base + Owed(position.pend) + Reload - c
      BY <1>1, <1>9, <2>3
    <3> QED
      BY <1>1, <1>2, <1>8, <1>10, <3>2, <3>3
  <2>4. c = 0 \/ (c # 0 /\ a + b = c) \/ (c # 0 /\ a + b < c)
    BY <1>1, <1>2, <1>7
  <2> QED
    BY <2>1, <2>2, <2>3, <2>4
<1>12. \E x \in {0, PeriodCycles} :
          base + Owed(u.pend) + Reload - c = Height(base, position.pend, c) + x
  <2>1. CASE c = 0
    <3>1. u.pend = position.pend
      BY <1>4, <2>1
    <3>2. Height(base, position.pend, c) = base + Owed(position.pend) - 1
      BY <1>1, <1>9, <2>1
    <3>3. base + Owed(u.pend) + Reload - c = Height(base, position.pend, c) + PeriodCycles
      <4>1. Owed(u.pend) = Owed(position.pend)
        BY <3>1
      <4>2. \A h, w \in Int : h = base + w - 1 => base + w + Reload - 0 = h + PeriodCycles
        BY <1>1
      <4>3. Height(base, position.pend, c) \in Int
        BY <1>1, <1>9
      <4> QED
        BY <1>10, <2>1, <3>2, <4>1, <4>2, <4>3
    <3> QED
      BY <3>3
  <2>2. CASE c # 0 /\ a >= c
    <3>1. u.pend = TRUE /\ position.pend = FALSE
      <4>1. u.pend = TRUE
        BY <1>4, <2>2
      <4>2. ~position.pend
        BY <1>1, <1>2, <1>5, <2>2
      <4> QED
        BY <1>1, <4>1, <4>2
    <3>2. Height(base, position.pend, c) = base + 0 + Reload - c
      BY <1>1, <1>9, <1>10, <2>2, <3>1
    <3>3. base + Owed(u.pend) + Reload - c = Height(base, position.pend, c) + PeriodCycles
      <4>1. Owed(u.pend) = PeriodCycles
        BY <1>10, <3>1
      <4> QED
        BY <1>1, <3>2, <4>1
    <3> QED
      BY <3>3
  <2>3. CASE c # 0 /\ a < c
    <3>1. u.pend = position.pend
      BY <1>4, <2>3
    <3>2. Height(base, position.pend, c) = base + Owed(position.pend) + Reload - c
      BY <1>1, <1>9, <2>3
    <3>3. base + Owed(u.pend) + Reload - c = Height(base, position.pend, c) + 0
      BY <1>1, <1>10, <3>1, <3>2
    <3> QED
      BY <3>3
  <2>4. c = 0 \/ (c # 0 /\ a >= c) \/ (c # 0 /\ a < c)
    BY <1>1, <1>2
  <2> QED
    BY <2>1, <2>2, <2>3, <2>4
<1> QED
  BY <1>3, <1>11, <1>12 DEF Owed, u, v

\* A read hands out what it finds unless that is behind the last one, which is
\* less than half the counter ago.
LEMMA ReadKeeps ==
    ASSUME CycleIInv, NEW a \in 0 .. MaxReadGap, NEW b \in 0 .. MaxReadGap, ReadCounter(a, b)
    PROVE  CycleIInv' /\ Modulo(handed' - handed) < CountLimit \div 2
<1> DEFINE n == a + b
           v == PositionAfter(n)
           found == base + (IF PositionAfter(a).pend THEN PeriodCycles ELSE 0) + Reload - position.cvr
           value == Modulo(found)
           H == Height(base, position.pend, position.cvr)
           MP == (MaxInterval + MaxWindow) * PeriodCycles
<1>1. /\ counting = TRUE /\ inWindow = FALSE /\ Served(n) /\ v.cvr <= position.cvr
      /\ lastRead' = Clamped(value) /\ handed' = lastRead'
      /\ position' = v /\ truly' = n
      /\ UNCHANGED <<counting, base, inWindow, windowMark, crossed>>
  BY CycleTypes DEF ReadCounter
<1>2. PICK shown \in 0 .. Reload, ahead \in Int, turns \in Int :
             /\ -PeriodCycles <= ahead /\ ahead <= FurthestAhead(truly)
             /\ Height(base, position.pend, shown) = handed + ahead + turns * CountLimit
             /\ ~inWindow => shown = position.cvr
             /\ lastRead # handed => lastRead = 0 /\ handed <= MaxInterval /\ ahead >= 0
  BY <1>1, AheadIs
<1>3. /\ v \in Positions
      /\ Height(base, v.pend, v.cvr) = H + n
      /\ \E x \in {0, PeriodCycles} : found = H + x
  BY <1>1, ReadFinds
<1>4. PICK x \in {0, PeriodCycles} : found = H + x
  BY <1>3
<1>5. /\ PeriodCycles \in Nat /\ PeriodCycles >= 2 /\ CountLimit \in Nat /\ Reload \in Nat
      /\ Reload = PeriodCycles - 1 /\ MP \in Nat /\ MaxInterval \in Nat /\ MaxInterval <= MP
      /\ 2 * MP + 4 * PeriodCycles < CountLimit
      /\ handed \in Nat /\ lastRead \in Nat /\ lastRead < CountLimit /\ base \in Int
  BY CycleTypes, CycleConstants
<1>6. n \in Nat /\ n <= Reload
  BY CycleConstants
<1>7. ahead \in Int /\ -PeriodCycles <= ahead /\ ahead <= MP + Reload
  <2>1. FurthestAhead(truly) \in Nat /\ FurthestAhead(truly) <= MP + Reload
    BY CycleTypes, FurthestGrows
  <2> HIDE DEF MP
  <2> QED
    BY <1>2, <1>5, <2>1
<1>8. H = handed + ahead + turns * CountLimit /\ turns * CountLimit \in Int /\ H \in Int
  <2>1. H = handed + ahead + turns * CountLimit
    BY <1>1, <1>2
  <2>2. turns * CountLimit \in Int
    BY <1>5
  <2> HIDE DEF H
  <2> QED
    BY <1>5, <1>7, <2>1, <2>2
<1> HIDE DEF v, found, MP, H, n
<1>9. PICK j \in Int : value = found - j * CountLimit
  <2>1. found \in Int
    BY <1>4, <1>5, <1>8
  <2> QED
    BY <2>1, ModuloTurns
<1>10. value \in 0 .. CountLimit - 1 /\ value \in Int
  <2>1. found \in Int
    BY <1>4, <1>5, <1>8
  <2>2. value \in 0 .. CountLimit - 1
    BY <2>1, ModuloTurns
  <2> HIDE DEF value
  <2> QED
    BY <1>5, <2>2
<1> HIDE DEF value
<1>11. /\ j * CountLimit \in Int /\ turns - j \in Int
       /\ (turns - j) * CountLimit = turns * CountLimit - j * CountLimit
  BY <1>5
<1>12. value = handed + ahead + x + (turns - j) * CountLimit
  BY <1>4, <1>5, <1>7, <1>8, <1>9, <1>11
<1> DEFINE z == handed - lastRead + ahead + x
<1>13. z \in Int /\ -PeriodCycles <= z /\ z <= CountLimit - 2 * PeriodCycles
       /\ value = lastRead + z + (turns - j) * CountLimit
  <2>1. x \in Nat /\ x <= PeriodCycles /\ (turns - j) * CountLimit \in Int
    BY <1>4, <1>5, <1>11
  <2>2. lastRead # handed => lastRead = 0 /\ handed <= MaxInterval /\ ahead >= 0
    BY <1>2
  <2>3. CASE lastRead = handed
    BY <1>5, <1>7, <1>12, <2>1, <2>3
  <2>4. CASE lastRead # handed
    BY <1>5, <1>7, <1>12, <2>1, <2>2, <2>4
  <2> QED
    BY <2>3, <2>4
<1>14. /\ z < 0 => Clamped(value) = lastRead
       /\ z >= 0 => Clamped(value) = value
  <2> HIDE DEF z
  <2>1. lastRead \in 0 .. CountLimit - 1
    BY CycleTypes
  <2> QED
    BY <1>10, <1>11, <1>13, <2>1, ClampedIs
<1>15. MP + Reload + PeriodCycles < CountLimit \div 2 /\ 0 < CountLimit \div 2
  <2>1. CountLimit \div 2 \in Int /\ CountLimit <= 2 * (CountLimit \div 2) + 1
    BY <1>5, Z3
  <2> QED
    BY <1>5, <2>1
<1>16. \E d, t \in Int :
          /\ -PeriodCycles <= d /\ d <= n
          /\ handed' + d + t * CountLimit = H + n
          /\ Modulo(handed' - handed) < CountLimit \div 2
          /\ handed' \in 0 .. CountLimit - 1
  <2>1. CASE z >= 0
    <3>1. handed' = value
      BY <1>1, <1>14, <2>1
    <3>2. n - x \in Int /\ -PeriodCycles <= n - x /\ n - x <= n
      BY <1>4, <1>5, <1>6
    <3>3. handed' + (n - x) + j * CountLimit = H + n
      BY <1>4, <1>5, <1>6, <1>8, <1>9, <1>11, <3>1
    <3>4. Modulo(handed' - handed) < CountLimit \div 2
      <4> DEFINE step == ahead + x
      <4>1. step \in Nat /\ step <= MP + Reload + PeriodCycles
        <5>1. x \in Nat /\ x <= PeriodCycles
          BY <1>4, <1>5
        <5>2. lastRead # handed => ahead >= 0
          BY <1>2
        <5> QED
          BY <1>5, <1>7, <2>1, <5>1, <5>2
      <4>2. step \in 0 .. CountLimit - 1
        BY <1>5, <4>1
      <4>3. handed' - handed = step + (turns - j) * CountLimit
        BY <1>4, <1>5, <1>7, <1>11, <1>12, <3>1
      <4> HIDE DEF step
      <4>4. Modulo(handed' - handed) = step
        BY <1>11, <4>2, <4>3, ModuloUnique
      <4> QED
        BY <1>5, <1>15, <4>1, <4>4
    <3>5. handed' \in 0 .. CountLimit - 1
      BY <1>10, <3>1
    <3> QED
      BY <3>2, <3>3, <3>4, <3>5
  <2>2. CASE z < 0
    <3>1. lastRead = handed
      BY <1>2, <1>4, <1>5, <1>7, <2>2
    <3>2. x = 0 /\ ahead < 0
      BY <1>4, <1>5, <1>7, <2>2, <3>1
    <3>3. handed' = handed
      BY <1>1, <1>14, <2>2, <3>1
    <3>4. ahead + n \in Int /\ -PeriodCycles <= ahead + n /\ ahead + n <= n
      BY <1>5, <1>6, <1>7, <3>2
    <3>5. handed' + (ahead + n) + turns * CountLimit = H + n
      BY <1>5, <1>6, <1>7, <1>8, <3>3
    <3>6. Modulo(handed' - handed) < CountLimit \div 2
      <4>1. handed' - handed = 0 + 0 * CountLimit /\ 0 \in 0 .. CountLimit - 1
        BY <1>5, <3>3
      <4>2. Modulo(0 + 0 * CountLimit) = 0
        BY <4>1, ModuloUnique
      <4> QED
        BY <1>15, <4>1, <4>2
    <3>7. handed' \in 0 .. CountLimit - 1
      BY <3>3, CycleTypes
    <3> QED
      BY <3>4, <3>5, <3>6, <3>7
  <2> QED
    BY <1>13, <2>1, <2>2
<1>17. PICK d \in Int, t \in Int :
          /\ -PeriodCycles <= d /\ d <= n
          /\ handed' + d + t * CountLimit = H + n
          /\ Modulo(handed' - handed) < CountLimit \div 2
          /\ handed' \in 0 .. CountLimit - 1
  BY <1>16
<1>18. Height(base', position'.pend, v.cvr) = handed' + d + t * CountLimit
  BY <1>1, <1>3, <1>17
<1>19. d <= FurthestAhead(truly')
  <2>1. n <= FurthestAhead(n) /\ FurthestAhead(n) \in Nat
    BY <1>6, FurthestGrows
  <2> QED
    BY <1>1, <1>6, <1>17, <2>1
<1>20. /\ inWindow' = FALSE /\ inWindow' \in BOOLEAN /\ counting' \in BOOLEAN /\ counting' = TRUE
       /\ base' \in 0 .. CountLimit - 1 /\ lastRead' \in 0 .. CountLimit - 1
       /\ windowMark' \in 0 .. CountLimit - 1 /\ handed' \in 0 .. CountLimit - 1
       /\ crossed' \in 0 .. MaxWindow /\ truly' \in Nat
       /\ position' \in Positions /\ v.cvr = position'.cvr /\ v.cvr \in 0 .. Reload
       /\ lastRead' = handed'
  <2>1. v.cvr \in 0 .. Reload
    BY <1>3 DEF Positions
  <2> QED
    BY <1>1, <1>3, <1>6, <1>17, <2>1, CycleTypes
<1> QED
  BY <1>17, <1>18, <1>19, <1>20, CycleKept

\* The inductive invariant of the cycle counter: the last value handed out is at
\* most a period ahead of the cycles that have passed, and far less than half the
\* counter behind them.
THEOREM CycleInvariance == CycleSpec => []CycleIInv
<1>1. CycleIInv /\ [CycleNext]_cycleVars => CycleIInv'
  <2> SUFFICES ASSUME CycleIInv, [CycleNext]_cycleVars
               PROVE  CycleIInv'
    OBVIOUS
  <2>1. CASE StartTicking
    BY <2>1, StartTickingKeeps
  <2>2. CASE PassCycle
    BY <2>2, PassKeeps, PassInWindowKeeps, PassIdleKeeps
  <2>3. CASE CountPeriod
    BY <2>3, CountPeriodKeeps
  <2>4. CASE \E a, b \in 0 .. MaxReadGap : ReadCounter(a, b)
    BY <2>4, ReadKeeps
  <2>5. CASE ReadFallback
    BY <2>5, ReadFallbackKeeps
  <2>6. CASE OpenCycleWindow
    BY <2>6, OpenCycleWindowKeeps
  <2>7. CASE CloseCycleWindow
    BY <2>7, CloseCycleWindowKeeps
  <2>8. CASE UNCHANGED cycleVars
    BY <2>8 DEF cycleVars, CycleIInv, AheadOfRead, Passed, FurthestAhead
  <2> QED
    BY <2>1, <2>2, <2>3, <2>4, <2>5, <2>6, <2>7, <2>8 DEF CycleNext
<1> QED
  BY <1>1, CycleInitHolds, PTL DEF CycleSpec

\* The counter never goes backwards: whoever subtracts two reads, as unsigned
\* numbers, gets less than half its range.
THEOREM CounterNeverBackwards == CycleSpec => NeverBackwards
<1>1. CycleIInv /\ [CycleNext]_cycleVars
        => [Modulo(handed' - handed) < CountLimit \div 2]_cycleVars
  <2> SUFFICES ASSUME CycleIInv, CycleNext
               PROVE  Modulo(handed' - handed) < CountLimit \div 2
    OBVIOUS
  <2>1. /\ CountLimit \in Nat /\ PeriodCycles \in Nat /\ PeriodCycles >= 2
        /\ 4 * PeriodCycles < CountLimit /\ handed \in Int
    BY CycleConstants, CycleTypes
  <2>2. 1 < CountLimit \div 2
    <3>1. CountLimit \div 2 \in Int /\ CountLimit <= 2 * (CountLimit \div 2) + 1
      BY <2>1, Z3
    <3> QED
      BY <2>1, <3>1
  <2>3. handed' - handed \in {0, 1} => Modulo(handed' - handed) < CountLimit \div 2
    <3>0. PICK turns \in Int : turns = 0
      OBVIOUS
    <3>1. \A s \in 0 .. 1 : Modulo(s + turns * CountLimit) = s
      <4> TAKE s \in 0 .. 1
      <4>1. s \in 0 .. CountLimit - 1
        BY <2>1
      <4> QED
        BY <4>1, ModuloUnique
    <3>2. \A s \in 0 .. 1 : s + turns * CountLimit = s
      BY <2>1, <3>0
    <3>3. \A s \in 0 .. 1 : Modulo(s) = s
      BY <3>1, <3>2
    <3>4. {0, 1} = 0 .. 1
      OBVIOUS
    <3> QED
      BY <2>1, <2>2, <3>3, <3>4
  <2>4. CASE \E a, b \in 0 .. MaxReadGap : ReadCounter(a, b)
    BY <2>4, ReadKeeps
  <2>5. CASE ReadFallback
    BY <2>3, <2>5, ReadFallbackKeeps
  <2>6. CASE StartTicking \/ PassCycle \/ CountPeriod \/ OpenCycleWindow \/ CloseCycleWindow
    <3>1. handed' = handed
      BY <2>6 DEF StartTicking, PassCycle, CountPeriod, OpenCycleWindow, CloseCycleWindow
    <3> QED
      BY <2>1, <2>3, <3>1
  <2> QED
    BY <2>4, <2>5, <2>6 DEF CycleNext
<1> QED
  BY <1>1, CycleInvariance, PTL DEF CycleSpec, NeverBackwards

-----------------------------------------------------------------------------
(***************************************************************************)
(* The heap: its blocks tile it, and its list is in order, for any size    *)
(* and alignment, any requests and whatever is freed.                      *)
(***************************************************************************)

\* The least of two numbers.
LEMMA MinOfTwo ==
    ASSUME NEW a \in Nat, NEW b \in Nat
    PROVE  Min({a, b}) = IF a <= b THEN a ELSE b
<1>1. CASE a <= b
  <2>1. \A y \in {a, b} : a <= y
    BY <1>1
  <2>2. \A x \in {a, b} : (\A y \in {a, b} : x <= y) => x = a
    BY <1>1
  <2> QED
    BY <1>1, <2>1, <2>2 DEF Min
<1>2. CASE ~ (a <= b)
  <2>1. \A y \in {a, b} : b <= y
    BY <1>2
  <2>2. \A x \in {a, b} : (\A y \in {a, b} : x <= y) => x = b
    BY <1>2
  <2> QED
    BY <1>2, <2>1, <2>2 DEF Min
<1> QED
  BY <1>1, <1>2

\* The bounds of the code's constants.
LEMMA HeapSizes ==
    /\ Align \in Nat /\ Align >= 1 /\ HeaderSize \in Nat /\ HeaderSize >= 1 /\ HeaderSize % Align = 0
    /\ HeapBase \in Nat /\ HeapBase >= 1 /\ HeapBytes \in Nat /\ HeapBytes >= 4 * HeaderSize + Align
    /\ SizeModulus \in Nat /\ SizeModulus > 2 * HeapBytes
    /\ Requests \subseteq 0 .. SizeModulus - 1
  BY HeapAssumption

\* Rounding down stays within one alignment and gives a multiple of it.
LEMMA Rounded ==
    ASSUME NEW n \in Nat
    PROVE  /\ RoundDown(n) \in Nat /\ RoundDown(n) <= n /\ n < RoundDown(n) + Align
           /\ RoundDown(n) % Align = 0
<1>1. Align \in Nat /\ Align >= 1
  BY HeapSizes
<1>2. n % Align \in 0 .. Align - 1 /\ n \div Align \in Int
  BY <1>1, Z3
<1>3. n = Align * (n \div Align) + (n % Align)
  BY <1>1, Z3
<1>4. \A q \in Int : q * Align = Align * q /\ q * Align \in Int /\ (q * Align) % Align = 0
  BY <1>1, Z3
<1>5. RoundDown(n) = (n \div Align) * Align
  BY <1>1, <1>2, <1>3, <1>4 DEF RoundDown
<1>6. n % Align <= n
  <2>1. n \div Align >= 0
    BY <1>1, Z3
  <2>2. Align * (n \div Align) >= 0
    BY <1>1, <1>2, <2>1
  <2>3. Align * (n \div Align) \in Int
    BY <1>1, <1>2
  <2> QED
    BY <1>2, <1>3, <2>2, <2>3
<1>7. RoundDown(n) \in Nat /\ RoundDown(n) <= n /\ n < RoundDown(n) + Align
  BY <1>1, <1>2, <1>6 DEF RoundDown
<1> QED
  BY <1>2, <1>4, <1>5, <1>7

\* A multiple of the alignment is a number of alignments.
LEMMA Multiple ==
    ASSUME NEW n \in Int, n % Align = 0
    PROVE  \E q \in Int : n = q * Align
<1>1. Align \in Nat /\ Align >= 1
  BY HeapSizes
<1>2. n = Align * (n \div Align) + (n % Align) /\ n \div Align \in Int
  BY <1>1, Z3
<1>3. Align * (n \div Align) = (n \div Align) * Align /\ Align * (n \div Align) \in Int
  BY <1>1, <1>2
<1> QED
  BY <1>2, <1>3

\* Sums and differences of multiples are multiples.
LEMMA Multiples ==
    ASSUME NEW m \in Int, NEW n \in Int, m % Align = 0, n % Align = 0
    PROVE  (m + n) % Align = 0 /\ (m - n) % Align = 0
<1>1. Align \in Nat /\ Align >= 1
  BY HeapSizes
<1>2. PICK p \in Int : m = p * Align
  BY Multiple
<1>3. PICK q \in Int : n = q * Align
  BY Multiple
<1>4. /\ (p + q) * Align = p * Align + q * Align /\ (p - q) * Align = p * Align - q * Align
      /\ p + q \in Int /\ p - q \in Int
  BY <1>1
<1>5. \A z \in Int : (z * Align) % Align = 0
  BY <1>1, Z3
<1> QED
  BY <1>2, <1>3, <1>4, <1>5

\* A multiple below the alignment is none, and a multiple that is not zero reaches it.
LEMMA LeastMultiple ==
    ASSUME NEW n \in Nat, n % Align = 0, n >= 1
    PROVE  n >= Align
<1>1. Align \in Nat /\ Align >= 1
  BY HeapSizes
<1>2. n < Align => n % Align = n
  BY <1>1, Z3
<1> QED
  BY <1>1, <1>2

\* Where the heap lies.
LEMMA HeapBounds ==
    /\ HeapStart \in Nat /\ HeapEnd \in Nat /\ HeadBlock \in Nat /\ MinBlock \in Nat
    /\ HeapBase <= HeapStart /\ HeapStart < HeapBase + Align
    /\ HeapStart % Align = 0 /\ HeapEnd % Align = 0
    /\ HeapStart + MinBlock <= HeapEnd /\ HeapEnd <= HeapStart + HeapBytes
    /\ HeadBlock > HeapEnd /\ MinBlock = HeaderSize + Align /\ HeapStart >= 1
    /\ HeaderSize >= Align
<1>1. /\ Align \in Nat /\ Align >= 1 /\ HeaderSize \in Nat /\ HeaderSize >= 1
      /\ HeapBase \in Nat /\ HeapBase >= 1 /\ HeapBytes \in Nat /\ HeapBytes >= 4 * HeaderSize + Align
  BY HeapSizes
<1>2. HeaderSize >= Align
  BY HeapSizes, LeastMultiple
<1>3. HeapBase + Align - 1 \in Nat /\ HeapBase + HeapBytes - HeaderSize \in Nat
  BY <1>1
<1>4. /\ HeapStart \in Nat /\ HeapStart <= HeapBase + Align - 1
      /\ HeapBase + Align - 1 < HeapStart + Align /\ HeapStart % Align = 0
  BY <1>3, Rounded DEF HeapStart, RoundUp
<1>5. /\ HeapEnd \in Nat /\ HeapEnd <= HeapBase + HeapBytes - HeaderSize
      /\ HeapBase + HeapBytes - HeaderSize < HeapEnd + Align /\ HeapEnd % Align = 0
  BY <1>3, Rounded DEF HeapEnd
<1>6. HeadBlock \in Nat /\ HeadBlock > HeapEnd
  BY <1>1, <1>5 DEF HeadBlock
<1>7. HeapBase <= HeapStart /\ HeapStart < HeapBase + Align /\ HeapStart >= 1
  BY <1>1, <1>4
<1>8. HeapStart + (HeaderSize + Align) <= HeapEnd
  BY <1>1, <1>2, <1>4, <1>5
<1>9. HeapEnd <= HeapStart + HeapBytes
  BY <1>1, <1>4, <1>5, <1>7
<1> QED
  BY <1>1, <1>2, <1>4, <1>5, <1>6, <1>7, <1>8, <1>9 DEF MinBlock

\* The aligned places: the start of the heap and its marker are among them, the head is not.
LEMMA AlignedIs ==
    /\ Aligned = {a \in HeapStart .. HeapEnd : a % Align = 0}
    /\ \A a \in Aligned : a \in Nat /\ HeapStart <= a /\ a <= HeapEnd /\ a % Align = 0 /\ a >= 1
                          /\ a # HeadBlock /\ a # Null
    /\ \A a \in Nat : HeapStart <= a /\ a <= HeapEnd /\ a % Align = 0 => a \in Aligned
    /\ HeapStart \in Aligned /\ HeapEnd \in Aligned /\ HeapStart # HeapEnd /\ HeadBlock \notin Aligned
    /\ HeapStart <= HeapEnd /\ HeapEnd # Null
<1>1. /\ HeapStart \in Nat /\ HeapEnd \in Nat /\ HeadBlock \in Nat /\ HeapStart < HeapEnd
      /\ HeadBlock > HeapEnd /\ HeapStart % Align = 0 /\ HeapEnd % Align = 0 /\ HeapStart >= 1
  <2>1. MinBlock >= 1
    BY HeapBounds, HeapSizes
  <2> QED
    BY <2>1, HeapBounds
<1> QED
  BY <1>1 DEF Aligned, Null

\* What a sensible request needs has room for the header and what was asked for.
LEMMA Needed ==
    ASSUME NEW size \in Requests, Sensible(size)
    PROVE  /\ Need(size) \in Nat /\ Need(size) % Align = 0 /\ Need(size) >= MinBlock
           /\ Need(size) >= HeaderSize + size /\ size \in Nat
<1>1. /\ Align \in Nat /\ Align >= 1 /\ HeaderSize \in Nat /\ HeaderSize >= 1 /\ HeaderSize % Align = 0
      /\ HeapBytes \in Nat /\ HeapBytes >= 4 * HeaderSize + Align
      /\ SizeModulus \in Nat /\ SizeModulus > 2 * HeapBytes /\ size \in 0 .. SizeModulus - 1
  BY HeapSizes
<1>2. HeaderSize >= Align /\ MinBlock = HeaderSize + Align
  BY HeapBounds
<1> DEFINE t == size + Align - 1
<1>3. t \in Nat /\ size >= 1 /\ Need(size) >= size
  BY <1>1 DEF Sensible
<1>4. \A x \in Nat : x < SizeModulus => x % SizeModulus = x
  BY <1>1, Z3
<1>5. \A x \in Nat : x >= SizeModulus /\ x < 2 * SizeModulus => x % SizeModulus = x - SizeModulus
  <2>1. ASSUME NEW x \in Nat, x >= SizeModulus, x < 2 * SizeModulus
        PROVE  x % SizeModulus = x - SizeModulus
    BY <1>1, <2>1, Z3
  <2> QED
    BY <2>1
<1>6. SizeModulus > 8 * HeaderSize + 2 * Align
  BY <1>1
<1>7. CASE t >= SizeModulus
  <2> DEFINE u == t - SizeModulus
  <2>1. t % SizeModulus = u /\ u \in Nat /\ u < Align
    <3>1. t < 2 * SizeModulus
      BY <1>1, <1>6
    <3> QED
      BY <1>1, <1>3, <1>5, <1>7, <3>1
  <2> HIDE DEF u
  <2>2. RoundDown(u) = 0
    <3>1. /\ RoundDown(u) \in Nat /\ RoundDown(u) <= u /\ RoundDown(u) % Align = 0
      BY <2>1, Rounded
    <3>2. ~(RoundDown(u) >= 1)
      BY <1>1, <2>1, <3>1, LeastMultiple
    <3> QED
      BY <3>1, <3>2
  <2>3. Need(size) = HeaderSize
    <3>1. HeaderSize + RoundDown(u) = HeaderSize /\ HeaderSize < SizeModulus
      BY <1>1, <1>6, <2>2
    <3>2. Need(size) = (HeaderSize + RoundDown(u)) % SizeModulus
      BY <2>1 DEF Need
    <3> QED
      BY <1>1, <1>4, <3>1, <3>2
  <2> QED
    BY <1>1, <1>3, <1>6, <1>7, <2>3
<1>8. CASE t < SizeModulus
  <2> DEFINE r == RoundDown(t)
  <2>1. r \in Nat /\ r <= t /\ t < r + Align /\ r % Align = 0
    BY <1>3, Rounded
  <2>2. Need(size) = (HeaderSize + r) % SizeModulus
    BY <1>3, <1>4, <1>8 DEF Need
  <2> HIDE DEF r
  <2>3. r >= Align /\ r >= size
    <3>1. r >= 1 /\ r >= size
      BY <1>1, <1>3, <2>1
    <3> QED
      BY <2>1, <3>1, LeastMultiple
  <2>4. HeaderSize + r < SizeModulus
    <3>1. SUFFICES ASSUME HeaderSize + r >= SizeModulus
                   PROVE  FALSE
      BY <1>1, <2>1
    <3>2. HeaderSize + r < 2 * SizeModulus /\ HeaderSize + r \in Nat
      BY <1>1, <1>6, <1>8, <2>1
    <3>3. Need(size) = (HeaderSize + r) - SizeModulus
      BY <1>5, <2>2, <3>1, <3>2
    <3> QED
      BY <1>1, <1>3, <1>6, <2>1, <3>3
  <2>5. Need(size) = HeaderSize + r
    BY <1>1, <1>4, <2>1, <2>2, <2>4
  <2>6. (HeaderSize + r) % Align = 0
    <3>1. HeaderSize \in Int /\ r \in Int /\ HeaderSize % Align = 0 /\ r % Align = 0
      BY <1>1, <2>1
    <3> QED
      BY <3>1, Multiples
  <2> QED
    BY <1>1, <1>2, <2>1, <2>3, <2>5, <2>6
<1> QED
  BY <1>1, <1>3, <1>7, <1>8

-----------------------------------------------------------------------------
(* The walk along the list.                                                *)

\* at is the first n steps from the head.
IsPath(at, hs, n) ==
    at = [i \in 0 .. n |->
            IF i = 0 THEN HeadBlock
            ELSE IF at[i - 1] = HeapEnd THEN HeapEnd ELSE hs[at[i - 1]].next]

\* There are such steps of any number.
LEMMA PathExists ==
    ASSUME NEW hs, NEW n \in Nat
    PROVE  \E at : IsPath(at, hs, n)
<1> DEFINE Stuck == {i \in Nat : ~ \E at : IsPath(at, hs, i)}
<1>1. SUFFICES ASSUME Stuck # {}
               PROVE  FALSE
  OBVIOUS
<1>2. PICK least \in Stuck : \A j \in Stuck : least <= j
  <2>1. Stuck \subseteq Nat
    OBVIOUS
  <2> HIDE DEF Stuck
  <2> QED
    BY <1>1, <2>1, LeastNatural
<1>3. least # 0
  <2>1. IsPath([i \in 0 .. 0 |-> HeadBlock], hs, 0)
    BY DEF IsPath
  <2> QED
    BY <2>1
<1>4. least - 1 \in Nat /\ least \in Nat /\ ~(least <= least - 1)
  BY <1>3
<1>5. PICK at : IsPath(at, hs, least - 1)
  BY <1>2, <1>4
<1> DEFINE Next1(a) == IF a = HeapEnd THEN HeapEnd ELSE hs[a].next
           more == [i \in 0 .. least |-> IF i < least THEN at[i] ELSE Next1(at[i - 1])]
<1>6. ASSUME NEW i \in 0 .. least
      PROVE  more[i] = IF i = 0 THEN HeadBlock ELSE Next1(more[i - 1])
  <2>1. i < least => i \in 0 .. least - 1
    BY <1>4
  <2>2. i # 0 => i - 1 \in 0 .. least - 1 /\ i - 1 \in 0 .. least /\ i - 1 < least
    BY <1>4
  <2>3. 0 \in 0 .. least - 1 /\ 0 < least
    BY <1>4
  <2>4. \A k \in 0 .. least - 1 : at[k] = IF k = 0 THEN HeadBlock ELSE Next1(at[k - 1])
    BY <1>5 DEF IsPath
  <2>5. i # 0 => more[i - 1] = at[i - 1]
    BY <2>2
  <2> HIDE DEF Next1
  <2>6. CASE i < least
    BY <2>1, <2>4, <2>5, <2>6
  <2>7. CASE ~(i < least)
    BY <1>3, <1>4, <2>2, <2>5, <2>7
  <2> QED
    BY <2>6, <2>7
<1>7. IsPath(more, hs, least)
  <2> DEFINE same == [i \in 0 .. least |-> IF i = 0 THEN HeadBlock ELSE Next1(more[i - 1])]
  <2>1. more = same
    <3>1. \A i \in 0 .. least : more[i] = same[i]
      <4> HIDE DEF more
      <4> QED
        BY <1>6
    <3> QED
      BY <3>1
  <2> HIDE DEF more
  <2> QED
    BY <2>1 DEF IsPath
<1> QED
  BY <1>2, <1>7

\* The steps a walk of the heap takes.
LastStep == HeapEnd - HeapStart + 1

\* The nodes of a list: each is what the header of the one before names, up to the marker.
LEMMA NodesAre ==
    ASSUME NEW hs
    PROVE  /\ LastStep \in Nat /\ LastStep >= 1
           /\ Nodes(hs)[0] = HeadBlock
           /\ \A i \in 1 .. LastStep :
                 Nodes(hs)[i] = IF Nodes(hs)[i - 1] = HeapEnd THEN HeapEnd
                                ELSE hs[Nodes(hs)[i - 1]].next
<1> DEFINE nodes == CHOOSE f : IsPath(f, hs, LastStep)
<1>1. LastStep \in Nat /\ LastStep >= 1
  <2>1. HeapStart \in Nat /\ HeapEnd \in Nat /\ HeapStart <= HeapEnd
    BY HeapBounds, AlignedIs
  <2> QED
    BY <2>1 DEF LastStep
<1>2. IsPath(nodes, hs, LastStep)
  BY <1>1, PathExists
<1>3. Nodes(hs) = nodes
  BY DEF Nodes, IsPath, LastStep
<1> HIDE DEF nodes
<1>4. \A i \in 0 .. LastStep : nodes[i] = IF i = 0 THEN HeadBlock
                                         ELSE IF nodes[i - 1] = HeapEnd THEN HeapEnd
                                              ELSE hs[nodes[i - 1]].next
  BY <1>2 DEF IsPath
<1>5. 0 \in 0 .. LastStep /\ \A i \in 1 .. LastStep : i \in 0 .. LastStep /\ i # 0
  BY <1>1
<1> QED
  BY <1>1, <1>3, <1>4, <1>5

\* Blocks are within the heap.
Blocks(C) == C \subseteq Aligned \ {HeapEnd}

\* A walk goes up along the list to the marker, and does not leave it.
LEMMA WalkRises ==
    ASSUME NEW hs, NEW C, Blocks(C), Threaded(hs, C), NEW i \in 1 .. LastStep
    PROVE  /\ Nodes(hs)[i] \in C \cup {HeapEnd}
           /\ Nodes(hs)[i] = HeapEnd \/ Nodes(hs)[i] >= HeapStart + (i - 1)
<1> DEFINE at == Nodes(hs)
           Good(k) == /\ at[k] \in C \cup {HeapEnd}
                      /\ at[k] = HeapEnd \/ at[k] >= HeapStart + (k - 1)
           Bad == {k \in 1 .. LastStep : ~Good(k)}
<1>1. /\ LastStep \in Nat /\ LastStep >= 1 /\ at[0] = HeadBlock
      /\ \A k \in 1 .. LastStep : at[k] = IF at[k - 1] = HeapEnd THEN HeapEnd ELSE hs[at[k - 1]].next
  BY NodesAre
<1>2. /\ HeapStart \in Nat /\ HeapEnd \in Nat /\ HeadBlock > HeapEnd /\ HeadBlock # HeapEnd
  BY HeapBounds
<1>3. \A c \in C \cup {HeapEnd} : c \in Nat /\ c >= HeapStart /\ c # HeadBlock
  BY AlignedIs DEF Blocks
<1>4. \A n \in C \cup {HeadBlock} :
         /\ hs[n].next \in C \cup {HeapEnd}
         /\ n # HeadBlock => n < hs[n].next
  BY DEF Threaded, Follows
<1> HIDE DEF at
<1>5. Good(1)
  <2>1. 1 \in 1 .. LastStep /\ 1 - 1 = 0
    BY <1>1
  <2>2. at[1] = hs[HeadBlock].next
    BY <1>1, <1>2, <2>1
  <2>3. at[1] \in C \cup {HeapEnd}
    BY <1>4, <2>2
  <2> QED
    BY <1>2, <1>3, <2>3
<1>6. ASSUME NEW k \in 2 .. LastStep, Good(k - 1)
      PROVE  Good(k)
  <2>1. k \in 1 .. LastStep /\ k - 1 \in Nat /\ k \in Nat
    BY <1>1
  <2>2. at[k] = IF at[k - 1] = HeapEnd THEN HeapEnd ELSE hs[at[k - 1]].next
    BY <1>1, <2>1
  <2>3. CASE at[k - 1] = HeapEnd
    BY <2>2, <2>3
  <2>4. CASE at[k - 1] # HeapEnd
    <3>1. at[k - 1] \in C /\ at[k - 1] >= HeapStart + ((k - 1) - 1) /\ at[k - 1] # HeadBlock
      BY <1>3, <1>6, <2>4
    <3>2. at[k] = hs[at[k - 1]].next /\ at[k] \in C \cup {HeapEnd} /\ at[k - 1] < at[k]
      BY <1>4, <2>2, <2>4, <3>1
    <3>3. at[k] \in Nat /\ at[k - 1] \in Nat
      BY <1>3, <3>1, <3>2
    <3>4. at[k] >= HeapStart + (k - 1)
      BY <1>2, <2>1, <3>1, <3>2, <3>3
    <3> QED
      BY <3>2, <3>4
  <2> QED
    BY <2>3, <2>4
<1>7. Bad = {}
  <2>1. SUFFICES ASSUME Bad # {}
                 PROVE  FALSE
    OBVIOUS
  <2>2. PICK least \in Bad : \A j \in Bad : least <= j
    <3>1. Bad \subseteq Nat
      BY <1>1
    <3> HIDE DEF Bad
    <3> QED
      BY <2>1, <3>1, LeastNatural
  <2>3. least \in 1 .. LastStep /\ ~Good(least)
    BY <2>2
  <2>4. least # 1
    <3> HIDE DEF Good
    <3> QED
      BY <1>5, <2>3
  <2>5. least \in 2 .. LastStep /\ least - 1 \in 1 .. LastStep /\ ~(least <= least - 1)
    BY <1>1, <2>3, <2>4
  <2>6. Good(least - 1)
    BY <2>2, <2>5
  <2> HIDE DEF Good
  <2> QED
    BY <1>6, <2>3, <2>5, <2>6
<1> QED
  BY <1>7 DEF at

\* A walk that has come to c or beyond has passed c.
LEMMA WalkMeets ==
    ASSUME NEW hs, NEW C, Blocks(C), Threaded(hs, C), NEW c \in C,
           NEW i \in 1 .. LastStep, Nodes(hs)[i] >= c
    PROVE  \E j \in 1 .. i : Nodes(hs)[j] = c
<1> DEFINE at == Nodes(hs)
           Beyond == {k \in 1 .. LastStep : at[k] >= c}
<1>1. /\ LastStep \in Nat /\ LastStep >= 1 /\ at[0] = HeadBlock
      /\ \A k \in 1 .. LastStep : at[k] = IF at[k - 1] = HeapEnd THEN HeapEnd ELSE hs[at[k - 1]].next
  BY NodesAre
<1>2. HeapEnd \in Nat /\ HeadBlock # HeapEnd
  BY HeapBounds
<1>3. /\ \A x \in C \cup {HeapEnd} : x \in Nat /\ x # HeadBlock /\ x <= HeapEnd
      /\ c # HeapEnd
  BY <1>2, AlignedIs DEF Blocks
<1>4. \A n \in C \cup {HeadBlock} :
         /\ hs[n].next \in C \cup {HeapEnd}
         /\ n = HeadBlock \/ n < c => hs[n].next <= c
  BY DEF Threaded, Follows
<1>5. \A k \in 1 .. LastStep : at[k] \in C \cup {HeapEnd}
  BY WalkRises
<1>6. PICK least \in Beyond : \A j \in Beyond : least <= j
  <2>1. Beyond \subseteq Nat /\ i \in Beyond
    BY <1>1
  <2> HIDE DEF Beyond
  <2> QED
    BY <2>1, LeastNatural
<1>7. least \in 1 .. LastStep /\ at[least] >= c /\ i \in Beyond
  OBVIOUS
<1>8. least <= i
  BY <1>6, <1>7
<1>9. at[least] = c
  <2>1. CASE least = 1
    <3>1. least - 1 = 0 /\ at[least] = hs[HeadBlock].next
      BY <1>1, <1>2, <1>7, <2>1
    <3>2. at[least] <= c
      BY <1>4, <3>1
    <3> QED
      BY <1>3, <1>5, <1>7, <3>2
  <2>2. CASE least # 1
    <3>1. least - 1 \in 1 .. LastStep /\ ~(least <= least - 1)
      BY <1>1, <1>7, <2>2
    <3>2. least - 1 \notin Beyond
      BY <1>6, <3>1
    <3>3. at[least - 1] \in C \cup {HeapEnd} /\ ~(at[least - 1] >= c)
      BY <1>5, <3>1, <3>2
    <3>4. at[least - 1] < c /\ at[least - 1] # HeapEnd /\ at[least - 1] \in C
      BY <1>2, <1>3, <3>3
    <3>5. at[least] = hs[at[least - 1]].next
      BY <1>1, <1>7, <3>4
    <3>6. at[least] <= c
      BY <1>4, <3>4, <3>5
    <3> QED
      BY <1>3, <1>5, <1>7, <3>6
  <2> QED
    BY <2>1, <2>2
<1>10. least \in 1 .. i
  BY <1>1, <1>7, <1>8
<1> QED
  BY <1>9, <1>10

\* The walk from the head sees the blocks of the list, and ends at the marker.
LEMMA ChainIs ==
    ASSUME NEW hs, NEW C, Blocks(C), Threaded(hs, C)
    PROVE  ChainOf(hs) = C /\ Nodes(hs)[LastStep] = HeapEnd
<1> DEFINE at == Nodes(hs)
<1>1. LastStep \in Nat /\ LastStep >= 1 /\ LastStep \in 1 .. LastStep
  BY NodesAre
<1>2. HeapStart \in Nat /\ HeapEnd \in Nat /\ LastStep = HeapEnd - HeapStart + 1
  BY HeapBounds DEF LastStep
<1>3. \A x \in C \cup {HeapEnd} : x \in Nat /\ x <= HeapEnd
  BY <1>2, AlignedIs DEF Blocks
<1>4. \A c \in C : c # HeapEnd
  BY DEF Blocks
<1>5. \A i \in 1 .. LastStep : at[i] \in C \cup {HeapEnd}
  BY WalkRises
<1>6. at[LastStep] = HeapEnd
  <2>1. at[LastStep] = HeapEnd \/ at[LastStep] >= HeapStart + (LastStep - 1)
    BY <1>1, WalkRises
  <2>2. HeapStart + (LastStep - 1) = HeapEnd
    BY <1>2
  <2>3. at[LastStep] \in Nat /\ at[LastStep] <= HeapEnd
    BY <1>1, <1>3, <1>5
  <2> QED
    BY <1>2, <2>1, <2>2, <2>3
<1>7. ChainOf(hs) = {at[i] : i \in 1 .. LastStep} \ {HeapEnd}
  BY DEF ChainOf, LastStep
<1>8. ASSUME NEW c \in C
      PROVE  \E j \in 1 .. LastStep : at[j] = c
  <2>1. at[LastStep] >= c
    BY <1>2, <1>3, <1>6
  <2> QED
    BY <1>1, <2>1, WalkMeets
<1> HIDE DEF at
<1>9. ChainOf(hs) \subseteq C
  BY <1>5, <1>7
<1>10. C \subseteq ChainOf(hs)
  BY <1>4, <1>7, <1>8
<1> QED
  BY <1>6, <1>9, <1>10 DEF at

\* A walk on its way to places, which the marker is one of, stops before the first.
LEMMA StopsAt ==
    ASSUME NEW hs, NEW C, Blocks(C), Threaded(hs, C), NEW places, HeapEnd \in places
    PROVE  LET p == StopAfter(hs, places) IN
           /\ p \in C \cup {HeadBlock} /\ hs[p].next \in places
           /\ \A c \in C : p # HeadBlock /\ c <= p => c \notin places
<1> DEFINE at == Nodes(hs)
           Hits == {i \in 0 .. HeapEnd - HeapStart : at[i + 1] \in places}
           k == Min(Hits)
           p == StopAfter(hs, places)
<1>1. /\ LastStep \in Nat /\ LastStep >= 1 /\ at[0] = HeadBlock
      /\ \A i \in 1 .. LastStep : at[i] = IF at[i - 1] = HeapEnd THEN HeapEnd ELSE hs[at[i - 1]].next
  BY NodesAre
<1>2. /\ HeapStart \in Nat /\ HeapEnd \in Nat /\ LastStep = HeapEnd - HeapStart + 1
      /\ HeadBlock # HeapEnd /\ HeadBlock \in Nat
  BY HeapBounds DEF LastStep
<1>3. at[LastStep] = HeapEnd
  BY ChainIs
<1>4. p = at[k]
  BY DEF StopAfter
<1>5. \A i \in 1 .. LastStep : at[i] \in C \cup {HeapEnd}
  BY WalkRises
<1> HIDE DEF at
<1>6. k \in Hits /\ \A j \in Hits : k <= j
  <2>1. Hits \subseteq Nat
    BY <1>2
  <2>2. Hits # {}
    <3>1. LastStep - 1 \in 0 .. HeapEnd - HeapStart /\ (LastStep - 1) + 1 = LastStep
      BY <1>1, <1>2
    <3> QED
      BY <1>3, <3>1
  <2> HIDE DEF Hits
  <2>3. \E x \in Hits : \A y \in Hits : x <= y
    BY <2>1, <2>2, LeastNatural
  <2> QED
    BY <2>3 DEF Min
<1> HIDE DEF k
<1>7. k \in Nat /\ k + 1 \in 1 .. LastStep /\ (k + 1) - 1 = k /\ at[k + 1] \in places
      /\ (k # 0 => k \in 1 .. LastStep /\ k - 1 \in 0 .. HeapEnd - HeapStart /\ (k - 1) + 1 = k
                   /\ ~(k <= k - 1))
  BY <1>1, <1>2, <1>6
<1>8. k # 0 => at[k] \notin places
  <2>1. k # 0 => k - 1 \notin Hits
    BY <1>6, <1>7
  <2> QED
    BY <1>7, <2>1
<1>9. at[k] \in C \cup {HeadBlock} /\ at[k] # HeapEnd
  <2>1. CASE k = 0
    BY <1>1, <1>2, <2>1
  <2>2. CASE k # 0
    BY <1>5, <1>7, <1>8, <2>2
  <2> QED
    BY <2>1, <2>2
<1>10. at[k + 1] = hs[at[k]].next
  BY <1>1, <1>7, <1>9
<1>11. ASSUME NEW c \in C, at[k] # HeadBlock, c <= at[k]
       PROVE  c \notin places
  <2>1. k # 0 /\ k \in 1 .. LastStep
    BY <1>1, <1>7, <1>11
  <2>2. c \in Nat /\ at[k] \in Nat
    <3>1. \A x \in C : x \in Nat
      BY AlignedIs DEF Blocks
    <3> QED
      BY <1>2, <1>9, <3>1
  <2>3. at[k] >= c
    BY <1>11, <2>2
  <2>4. PICK j \in 1 .. k : at[j] = c
    BY <2>1, <2>3, WalkMeets DEF at
  <2>5. j - 1 \in 0 .. HeapEnd - HeapStart /\ (j - 1) + 1 = j /\ ~(k <= j - 1)
    BY <1>2, <1>7, <2>1
  <2>6. j - 1 \notin Hits
    BY <1>6, <2>5
  <2> QED
    BY <2>4, <2>5, <2>6
<1> QED
  BY <1>4, <1>7, <1>9, <1>10, <1>11

-----------------------------------------------------------------------------
(* The lists that the allocator makes of one another.                      *)

\* Byte z belongs to block b.
Covers(hs, b, z) == b <= z /\ z < b + hs[b].size

\* The parts of a layout, as the lemmas below use them.
LEMMA LayoutFacts ==
    ASSUME NEW hs, NEW C, NEW G, Layout(hs, C, G)
    PROVE  /\ Blocks(C) /\ Blocks(G) /\ C \cap G = {}
           /\ \A b \in C \cup G : /\ b \in Nat /\ b \in Aligned /\ b < HeapEnd /\ b # HeadBlock /\ b # HeapEnd
                                 /\ HeapStart <= b /\ b % Align = 0
                                 /\ hs[b].size \in Nat /\ hs[b].size >= MinBlock /\ hs[b].size >= 1
                                 /\ hs[b].size % Align = 0
                                 /\ b + hs[b].size \in Nat /\ b + hs[b].size <= HeapEnd
           /\ \A b, c \in C \cup G : b < c => b + hs[b].size <= c
           /\ \A n \in C \cup {HeadBlock} : Follows(C, n, hs[n].next)
           /\ hs \in [Aligned \cup {HeadBlock} -> HeaderOf]
           /\ \A a \in Aligned \cup {HeadBlock} : hs[a] \in HeaderOf /\ hs[a].size \in Nat
<1>1. /\ C \subseteq Aligned /\ G \subseteq Aligned /\ C \cap G = {}
      /\ \A b \in C \cup G : /\ hs[b].size >= MinBlock /\ hs[b].size % Align = 0
                            /\ b + hs[b].size <= HeapEnd
      /\ \A b, c \in C \cup G : b < c => b + hs[b].size <= c
      /\ hs \in [Aligned \cup {HeadBlock} -> HeaderOf] /\ Threaded(hs, C)
  BY DEF Layout
<1>2. \A a \in Aligned \cup {HeadBlock} : hs[a] \in HeaderOf /\ hs[a].size \in Nat
  BY <1>1 DEF HeaderOf
<1>3. HeapEnd \in Nat /\ MinBlock \in Nat /\ MinBlock >= 1
  BY HeapBounds, HeapSizes
<1>4. ASSUME NEW b \in C \cup G
      PROVE  /\ b \in Nat /\ b \in Aligned /\ b < HeapEnd /\ b # HeadBlock /\ b # HeapEnd
             /\ HeapStart <= b /\ b % Align = 0
             /\ hs[b].size \in Nat /\ hs[b].size >= MinBlock /\ hs[b].size >= 1
             /\ hs[b].size % Align = 0
             /\ b + hs[b].size \in Nat /\ b + hs[b].size <= HeapEnd
  <2>1. /\ b \in Aligned /\ hs[b].size >= MinBlock /\ hs[b].size % Align = 0
        /\ b + hs[b].size <= HeapEnd /\ hs[b].size \in Nat
    BY <1>1, <1>2
  <2>2. b \in Nat /\ b # HeadBlock /\ HeapStart <= b /\ b % Align = 0
    BY <2>1, AlignedIs
  <2>3. hs[b].size >= 1 /\ b + hs[b].size \in Nat
    BY <1>3, <2>1, <2>2
  <2>4. b < HeapEnd /\ b # HeapEnd
    BY <1>3, <2>1, <2>2, <2>3
  <2> QED
    BY <2>1, <2>2, <2>3, <2>4
<1>5. Blocks(C) /\ Blocks(G)
  BY <1>1, <1>4 DEF Blocks
<1> QED
  BY <1>1, <1>2, <1>4, <1>5 DEF Threaded

\* What comes next after a node of the list.
LEMMA NextOf ==
    ASSUME NEW hs, NEW C, NEW G, Layout(hs, C, G), NEW n \in C \cup {HeadBlock}
    PROVE  /\ hs[n].next \in C \cup {HeapEnd} /\ hs[n].next \in Nat
           /\ n # HeadBlock => n < hs[n].next
           /\ \A c \in C : n = HeadBlock \/ n < c => hs[n].next <= c
<1>1. Follows(C, n, hs[n].next)
  BY LayoutFacts
<1>2. \A x \in C \cup {HeapEnd} : x \in Nat
  BY LayoutFacts, HeapBounds
<1> QED
  BY <1>1, <1>2 DEF Follows

\* A block comes next after one node only.
LEMMA OneBefore ==
    ASSUME NEW hs, NEW C, NEW G, Layout(hs, C, G), NEW b \in C,
           NEW n \in C \cup {HeadBlock}, NEW p \in C \cup {HeadBlock},
           hs[n].next = b, hs[p].next = b
    PROVE  n = p
<1>1. \A x \in C : x \in Nat
  BY LayoutFacts
<1>2. /\ n # HeadBlock => n < b
      /\ \A c \in C : n = HeadBlock \/ n < c => b <= c
  BY NextOf
<1>3. /\ p # HeadBlock => p < b
      /\ \A c \in C : p = HeadBlock \/ p < c => b <= c
  BY NextOf
<1>4. CASE n = HeadBlock
  BY <1>1, <1>2, <1>3, <1>4
<1>5. CASE n # HeadBlock /\ p = HeadBlock
  BY <1>1, <1>2, <1>3, <1>5
<1>6. CASE n # HeadBlock /\ p # HeadBlock
  <2>1. n \in C /\ p \in C /\ n \in Nat /\ p \in Nat /\ b \in Nat
    BY <1>1, <1>6
  <2>2. ~(n < p)
    BY <1>2, <1>3, <1>6, <2>1
  <2>3. ~(p < n)
    BY <1>2, <1>3, <1>6, <2>1
  <2> QED
    BY <2>1, <2>2, <2>3
<1> QED
  BY <1>4, <1>5, <1>6

\* Two blocks share no byte.
LEMMA NoOverlap ==
    ASSUME NEW hs, NEW C, NEW G, Layout(hs, C, G), NEW b \in C \cup G, NEW c \in C \cup G,
           NEW z \in Int, Covers(hs, b, z), Covers(hs, c, z)
    PROVE  b = c
<1>1. \A x \in C \cup G : x \in Nat /\ hs[x].size \in Nat
  BY LayoutFacts
<1>2. \A x, y \in C \cup G : x < y => x + hs[x].size <= y
  BY LayoutFacts
<1>3. b \in Nat /\ c \in Nat /\ hs[b].size \in Nat /\ hs[c].size \in Nat
  BY <1>1
<1>4. b <= z /\ z < b + hs[b].size /\ c <= z /\ z < c + hs[c].size
  BY DEF Covers
<1>5. (b < c => b + hs[b].size <= c) /\ (c < b => c + hs[c].size <= b)
  BY <1>2
<1> QED
  BY <1>3, <1>4, <1>5

\* The bytes of the free blocks.
LEMMA SpanIs ==
    ASSUME NEW hs, NEW C, NEW G, Layout(hs, C, G)
    PROVE  FreeSpan(hs, C) = {z \in HeapStart .. HeapEnd - 1 : \E b \in C : Covers(hs, b, z)}
<1>1. HeapStart \in Nat /\ HeapEnd \in Nat
  BY HeapBounds
<1>2. ASSUME NEW b \in C, NEW z
      PROVE  z \in b .. b + hs[b].size - 1 <=> z \in HeapStart .. HeapEnd - 1 /\ Covers(hs, b, z)
  <2>1. b \in Nat /\ HeapStart <= b /\ hs[b].size \in Nat /\ b + hs[b].size <= HeapEnd
    BY LayoutFacts
  <2> QED
    BY <1>1, <2>1 DEF Covers
<1>3. \A z : z \in FreeSpan(hs, C) <=> \E b \in C : z \in b .. b + hs[b].size - 1
  BY DEF FreeSpan
<1> QED
  BY <1>2, <1>3

\* So many bytes more, and the span is so much larger.
LEMMA SpanGrows ==
    ASSUME NEW S \in SUBSET (HeapStart .. HeapEnd - 1), NEW b \in Nat, NEW n \in Nat,
           S \cap (b .. b + n - 1) = {}
    PROVE  /\ IsFiniteSet(S) /\ Cardinality(S) \in Nat
           /\ Cardinality(S \cup (b .. b + n - 1)) = Cardinality(S) + n
<1>1. IsFiniteSet(HeapStart .. HeapEnd - 1)
  <2>1. HeapStart \in Int /\ HeapEnd - 1 \in Int
    BY HeapBounds
  <2> QED
    BY <2>1, FS_Interval
<1>2. IsFiniteSet(S)
  BY <1>1, FS_Subset
<1>3. Cardinality(S) \in Nat
  BY <1>2, FS_CardinalityType
<1> DEFINE more == b .. b + n - 1
<1>4. IsFiniteSet(more) /\ Cardinality(more) = n
  <2>1. b \in Int /\ b + n - 1 \in Int
    OBVIOUS
  <2>2. Cardinality(more) = IF b > b + n - 1 THEN 0 ELSE (b + n - 1) - b + 1
    BY <2>1, FS_Interval
  <2>3. IF b > b + n - 1 THEN n = 0 ELSE (b + n - 1) - b + 1 = n
    OBVIOUS
  <2> QED
    BY <2>1, <2>2, <2>3, FS_Interval
<1> HIDE DEF more
<1>5. S \cap more = {}
  BY DEF more
<1>6. Cardinality(S \cup more) = Cardinality(S) + Cardinality(more) - Cardinality(S \cap more)
  BY <1>2, <1>4, FS_Union
<1>7. Cardinality(S \cap more) = 0
  BY <1>5, FS_EmptySet
<1>8. Cardinality(S \cup more) = Cardinality(S) + n
  BY <1>3, <1>4, <1>6, <1>7
<1> QED
  BY <1>2, <1>3, <1>8 DEF more

\* hs1, of the free blocks C1, is the heap hs with the n bytes of block b in use.
IsTaken(hs, C, G, b, n, hs1, C1) ==
    /\ b \in C /\ Layout(hs1, C1, G \cup {b}) /\ Apart(hs1, C1)
    /\ \A a \in G : hs1[a].size = hs[a].size
    /\ n \in Nat /\ hs1[b].size = n
    /\ FreeSpan(hs, C) = FreeSpan(hs1, C1) \cup (b .. b + n - 1)
    /\ FreeSpan(hs1, C1) \cap (b .. b + n - 1) = {}

\* A block of the list whose front is taken: the rest is a block of its own.
LEMMA SplitKept ==
    ASSUME NEW hs, NEW C, NEW G, Layout(hs, C, G), Apart(hs, C), NEW b \in C,
           NEW p \in C \cup {HeadBlock}, hs[p].next = b,
           NEW need \in Nat, need % Align = 0, need >= MinBlock, hs[b].size - need >= MinBlock
    PROVE  IsTaken(hs, C, G, b, need, Carved(hs, p, b, need), (C \ {b}) \cup {b + need})
<1> DEFINE hs1 == Carved(hs, p, b, need)
           c == b + need
           C1 == (C \ {b}) \cup {c}
           G1 == G \cup {b}
           rest == hs[b].size - need
<1>1. /\ HeapStart \in Nat /\ HeapEnd \in Nat /\ MinBlock \in Nat /\ MinBlock >= 1
      /\ HeadBlock > HeapEnd /\ HeadBlock \in Nat
  BY HeapBounds, HeapSizes
<1>2. /\ \A x \in C \cup G : /\ x \in Nat /\ x \in Aligned /\ x < HeapEnd /\ x # HeadBlock /\ x # HeapEnd
                             /\ HeapStart <= x /\ x % Align = 0
                             /\ hs[x].size \in Nat /\ hs[x].size >= MinBlock /\ hs[x].size >= 1
                             /\ hs[x].size % Align = 0
                             /\ x + hs[x].size \in Nat /\ x + hs[x].size <= HeapEnd
      /\ \A x, y \in C \cup G : x < y => x + hs[x].size <= y
      /\ C \cap G = {}
  BY LayoutFacts
<1>3. /\ hs \in [Aligned \cup {HeadBlock} -> HeaderOf] /\ hs[HeadBlock].size = 0
      /\ \A x \in HeapStart .. HeapEnd - 1 : \E d \in C \cup G : d <= x /\ x < d + hs[d].size
      /\ \A x \in C : ~hs[x].taken
      /\ \A x \in G : hs[x].taken
      /\ NoForgery(hs, G)
  BY DEF Layout
<1>4. \A a \in Aligned \cup {HeadBlock} : hs[a] \in HeaderOf /\ hs[a].size \in Nat
  BY LayoutFacts
<1>5. /\ b \in Nat /\ b \in Aligned /\ b # HeadBlock /\ hs[b].size \in Nat /\ b + hs[b].size <= HeapEnd
      /\ HeapStart <= b /\ b % Align = 0 /\ hs[b].size % Align = 0
  BY <1>2
<1>6. /\ rest \in Nat /\ rest >= MinBlock /\ rest % Align = 0 /\ c \in Nat /\ b < c /\ c < b + hs[b].size
      /\ c + rest = b + hs[b].size
  <2>1. rest % Align = 0
    <3>1. hs[b].size \in Int /\ need \in Int /\ hs[b].size % Align = 0 /\ need % Align = 0
      BY <1>5
    <3>2. (hs[b].size - need) % Align = 0
      BY <3>1, Multiples
    <3> QED
      BY <3>2
  <2> QED
    BY <1>1, <1>5, <2>1
<1>7. c \in Aligned
  <2>1. c % Align = 0
    BY <1>5, Multiples
  <2>2. HeapStart <= c /\ c <= HeapEnd
    BY <1>1, <1>5, <1>6
  <2> QED
    BY <1>6, <2>1, <2>2, AlignedIs
<1>8. c \notin C \cup G /\ c # HeadBlock /\ c # b
  <2>1. ASSUME c \in C \cup G
        PROVE  FALSE
    <3>1. b + hs[b].size <= c
      BY <1>2, <1>6, <2>1
    <3> QED
      BY <1>5, <1>6, <3>1
  <2>2. c # HeadBlock
    BY <1>7, AlignedIs
  <2> QED
    BY <1>6, <2>1, <2>2
<1>9. p # b /\ p # c /\ p \in Aligned \cup {HeadBlock} /\ p \notin G
  <2>1. p # HeadBlock => p < b
    BY NextOf
  <2>2. HeadBlock \notin G /\ C \cap G = {}
    BY <1>2
  <2>3. CASE p = HeadBlock
    BY <1>5, <1>8, <2>2, <2>3
  <2>4. CASE p \in C
    <3>1. p < b /\ p \in Nat /\ p \in Aligned
      BY <1>2, <2>1, <2>4
    <3> QED
      BY <1>5, <1>8, <2>2, <2>4, <3>1
  <2> QED
    BY <2>3, <2>4
<1>10. /\ hs1 \in [Aligned \cup {HeadBlock} -> HeaderOf]
       /\ hs1[c].size = rest /\ hs1[c].next = hs[b].next /\ ~hs1[c].taken
       /\ hs1[p].next = c /\ hs1[p].size = hs[p].size /\ hs1[p].taken = hs[p].taken
       /\ hs1[b].size = need /\ hs1[b].taken = TRUE /\ hs1[b].next = Null
       /\ \A a \in Aligned \cup {HeadBlock} : a # b /\ a # c /\ a # p => hs1[a] = hs[a]
  <2>1. hs[b].next \in {Null} \cup Aligned
    BY <1>4, <1>5 DEF HeaderOf
  <2>2. hs1 = [a \in Aligned \cup {HeadBlock} |->
                 IF a = b THEN [next |-> Null, size |-> need, taken |-> TRUE]
                 ELSE IF a = p THEN [next |-> c, size |-> hs[p].size, taken |-> hs[p].taken]
                 ELSE IF a = c THEN [next |-> hs[b].next, size |-> rest, taken |-> FALSE]
                 ELSE hs[a]]
    <3>1. rest >= MinBlock
      BY <1>6
    <3>2. hs1 = [hs EXCEPT ![c].size = rest, ![c].next = hs[b].next, ![c].taken = FALSE,
                           ![p].next = c, ![b] = [next |-> Null, size |-> need, taken |-> TRUE]]
      BY <3>1 DEF Carved
    <3>3. hs[p] = [next |-> hs[p].next, size |-> hs[p].size, taken |-> hs[p].taken]
          /\ hs[c] = [next |-> hs[c].next, size |-> hs[c].size, taken |-> hs[c].taken]
      BY <1>4, <1>7, <1>9 DEF HeaderOf
    <3>4. /\ DOMAIN hs = Aligned \cup {HeadBlock} /\ c # b /\ c # p /\ p # b
          /\ c \in Aligned \cup {HeadBlock} /\ p \in Aligned \cup {HeadBlock}
          /\ b \in Aligned \cup {HeadBlock}
      BY <1>3, <1>5, <1>7, <1>8, <1>9
    <3> HIDE DEF hs1, c, rest
    <3>5. /\ DOMAIN hs1 = Aligned \cup {HeadBlock}
          /\ hs1 = [a \in DOMAIN hs1 |-> hs1[a]]
      BY <3>2, <3>4
    <3>6. hs1[b] = [next |-> Null, size |-> need, taken |-> TRUE]
      BY <3>2, <3>4
    <3>7. hs1[p] = [hs[p] EXCEPT !.next = c]
      BY <3>2, <3>4
    <3>8. hs1[c] = [hs[c] EXCEPT !.size = rest, !.next = hs[b].next, !.taken = FALSE]
      BY <3>2, <3>4
    <3>9. \A a \in Aligned \cup {HeadBlock} : a # b /\ a # p /\ a # c => hs1[a] = hs[a]
      BY <3>2, <3>4
    <3>10. hs1[p] = [next |-> c, size |-> hs[p].size, taken |-> hs[p].taken]
      BY <3>3, <3>7
    <3>11. hs1[c] = [next |-> hs[b].next, size |-> rest, taken |-> FALSE]
      BY <3>3, <3>8
    <3> QED
      BY <3>4, <3>5, <3>6, <3>9, <3>10, <3>11
  <2>3. hs[p].size \in Nat /\ hs[p].taken \in BOOLEAN
    BY <1>4, <1>9 DEF HeaderOf
  <2>4. /\ [next |-> Null, size |-> need, taken |-> TRUE] \in HeaderOf
        /\ [next |-> c, size |-> hs[p].size, taken |-> hs[p].taken] \in HeaderOf
        /\ [next |-> hs[b].next, size |-> rest, taken |-> FALSE] \in HeaderOf
    BY <1>6, <1>7, <2>1, <2>3 DEF HeaderOf
  <2> HIDE DEF hs1, c, rest
  <2>5. hs1 \in [Aligned \cup {HeadBlock} -> HeaderOf]
    BY <1>4, <2>2, <2>4
  <2> QED
    BY <1>5, <1>7, <1>8, <1>9, <2>2, <2>5
<1>11. hs[b].next \in C \cup {HeapEnd} /\ hs[b].next > b /\ hs[b].next \in Nat
       /\ \A d \in C : b < d => hs[b].next <= d
  <2>1. b \in C \cup {HeadBlock}
    OBVIOUS
  <2> QED
    BY <1>5, <2>1, NextOf
<1> HIDE DEF hs1, c, rest
<1>12. \A x \in C1 \cup G1 : x = b \/ x = c \/ (x \in C \cup G /\ x # b /\ x # c)
  BY <1>8
<1>13. \A x \in C \cup G : x # b => hs1[x].size = hs[x].size /\ hs1[x].taken = hs[x].taken
  BY <1>2, <1>8, <1>10
<1>14. \A x \in C1 \cup G1 : /\ x \in Aligned /\ hs1[x].size >= MinBlock /\ hs1[x].size % Align = 0
                             /\ x + hs1[x].size <= HeapEnd
  <2>1. /\ b \in Aligned /\ hs1[b].size >= MinBlock /\ hs1[b].size % Align = 0
        /\ b + hs1[b].size <= HeapEnd
    BY <1>1, <1>5, <1>6, <1>10 DEF c
  <2>2. /\ c \in Aligned /\ hs1[c].size >= MinBlock /\ hs1[c].size % Align = 0
        /\ c + hs1[c].size <= HeapEnd
    BY <1>1, <1>5, <1>6, <1>7, <1>10
  <2>3. \A x \in C \cup G : x # b => /\ x \in Aligned /\ hs1[x].size >= MinBlock
                                     /\ hs1[x].size % Align = 0 /\ x + hs1[x].size <= HeapEnd
    BY <1>2, <1>13
  <2> QED
    BY <1>12, <2>1, <2>2, <2>3
<1>15. \A x, y \in C1 \cup G1 : x < y => x + hs1[x].size <= y
  <2>1. SUFFICES ASSUME NEW x \in C1 \cup G1, NEW y \in C1 \cup G1, x < y
                 PROVE  x + hs1[x].size <= y
    OBVIOUS
  <2>2. \A d \in C \cup G : /\ d \in Nat /\ hs[d].size \in Nat
                            /\ d < b => d + hs[d].size <= b
                            /\ b < d => b + hs[b].size <= d
    BY <1>2
  <2>3. b + need = c /\ c + rest = b + hs[b].size /\ hs1[b].size = need /\ hs1[c].size = rest
    BY <1>6, <1>10 DEF c
  <2>4. CASE x = b
    <3>1. y = c \/ (y \in C \cup G /\ y # b)
      BY <1>12, <2>1, <2>4, <1>5
    <3> QED
      BY <1>5, <1>6, <2>1, <2>2, <2>3, <2>4, <3>1
  <2>5. CASE x = c
    <3>1. y \in C \cup G /\ y # b
      BY <1>12, <2>1, <2>5, <1>5, <1>6
    <3> QED
      BY <1>5, <1>6, <2>1, <2>2, <2>3, <2>5, <3>1
  <2>6. CASE x \in C \cup G /\ x # b /\ x # c
    <3>1. hs1[x].size = hs[x].size /\ x \in Nat /\ hs[x].size \in Nat
      BY <1>13, <2>2, <2>6
    <3>2. CASE y = b
      BY <2>1, <2>2, <2>6, <3>1, <3>2
    <3>3. CASE y = c
      BY <1>5, <1>6, <2>1, <2>2, <2>6, <3>1, <3>3
    <3>4. CASE y \in C \cup G
      BY <1>2, <2>1, <2>6, <3>1, <3>4
    <3> QED
      BY <1>12, <3>2, <3>3, <3>4
  <2> QED
    BY <1>12, <2>4, <2>5, <2>6
<1>16. ASSUME NEW z \in HeapStart .. HeapEnd - 1, NEW d \in C \cup G, d <= z, z < d + hs[d].size
       PROVE  IF d = b THEN IF z < c THEN Covers(hs1, b, z) ELSE Covers(hs1, c, z) ELSE Covers(hs1, d, z)
  <2>1. z \in Nat
    BY <1>1
  <2>2. b + hs1[b].size = c /\ c + hs1[c].size = b + hs[b].size
    BY <1>6, <1>10 DEF c
  <2> QED
    BY <1>5, <1>6, <1>13, <1>16, <2>1, <2>2 DEF Covers
<1>17. \A x \in HeapStart .. HeapEnd - 1 : \E d \in C1 \cup G1 : d <= x /\ x < d + hs1[d].size
  <2>1. SUFFICES ASSUME NEW x \in HeapStart .. HeapEnd - 1
                 PROVE  \E d \in C1 \cup G1 : d <= x /\ x < d + hs1[d].size
    OBVIOUS
  <2>2. PICK d \in C \cup G : d <= x /\ x < d + hs[d].size
    BY <1>3
  <2>3. IF d = b THEN IF x < c THEN Covers(hs1, b, x) ELSE Covers(hs1, c, x) ELSE Covers(hs1, d, x)
    BY <1>16, <2>2
  <2>4. b \in C1 \cup G1 /\ c \in C1 \cup G1 /\ (d # b => d \in C1 \cup G1)
    OBVIOUS
  <2> QED
    BY <2>3, <2>4 DEF Covers
<1>18. ASSUME NEW n \in C1 \cup {HeadBlock}
       PROVE  Follows(C1, n, hs1[n].next)
  <2>1. \A d \in C1 : d = c \/ (d \in C /\ d # b)
    OBVIOUS
  <2>2. \A d \in C : d \in Nat /\ d # HeadBlock
    BY <1>2
  <2>3. CASE n = p
    <3>1. hs1[n].next = c /\ c \in C1
      BY <1>10, <2>3
    <3>2. n # HeadBlock => n < c
      <4>1. n # HeadBlock => n < b /\ n \in Nat
        BY <2>2, <2>3, NextOf
      <4> QED
        BY <1>5, <1>6, <4>1
    <3>3. ASSUME NEW d \in C1, n = HeadBlock \/ n < d
          PROVE  c <= d
      <4>1. CASE d = c
        BY <1>6, <4>1
      <4>2. CASE d \in C /\ d # b
        <5>1. b <= d
          BY <2>3, <3>3, <4>2, NextOf
        <5>2. b + hs[b].size <= d
          BY <1>2, <1>5, <2>2, <4>2, <5>1
        <5> QED
          BY <1>5, <1>6, <2>2, <4>2, <5>2
      <4> QED
        BY <2>1, <4>1, <4>2
    <3> QED
      BY <3>1, <3>2, <3>3 DEF Follows
  <2>4. CASE n = c
    <3> DEFINE m == hs[b].next
    <3>1. hs1[n].next = m /\ m \in C1 \cup {HeapEnd}
      BY <1>5, <1>10, <1>11, <2>4
    <3>2. c < m
      <4>1. m \in C => b + hs[b].size <= m
        BY <1>2, <1>11
      <4>2. b + hs[b].size <= m
        BY <1>5, <1>11, <4>1
      <4> QED
        BY <1>5, <1>6, <1>11, <4>2
    <3>3. ASSUME NEW d \in C1, c < d
          PROVE  m <= d
      <4>1. d \in C /\ b < d
        BY <1>5, <1>6, <2>1, <2>2, <3>3
      <4> QED
        BY <1>11, <4>1
    <3> QED
      BY <1>8, <2>4, <3>1, <3>2, <3>3 DEF Follows
  <2>5. CASE n # p /\ n # c
    <3> DEFINE m == hs[n].next
    <3>1. n \in C \cup {HeadBlock} /\ n # b /\ n \in Aligned \cup {HeadBlock}
      BY <1>2, <1>5, <2>1, <2>5
    <3>2. hs1[n].next = m
      BY <1>10, <2>5, <3>1
    <3>3. m \in C \cup {HeapEnd} /\ m \in Nat /\ (n # HeadBlock => n < m)
          /\ \A d \in C : n = HeadBlock \/ n < d => m <= d
      BY <3>1, NextOf
    <3>4. m # b
      BY <2>5, <3>1, OneBefore
    <3>5. n = HeadBlock \/ n < c => n = HeadBlock \/ n < b
      <4>1. ASSUME n # HeadBlock, n < c, ~(n < b)
            PROVE  FALSE
        <5>1. n \in C /\ n \in Nat
          BY <2>2, <3>1, <4>1
        <5>2. b < n
          BY <1>5, <3>1, <4>1, <5>1
        <5>3. b + hs[b].size <= n
          BY <1>2, <5>1, <5>2
        <5> QED
          BY <1>5, <1>6, <4>1, <5>1, <5>3
      <4> QED
        BY <4>1
    <3>6. ASSUME NEW d \in C1, n = HeadBlock \/ n < d
          PROVE  m <= d
      <4>1. CASE d = c
        <5>1. m <= b
          BY <3>3, <3>5, <3>6, <4>1
        <5> QED
          BY <1>5, <1>6, <3>3, <4>1, <5>1
      <4> QED
        BY <2>1, <3>3, <3>6, <4>1
    <3> QED
      BY <3>2, <3>3, <3>4, <3>6 DEF Follows
  <2> QED
    BY <2>3, <2>4, <2>5
<1>19. NoForgery(hs1, G1)
  <2>1. SUFFICES ASSUME NEW a \in Aligned \ G1, hs1[a].taken
                 PROVE  hs1[a].size < MinBlock \/ hs1[a].size > HeapEnd - a
    BY DEF NoForgery
  <2>2. a # c /\ a # b /\ a \in Aligned \ G
    BY <1>10, <2>1
  <2>3. hs1[a].taken = hs[a].taken /\ hs1[a].size = hs[a].size
    BY <1>10, <2>2
  <2> QED
    BY <1>3, <2>1, <2>2, <2>3 DEF NoForgery
<1>20. hs1[HeadBlock].size = 0
  BY <1>3, <1>5, <1>8, <1>10
<1>21. C1 \cap G1 = {}
  BY <1>2, <1>5, <1>8
<1>22. Layout(hs1, C1, G1)
  <2>1. /\ C1 \subseteq Aligned /\ G1 \subseteq Aligned
        /\ \A x \in C1 \cup G1 : /\ hs1[x].size >= MinBlock /\ hs1[x].size % Align = 0
                                /\ x + hs1[x].size <= HeapEnd
    BY <1>14
  <2>2. \A x \in C1 : ~hs1[x].taken
    BY <1>3, <1>10, <1>13
  <2>3. \A x \in G1 : hs1[x].taken
    BY <1>3, <1>10, <1>13
  <2>4. Threaded(hs1, C1)
    BY <1>18 DEF Threaded
  <2> HIDE DEF C1, G1
  <2> QED
    BY <1>10, <1>15, <1>17, <1>19, <1>20, <1>21, <2>1, <2>2, <2>3, <2>4 DEF Layout
<1>23. Apart(hs, C) => Apart(hs1, C1)
  <2>1. SUFFICES ASSUME Apart(hs, C), NEW x \in C1, x + hs1[x].size \in C1
                 PROVE  FALSE
    BY DEF Apart
  <2>2. CASE x = c
    <3>1. c + hs1[c].size = b + hs[b].size /\ b + hs[b].size # c
      BY <1>5, <1>6, <1>10
    <3> QED
      BY <2>1, <2>2, <3>1 DEF Apart
  <2>3. CASE x \in C /\ x # b
    <3>1. x + hs1[x].size = x + hs[x].size /\ x + hs[x].size \notin C
      BY <1>13, <2>1, <2>3 DEF Apart
    <3>2. x + hs[x].size = c
      BY <2>1, <3>1
    <3>3. x \in Nat /\ hs[x].size \in Nat /\ hs[x].size >= 1
          /\ (x < b => x + hs[x].size <= b) /\ (b < x => b + hs[b].size <= x)
      BY <1>2, <2>3
    <3> QED
      BY <1>5, <1>6, <2>3, <3>2, <3>3
  <2> QED
    BY <2>1, <2>2, <2>3
<1>24. \A z \in HeapStart .. HeapEnd - 1 :
          (\E d \in C : Covers(hs, d, z)) <=> (\E d \in C1 : Covers(hs1, d, z)) \/ z \in b .. b + need - 1
  <2>1. SUFFICES ASSUME NEW z \in HeapStart .. HeapEnd - 1
                 PROVE  (\E d \in C : Covers(hs, d, z))
                          <=> (\E d \in C1 : Covers(hs1, d, z)) \/ z \in b .. b + need - 1
    OBVIOUS
  <2>2. z \in Nat
    BY <1>1
  <2>3. Covers(hs1, b, z) => z \in b .. b + need - 1
    BY <1>5, <1>10, <2>2 DEF Covers
  <2>4. ASSUME NEW d \in C, Covers(hs, d, z)
        PROVE  (\E x \in C1 : Covers(hs1, x, z)) \/ z \in b .. b + need - 1
    <3>1. IF d = b THEN IF z < c THEN Covers(hs1, b, z) ELSE Covers(hs1, c, z) ELSE Covers(hs1, d, z)
      BY <1>16, <2>4 DEF Covers
    <3>2. c \in C1 /\ (d # b => d \in C1)
      OBVIOUS
    <3> QED
      BY <2>3, <3>1, <3>2
  <2>5. z \in b .. b + need - 1 => Covers(hs, b, z)
    BY <1>5, <1>6, <2>2 DEF Covers, c
  <2>6. Covers(hs1, c, z) => Covers(hs, b, z)
    BY <1>5, <1>6, <1>10, <2>2 DEF Covers
  <2>7. \A d \in C : d # b /\ Covers(hs1, d, z) => Covers(hs, d, z)
    BY <1>13 DEF Covers
  <2> QED
    BY <2>4, <2>5, <2>6, <2>7
<1>25. /\ FreeSpan(hs, C) = {z \in HeapStart .. HeapEnd - 1 : \E d \in C : Covers(hs, d, z)}
       /\ FreeSpan(hs1, C1) = {z \in HeapStart .. HeapEnd - 1 : \E d \in C1 : Covers(hs1, d, z)}
  BY <1>22, SpanIs
<1>26. ASSUME NEW z \in b .. b + need - 1
       PROVE  z \in HeapStart .. HeapEnd - 1 /\ ~ \E d \in C1 : Covers(hs1, d, z)
  <2>1. z \in Nat /\ Covers(hs1, b, z) /\ z \in HeapStart .. HeapEnd - 1
    BY <1>1, <1>5, <1>6, <1>10 DEF Covers, c
  <2>2. ASSUME NEW d \in C1, Covers(hs1, d, z)
        PROVE  FALSE
    <3>1. d \in C1 \cup G1 /\ b \in C1 \cup G1 /\ d # b
      BY <1>21
    <3>2. d = b
      BY <1>22, <2>1, <2>2, <3>1, NoOverlap
    <3> QED
      BY <3>1, <3>2
  <2> QED
    BY <2>1, <2>2
<1>27. FreeSpan(hs, C) = FreeSpan(hs1, C1) \cup (b .. b + need - 1)
  <2> HIDE DEF C1
  <2> QED
    BY <1>24, <1>25, <1>26
<1>28. FreeSpan(hs1, C1) \cap (b .. b + need - 1) = {}
  <2> HIDE DEF C1
  <2> QED
    BY <1>25, <1>26
<1>29. hs1[b].size = need /\ \A a \in G : hs1[a].size = hs[a].size
  BY <1>2, <1>10, <1>13
<1>30. IsTaken(hs, C, G, b, need, hs1, C1)
  <2> HIDE DEF C1
  <2> QED
    BY <1>22, <1>23, <1>27, <1>28, <1>29 DEF IsTaken
<1> QED
  BY <1>30 DEF hs1, c

\* The bytes of the free blocks, when one block leaves the list and no size changes.
LEMMA SpanWithout ==
    ASSUME NEW hs, NEW C, NEW G, Layout(hs, C, G),
           NEW hs1, \A a \in C : hs1[a].size = hs[a].size, NEW b \in C
    PROVE  /\ FreeSpan(hs, C) = FreeSpan(hs1, C \ {b}) \cup (b .. b + hs[b].size - 1)
           /\ FreeSpan(hs1, C \ {b}) \cap (b .. b + hs[b].size - 1) = {}
<1> DEFINE C1 == C \ {b}
<1>1. HeapStart \in Nat /\ HeapEnd \in Nat
  BY HeapBounds
<1>2. /\ FreeSpan(hs, C) = {z \in HeapStart .. HeapEnd - 1 : \E d \in C : Covers(hs, d, z)}
      /\ FreeSpan(hs1, C1) = {z \in HeapStart .. HeapEnd - 1 : \E d \in C1 : Covers(hs1, d, z)}
  <2>1. FreeSpan(hs, C) = {z \in HeapStart .. HeapEnd - 1 : \E d \in C : Covers(hs, d, z)}
    BY SpanIs
  <2>2. ASSUME NEW d \in C, NEW z
        PROVE  z \in d .. d + hs1[d].size - 1 <=> z \in HeapStart .. HeapEnd - 1 /\ Covers(hs1, d, z)
    <3>1. d \in Nat /\ HeapStart <= d /\ hs[d].size \in Nat /\ d + hs[d].size <= HeapEnd
          /\ hs1[d].size = hs[d].size
      BY LayoutFacts
    <3> QED
      BY <1>1, <3>1 DEF Covers
  <2>3. \A z : z \in FreeSpan(hs1, C1) <=> \E d \in C1 : z \in d .. d + hs1[d].size - 1
    BY DEF FreeSpan
  <2> QED
    BY <2>1, <2>2, <2>3
<1>3. b \in Nat /\ HeapStart <= b /\ hs[b].size \in Nat /\ b + hs[b].size <= HeapEnd
  BY LayoutFacts
<1>4. \A z : z \in b .. b + hs[b].size - 1 <=> z \in HeapStart .. HeapEnd - 1 /\ Covers(hs, b, z)
  BY <1>1, <1>3 DEF Covers
<1>5. \A d \in C, z \in HeapStart .. HeapEnd - 1 : Covers(hs1, d, z) <=> Covers(hs, d, z)
  BY DEF Covers
<1>6. ASSUME NEW z \in HeapStart .. HeapEnd - 1, Covers(hs, b, z), NEW d \in C1, Covers(hs1, d, z)
      PROVE  FALSE
  <2>1. d \in C \cup G /\ b \in C \cup G /\ d # b /\ Covers(hs, d, z) /\ z \in Int
    BY <1>1, <1>5, <1>6
  <2> QED
    BY <1>6, <2>1, NoOverlap
<1>7. FreeSpan(hs, C) \subseteq FreeSpan(hs1, C1) \cup (b .. b + hs[b].size - 1)
  BY <1>2, <1>4, <1>5
<1>8. FreeSpan(hs1, C1) \subseteq FreeSpan(hs, C)
  BY <1>2, <1>5
<1>9. (b .. b + hs[b].size - 1) \subseteq FreeSpan(hs, C)
  BY <1>2, <1>4
<1>10. FreeSpan(hs1, C1) \cap (b .. b + hs[b].size - 1) = {}
  BY <1>2, <1>4, <1>6
<1> HIDE DEF C1
<1>11. FreeSpan(hs, C) = FreeSpan(hs1, C1) \cup (b .. b + hs[b].size - 1)
  BY <1>7, <1>8, <1>9
<1> QED
  BY <1>10, <1>11 DEF C1

\* A block of the list that is taken whole.
LEMMA TakenKept ==
    ASSUME NEW hs, NEW C, NEW G, Layout(hs, C, G), Apart(hs, C), NEW b \in C,
           NEW p \in C \cup {HeadBlock}, hs[p].next = b,
           NEW need \in Nat, ~(hs[b].size - need >= MinBlock)
    PROVE  IsTaken(hs, C, G, b, hs[b].size, Carved(hs, p, b, need), C \ {b})
<1> DEFINE hs1 == Carved(hs, p, b, need)
           C1 == C \ {b}
           G1 == G \cup {b}
           m == hs[b].next
<1>1. /\ \A x \in C \cup G : /\ x \in Nat /\ x \in Aligned /\ x # HeadBlock
                             /\ hs[x].size \in Nat /\ hs[x].size >= MinBlock
                             /\ hs[x].size % Align = 0 /\ x + hs[x].size <= HeapEnd
      /\ \A x, y \in C \cup G : x < y => x + hs[x].size <= y
      /\ C \cap G = {}
  BY LayoutFacts
<1>2. /\ hs \in [Aligned \cup {HeadBlock} -> HeaderOf] /\ hs[HeadBlock].size = 0
      /\ \A x \in HeapStart .. HeapEnd - 1 : \E d \in C \cup G : d <= x /\ x < d + hs[d].size
      /\ \A x \in C : ~hs[x].taken
      /\ \A x \in G : hs[x].taken
      /\ NoForgery(hs, G)
  BY DEF Layout
<1>3. \A a \in Aligned \cup {HeadBlock} : hs[a] \in HeaderOf
  BY LayoutFacts
<1>4. p # b /\ p \in Aligned \cup {HeadBlock} /\ b \in Aligned /\ b # HeadBlock /\ b \notin G
  <2>1. p # HeadBlock => p < b
    BY NextOf
  <2> QED
    BY <1>1, <2>1
<1>5. m \in C \cup {HeapEnd} /\ m > b /\ m \in Nat /\ \A d \in C : b < d => m <= d
  <2>1. b \in C \cup {HeadBlock}
    OBVIOUS
  <2> QED
    BY <1>1, <1>4, <2>1, NextOf
<1>6. /\ hs1 \in [Aligned \cup {HeadBlock} -> HeaderOf]
      /\ \A a \in Aligned \cup {HeadBlock} : hs1[a].size = hs[a].size
      /\ \A a \in Aligned \cup {HeadBlock} : a # b => hs1[a].taken = hs[a].taken
      /\ hs1[b].taken = TRUE /\ hs1[p].next = m
      /\ \A a \in Aligned \cup {HeadBlock} : a # b /\ a # p => hs1[a].next = hs[a].next
  <2>1. hs1 = [hs EXCEPT ![p].next = m, ![b].next = Null, ![b].taken = TRUE]
    BY DEF Carved
  <2>2. \A a \in Aligned \cup {HeadBlock} :
           hs[a] = [next |-> hs[a].next, size |-> hs[a].size, taken |-> hs[a].taken]
           /\ hs[a].next \in {Null} \cup Aligned /\ hs[a].size \in Nat /\ hs[a].taken \in BOOLEAN
    BY <1>3 DEF HeaderOf
  <2> HIDE DEF hs1
  <2>3. DOMAIN hs1 = Aligned \cup {HeadBlock} /\ hs1 = [a \in DOMAIN hs1 |-> hs1[a]]
    BY <1>2, <2>1
  <2>4. hs1[p] = [hs[p] EXCEPT !.next = m]
    BY <1>2, <1>4, <2>1
  <2>5. hs1[b] = [hs[b] EXCEPT !.next = Null, !.taken = TRUE]
    BY <1>2, <1>4, <2>1
  <2>6. \A a \in Aligned \cup {HeadBlock} : a # b /\ a # p => hs1[a] = hs[a]
    BY <1>2, <1>4, <2>1
  <2>11. hs[p] = [next |-> hs[p].next, size |-> hs[p].size, taken |-> hs[p].taken]
         /\ hs[b] = [next |-> hs[b].next, size |-> hs[b].size, taken |-> hs[b].taken]
    BY <1>4, <2>2
  <2>7. hs1[p] = [next |-> m, size |-> hs[p].size, taken |-> hs[p].taken]
    BY <2>4, <2>11
  <2>8. hs1[b] = [next |-> Null, size |-> hs[b].size, taken |-> TRUE]
    BY <2>5, <2>11
  <2>9. hs1[p] \in HeaderOf /\ hs1[b] \in HeaderOf
    <3>1. m \in {Null} \cup Aligned /\ hs[p].size \in Nat /\ hs[p].taken \in BOOLEAN
          /\ hs[b].size \in Nat
      BY <1>4, <2>2 DEF m
    <3>2. /\ [next |-> m, size |-> hs[p].size, taken |-> hs[p].taken] \in HeaderOf
          /\ [next |-> Null, size |-> hs[b].size, taken |-> TRUE] \in HeaderOf
      BY <3>1 DEF HeaderOf
    <3> QED
      BY <2>7, <2>8, <3>2
  <2>10. \A a \in Aligned \cup {HeadBlock} : hs1[a] \in HeaderOf
    BY <1>3, <2>6, <2>9
  <2> QED
    BY <1>4, <2>3, <2>6, <2>7, <2>8, <2>10
<1> HIDE DEF hs1, m
<1>7. C1 \cup G1 = C \cup G /\ C1 \cap G1 = {} /\ C1 \subseteq Aligned /\ G1 \subseteq Aligned
  BY <1>1
<1>8. \A x \in C \cup G : hs1[x].size = hs[x].size
  BY <1>1, <1>6
<1>9. ASSUME NEW n \in C1 \cup {HeadBlock}
      PROVE  Follows(C1, n, hs1[n].next)
  <2>1. n \in C \cup {HeadBlock} /\ n # b /\ n \in Aligned \cup {HeadBlock}
    BY <1>1, <1>4
  <2>2. \A d \in C : d \in Nat /\ d # HeadBlock
    BY <1>1
  <2>3. CASE n = p
    <3>1. hs1[n].next = m /\ m \in C1 \cup {HeapEnd}
      BY <1>1, <1>5, <1>6, <2>3
    <3>2. (n # HeadBlock => n < b) /\ \A d \in C : n = HeadBlock \/ n < d => b <= d
      BY <2>3, NextOf
    <3>3. n # HeadBlock => n < m
      BY <1>5, <2>1, <2>2, <3>2
    <3>4. ASSUME NEW d \in C1, n = HeadBlock \/ n < d
          PROVE  m <= d
      <4>1. b < d
        BY <2>2, <3>2, <3>4
      <4> QED
        BY <1>5, <4>1
    <3> QED
      BY <3>1, <3>3, <3>4 DEF Follows
  <2>4. CASE n # p
    <3>1. hs1[n].next = hs[n].next
      BY <1>6, <2>1, <2>4
    <3>2. /\ hs[n].next \in C \cup {HeapEnd} /\ (n # HeadBlock => n < hs[n].next)
          /\ \A d \in C : n = HeadBlock \/ n < d => hs[n].next <= d
      BY <2>1, NextOf
    <3>3. hs[n].next # b
      BY <2>1, <2>4, OneBefore
    <3> QED
      BY <3>1, <3>2, <3>3 DEF Follows
  <2> QED
    BY <2>3, <2>4
<1>10. NoForgery(hs1, G1)
  <2>1. \A a \in Aligned \ G1 : hs1[a].taken = hs[a].taken /\ hs1[a].size = hs[a].size
    BY <1>6
  <2> QED
    BY <1>2, <2>1 DEF NoForgery
<1>11. Layout(hs1, C1, G1)
  <2>1. \A x \in C1 \cup G1 : /\ hs1[x].size >= MinBlock /\ hs1[x].size % Align = 0
                              /\ x + hs1[x].size <= HeapEnd
    BY <1>1, <1>7, <1>8
  <2>2. \A x, y \in C1 \cup G1 : x < y => x + hs1[x].size <= y
    BY <1>1, <1>7, <1>8
  <2>3. \A x \in HeapStart .. HeapEnd - 1 : \E d \in C1 \cup G1 : d <= x /\ x < d + hs1[d].size
    BY <1>2, <1>7, <1>8
  <2>4. (\A x \in C1 : ~hs1[x].taken) /\ (\A x \in G1 : hs1[x].taken)
    BY <1>1, <1>2, <1>6
  <2>5. Threaded(hs1, C1) /\ hs1[HeadBlock].size = 0
    BY <1>2, <1>6, <1>9 DEF Threaded
  <2> HIDE DEF C1, G1
  <2> QED
    BY <1>6, <1>7, <1>10, <2>1, <2>2, <2>3, <2>4, <2>5 DEF Layout
<1>12. Apart(hs, C) => Apart(hs1, C1)
  BY <1>8 DEF Apart
<1>13. /\ FreeSpan(hs, C) = FreeSpan(hs1, C1) \cup (b .. b + hs[b].size - 1)
       /\ FreeSpan(hs1, C1) \cap (b .. b + hs[b].size - 1) = {}
  <2>1. \A a \in C : hs1[a].size = hs[a].size
    BY <1>8
  <2> QED
    BY <2>1, SpanWithout, Z3
<1>14. hs1[b].size = hs[b].size /\ hs[b].size \in Nat
  BY <1>1, <1>8
<1>15. IsTaken(hs, C, G, b, hs[b].size, hs1, C1)
  <2> HIDE DEF C1
  <2> QED
    BY <1>8, <1>11, <1>12, <1>13, <1>14 DEF IsTaken
<1> QED
  BY <1>15 DEF hs1

\* The free blocks that touch the next one.
Touching(hs, C) == {c \in C : c + hs[c].size \in C}

\* hs1 is the heap hs with block b put on the list behind p, where it belongs.
IsInserted(hs, C, p, b, hs1) ==
    /\ p \in C \cup {HeadBlock} /\ (p = HeadBlock \/ p < b) /\ hs[p].next >= b
    /\ hs1 \in [Aligned \cup {HeadBlock} -> HeaderOf]
    /\ \A a \in Aligned \cup {HeadBlock} : hs1[a].size = hs[a].size
    /\ \A a \in Aligned \cup {HeadBlock} : a # b => hs1[a].taken = hs[a].taken
    /\ hs1[b].taken = FALSE /\ hs1[p].next = b /\ hs1[b].next = hs[p].next
    /\ \A a \in Aligned \cup {HeadBlock} : a # b /\ a # p => hs1[a].next = hs[a].next

\* A block in use that is put on the list, between the nodes on its two sides.
LEMMA InsertedKept ==
    ASSUME NEW hs, NEW C, NEW G, Layout(hs, C, G), NEW b \in G, NEW p, NEW hs1,
           IsInserted(hs, C, p, b, hs1)
    PROVE  LET C1 == C \cup {b} IN
           /\ Layout(hs1, C1, G \ {b})
           /\ Apart(hs, C) =>
                \A x \in Touching(hs1, C1) : \/ x = p /\ p # HeadBlock /\ p + hs[p].size = b
                                             \/ x = b /\ b + hs[b].size = hs[p].next
           /\ FreeSpan(hs1, C1) = FreeSpan(hs, C) \cup (b .. b + hs[b].size - 1)
           /\ FreeSpan(hs, C) \cap (b .. b + hs[b].size - 1) = {}
<1> DEFINE C1 == C \cup {b}
           G1 == G \ {b}
           m == hs[p].next
<1>0. /\ p \in C \cup {HeadBlock} /\ (p = HeadBlock \/ p < b) /\ hs[p].next >= b
      /\ hs1 \in [Aligned \cup {HeadBlock} -> HeaderOf]
      /\ \A a \in Aligned \cup {HeadBlock} : hs1[a].size = hs[a].size
      /\ \A a \in Aligned \cup {HeadBlock} : a # b => hs1[a].taken = hs[a].taken
      /\ hs1[b].taken = FALSE /\ hs1[p].next = b /\ hs1[b].next = hs[p].next
      /\ \A a \in Aligned \cup {HeadBlock} : a # b /\ a # p => hs1[a].next = hs[a].next
  BY DEF IsInserted
<1> USE <1>0
<1>1. /\ \A x \in C \cup G : /\ x \in Nat /\ x \in Aligned /\ x # HeadBlock /\ x # HeapEnd /\ x < HeapEnd
                             /\ hs[x].size \in Nat /\ hs[x].size >= MinBlock /\ hs[x].size >= 1
                             /\ hs[x].size % Align = 0 /\ x + hs[x].size <= HeapEnd
      /\ \A x, y \in C \cup G : x < y => x + hs[x].size <= y
      /\ C \cap G = {}
  BY LayoutFacts
<1>2. /\ hs[HeadBlock].size = 0
      /\ \A x \in HeapStart .. HeapEnd - 1 : \E d \in C \cup G : d <= x /\ x < d + hs[d].size
      /\ \A x \in C : ~hs[x].taken
      /\ \A x \in G : hs[x].taken
      /\ NoForgery(hs, G)
  BY DEF Layout
<1>3. p # b /\ p \in Aligned \cup {HeadBlock} /\ b \in Aligned /\ b # HeadBlock /\ b \notin C
      /\ b \in Nat /\ b < HeapEnd /\ HeapEnd \in Nat /\ b \in C \cup G
  BY <1>1, HeapBounds
<1>4. m \in C \cup {HeapEnd} /\ m \in Nat /\ (p # HeadBlock => p < m)
      /\ \A d \in C : p = HeadBlock \/ p < d => m <= d
  BY NextOf
<1>5. m > b
  BY <1>3, <1>4
<1> HIDE DEF m
<1>6. C1 \cup G1 = C \cup G /\ C1 \cap G1 = {} /\ C1 \subseteq Aligned /\ G1 \subseteq Aligned
  BY <1>1
<1>7. \A x \in C \cup G : hs1[x].size = hs[x].size
  BY <1>1
<1>8. ASSUME NEW n \in C1 \cup {HeadBlock}
      PROVE  Follows(C1, n, hs1[n].next)
  <2>1. \A d \in C : d \in Nat /\ d # HeadBlock
    BY <1>1
  <2>2. CASE n = p
    <3>1. hs1[n].next = b /\ b \in C1
      BY <2>2
    <3>2. ASSUME NEW d \in C1, n = HeadBlock \/ n < d
          PROVE  b <= d
      <4>1. CASE d = b
        BY <1>3, <4>1
      <4>2. CASE d \in C
        BY <1>3, <1>4, <1>5, <2>1, <2>2, <3>2, <4>2
      <4> QED
        BY <4>1, <4>2
    <3> QED
      BY <2>2, <3>1, <3>2 DEF Follows
  <2>3. CASE n = b
    <3>1. hs1[n].next = m /\ m \in C1 \cup {HeapEnd} /\ b < m
      BY <1>4, <1>5, <2>3 DEF m
    <3>2. ASSUME NEW d \in C1, b < d
          PROVE  m <= d
      <4>1. d \in C /\ d \in Nat
        BY <1>3, <2>1, <3>2
      <4>2. p = HeadBlock \/ p < d
        BY <1>3, <2>1, <3>2, <4>1
      <4> QED
        BY <1>4, <4>1, <4>2
    <3> QED
      BY <1>3, <2>3, <3>1, <3>2 DEF Follows
  <2>4. CASE n # p /\ n # b
    <3>1. n \in C \cup {HeadBlock} /\ n \in Aligned \cup {HeadBlock} /\ hs1[n].next = hs[n].next
      BY <1>1, <2>4
    <3>2. /\ hs[n].next \in C \cup {HeapEnd} /\ (n # HeadBlock => n < hs[n].next) /\ hs[n].next \in Nat
          /\ \A d \in C : n = HeadBlock \/ n < d => hs[n].next <= d
      BY <3>1, NextOf
    <3>3. n = HeadBlock \/ n < b => hs[n].next <= b
      <4>1. ASSUME n = HeadBlock \/ n < b
            PROVE  hs[n].next <= b
        <5>1. CASE p = HeadBlock
          <6>1. n \in C /\ n \in Nat /\ m <= n
            BY <1>4, <2>1, <2>4, <3>1, <5>1
          <6>2. n < b
            BY <2>1, <4>1, <6>1
          <6> QED
            BY <1>3, <1>4, <1>5, <6>1, <6>2
        <5>2. CASE p # HeadBlock
          <6>1. p \in C /\ p \in Nat /\ p < b
            BY <2>1, <5>2
          <6>2. CASE n = HeadBlock
            <7>1. hs[n].next <= p
              BY <3>2, <6>1, <6>2
            <7> QED
              BY <1>3, <3>2, <6>1, <7>1
          <6>3. CASE n # HeadBlock
            <7>1. n \in C /\ n \in Nat /\ n < b
              BY <2>1, <3>1, <4>1, <6>3
            <7>2. ~(p < n)
              BY <1>3, <1>4, <1>5, <7>1
            <7>3. n < p
              BY <2>4, <6>1, <7>1, <7>2
            <7>4. hs[n].next <= p
              BY <3>2, <6>1, <7>3
            <7> QED
              BY <1>3, <3>2, <6>1, <7>4
          <6> QED
            BY <6>2, <6>3
        <5> QED
          BY <5>1, <5>2
      <4> QED
        BY <4>1
    <3> QED
      BY <3>1, <3>2, <3>3 DEF Follows
  <2> QED
    BY <2>2, <2>3, <2>4
<1>9. NoForgery(hs1, G1)
  <2>1. SUFFICES ASSUME NEW a \in Aligned \ G1, hs1[a].taken
                 PROVE  hs1[a].size < MinBlock \/ hs1[a].size > HeapEnd - a
    BY DEF NoForgery
  <2>2. a # b
    BY <2>1
  <2>3. a \in Aligned \ G /\ hs1[a].taken = hs[a].taken /\ hs1[a].size = hs[a].size
    BY <2>2
  <2> QED
    BY <1>2, <2>1, <2>3 DEF NoForgery
<1>10. Layout(hs1, C1, G1)
  <2>1. \A x \in C1 \cup G1 : /\ hs1[x].size >= MinBlock /\ hs1[x].size % Align = 0
                              /\ x + hs1[x].size <= HeapEnd
    BY <1>1, <1>6, <1>7
  <2>2. \A x, y \in C1 \cup G1 : x < y => x + hs1[x].size <= y
    BY <1>1, <1>6, <1>7
  <2>3. \A x \in HeapStart .. HeapEnd - 1 : \E d \in C1 \cup G1 : d <= x /\ x < d + hs1[d].size
    BY <1>2, <1>6, <1>7
  <2>4. (\A x \in C1 : ~hs1[x].taken) /\ (\A x \in G1 : hs1[x].taken)
    BY <1>1, <1>2
  <2>5. Threaded(hs1, C1) /\ hs1[HeadBlock].size = 0
    BY <1>2, <1>8 DEF Threaded
  <2> HIDE DEF C1, G1
  <2> QED
    BY <1>6, <1>9, <2>1, <2>2, <2>3, <2>4, <2>5 DEF Layout
<1>11. ASSUME Apart(hs, C), NEW x \in Touching(hs1, C1)
       PROVE  \/ x = p /\ p # HeadBlock /\ p + hs[p].size = b
              \/ x = b /\ b + hs[b].size = m
  <2>1. x \in C1 /\ x + hs[x].size \in C1 /\ x \in C \cup G
    BY <1>3, <1>7, <1>11 DEF Touching
  <2>2. CASE x = b
    <3> DEFINE d == b + hs[b].size
    <3>1. d \in C /\ d \in Nat /\ d > b
      BY <1>1, <1>3, <2>1, <2>2
    <3>2. p = HeadBlock \/ p < d
      <4>1. p # HeadBlock => p \in Nat /\ p < b
        BY <1>1
      <4> QED
        BY <1>3, <3>1, <4>1
    <3>3. m <= d
      BY <1>4, <3>1, <3>2
    <3>4. m \in C => d <= m
      BY <1>1, <1>3, <1>5
    <3>5. m = HeapEnd => FALSE
      BY <1>1, <1>3, <3>1, <3>3
    <3>6. m = d
      BY <1>4, <3>1, <3>3, <3>4, <3>5
    <3> QED
      BY <2>2, <3>6
  <2>3. CASE x # b
    <3>1. x \in C /\ x \in Nat /\ hs[x].size \in Nat /\ hs[x].size >= 1
      BY <1>1, <2>1, <2>3
    <3>2. x + hs[x].size = b /\ x < b
      BY <1>3, <1>11, <2>1, <3>1 DEF Apart
    <3>3. p # HeadBlock
      <4>1. p = HeadBlock => m <= x
        BY <1>4, <3>1
      <4> QED
        BY <1>3, <1>4, <1>5, <3>1, <3>2, <4>1
    <3>4. p \in C /\ p \in Nat /\ p < b
      BY <1>1, <3>3
    <3>5. ~(p < x)
      BY <1>3, <1>4, <1>5, <3>1, <3>2
    <3>6. ~(x < p)
      <4>1. x < p => x + hs[x].size <= p
        BY <1>1, <3>1, <3>4
      <4> QED
        BY <1>3, <3>2, <3>4, <4>1
    <3>7. x = p
      BY <3>1, <3>4, <3>5, <3>6
    <3> QED
      BY <3>2, <3>3, <3>7
  <2> QED
    BY <2>2, <2>3
<1>12. /\ FreeSpan(hs1, C1) = FreeSpan(hs, C) \cup (b .. b + hs1[b].size - 1)
       /\ FreeSpan(hs, C) \cap (b .. b + hs1[b].size - 1) = {}
  <2>1. C = C1 \ {b} /\ b \in C1 /\ \A a \in C1 : hs[a].size = hs1[a].size
    BY <1>3, <1>6, <1>7
  <2> HIDE DEF C1, G1
  <2> QED
    BY <1>10, <2>1, SpanWithout
<1>13. hs1[b].size = hs[b].size
  BY <1>3, <1>7
<1> QED
  BY <1>10, <1>11, <1>12, <1>13 DEF m

\* A header is what its fields are.
LEMMA HeaderIs ==
    ASSUME NEW q, NEW n, NEW s, NEW t, q.next = n, q.size = s, q.taken = t,
           DOMAIN q = {"next", "size", "taken"}, q = [field \in DOMAIN q |-> q[field]]
    PROVE  q = [next |-> n, size |-> s, taken |-> t]
  OBVIOUS

\* hs1 is the heap hs whose free block x has taken in the next one, y, which it touches.
IsJoined(hs, C, G, x, y, hs1) ==
    /\ x \in C /\ y \in C /\ hs[x].next = y /\ x + hs[x].size = y
    /\ hs1 \in [Aligned \cup {HeadBlock} -> HeaderOf]
    /\ hs1[x].size = hs[x].size + hs[y].size /\ hs1[x].next = hs[y].next
    /\ hs1[x].taken = FALSE /\ hs1[y].taken = FALSE
    /\ \A a \in C \cup G \cup {HeadBlock} : a # x /\ a # y => hs1[a] = hs[a]
    /\ \A a \in Aligned : a \notin C \cup G => hs1[a].taken = hs[a].taken /\ hs1[a].size = hs[a].size

\* A free block that takes in the next one, which it touches.
LEMMA JoinedKept ==
    ASSUME NEW hs, NEW C, NEW G, Layout(hs, C, G), NEW x, NEW y, NEW hs1,
           IsJoined(hs, C, G, x, y, hs1)
    PROVE  LET C1 == C \ {y} IN
           /\ Layout(hs1, C1, G)
           /\ \A c \in Touching(hs1, C1) : \/ c \in Touching(hs, C) /\ c # x
                                           \/ c = x /\ y \in Touching(hs, C)
           /\ FreeSpan(hs1, C1) = FreeSpan(hs, C)
<1> DEFINE C1 == C \ {y}
           m == hs[y].next
<1>0. /\ x \in C /\ y \in C /\ hs[x].next = y /\ x + hs[x].size = y
      /\ hs1 \in [Aligned \cup {HeadBlock} -> HeaderOf]
      /\ hs1[x].size = hs[x].size + hs[y].size /\ hs1[x].next = hs[y].next
      /\ hs1[x].taken = FALSE /\ hs1[y].taken = FALSE
      /\ \A a \in C \cup G \cup {HeadBlock} : a # x /\ a # y => hs1[a] = hs[a]
      /\ \A a \in Aligned : a \notin C \cup G => hs1[a].taken = hs[a].taken /\ hs1[a].size = hs[a].size
  BY DEF IsJoined
<1> USE <1>0
<1>1. /\ \A d \in C \cup G : /\ d \in Nat /\ d \in Aligned /\ d # HeadBlock /\ d # HeapEnd
                             /\ hs[d].size \in Nat /\ hs[d].size >= MinBlock /\ hs[d].size >= 1
                             /\ hs[d].size % Align = 0 /\ d + hs[d].size <= HeapEnd
      /\ \A d, e \in C \cup G : d < e => d + hs[d].size <= e
      /\ C \cap G = {}
  BY LayoutFacts
<1>2. /\ hs[HeadBlock].size = 0
      /\ \A z \in HeapStart .. HeapEnd - 1 : \E d \in C \cup G : d <= z /\ z < d + hs[d].size
      /\ \A d \in C : ~hs[d].taken
      /\ \A d \in G : hs[d].taken
      /\ NoForgery(hs, G)
  BY DEF Layout
<1>3. /\ x \in Nat /\ y \in Nat /\ hs[x].size \in Nat /\ hs[y].size \in Nat /\ hs[x].size >= MinBlock
      /\ hs[x].size >= 1 /\ hs[y].size >= 1 /\ y + hs[y].size <= HeapEnd
      /\ x < y /\ x # y /\ x # HeadBlock /\ y # HeadBlock /\ HeapEnd \in Nat /\ y # HeapEnd
      /\ MinBlock \in Nat /\ HeapStart \in Nat
  <2>1. HeapEnd \in Nat /\ MinBlock \in Nat /\ HeapStart \in Nat
    BY HeapBounds
  <2> QED
    BY <1>1, <2>1
<1>4. m \in C \cup {HeapEnd} /\ m \in Nat /\ y < m /\ \A d \in C : y < d => m <= d
  <2>1. y \in C \cup {HeadBlock}
    OBVIOUS
  <2> QED
    BY <1>3, <2>1, NextOf
<1>5. \A d \in C : x < d => y <= d
  <2>1. x \in C \cup {HeadBlock}
    OBVIOUS
  <2> QED
    BY <2>1, NextOf
<1> HIDE DEF m
<1>6. \A d \in C1 \cup G : d \in C \cup G /\ d # y /\ (d # x => hs1[d] = hs[d])
  BY <1>1
<1>7. hs1[x].size = hs[x].size + hs[y].size /\ x + hs1[x].size = y + hs[y].size /\ hs1[x].size \in Nat
  BY <1>3
<1>8. \A d \in C1 \cup G : /\ d \in Aligned /\ hs1[d].size >= MinBlock /\ hs1[d].size % Align = 0
                           /\ d + hs1[d].size <= HeapEnd
  <2>1. x \in Aligned /\ hs1[x].size >= MinBlock /\ x + hs1[x].size <= HeapEnd
    BY <1>1, <1>3, <1>7
  <2>2. hs1[x].size % Align = 0
    <3>1. hs[x].size \in Int /\ hs[y].size \in Int /\ hs[x].size % Align = 0 /\ hs[y].size % Align = 0
      BY <1>1
    <3>2. (hs[x].size + hs[y].size) % Align = 0
      BY <3>1, Multiples
    <3> QED
      BY <3>2
  <2> QED
    BY <1>1, <1>6, <2>1, <2>2
<1>9. \A d, e \in C1 \cup G : d < e => d + hs1[d].size <= e
  <2>1. SUFFICES ASSUME NEW d \in C1 \cup G, NEW e \in C1 \cup G, d < e
                 PROVE  d + hs1[d].size <= e
    OBVIOUS
  <2>2. d \in C \cup G /\ e \in C \cup G /\ e # y /\ d \in Nat /\ e \in Nat
    BY <1>1, <1>6
  <2>3. d + hs[d].size <= e
    BY <1>1, <2>1, <2>2
  <2>4. CASE d # x
    BY <1>6, <2>3, <2>4
  <2>5. CASE d = x
    <3>1. y < e
      BY <1>3, <2>2, <2>3, <2>5
    <3>2. y + hs[y].size <= e
      BY <1>1, <2>2, <3>1
    <3> QED
      BY <1>7, <2>5, <3>2
  <2> QED
    BY <2>4, <2>5
<1>10. ASSUME NEW z \in HeapStart .. HeapEnd - 1
       PROVE  Covers(hs1, x, z) <=> Covers(hs, x, z) \/ Covers(hs, y, z)
  <2>1. z \in Nat
    BY <1>3
  <2> QED
    BY <1>3, <1>7, <2>1 DEF Covers
<1>11. \A d \in C1 \cup G, z \in HeapStart .. HeapEnd - 1 : d # x => (Covers(hs1, d, z) <=> Covers(hs, d, z))
  BY <1>6 DEF Covers
<1>12. \A z \in HeapStart .. HeapEnd - 1 : \E d \in C1 \cup G : d <= z /\ z < d + hs1[d].size
  <2>1. SUFFICES ASSUME NEW z \in HeapStart .. HeapEnd - 1
                 PROVE  \E d \in C1 \cup G : Covers(hs1, d, z)
    BY DEF Covers
  <2>2. PICK d \in C \cup G : Covers(hs, d, z)
    BY <1>2 DEF Covers
  <2>3. CASE d = x \/ d = y
    <3>1. Covers(hs1, x, z) /\ x \in C1 \cup G
      BY <1>3, <1>10, <2>2, <2>3
    <3> QED
      BY <3>1
  <2>4. CASE d # x /\ d # y
    <3>1. Covers(hs1, d, z) /\ d \in C1 \cup G
      BY <1>11, <2>2, <2>4
    <3> QED
      BY <3>1
  <2> QED
    BY <2>3, <2>4
<1>13. ASSUME NEW n \in C1 \cup {HeadBlock}
       PROVE  Follows(C1, n, hs1[n].next)
  <2>1. \A d \in C : d \in Nat /\ d # HeadBlock
    BY <1>1
  <2>2. CASE n = x
    <3>1. hs1[n].next = m /\ m \in C1 \cup {HeapEnd} /\ x < m
      BY <1>3, <1>4, <2>2 DEF m
    <3>2. ASSUME NEW d \in C1, x < d
          PROVE  m <= d
      <4>1. y < d
        BY <1>3, <1>5, <2>1, <3>2
      <4> QED
        BY <1>4, <4>1
    <3> QED
      BY <1>3, <2>2, <3>1, <3>2 DEF Follows
  <2>3. CASE n # x
    <3>1. n \in C \cup {HeadBlock} /\ n # y /\ hs1[n].next = hs[n].next
      BY <1>3, <1>6, <2>3
    <3>2. /\ hs[n].next \in C \cup {HeapEnd} /\ (n # HeadBlock => n < hs[n].next)
          /\ \A d \in C : n = HeadBlock \/ n < d => hs[n].next <= d
      BY <3>1, NextOf
    <3>3. hs[n].next # y
      <4>1. x \in C \cup {HeadBlock}
        OBVIOUS
      <4> QED
        BY <2>3, <3>1, <4>1, OneBefore
    <3> QED
      BY <3>1, <3>2, <3>3 DEF Follows
  <2> QED
    BY <2>2, <2>3
<1>14. NoForgery(hs1, G)
  <2>1. SUFFICES ASSUME NEW a \in Aligned \ G, hs1[a].taken
                 PROVE  hs1[a].size < MinBlock \/ hs1[a].size > HeapEnd - a
    BY DEF NoForgery
  <2>2. a # x /\ a # y
    BY <2>1
  <2>3. a \in C => hs1[a] = hs[a]
    BY <2>2
  <2>4. hs1[a].taken = hs[a].taken /\ hs1[a].size = hs[a].size
    BY <2>3
  <2> QED
    BY <1>2, <2>1, <2>4 DEF NoForgery
<1>15. Layout(hs1, C1, G)
  <2>1. C1 \subseteq Aligned /\ G \subseteq Aligned /\ C1 \cap G = {}
    BY <1>1
  <2>2. \A d \in C1 : ~hs1[d].taken
    BY <1>2, <1>6
  <2>3. \A d \in G : hs1[d].taken
    <3>1. \A d \in G : d # x
      BY <1>1
    <3> QED
      BY <1>2, <1>6, <3>1
  <2>4. Threaded(hs1, C1) /\ hs1[HeadBlock].size = 0
    BY <1>2, <1>3, <1>13 DEF Threaded
  <2> HIDE DEF C1
  <2> QED
    BY <1>8, <1>9, <1>12, <1>14, <2>1, <2>2, <2>3, <2>4 DEF Layout
<1>16. ASSUME NEW c \in Touching(hs1, C1)
       PROVE  \/ c \in Touching(hs, C) /\ c # x
              \/ c = x /\ y \in Touching(hs, C)
  <2>1. c \in C1 /\ c + hs1[c].size \in C1
    BY <1>16 DEF Touching
  <2>2. CASE c = x
    BY <1>7, <2>1, <2>2 DEF Touching
  <2>3. CASE c # x
    BY <1>6, <2>1, <2>3 DEF Touching
  <2> QED
    BY <2>2, <2>3
<1>17. FreeSpan(hs1, C1) = FreeSpan(hs, C)
  <2>1. /\ FreeSpan(hs, C) = {z \in HeapStart .. HeapEnd - 1 : \E d \in C : Covers(hs, d, z)}
        /\ FreeSpan(hs1, C1) = {z \in HeapStart .. HeapEnd - 1 : \E d \in C1 : Covers(hs1, d, z)}
    BY <1>15, SpanIs
  <2>2. ASSUME NEW z \in HeapStart .. HeapEnd - 1
        PROVE  (\E d \in C1 : Covers(hs1, d, z)) <=> (\E d \in C : Covers(hs, d, z))
    <3>1. ASSUME NEW d \in C1, Covers(hs1, d, z)
          PROVE  \E e \in C : Covers(hs, e, z)
      BY <1>10, <1>11, <3>1
    <3>2. ASSUME NEW d \in C, Covers(hs, d, z)
          PROVE  \E e \in C1 : Covers(hs1, e, z)
      <4>1. CASE d = x \/ d = y
        <5>1. Covers(hs1, x, z) /\ x \in C1
          BY <1>3, <1>10, <3>2, <4>1
        <5> QED
          BY <5>1
      <4>2. CASE d # x /\ d # y
        <5>1. d \in C1 /\ Covers(hs1, d, z)
          BY <1>11, <3>2, <4>2
        <5> QED
          BY <5>1
      <4> QED
        BY <4>1, <4>2
    <3> QED
      BY <3>1, <3>2
  <2> HIDE DEF C1
  <2> QED
    BY <2>1, <2>2
<1> QED
  BY <1>15, <1>16, <1>17

\* The bytes that are free stay the same.
LEMMA JoinedSpan ==
    ASSUME NEW hs, NEW C, NEW G, Layout(hs, C, G), NEW x, NEW y, NEW hs1,
           IsJoined(hs, C, G, x, y, hs1), NEW C1, C1 = C \ {y}
    PROVE  \A z : z \in FreeSpan(hs1, C1) <=> z \in FreeSpan(hs, C)
<1>1. FreeSpan(hs1, C \ {y}) = FreeSpan(hs, C)
  BY JoinedKept
<1> QED
  BY <1>1

\* os_mem_block_insert, whichever sides of the block are free.
LEMMA BlockInsertedKept ==
    ASSUME end = HeapEnd, NEW hs, NEW C, NEW G, Layout(hs, C, G), Apart(hs, C), NEW b \in G
    PROVE  LET hs1 == BlockInserted([hs EXCEPT ![b].taken = FALSE], b) IN
           \E C1 : /\ Layout(hs1, C1, G \ {b}) /\ Apart(hs1, C1)
                   /\ \A a \in G \ {b} : hs1[a].size = hs[a].size
                   /\ FreeSpan(hs1, C1) = FreeSpan(hs, C) \cup (b .. b + hs[b].size - 1)
                   /\ FreeSpan(hs, C) \cap (b .. b + hs[b].size - 1) = {}
<1> DEFINE hs0 == [hs EXCEPT ![b].taken = FALSE]
           hs1 == BlockInserted(hs0, b)
           places == {a \in Aligned : a >= b}
           p == StopAfter(hs0, places)
           Cb == C \cup {b}
           Gb == G \ {b}
           Hd == Aligned \cup {HeadBlock}
           Good(C1) == /\ Layout(hs1, C1, Gb) /\ Apart(hs1, C1)
                       /\ \A a \in Gb : hs1[a].size = hs[a].size
                       /\ FreeSpan(hs1, C1) = FreeSpan(hs, C) \cup (b .. b + hs[b].size - 1)
                       /\ FreeSpan(hs, C) \cap (b .. b + hs[b].size - 1) = {}
<1>1. /\ \A d \in C \cup G : /\ d \in Nat /\ d \in Aligned /\ d # HeadBlock /\ d # HeapEnd /\ d < HeapEnd
                             /\ hs[d].size \in Nat /\ hs[d].size >= 1
      /\ C \cap G = {} /\ Blocks(C)
      /\ hs \in [Hd -> HeaderOf]
      /\ \A a \in Hd : hs[a] \in HeaderOf
  BY LayoutFacts
<1>2. /\ \A d \in C : ~hs[d].taken
      /\ hs[HeadBlock].size = 0 /\ Threaded(hs, C)
  BY DEF Layout
<1>3. /\ b \in Nat /\ b \in Aligned /\ b # HeadBlock /\ b \notin C /\ b < HeapEnd /\ hs[b].size \in Nat
      /\ HeapEnd \in Aligned /\ HeapEnd \in Nat /\ HeadBlock > HeapEnd /\ HeadBlock \in Nat
      /\ hs[b].size >= 1 /\ b \in Hd
  BY <1>1, AlignedIs, HeapBounds
<1>4. \A a \in Hd : /\ hs[a] = [next |-> hs[a].next, size |-> hs[a].size, taken |-> hs[a].taken]
                    /\ hs[a].next \in {Null} \cup Aligned /\ hs[a].size \in Nat /\ hs[a].taken \in BOOLEAN
  BY <1>1 DEF HeaderOf
<1>5. /\ DOMAIN hs0 = Hd
      /\ \A a \in Hd : a # b => hs0[a] = hs[a]
      /\ hs0[b] = [next |-> hs[b].next, size |-> hs[b].size, taken |-> FALSE]
  <2>1. DOMAIN hs0 = Hd /\ (\A a \in Hd : a # b => hs0[a] = hs[a]) /\ hs0[b] = [hs[b] EXCEPT !.taken = FALSE]
    BY <1>1, <1>3
  <2>2. hs[b] = [next |-> hs[b].next, size |-> hs[b].size, taken |-> hs[b].taken]
    BY <1>3, <1>4
  <2> HIDE DEF hs0
  <2> QED
    BY <2>1, <2>2
<1> HIDE DEF hs0
<1>6. \A a \in Hd : hs0[a].size = hs[a].size /\ hs0[a].next = hs[a].next
  BY <1>5
<1>7. Threaded(hs0, C)
  <2>1. \A n \in C \cup {HeadBlock} : n \in Hd
    BY <1>1
  <2> HIDE DEF Hd
  <2> QED
    BY <1>2, <1>6, <2>1 DEF Threaded
<1>8. /\ p \in C \cup {HeadBlock} /\ hs0[p].next \in places
      /\ \A c \in C : p # HeadBlock /\ c <= p => c \notin places
  <2>1. HeapEnd \in places
    BY <1>3
  <2> HIDE DEF places
  <2> QED
    BY <1>1, <1>7, <2>1, StopsAt
<1> DEFINE after == hs[p].next
<1>9. /\ p \in Hd /\ p # b /\ hs0[p] = hs[p] /\ hs0[p].next = after /\ after \in Aligned /\ after >= b
      /\ hs[p].next >= b
  BY <1>1, <1>3, <1>5, <1>8
<1>10. p = HeadBlock \/ p < b
  <2>1. p # HeadBlock => p \notin places /\ p \in Aligned /\ p \in Nat
    BY <1>1, <1>8
  <2> QED
    BY <1>3, <2>1
<1> DEFINE before == p + hs[p].size = b
           top == IF before THEN p ELSE b
           size == IF before THEN hs[p].size + hs[b].size ELSE hs[b].size
           merges == top + size = after /\ after # HeapEnd
<1>11. hs1 = [a \in Hd |->
               IF a = top THEN [hs0[top] EXCEPT !.size = IF merges THEN size + hs[after].size ELSE size,
                                                !.next = IF merges THEN hs[after].next ELSE after]
               ELSE IF a = p THEN [hs0[a] EXCEPT !.next = top] ELSE hs0[a]]
  <2>1. hs0[b].size = hs[b].size /\ hs0[p].size = hs[p].size /\ hs0[p].next = after
    BY <1>3, <1>6, <1>9
  <2>2. merges => after \in Hd /\ after # b
    <3>1. merges => after # b
      <4>1. CASE before
        <5>1. p # HeadBlock
          BY <1>2, <1>3, <4>1
        <5>2. p \in Nat /\ hs[p].size \in Nat /\ p + hs[p].size = b
          BY <1>1, <1>8, <4>1, <5>1
        <5> QED
          BY <1>3, <4>1, <5>2
      <4>2. CASE ~before
        BY <1>3, <4>2
      <4> QED
        BY <4>1, <4>2
    <3> QED
      BY <1>9, <3>1
  <2>3. merges => hs0[after].size = hs[after].size /\ hs0[after].next = hs[after].next
    <3>1. merges => after \in Hd
      BY <2>2
    <3> QED
      BY <1>6, <3>1
  <2> QED
    BY <1>5, <2>1, <2>3 DEF BlockInserted, Joins
<1> HIDE DEF p, places, hs1
<1>12. hs0[p] = [next |-> hs[p].next, size |-> hs[p].size, taken |-> hs[p].taken]
  BY <1>4, <1>9
<1>13. after \in C \cup {HeapEnd} /\ after \in Nat /\ after # b /\ after > b /\ after # p
  <2>1. after \in C \cup {HeapEnd} /\ after \in Nat
    BY <1>8, NextOf
  <2>2. after # HeadBlock
    BY <1>9, AlignedIs
  <2>3. after # b
    BY <1>3, <2>1
  <2> QED
    BY <1>3, <1>9, <1>10, <2>1, <2>2, <2>3
<1>14. p # HeadBlock => p \in C /\ p \in Nat /\ hs[p].size \in Nat /\ hs[p].taken = FALSE /\ p < b
  <2>1. p # HeadBlock => p \in C
    BY <1>8
  <2>2. p # HeadBlock => hs[p].taken \in BOOLEAN /\ ~hs[p].taken
    BY <1>2, <1>4, <1>9, <2>1
  <2> QED
    BY <1>1, <1>10, <2>1, <2>2
<1>15. before => p # HeadBlock
  BY <1>2, <1>3
<1>16. PICK hsI : hsI = [a \in Hd |->
              IF a = b THEN [next |-> after, size |-> hs[b].size, taken |-> FALSE]
              ELSE IF a = p THEN [next |-> b, size |-> hs[p].size, taken |-> hs[p].taken]
              ELSE hs[a]]
  OBVIOUS
<1>17. /\ hsI \in [Hd -> HeaderOf]
       /\ hsI[b] = [next |-> after, size |-> hs[b].size, taken |-> FALSE]
       /\ hsI[p] = [next |-> b, size |-> hs[p].size, taken |-> hs[p].taken]
       /\ \A a \in Hd : a # b /\ a # p => hsI[a] = hs[a]
  <2>1. hs[p].size \in Nat /\ hs[p].taken \in BOOLEAN
    BY <1>4, <1>9
  <2>2. /\ [next |-> after, size |-> hs[b].size, taken |-> FALSE] \in HeaderOf
        /\ [next |-> b, size |-> hs[p].size, taken |-> hs[p].taken] \in HeaderOf
    BY <1>3, <1>9, <2>1 DEF HeaderOf
  <2> HIDE DEF after
  <2> QED
    BY <1>1, <1>3, <1>9, <1>16, <2>2
<1> HIDE DEF before, after
<1>18. /\ \A a \in Hd : hsI[a].size = hs[a].size
       /\ \A a \in Hd : a # b => hsI[a].taken = hs[a].taken
       /\ hsI[b].taken = FALSE /\ hsI[p].next = b /\ hsI[b].next = after
       /\ \A a \in Hd : a # b /\ a # p => hsI[a].next = hs[a].next
  BY <1>3, <1>9, <1>17
<1>19. /\ Layout(hsI, Cb, Gb)
       /\ \A x \in Touching(hsI, Cb) : \/ x = p /\ before
                                       \/ x = b /\ b + hs[b].size = after
       /\ FreeSpan(hsI, Cb) = FreeSpan(hs, C) \cup (b .. b + hs[b].size - 1)
       /\ FreeSpan(hs, C) \cap (b .. b + hs[b].size - 1) = {}
  <2>1. hsI[b].next = hs[p].next
    BY <1>18 DEF after
  <2>2. /\ Layout(hsI, Cb, Gb)
        /\ Apart(hs, C) =>
             \A x \in Touching(hsI, Cb) : \/ x = p /\ p # HeadBlock /\ p + hs[p].size = b
                                          \/ x = b /\ b + hs[b].size = hs[p].next
        /\ FreeSpan(hsI, Cb) = FreeSpan(hs, C) \cup (b .. b + hs[b].size - 1)
        /\ FreeSpan(hs, C) \cap (b .. b + hs[b].size - 1) = {}
    <3>1. IsInserted(hs, C, p, b, hsI)
      BY <1>8, <1>9, <1>10, <1>17, <1>18, <2>1 DEF IsInserted
    <3> QED
      BY <3>1, InsertedKept
  <2> QED
    BY <2>2 DEF before, after
<1>20. \A a \in Gb : a # p /\ a # b /\ a # after /\ a \in Hd
  BY <1>1, <1>8, <1>13
<1>21. CASE ~before /\ ~merges
  <2>1. top = b /\ size = hs[b].size
    BY <1>21
  <2>2. hs1 = hsI
    <3>1. ASSUME NEW a \in Hd
          PROVE  hs1[a] = hsI[a]
      <4>1. CASE a = b
        <5>1. hs1[a] = [hs0[b] EXCEPT !.size = hs[b].size, !.next = after]
          BY <1>3, <1>11, <1>21, <2>1, <4>1
        <5>2. hs1[a] = [next |-> after, size |-> hs[b].size, taken |-> FALSE]
          <6>1. /\ hs1[a].next = after /\ hs1[a].size = hs[b].size /\ hs1[a].taken = FALSE
                /\ DOMAIN hs1[a] = {"next", "size", "taken"}
            BY <1>5, <5>1
          <6>2. hs1[a] = [field \in DOMAIN hs1[a] |-> hs1[a][field]]
            BY <5>1
          <6> QED
            BY <6>1, <6>2, HeaderIs
        <5> QED
          BY <1>17, <4>1, <5>2
      <4>2. CASE a = p
        <5>1. hs1[a] = [hs0[p] EXCEPT !.next = b]
          BY <1>9, <1>11, <2>1, <4>2
        <5>2. hs1[a] = [next |-> b, size |-> hs[p].size, taken |-> hs[p].taken]
          BY <1>12, <5>1, SMTT(60)
        <5> QED
          BY <1>17, <4>2, <5>2
      <4>3. CASE a # b /\ a # p
        BY <1>5, <1>11, <1>17, <2>1, <4>3
      <4> QED
        BY <4>1, <4>2, <4>3
    <3>2. hs1 = [a \in Hd |-> hs1[a]] /\ hsI = [a \in Hd |-> hsI[a]]
      BY <1>11, <1>17
    <3> HIDE DEF Hd
    <3> QED
      BY <3>1, <3>2
  <2>3. Apart(hsI, Cb)
    <3>1. ASSUME NEW x \in Touching(hsI, Cb)
          PROVE  FALSE
      <4>1. x = b /\ b + hs[b].size = after
        BY <1>19, <1>21
      <4>2. after \in Cb
        BY <1>3, <1>18, <3>1, <4>1 DEF Touching
      <4>3. after # HeapEnd
        BY <1>1, <1>3, <4>2
      <4> QED
        BY <1>21, <2>1, <4>1, <4>3
    <3> QED
      BY <3>1 DEF Touching, Apart
  <2>4. Good(Cb)
    BY <1>18, <1>19, <1>20, <2>2, <2>3
  <2> HIDE DEF Good
  <2>5. \E C1 : Good(C1)
    BY <2>4
  <2> QED
    BY <2>5 DEF Good, hs1, hs0
<1>22. CASE before /\ ~merges
  <2>1. top = p /\ size = hs[p].size + hs[b].size /\ p # HeadBlock
    BY <1>15, <1>22
  <2>2. hs1[p] = [next |-> after, size |-> size, taken |-> FALSE]
    <3>1. hs1[p] = [hs0[p] EXCEPT !.size = size, !.next = after]
      BY <1>9, <1>11, <1>22, <2>1
    <3>2. hs0[p] = [next |-> hs[p].next, size |-> hs[p].size, taken |-> FALSE]
      BY <1>12, <1>14, <2>1
    <3> HIDE DEF size
    <3>3. /\ hs1[p].next = after /\ hs1[p].size = size /\ hs1[p].taken = FALSE
          /\ DOMAIN hs1[p] = {"next", "size", "taken"}
      BY <3>1, <3>2
    <3>4. hs1[p] = [field \in DOMAIN hs1[p] |-> hs1[p][field]]
      BY <3>1
    <3> QED
      BY <3>3, <3>4, HeaderIs
  <2>3. \A a \in Hd : a # p => hs1[a] = hs0[a]
    BY <1>11, <2>1
  <2>4. hs1 \in [Hd -> HeaderOf]
    <3>1. size \in Nat /\ [next |-> after, size |-> size, taken |-> FALSE] \in HeaderOf
      BY <1>1, <1>3, <1>9, <1>14, <2>1 DEF HeaderOf
    <3>2. \A a \in Hd : hs0[a] \in HeaderOf
      <4>1. hs0[b] \in HeaderOf
        <5>1. hs[b].next \in {Null} \cup Aligned /\ hs[b].size \in Nat
          BY <1>3, <1>4
        <5> HIDE DEF Hd
        <5> QED
          BY <1>5, <5>1 DEF HeaderOf
      <4> HIDE DEF Hd
      <4> QED
        BY <1>1, <1>5, <4>1
    <3>3. hs1 = [a \in Hd |-> hs1[a]]
      BY <1>11
    <3> HIDE DEF size, Hd
    <3> QED
      BY <2>2, <2>3, <3>1, <3>2, <3>3
  <2>5. /\ p \in Cb /\ b \in Cb /\ hsI[p].next = b /\ p + hsI[p].size = b
        /\ hs1[p].size = hsI[p].size + hsI[b].size /\ hs1[p].next = hsI[b].next
        /\ hs1[p].taken = FALSE /\ hs1[b].taken = FALSE
    <3>1. hs1[b].taken = FALSE
      BY <1>3, <1>5, <1>9, <2>3
    <3>2. p + hs[p].size = b
      BY <1>22 DEF before
    <3> QED
      BY <1>14, <1>17, <2>1, <2>2, <3>1, <3>2
  <2>6. \A a \in Cb \cup Gb \cup {HeadBlock} : a # p /\ a # b => hs1[a] = hsI[a]
    <3>1. \A a \in Cb \cup Gb \cup {HeadBlock} : a \in Hd
      BY <1>1, <1>3
    <3> HIDE DEF Hd
    <3> QED
      BY <1>5, <1>17, <2>3, <3>1
  <2>7. \A a \in Aligned : a \notin Cb \cup Gb => hs1[a].taken = hsI[a].taken /\ hs1[a].size = hsI[a].size
    <3>1. \A a \in Aligned : a \notin Cb \cup Gb => a \in Hd /\ a # p /\ a # b
      BY <1>14, <2>1
    <3> HIDE DEF Hd
    <3> QED
      BY <1>5, <1>17, <2>3, <3>1
  <2>8. /\ Layout(hs1, Cb \ {b}, Gb)
        /\ \A c \in Touching(hs1, Cb \ {b}) : \/ c \in Touching(hsI, Cb) /\ c # p
                                              \/ c = p /\ b \in Touching(hsI, Cb)
        /\ FreeSpan(hs1, Cb \ {b}) = FreeSpan(hsI, Cb)
    <3>1. IsJoined(hsI, Cb, Gb, p, b, hs1)
      BY <2>4, <2>5, <2>6, <2>7 DEF IsJoined
    <3>2. Layout(hsI, Cb, Gb)
      BY <1>19
    <3> HIDE DEF Cb, Gb
    <3>3. Layout(hs1, Cb \ {b}, Gb)
      BY <3>1, <3>2, JoinedKept
    <3>4. FreeSpan(hs1, Cb \ {b}) = FreeSpan(hsI, Cb)
      <4>1. PICK S : S = FreeSpan(hs1, Cb \ {b})
        OBVIOUS
      <4>2. PICK T : T = FreeSpan(hsI, Cb)
        OBVIOUS
      <4>3. \A z : z \in S <=> z \in T
        BY <3>1, <3>2, <4>1, <4>2, JoinedSpan
      <4>4. S = T
        BY <4>3
      <4> QED
        BY <4>1, <4>2, <4>4
    <3>5. \A c \in Touching(hs1, Cb \ {b}) : (c \in Touching(hsI, Cb) /\ c # p)
                                                 \/ (c = p /\ b \in Touching(hsI, Cb))
      BY <3>1, <3>2, JoinedKept
    <3> QED
      BY <3>3, <3>4, <3>5
  <2>9. Cb \ {b} = C
    BY <1>3
  <2>10. b \notin Touching(hsI, Cb)
    <3>1. ASSUME b \in Touching(hsI, Cb)
          PROVE  FALSE
      <4>1. b + hs[b].size = after /\ after \in Cb
        BY <1>3, <1>9, <1>18, <1>19, <3>1 DEF Touching
      <4>2. after # HeapEnd
        BY <1>1, <1>3, <4>1
      <4>3. p + size = after
        <5>1. p + hs[p].size = b
          BY <1>22 DEF before
        <5> QED
          BY <1>3, <1>14, <2>1, <4>1, <5>1
      <4> QED
        BY <1>22, <2>1, <4>2, <4>3
    <3> QED
      BY <3>1
  <2>11. Apart(hs1, C)
    <3>1. ASSUME NEW c \in Touching(hs1, C)
          PROVE  FALSE
      <4>1. c \in C /\ c # b
        BY <1>3, <3>1 DEF Touching
      <4> QED
        BY <1>19, <2>8, <2>9, <2>10, <3>1, <4>1
    <3> QED
      BY <3>1 DEF Touching, Apart
  <2>12. \A a \in Gb : hs1[a].size = hs[a].size
    BY <1>6, <1>20, <2>3
  <2>13. Good(C)
    BY <1>19, <2>8, <2>9, <2>11, <2>12
  <2> HIDE DEF Good
  <2>14. \E C1 : Good(C1)
    BY <2>13
  <2> QED
    BY <2>14 DEF Good, hs1, hs0
<1>23. CASE ~before /\ merges
  <2>1. top = b /\ size = hs[b].size /\ b + hs[b].size = after /\ after # HeapEnd /\ after \in C
    BY <1>13, <1>23
  <2>2. hs1[b] = [next |-> hs[after].next, size |-> hs[b].size + hs[after].size, taken |-> FALSE]
    <3>1. hs1[b] = [hs0[b] EXCEPT !.size = hs[b].size + hs[after].size, !.next = hs[after].next]
      BY <1>3, <1>11, <1>23, <2>1
    <3>3. /\ hs1[b].next = hs[after].next /\ hs1[b].size = hs[b].size + hs[after].size /\ hs1[b].taken = FALSE
          /\ DOMAIN hs1[b] = {"next", "size", "taken"}
      BY <1>5, <3>1
    <3>4. hs1[b] = [field \in DOMAIN hs1[b] |-> hs1[b][field]]
      BY <3>1
    <3> QED
      BY <3>3, <3>4, HeaderIs
  <2>3. hs1[p] = hsI[p]
    <3>1. hs1[p] = [hs0[p] EXCEPT !.next = b]
      BY <1>9, <1>11, <2>1
    <3> QED
      BY <1>12, <1>17, <3>1, SMTT(60)
  <2>4. \A a \in Hd : a # b => hs1[a] = hsI[a]
    BY <1>5, <1>11, <1>17, <2>1, <2>3
  <2>5. hs1 \in [Hd -> HeaderOf]
    <3>1. hs[after].next \in {Null} \cup Aligned /\ hs[b].size + hs[after].size \in Nat
      <4>1. after \in Hd
        BY <1>9
      <4> HIDE DEF Hd
      <4>2. hs[after].next \in {Null} \cup Aligned /\ hs[after].size \in Nat
        BY <1>4, <4>1
      <4> QED
        BY <1>3, <4>2
    <3>2. [next |-> hs[after].next, size |-> hs[b].size + hs[after].size, taken |-> FALSE] \in HeaderOf
      BY <3>1 DEF HeaderOf
    <3>3. hs1 = [a \in Hd |-> hs1[a]]
      BY <1>11
    <3> HIDE DEF Hd
    <3> QED
      BY <1>17, <2>2, <2>4, <3>2, <3>3
  <2>6. /\ b \in Cb /\ after \in Cb /\ hsI[b].next = after /\ b + hsI[b].size = after
        /\ hs1[b].size = hsI[b].size + hsI[after].size /\ hs1[b].next = hsI[after].next
        /\ hs1[b].taken = FALSE /\ hs1[after].taken = FALSE
    <3>1. hsI[after] = hs[after] /\ hs1[after] = hs[after] /\ hs[after].taken = FALSE
      <4>1. hs[after].taken \in BOOLEAN /\ ~hs[after].taken /\ after \in Hd
        BY <1>2, <1>4, <1>9, <2>1
      <4> QED
        BY <1>13, <1>17, <2>4, <4>1
    <3> QED
      BY <1>17, <2>1, <2>2, <3>1
  <2>7. \A a \in Cb \cup Gb \cup {HeadBlock} : a # b /\ a # after => hs1[a] = hsI[a]
    <3>1. \A a \in Cb \cup Gb \cup {HeadBlock} : a \in Hd
      BY <1>1, <1>3
    <3> HIDE DEF Hd
    <3> QED
      BY <2>4, <3>1
  <2>8. \A a \in Aligned : a \notin Cb \cup Gb => hs1[a].taken = hsI[a].taken /\ hs1[a].size = hsI[a].size
    BY <2>4
  <2>9. /\ Layout(hs1, Cb \ {after}, Gb)
        /\ \A c \in Touching(hs1, Cb \ {after}) : \/ c \in Touching(hsI, Cb) /\ c # b
                                                  \/ c = b /\ after \in Touching(hsI, Cb)
        /\ FreeSpan(hs1, Cb \ {after}) = FreeSpan(hsI, Cb)
    <3>1. IsJoined(hsI, Cb, Gb, b, after, hs1)
      BY <2>5, <2>6, <2>7, <2>8 DEF IsJoined
    <3>2. Layout(hsI, Cb, Gb)
      BY <1>19
    <3> HIDE DEF Cb, Gb
    <3>3. Layout(hs1, Cb \ {after}, Gb)
      BY <3>1, <3>2, JoinedKept
    <3>4. FreeSpan(hs1, Cb \ {after}) = FreeSpan(hsI, Cb)
      <4>1. PICK S : S = FreeSpan(hs1, Cb \ {after})
        OBVIOUS
      <4>2. PICK T : T = FreeSpan(hsI, Cb)
        OBVIOUS
      <4>3. \A z : z \in S <=> z \in T
        BY <3>1, <3>2, <4>1, <4>2, JoinedSpan
      <4>4. S = T
        BY <4>3
      <4> QED
        BY <4>1, <4>2, <4>4
    <3>5. \A c \in Touching(hs1, Cb \ {after}) : (c \in Touching(hsI, Cb) /\ c # b)
                                                 \/ (c = b /\ after \in Touching(hsI, Cb))
      BY <3>1, <3>2, JoinedKept
    <3> QED
      BY <3>3, <3>4, <3>5
  <2>10. Apart(hs1, Cb \ {after})
    <3>1. ASSUME NEW c \in Touching(hs1, Cb \ {after})
          PROVE  FALSE
      BY <1>13, <1>19, <1>23, <2>9, <3>1
    <3> QED
      BY <3>1 DEF Touching, Apart
  <2>11. \A a \in Gb : hs1[a].size = hs[a].size
    BY <1>18, <1>20, <2>4
  <2>12. Good(Cb \ {after})
    BY <1>19, <2>9, <2>10, <2>11
  <2> HIDE DEF Good
  <2>13. \E C1 : Good(C1)
    BY <2>12
  <2> QED
    BY <2>13 DEF Good, hs1, hs0
<1>24. CASE before /\ merges
  <2>1. /\ top = p /\ size = hs[p].size + hs[b].size /\ p # HeadBlock
        /\ p + size = after /\ after # HeapEnd /\ after \in C /\ p \in C
    BY <1>13, <1>14, <1>15, <1>24
  <2>2. PICK hsJ : hsJ = [a \in Hd |-> IF a = p THEN [next |-> after, size |-> size, taken |-> FALSE]
                                       ELSE hsI[a]]
    OBVIOUS
  <2>3. /\ hsJ[p] = [next |-> after, size |-> size, taken |-> FALSE]
        /\ \A a \in Hd : a # p => hsJ[a] = hsI[a]
    BY <1>9, <2>2
  <2>4. hsJ \in [Hd -> HeaderOf]
    <3>1. size \in Nat /\ [next |-> after, size |-> size, taken |-> FALSE] \in HeaderOf
      BY <1>1, <1>3, <1>9, <1>14, <2>1 DEF HeaderOf
    <3> HIDE DEF size, Hd
    <3> QED
      BY <1>17, <2>2, <3>1
  <2>5. /\ p \in Cb /\ b \in Cb /\ hsI[p].next = b /\ p + hsI[p].size = b
        /\ hsJ[p].size = hsI[p].size + hsI[b].size /\ hsJ[p].next = hsI[b].next
        /\ hsJ[p].taken = FALSE /\ hsJ[b].taken = FALSE
    <3>1. hsJ[b].taken = FALSE
      BY <1>3, <1>9, <1>18, <2>3
    <3>2. p + hs[p].size = b
      BY <1>24 DEF before
    <3> QED
      BY <1>14, <1>17, <2>1, <2>3, <3>1, <3>2
  <2>6. \A a \in Cb \cup Gb \cup {HeadBlock} : a # p /\ a # b => hsJ[a] = hsI[a]
    <3>1. \A a \in Cb \cup Gb \cup {HeadBlock} : a \in Hd
      BY <1>1, <1>3
    <3> HIDE DEF Hd
    <3> QED
      BY <2>3, <3>1
  <2>7. \A a \in Aligned : a \notin Cb \cup Gb => hsJ[a].taken = hsI[a].taken /\ hsJ[a].size = hsI[a].size
    <3>1. \A a \in Aligned : a \notin Cb \cup Gb => a \in Hd /\ a # p
      BY <1>14, <2>1
    <3> HIDE DEF Hd
    <3> QED
      BY <2>3, <3>1
  <2>8. /\ Layout(hsJ, Cb \ {b}, Gb)
        /\ \A c \in Touching(hsJ, Cb \ {b}) : \/ c \in Touching(hsI, Cb) /\ c # p
                                              \/ c = p /\ b \in Touching(hsI, Cb)
        /\ FreeSpan(hsJ, Cb \ {b}) = FreeSpan(hsI, Cb)
    <3>1. IsJoined(hsI, Cb, Gb, p, b, hsJ)
      BY <2>4, <2>5, <2>6, <2>7 DEF IsJoined
    <3>2. Layout(hsI, Cb, Gb)
      BY <1>19
    <3> HIDE DEF Cb, Gb
    <3>3. Layout(hsJ, Cb \ {b}, Gb)
      BY <3>1, <3>2, JoinedKept
    <3>4. FreeSpan(hsJ, Cb \ {b}) = FreeSpan(hsI, Cb)
      <4>1. PICK S : S = FreeSpan(hsJ, Cb \ {b})
        OBVIOUS
      <4>2. PICK T : T = FreeSpan(hsI, Cb)
        OBVIOUS
      <4>3. \A z : z \in S <=> z \in T
        BY <3>1, <3>2, <4>1, <4>2, JoinedSpan
      <4>4. S = T
        BY <4>3
      <4> QED
        BY <4>1, <4>2, <4>4
    <3>5. \A c \in Touching(hsJ, Cb \ {b}) : (c \in Touching(hsI, Cb) /\ c # p)
                                                 \/ (c = p /\ b \in Touching(hsI, Cb))
      BY <3>1, <3>2, JoinedKept
    <3> QED
      BY <3>3, <3>4, <3>5
  <2>9. Cb \ {b} = C
    BY <1>3
  <2>10. Layout(hsJ, C, Gb) /\ FreeSpan(hsJ, C) = FreeSpan(hsI, Cb)
    BY <2>8, <2>9
  <2>11. \A c \in Touching(hsJ, C) : c = p
    <3>1. SUFFICES ASSUME NEW c \in Touching(hsJ, C)
                   PROVE  c = p
      OBVIOUS
    <3>2. c # b
      BY <1>3 DEF Touching
    <3> QED
      BY <1>19, <2>8, <2>9, <3>2
  <2>12. hs1[p] = [next |-> hs[after].next, size |-> size + hs[after].size, taken |-> FALSE]
    <3>1. hs1[p] = [hs0[p] EXCEPT !.size = size + hs[after].size, !.next = hs[after].next]
      BY <1>9, <1>11, <1>24, <2>1
    <3>2. hs0[p] = [next |-> hs[p].next, size |-> hs[p].size, taken |-> FALSE]
      BY <1>12, <1>14, <2>1
    <3> HIDE DEF size
    <3>3. /\ hs1[p].next = hs[after].next /\ hs1[p].size = size + hs[after].size /\ hs1[p].taken = FALSE
          /\ DOMAIN hs1[p] = {"next", "size", "taken"}
      BY <3>1, <3>2
    <3>4. hs1[p] = [field \in DOMAIN hs1[p] |-> hs1[p][field]]
      BY <3>1
    <3> QED
      BY <3>3, <3>4, HeaderIs
  <2>13. \A a \in Hd : a # p => hs1[a] = hs0[a]
    BY <1>11, <2>1
  <2>14. hs1 \in [Hd -> HeaderOf]
    <3>1. hs[after].next \in {Null} \cup Aligned /\ size + hs[after].size \in Nat
      <4>1. after \in Hd
        BY <1>9
      <4> HIDE DEF Hd
      <4>2. hs[after].next \in {Null} \cup Aligned /\ hs[after].size \in Nat
        BY <1>4, <4>1
      <4> QED
        BY <1>3, <1>14, <2>1, <4>2
    <3>2. [next |-> hs[after].next, size |-> size + hs[after].size, taken |-> FALSE] \in HeaderOf
      BY <3>1 DEF HeaderOf
    <3>3. \A a \in Hd : hs0[a] \in HeaderOf
      <4>1. hs0[b] \in HeaderOf
        <5>1. hs[b].next \in {Null} \cup Aligned /\ hs[b].size \in Nat
          BY <1>3, <1>4
        <5> HIDE DEF Hd
        <5> QED
          BY <1>5, <5>1 DEF HeaderOf
      <4> HIDE DEF Hd
      <4> QED
        BY <1>1, <1>5, <4>1
    <3>4. hs1 = [a \in Hd |-> hs1[a]]
      BY <1>11
    <3> HIDE DEF size, Hd
    <3> QED
      BY <2>12, <2>13, <3>2, <3>3, <3>4
  <2>15. hsJ[after] = hs[after] /\ hs1[after] = hs[after] /\ hs[after].taken = FALSE
    <3>1. hs[after].taken \in BOOLEAN /\ ~hs[after].taken /\ after \in Hd
      BY <1>2, <1>4, <1>9, <2>1
    <3> QED
      BY <1>5, <1>13, <1>17, <2>3, <2>13, <3>1
  <2>16. /\ hsJ[p].next = after /\ p + hsJ[p].size = after
         /\ hs1[p].size = hsJ[p].size + hsJ[after].size /\ hs1[p].next = hsJ[after].next
         /\ hs1[p].taken = FALSE /\ hs1[after].taken = FALSE
    BY <2>1, <2>3, <2>12, <2>15
  <2>17. \A a \in C \cup Gb \cup {HeadBlock} : a # p /\ a # after => hs1[a] = hsJ[a]
    <3>1. \A a \in C \cup Gb \cup {HeadBlock} : a \in Hd /\ a # b
      BY <1>1, <1>3
    <3> HIDE DEF Hd
    <3> QED
      BY <1>5, <1>17, <2>3, <2>13, <3>1
  <2>18. \A a \in Aligned : a \notin C \cup Gb => hs1[a].taken = hsJ[a].taken /\ hs1[a].size = hsJ[a].size
    <3>1. \A a \in Aligned : a \notin C \cup Gb => a \in Hd /\ a # p
      BY <2>1
    <3>2. hs1[b].taken = hsJ[b].taken /\ hs1[b].size = hsJ[b].size
      <4>1. hs1[b] = hs0[b] /\ hsJ[b] = hsI[b]
        BY <1>3, <1>9, <2>3, <2>13
      <4> QED
        BY <1>5, <1>17, <4>1
    <3> HIDE DEF Hd
    <3>3. \A a \in Hd : a # p /\ a # b => hs1[a] = hsJ[a]
      BY <1>5, <1>17, <2>3, <2>13
    <3> QED
      BY <3>1, <3>2, <3>3
  <2>19. /\ Layout(hs1, C \ {after}, Gb)
         /\ \A c \in Touching(hs1, C \ {after}) : \/ c \in Touching(hsJ, C) /\ c # p
                                                  \/ c = p /\ after \in Touching(hsJ, C)
         /\ FreeSpan(hs1, C \ {after}) = FreeSpan(hsJ, C)
    <3>1. IsJoined(hsJ, C, Gb, p, after, hs1)
      BY <2>1, <2>14, <2>16, <2>17, <2>18 DEF IsJoined
    <3>2. Layout(hsJ, C, Gb)
      BY <2>10
    <3> HIDE DEF Cb, Gb
    <3>3. Layout(hs1, C \ {after}, Gb)
      BY <3>1, <3>2, JoinedKept
    <3>4. FreeSpan(hs1, C \ {after}) = FreeSpan(hsJ, C)
      <4>1. PICK S : S = FreeSpan(hs1, C \ {after})
        OBVIOUS
      <4>2. PICK T : T = FreeSpan(hsJ, C)
        OBVIOUS
      <4>3. \A z : z \in S <=> z \in T
        BY <3>1, <3>2, <4>1, <4>2, JoinedSpan
      <4>4. S = T
        BY <4>3
      <4> QED
        BY <4>1, <4>2, <4>4
    <3>5. \A c \in Touching(hs1, C \ {after}) : (c \in Touching(hsJ, C) /\ c # p)
                                                 \/ (c = p /\ after \in Touching(hsJ, C))
      BY <3>1, <3>2, JoinedKept
    <3> QED
      BY <3>3, <3>4, <3>5
  <2>20. Apart(hs1, C \ {after})
    <3>1. ASSUME NEW c \in Touching(hs1, C \ {after})
          PROVE  FALSE
      BY <1>13, <2>11, <2>19, <3>1
    <3> QED
      BY <3>1 DEF Touching, Apart
  <2>21. \A a \in Gb : hs1[a].size = hs[a].size
    BY <1>6, <1>20, <2>13
  <2>22. Good(C \ {after})
    BY <1>19, <2>10, <2>19, <2>20, <2>21
  <2> HIDE DEF Good
  <2>23. \E C1 : Good(C1)
    BY <2>22
  <2> QED
    BY <2>23 DEF Good, hs1, hs0
<1> QED
  BY <1>21, <1>22, <1>23, <1>24

-----------------------------------------------------------------------------
(* The steps of the heap.                                                  *)

\* A heap as it should be: its headers, its free blocks, what the callers hold,
\* the free total and the lowest it has been.
Sound(hs, C, owned, free, low) ==
    /\ Layout(hs, C, DOMAIN owned) /\ Apart(hs, C)
    /\ \A b \in DOMAIN owned : hs[b].size >= HeaderSize + owned[b]
    /\ free = Cardinality(FreeSpan(hs, C))
    /\ low \in Nat /\ low <= free

\* The invariant, in terms of a sound heap.
LEMMA SoundIs ==
    HeapIInv <=> /\ end \in {Null, HeapEnd} /\ (end = Null => HeapInit)
                 /\ Sound(Headers, ChainOf(Headers), granted, FreeNow, MinFreeNow)
  BY DEF HeapIInv, Sound

\* After a step the heap is sound when it is for some list.
LEMMA SoundThen ==
    ASSUME end' = HeapEnd, NEW C, Sound(headerAt', C, granted', freeBytes', minFreeBytes')
    PROVE  HeapIInv'
<1>1. Layout(headerAt', C, DOMAIN granted')
  BY DEF Sound
<1>2. Blocks(C) /\ Threaded(headerAt', C)
  BY <1>1, LayoutFacts DEF Layout
<1>3. ChainOf(headerAt') = C
  BY <1>2, ChainIs
<1>4. end' # Null /\ Headers' = headerAt' /\ FreeNow' = freeBytes' /\ MinFreeNow' = minFreeBytes'
  BY AlignedIs DEF Headers, FreeNow, MinFreeNow, FreshHeap
<1>5. Sound(Headers', ChainOf(Headers'), granted', FreeNow', MinFreeNow')
  BY <1>3, <1>4
<1>6. (HeapIInv)' <=> /\ end' \in {Null, HeapEnd} /\ (end' = Null => HeapInit')
                      /\ Sound(Headers', ChainOf(Headers'), granted', FreeNow', MinFreeNow')
  BY DEF HeapIInv, Sound
<1> QED
  BY <1>4, <1>5, <1>6

\* What the invariant says of the list a call finds.
LEMMA SoundFacts ==
    ASSUME HeapIInv
    PROVE  LET C == ChainOf(Headers) IN
           /\ Sound(Headers, C, granted, FreeNow, MinFreeNow)
           /\ Layout(Headers, C, DOMAIN granted) /\ Apart(Headers, C)
           /\ Blocks(C) /\ Threaded(Headers, C)
           /\ FreeSpan(Headers, C) \subseteq HeapStart .. HeapEnd - 1
           /\ FreeNow \in Nat /\ FreeNow <= HeapBytes /\ MinFreeNow \in Nat /\ MinFreeNow <= FreeNow
           /\ FreeNow = Cardinality(FreeSpan(Headers, C))
<1> DEFINE C == ChainOf(Headers)
<1>1. Sound(Headers, C, granted, FreeNow, MinFreeNow)
  BY SoundIs
<1>2. /\ Layout(Headers, C, DOMAIN granted) /\ Apart(Headers, C)
      /\ FreeNow = Cardinality(FreeSpan(Headers, C)) /\ MinFreeNow \in Nat /\ MinFreeNow <= FreeNow
  BY <1>1 DEF Sound
<1>3. Blocks(C) /\ Threaded(Headers, C)
  BY <1>2, LayoutFacts DEF Layout
<1>4. FreeSpan(Headers, C) \subseteq HeapStart .. HeapEnd - 1
  BY <1>2, SpanIs
<1>5. FreeNow \in Nat /\ FreeNow <= HeapBytes
  <2>1. HeapStart \in Nat /\ HeapEnd \in Nat /\ HeapBytes \in Nat /\ HeapEnd <= HeapStart + HeapBytes
        /\ HeapStart <= HeapEnd
    BY HeapBounds, HeapSizes, AlignedIs
  <2>2. HeapStart \in Int /\ HeapEnd - 1 \in Int
    BY <2>1
  <2>3. /\ IsFiniteSet(HeapStart .. HeapEnd - 1)
        /\ Cardinality(HeapStart .. HeapEnd - 1) = IF HeapStart > HeapEnd - 1 THEN 0
                                                   ELSE (HeapEnd - 1) - HeapStart + 1
    BY <2>2, FS_Interval
  <2>4. /\ IsFiniteSet(FreeSpan(Headers, C))
        /\ Cardinality(FreeSpan(Headers, C)) <= Cardinality(HeapStart .. HeapEnd - 1)
    BY <1>4, <2>3, FS_Subset
  <2>5. Cardinality(FreeSpan(Headers, C)) \in Nat
    BY <2>4, FS_CardinalityType
  <2>6. Cardinality(HeapStart .. HeapEnd - 1) <= HeapBytes
    BY <2>1, <2>3
  <2>7. Cardinality(HeapStart .. HeapEnd - 1) \in Nat
    BY <2>3, FS_CardinalityType
  <2> QED
    BY <1>2, <2>1, <2>4, <2>5, <2>6, <2>7
<1> QED
  BY <1>1, <1>2, <1>3, <1>4, <1>5

\* A step that leaves the heap alone keeps the invariant.
LEMMA HeapStutter ==
    ASSUME HeapIInv, UNCHANGED heapVars
    PROVE  HeapIInv'
<1>1. /\ headerAt' = headerAt /\ end' = end /\ freeBytes' = freeBytes
      /\ minFreeBytes' = minFreeBytes /\ granted' = granted
  BY DEF heapVars, heapCells
<1>2. Headers' = Headers /\ FreeNow' = FreeNow /\ MinFreeNow' = MinFreeNow /\ HeapInit' = HeapInit
  BY <1>1 DEF Headers, FreeNow, MinFreeNow, FreshHeap, HeapInit
<1>3. (HeapIInv)' <=> /\ end' \in {Null, HeapEnd} /\ (end' = Null => HeapInit')
                      /\ Sound(Headers', ChainOf(Headers'), granted', FreeNow', MinFreeNow')
  BY DEF HeapIInv, Sound
<1> QED
  BY <1>1, <1>2, <1>3, SoundIs

\* A call that only looks leaves the heap it found.
LEMMA LookedAt ==
    ASSUME HeapIInv, headerAt' = Headers, end' = HeapEnd, freeBytes' = FreeNow,
           minFreeBytes' = MinFreeNow, granted' = granted
    PROVE  HeapIInv'
<1>1. Sound(Headers, ChainOf(Headers), granted, FreeNow, MinFreeNow)
  BY SoundFacts
<1>2. Sound(headerAt', ChainOf(Headers), granted', freeBytes', minFreeBytes')
  BY <1>1
<1> QED
  BY <1>2, SoundThen

\* Either way a block is carved, its bytes are in use.
LEMMA CarvedTaken ==
    ASSUME NEW hs, NEW C, NEW G, Layout(hs, C, G), Apart(hs, C), NEW b \in C,
           NEW p \in C \cup {HeadBlock}, hs[p].next = b,
           NEW need \in Nat, need % Align = 0, need >= MinBlock, hs[b].size >= need
    PROVE  \E C1, n : IsTaken(hs, C, G, b, n, Carved(hs, p, b, need), C1) /\ n >= need
<1> DEFINE hs1 == Carved(hs, p, b, need)
<1>1. hs[b].size \in Nat
  BY LayoutFacts
<1>2. CASE hs[b].size - need >= MinBlock
  <2>1. IsTaken(hs, C, G, b, need, hs1, (C \ {b}) \cup {b + need})
    BY <1>2, SplitKept
  <2> HIDE DEF hs1
  <2> QED
    BY <2>1 DEF hs1
<1>3. CASE ~(hs[b].size - need >= MinBlock)
  <2>1. IsTaken(hs, C, G, b, hs[b].size, hs1, C \ {b})
    BY <1>3, TakenKept
  <2> HIDE DEF hs1
  <2> QED
    BY <2>1 DEF hs1
<1> QED
  BY <1>2, <1>3

\* One block is taken from a sound heap.
LEMMA SoundWithout ==
    ASSUME NEW hs, NEW C, NEW owned, NEW free, NEW low, Sound(hs, C, owned, free, low),
           NEW b, NEW n, NEW hs1, NEW C1, IsTaken(hs, C, DOMAIN owned, b, n, hs1, C1),
           NEW asked \in Nat, n >= HeaderSize + asked
    PROVE  Sound(hs1, C1, [a \in DOMAIN owned \cup {b} |-> IF a = b THEN asked ELSE owned[a]],
                 free - n, Min({low, free - n}))
<1> DEFINE owned1 == [a \in DOMAIN owned \cup {b} |-> IF a = b THEN asked ELSE owned[a]]
<1>0. /\ b \in C /\ Layout(hs1, C1, DOMAIN owned \cup {b}) /\ Apart(hs1, C1)
      /\ \A a \in DOMAIN owned : hs1[a].size = hs[a].size
      /\ n \in Nat /\ hs1[b].size = n
      /\ FreeSpan(hs, C) = FreeSpan(hs1, C1) \cup (b .. b + n - 1)
      /\ FreeSpan(hs1, C1) \cap (b .. b + n - 1) = {}
  BY DEF IsTaken
<1>1. /\ Layout(hs, C, DOMAIN owned)
      /\ \A a \in DOMAIN owned : hs[a].size >= HeaderSize + owned[a]
      /\ free = Cardinality(FreeSpan(hs, C)) /\ low \in Nat /\ low <= free
  BY DEF Sound
<1>2. b \in Nat
  BY <1>0, <1>1, LayoutFacts
<1>3. FreeSpan(hs1, C1) \subseteq HeapStart .. HeapEnd - 1
  BY <1>0, SpanIs
<1>4. /\ Cardinality(FreeSpan(hs1, C1)) \in Nat
      /\ Cardinality(FreeSpan(hs, C)) = Cardinality(FreeSpan(hs1, C1)) + n
  <2>1. PICK S : S = FreeSpan(hs1, C1)
    OBVIOUS
  <2>2. PICK T : T = FreeSpan(hs, C)
    OBVIOUS
  <2>3. S \in SUBSET (HeapStart .. HeapEnd - 1) /\ T = S \cup (b .. b + n - 1)
        /\ S \cap (b .. b + n - 1) = {}
    BY <1>0, <1>3, <2>1, <2>2
  <2>4. n \in Nat
    BY <1>0
  <2>5. Cardinality(S) \in Nat /\ Cardinality(S \cup (b .. b + n - 1)) = Cardinality(S) + n
    BY <1>2, <2>3, <2>4, SpanGrows
  <2> QED
    BY <2>1, <2>2, <2>3, <2>5
<1>5. free - n = Cardinality(FreeSpan(hs1, C1)) /\ free - n \in Nat
  BY <1>0, <1>1, <1>4
<1>6. Min({low, free - n}) \in Nat /\ Min({low, free - n}) <= free - n
  BY <1>1, <1>5, MinOfTwo
<1>7. DOMAIN owned1 = DOMAIN owned \cup {b} /\ b \notin DOMAIN owned
  BY <1>0, <1>1, LayoutFacts
<1>8. \A a \in DOMAIN owned1 : hs1[a].size >= HeaderSize + owned1[a]
  BY <1>0, <1>1, <1>7
<1> HIDE DEF owned1
<1>9. Sound(hs1, C1, owned1, free - n, Min({low, free - n}))
  BY <1>0, <1>5, <1>6, <1>7, <1>8 DEF Sound
<1> QED
  BY <1>9 DEF owned1

\* os_mem_alloc keeps the heap sound.
LEMMA AllocKept ==
    ASSUME HeapIInv, NEW size \in Requests, Alloc(size)
    PROVE  HeapIInv'
<1>1. CASE ~Sensible(size)
  BY <1>1, HeapStutter DEF Alloc
<1>2. CASE Sensible(size)
  <2> DEFINE C == ChainOf(Headers)
             need == Need(size)
             fits == {b \in Aligned : b = HeapEnd \/ Headers[b].size >= need}
             prev == StopAfter(Headers, fits)
             b == Headers[prev].next
             hs == Carved(Headers, prev, b, need)
             owned == [a \in DOMAIN granted \cup {b} |-> IF a = b THEN size ELSE granted[a]]
  <2>1. /\ end' = HeapEnd
        /\ b = HeapEnd => /\ headerAt' = Headers /\ freeBytes' = FreeNow
                          /\ minFreeBytes' = MinFreeNow /\ granted' = granted
        /\ b # HeapEnd => /\ headerAt' = hs /\ freeBytes' = FreeNow - hs[b].size
                          /\ minFreeBytes' = Min({MinFreeNow, FreeNow - hs[b].size})
                          /\ granted' = owned
    BY <1>2 DEF Alloc
  <2>2. /\ Sound(Headers, C, granted, FreeNow, MinFreeNow)
        /\ Layout(Headers, C, DOMAIN granted) /\ Apart(Headers, C)
        /\ Blocks(C) /\ Threaded(Headers, C)
    BY SoundFacts
  <2>3. /\ need \in Nat /\ need % Align = 0 /\ need >= MinBlock /\ need >= HeaderSize + size
        /\ size \in Nat
    BY <1>2, Needed
  <2> HIDE DEF need
  <2>4. prev \in C \cup {HeadBlock} /\ b \in fits
    <3>1. HeapEnd \in fits
      BY AlignedIs
    <3> HIDE DEF fits, C
    <3> QED
      BY <2>2, <3>1, StopsAt
  <2> HIDE DEF prev, C
  <2>5. b \in C \cup {HeapEnd}
    BY <2>2, <2>4, NextOf
  <2>6. CASE b = HeapEnd
    BY <2>1, <2>6, LookedAt
  <2>7. CASE b # HeapEnd
    <3>1. b \in C /\ Headers[b].size >= need /\ Headers[b].size \in Nat /\ MinBlock \in Nat
      <4>1. b \in C /\ Headers[b].size >= need
        BY <2>4, <2>5, <2>7
      <4> QED
        BY <2>2, <4>1, LayoutFacts, HeapBounds
    <3>2. \E C1, n : IsTaken(Headers, C, DOMAIN granted, b, n, hs, C1) /\ n >= HeaderSize + size
      <4>1. PICK B : B = b
        OBVIOUS
      <4>2. B \in C /\ Headers[prev].next = B /\ Headers[B].size >= need
        BY <3>1, <4>1
      <4>3. hs = Carved(Headers, prev, B, need)
        BY <4>1
      <4> HIDE DEF b, hs
      <4>4. PICK C1, n : IsTaken(Headers, C, DOMAIN granted, B, n, Carved(Headers, prev, B, need), C1)
                         /\ n >= need
        BY <2>2, <2>3, <2>4, <4>2, CarvedTaken
      <4>5. n \in Nat
        BY <4>4 DEF IsTaken
      <4>6. n >= HeaderSize + size
        BY <2>3, <4>4, <4>5, HeapSizes
      <4> QED
        BY <4>1, <4>3, <4>4, <4>6
    <3> HIDE DEF hs, b
    <3>3. PICK C1, n : IsTaken(Headers, C, DOMAIN granted, b, n, hs, C1) /\ n >= HeaderSize + size
      BY <3>2
    <3>4. Sound(hs, C1, owned, FreeNow - n, Min({MinFreeNow, FreeNow - n}))
      BY <2>2, <2>3, <3>3, SoundWithout
    <3>6. hs[b].size = n
      BY <3>3 DEF IsTaken
    <3>5. Sound(headerAt', C1, granted', freeBytes', minFreeBytes')
      BY <2>1, <2>7, <3>4, <3>6
    <3> QED
      BY <2>1, <3>5, SoundThen
  <2> QED
    BY <2>6, <2>7
<1> QED
  BY <1>1, <1>2

\* What os_mem_free accepts is a block that is in use.
LEMMA Accepted ==
    ASSUME HeapIInv, end # Null, NEW memory \in HeapBase .. HeapBase + HeapBytes - 1,
           memory >= HeapBase + HeaderSize, (memory - HeaderSize) % Align = 0,
           headerAt[memory - HeaderSize].taken, Plausible(memory - HeaderSize)
    PROVE  memory - HeaderSize \in DOMAIN granted
<1> DEFINE b == memory - HeaderSize
<1>1. end = HeapEnd /\ Headers = headerAt
  BY SoundIs DEF Headers, FreshHeap
<1>2. NoForgery(headerAt, DOMAIN granted)
  BY <1>1, SoundFacts DEF Layout
<1>3. /\ HeapBase \in Nat /\ HeapBytes \in Nat /\ HeaderSize \in Nat /\ HeapStart \in Nat /\ HeapEnd \in Nat
      /\ HeapStart < HeapBase + Align /\ Align \in Nat /\ HeapStart % Align = 0 /\ MinBlock \in Nat
  BY HeapSizes, HeapBounds
<1>4. memory \in Nat /\ b \in Nat /\ b >= HeapBase
  BY <1>3
<1>5. headerAt[b].size >= MinBlock /\ b <= HeapEnd /\ headerAt[b].size <= HeapEnd - b /\ b % Align = 0
      /\ headerAt[b].taken
  BY <1>1 DEF Plausible
<1> HIDE DEF b
<1>6. b >= HeapStart
  <2>1. SUFFICES ASSUME b < HeapStart
                 PROVE  FALSE
    BY <1>3, <1>4
  <2> DEFINE hole == HeapStart - b
  <2>2. hole \in Nat /\ hole >= 1 /\ hole < Align
    BY <1>3, <1>4, <2>1
  <2>3. hole % Align = 0
    <3>1. HeapStart \in Int /\ b \in Int /\ HeapStart % Align = 0 /\ b % Align = 0
      BY <1>3, <1>4, <1>5
    <3>2. (HeapStart - b) % Align = 0
      BY <3>1, Multiples
    <3> QED
      BY <3>2
  <2> HIDE DEF hole
  <2>4. hole >= Align
    BY <2>2, <2>3, LeastMultiple
  <2> QED
    BY <1>3, <2>2, <2>4
<1>7. b \in Aligned
  BY <1>4, <1>5, <1>6, AlignedIs
<1>8. headerAt[b].size \in Nat
  <2>1. Layout(headerAt, ChainOf(headerAt), DOMAIN granted)
    BY <1>1, SoundFacts
  <2> QED
    BY <1>7, <2>1, LayoutFacts
<1>9. ~(headerAt[b].size < MinBlock \/ headerAt[b].size > HeapEnd - b)
  BY <1>3, <1>4, <1>5, <1>8
<1>10. b \in DOMAIN granted
  BY <1>2, <1>5, <1>7, <1>9 DEF NoForgery
<1> QED
  BY <1>10 DEF b

\* One block is given back to a sound heap.
LEMMA SoundWith ==
    ASSUME NEW hs, NEW C, NEW owned, NEW free, NEW low, Sound(hs, C, owned, free, low),
           NEW b \in DOMAIN owned, NEW hs1, NEW C1,
           Layout(hs1, C1, DOMAIN owned \ {b}), Apart(hs1, C1),
           \A a \in DOMAIN owned \ {b} : hs1[a].size = hs[a].size,
           FreeSpan(hs1, C1) = FreeSpan(hs, C) \cup (b .. b + hs[b].size - 1),
           FreeSpan(hs, C) \cap (b .. b + hs[b].size - 1) = {}
    PROVE  Sound(hs1, C1, [a \in DOMAIN owned \ {b} |-> owned[a]], free + hs[b].size, low)
<1> DEFINE owned1 == [a \in DOMAIN owned \ {b} |-> owned[a]]
           n == hs[b].size
<1>1. /\ Layout(hs, C, DOMAIN owned)
      /\ \A a \in DOMAIN owned : hs[a].size >= HeaderSize + owned[a]
      /\ free = Cardinality(FreeSpan(hs, C)) /\ low \in Nat /\ low <= free
  BY DEF Sound
<1>2. b \in Nat /\ n \in Nat
  BY <1>1, LayoutFacts
<1>3. FreeSpan(hs, C) \subseteq HeapStart .. HeapEnd - 1
  BY <1>1, SpanIs
<1> HIDE DEF n
<1>4. Cardinality(FreeSpan(hs, C)) \in Nat /\ Cardinality(FreeSpan(hs1, C1)) = Cardinality(FreeSpan(hs, C)) + n
  <2>1. PICK S : S = FreeSpan(hs, C)
    OBVIOUS
  <2>2. PICK T : T = FreeSpan(hs1, C1)
    OBVIOUS
  <2>3. S \in SUBSET (HeapStart .. HeapEnd - 1) /\ T = S \cup (b .. b + n - 1)
        /\ S \cap (b .. b + n - 1) = {}
    BY <1>3, <2>1, <2>2 DEF n
  <2>4. Cardinality(S) \in Nat /\ Cardinality(S \cup (b .. b + n - 1)) = Cardinality(S) + n
    BY <1>2, <2>3, SpanGrows
  <2> QED
    BY <2>1, <2>2, <2>3, <2>4
<1>5. free + n = Cardinality(FreeSpan(hs1, C1)) /\ low <= free + n
  BY <1>1, <1>2, <1>4
<1>6. DOMAIN owned1 = DOMAIN owned \ {b} /\ \A a \in DOMAIN owned1 : hs1[a].size >= HeaderSize + owned1[a]
  BY <1>1
<1> HIDE DEF owned1
<1>7. Sound(hs1, C1, owned1, free + n, low)
  BY <1>1, <1>5, <1>6 DEF Sound
<1> QED
  BY <1>7 DEF owned1, n

\* os_mem_free keeps the heap sound, whatever the pointer.
LEMMA FreeBlockKept ==
    ASSUME HeapIInv, NEW memory \in HeapBase .. HeapBase + HeapBytes - 1, FreeBlock(memory)
    PROVE  HeapIInv'
<1> DEFINE b == memory - HeaderSize
           accepts == end # Null /\ b % Align = 0 /\ headerAt[b].taken /\ headerAt[b].next = Null
                      /\ Plausible(b)
           hs1 == BlockInserted([headerAt EXCEPT ![b].taken = FALSE], b)
           owned == [a \in DOMAIN granted \ {b} |-> granted[a]]
           C == ChainOf(headerAt)
<1>1. CASE ~accepts
  BY <1>1, HeapStutter DEF FreeBlock
<1>2. CASE accepts
  <2>1. /\ headerAt' = hs1 /\ freeBytes' = freeBytes + headerAt[b].size /\ granted' = owned
        /\ end' = end /\ minFreeBytes' = minFreeBytes
    BY <1>2 DEF FreeBlock
  <2>2. end = HeapEnd /\ Headers = headerAt /\ FreeNow = freeBytes /\ MinFreeNow = minFreeBytes
    BY <1>2, SoundIs DEF Headers, FreshHeap, FreeNow, MinFreeNow
  <2>3. b \in DOMAIN granted
    <3>1. memory >= HeapBase + HeaderSize
      BY DEF FreeBlock
    <3> QED
      BY <1>2, <3>1, Accepted
  <2>4. /\ Sound(headerAt, C, granted, freeBytes, minFreeBytes)
        /\ Layout(headerAt, C, DOMAIN granted) /\ Apart(headerAt, C)
    BY <2>2, SoundFacts
  <2> HIDE DEF b, C
  <2>5. PICK C1 : /\ Layout(hs1, C1, DOMAIN granted \ {b}) /\ Apart(hs1, C1)
                  /\ \A a \in DOMAIN granted \ {b} : hs1[a].size = headerAt[a].size
                  /\ FreeSpan(hs1, C1) = FreeSpan(headerAt, C) \cup (b .. b + headerAt[b].size - 1)
                  /\ FreeSpan(headerAt, C) \cap (b .. b + headerAt[b].size - 1) = {}
    BY <2>2, <2>3, <2>4, BlockInsertedKept
  <2> HIDE DEF hs1
  <2>6. Sound(hs1, C1, owned, freeBytes + headerAt[b].size, minFreeBytes)
    BY <2>3, <2>4, <2>5, SoundWith
  <2>7. Sound(headerAt', C1, granted', freeBytes', minFreeBytes') /\ end' = HeapEnd
    BY <2>1, <2>2, <2>6
  <2> QED
    BY <2>7, SoundThen
<1> QED
  BY <1>1, <1>2

\* What holders write into their memory keeps the heap sound.
LEMMA WriteKept ==
    ASSUME HeapIInv, NEW a \in Aligned \ {HeapEnd}, NEW size \in {Align, HeapBytes}, Write(a, size)
    PROVE  HeapIInv'
<1> DEFINE C == ChainOf(headerAt)
           G == DOMAIN granted
           new == [next |-> Null, size |-> size, taken |-> TRUE]
           hs1 == [headerAt EXCEPT ![a] = new]
<1>1. PICK b \in G : b + HeaderSize <= a /\ a < b + headerAt[b].size
  BY DEF Write
<1>2. /\ size < MinBlock \/ size > HeapEnd - a
      /\ headerAt' = hs1 /\ end' = end /\ freeBytes' = freeBytes
      /\ minFreeBytes' = minFreeBytes /\ granted' = granted
  BY DEF Write
<1>3. end # Null
  <2>1. HeapInit => G = {}
    BY DEF HeapInit
  <2> QED
    BY <1>1, <2>1, SoundIs
<1>4. end = HeapEnd /\ Headers = headerAt /\ FreeNow = freeBytes /\ MinFreeNow = minFreeBytes
  BY <1>3, SoundIs DEF Headers, FreshHeap, FreeNow, MinFreeNow
<1>5. Sound(headerAt, C, granted, freeBytes, minFreeBytes) /\ Layout(headerAt, C, G) /\ Apart(headerAt, C)
  BY <1>4, SoundFacts
<1>6. /\ \A x \in C \cup G : x \in Nat /\ x \in Aligned /\ x # HeadBlock /\ headerAt[x].size \in Nat
      /\ \A x, y \in C \cup G : x < y => x + headerAt[x].size <= y
      /\ headerAt \in [Aligned \cup {HeadBlock} -> HeaderOf]
  <2> HIDE DEF C, G
  <2>1. \A x \in C \cup G : x \in Nat /\ x \in Aligned /\ x # HeadBlock /\ headerAt[x].size \in Nat
    BY <1>5, LayoutFacts
  <2>2. \A x, y \in C \cup G : x < y => x + headerAt[x].size <= y
    BY <1>5, LayoutFacts
  <2>3. headerAt \in [Aligned \cup {HeadBlock} -> HeaderOf]
    BY <1>5 DEF Layout
  <2> QED
    BY <2>1, <2>2, <2>3
<1>7. a \notin C \cup G /\ a # HeadBlock /\ a \in Aligned
  <2>1. a \in Nat /\ a # HeadBlock
    BY AlignedIs
  <2>2. ASSUME a \in C \cup G
        PROVE  FALSE
    <3>1. b < a
      BY <1>1, <1>6, <2>1, HeapSizes
    <3>2. b + headerAt[b].size <= a
      BY <1>6, <2>2, <3>1
    <3> QED
      BY <1>1, <1>6, <2>1, <3>2
  <2> QED
    BY <2>1, <2>2
<1>8. new \in HeaderOf
  <2>1. size \in Nat
    BY HeapSizes
  <2> QED
    BY <2>1 DEF HeaderOf
<1> HIDE DEF new
<1>9. /\ hs1 \in [Aligned \cup {HeadBlock} -> HeaderOf]
      /\ \A x \in Aligned \cup {HeadBlock} : x # a => hs1[x] = headerAt[x]
      /\ hs1[a] = new
  BY <1>6, <1>7, <1>8
<1> HIDE DEF hs1, C
<1>10. \A x \in C \cup G \cup {HeadBlock} : hs1[x] = headerAt[x]
  BY <1>6, <1>7, <1>9
<1>11. Layout(hs1, C, G)
  <2>1. /\ headerAt[HeadBlock].size = 0
        /\ C \subseteq Aligned /\ G \subseteq Aligned /\ C \cap G = {}
        /\ \A x \in C \cup G : /\ headerAt[x].size >= MinBlock /\ headerAt[x].size % Align = 0
                              /\ x + headerAt[x].size <= HeapEnd
        /\ \A x \in HeapStart .. HeapEnd - 1 : \E d \in C \cup G : d <= x /\ x < d + headerAt[d].size
        /\ \A x \in C : ~headerAt[x].taken
        /\ \A x \in G : headerAt[x].taken
        /\ Threaded(headerAt, C) /\ NoForgery(headerAt, G)
    BY <1>5 DEF Layout
  <2>2. Threaded(hs1, C)
    BY <1>10, <2>1 DEF Threaded
  <2>3. NoForgery(hs1, G)
    <3>1. SUFFICES ASSUME NEW x \in Aligned \ G, hs1[x].taken
                   PROVE  hs1[x].size < MinBlock \/ hs1[x].size > HeapEnd - x
      BY DEF NoForgery
    <3>2. CASE x = a
      BY <1>2, <1>9, <3>2 DEF new
    <3>3. CASE x # a
      BY <1>9, <2>1, <3>1, <3>3 DEF NoForgery
    <3> QED
      BY <3>2, <3>3
  <2>4. /\ \A x \in C \cup G : /\ hs1[x].size >= MinBlock /\ hs1[x].size % Align = 0
                              /\ x + hs1[x].size <= HeapEnd
        /\ \A x, y \in C \cup G : x < y => x + hs1[x].size <= y
        /\ \A x \in C : ~hs1[x].taken
        /\ \A x \in G : hs1[x].taken
        /\ hs1[HeadBlock].size = 0
    BY <1>6, <1>10, <2>1
  <2>5. \A x \in HeapStart .. HeapEnd - 1 : \E d \in C \cup G : d <= x /\ x < d + hs1[d].size
    BY <1>10, <2>1
  <2> HIDE DEF G
  <2> QED
    BY <1>9, <2>1, <2>2, <2>3, <2>4, <2>5 DEF Layout
<1>12. Apart(hs1, C)
  BY <1>5, <1>10 DEF Apart
<1>13. FreeSpan(hs1, C) = FreeSpan(headerAt, C)
  BY <1>10 DEF FreeSpan
<1>14. Sound(hs1, C, granted, freeBytes, minFreeBytes)
  BY <1>5, <1>10, <1>11, <1>12, <1>13 DEF Sound
<1>15. Sound(headerAt', C, granted', freeBytes', minFreeBytes') /\ end' = HeapEnd
  BY <1>2, <1>4, <1>14
<1> QED
  BY <1>15, SoundThen

\* The heap that the first call makes is one free block.
LEMMA HeapInitHolds == HeapInit => HeapIInv
<1> SUFFICES ASSUME HeapInit
             PROVE  HeapIInv
  OBVIOUS
<1> DEFINE hs == Headers
           C == {HeapStart}
           size == HeapEnd - HeapStart
           none == [next |-> Null, size |-> 0, taken |-> FALSE]
<1>1. /\ end = Null /\ granted = [a \in {} |-> 0]
      /\ headerAt = [a \in Aligned \cup {HeadBlock} |-> none]
  BY DEF HeapInit
<1>2. /\ HeapStart \in Nat /\ HeapEnd \in Nat /\ HeapStart + MinBlock <= HeapEnd /\ MinBlock \in Nat
      /\ HeadBlock \in Nat /\ HeadBlock > HeapEnd /\ HeapStart % Align = 0 /\ HeapEnd % Align = 0
      /\ HeapEnd <= HeapStart + HeapBytes /\ MinBlock >= 1
  BY HeapBounds, HeapSizes
<1>3. /\ HeapStart \in Aligned /\ HeapEnd \in Aligned /\ HeadBlock \notin Aligned
      /\ HeapStart # HeapEnd /\ HeadBlock # HeapStart /\ HeadBlock # HeapEnd
  BY AlignedIs
<1>4. size \in Nat /\ size >= MinBlock /\ HeapStart + size = HeapEnd /\ size >= 1
  BY <1>2
<1>5. size % Align = 0
  <2>1. HeapStart \in Int /\ HeapEnd \in Int
    BY <1>2
  <2> QED
    BY <1>2, <2>1, Multiples
<1>6. /\ hs \in [Aligned \cup {HeadBlock} -> HeaderOf]
      /\ hs[HeapStart].size = size /\ hs[HeapStart].next = HeapEnd /\ hs[HeapStart].taken = FALSE
      /\ hs[HeadBlock].next = HeapStart /\ hs[HeadBlock].size = 0
      /\ \A a \in Aligned : hs[a].taken = FALSE
  <2>1. hs = [headerAt EXCEPT ![HeapEnd] = none,
                              ![HeapStart].size = size, ![HeapStart].next = HeapEnd,
                              ![HeadBlock].next = HeapStart, ![HeadBlock].size = 0]
    BY <1>1 DEF Headers, FreshHeap
  <2>2. /\ DOMAIN headerAt = Aligned \cup {HeadBlock}
        /\ \A a \in Aligned \cup {HeadBlock} : headerAt[a] = none
    BY <1>1
  <2> HIDE DEF hs, size, none
  <2>3. DOMAIN hs = Aligned \cup {HeadBlock} /\ hs = [a \in DOMAIN hs |-> hs[a]]
    BY <2>1, <2>2
  <2>4. hs[HeapStart] = [headerAt[HeapStart] EXCEPT !.size = size, !.next = HeapEnd]
    BY <1>3, <2>1, <2>2
  <2>5. hs[HeadBlock] = [headerAt[HeadBlock] EXCEPT !.next = HeapStart, !.size = 0]
    BY <1>3, <2>1, <2>2
  <2>6. \A a \in Aligned : a # HeapStart => hs[a] = none
    BY <1>3, <2>1, <2>2
  <2>7. headerAt[HeapStart] = [next |-> Null, size |-> 0, taken |-> FALSE]
        /\ headerAt[HeadBlock] = [next |-> Null, size |-> 0, taken |-> FALSE]
    BY <1>3, <2>2 DEF none
  <2>8. /\ hs[HeapStart].next = HeapEnd /\ hs[HeapStart].size = size /\ hs[HeapStart].taken = FALSE
        /\ DOMAIN hs[HeapStart] = {"next", "size", "taken"}
    BY <2>4, <2>7
  <2>9. /\ hs[HeadBlock].next = HeapStart /\ hs[HeadBlock].size = 0 /\ hs[HeadBlock].taken = FALSE
        /\ DOMAIN hs[HeadBlock] = {"next", "size", "taken"}
    BY <2>5, <2>7
  <2>10. hs[HeapStart] = [next |-> HeapEnd, size |-> size, taken |-> FALSE]
    <3>1. hs[HeapStart] = [field \in DOMAIN hs[HeapStart] |-> hs[HeapStart][field]]
      BY <2>4
    <3> QED
      BY <2>8, <3>1, HeaderIs
  <2>11. hs[HeadBlock] = [next |-> HeapStart, size |-> 0, taken |-> FALSE]
    <3>1. hs[HeadBlock] = [field \in DOMAIN hs[HeadBlock] |-> hs[HeadBlock][field]]
      BY <2>5
    <3> QED
      BY <2>9, <3>1, HeaderIs
  <2>12. /\ [next |-> HeapEnd, size |-> size, taken |-> FALSE] \in HeaderOf
         /\ [next |-> HeapStart, size |-> 0, taken |-> FALSE] \in HeaderOf
         /\ none \in HeaderOf /\ none.taken = FALSE
    BY <1>3, <1>4 DEF HeaderOf, none, size
  <2>13. \A a \in Aligned \cup {HeadBlock} : hs[a] \in HeaderOf
    BY <2>6, <2>10, <2>11, <2>12
  <2>14. \A a \in Aligned : hs[a].taken = FALSE
    BY <2>6, <2>8, <2>12
  <2> QED
    BY <2>3, <2>8, <2>9, <2>13, <2>14
<1>7. FreeNow = size /\ MinFreeNow = size
  BY <1>1 DEF FreeNow, MinFreeNow, FreshHeap
<1>8. DOMAIN granted = {}
  BY <1>1
<1> HIDE DEF hs, size
<1>9. Layout(hs, C, {})
  <2>1. \A x, y \in C \cup {} : x < y => x + hs[x].size <= y
    BY <1>2
  <2>2. \A x \in HeapStart .. HeapEnd - 1 : \E d \in C \cup {} : d <= x /\ x < d + hs[d].size
    BY <1>2, <1>4, <1>6
  <2>3. Threaded(hs, C)
    BY <1>2, <1>3, <1>6 DEF Threaded, Follows
  <2>4. NoForgery(hs, {})
    BY <1>6 DEF NoForgery
  <2>5. \A x \in C \cup {} : /\ hs[x].size >= MinBlock /\ hs[x].size % Align = 0
                            /\ x + hs[x].size <= HeapEnd
    BY <1>2, <1>4, <1>5, <1>6
  <2> QED
    BY <1>3, <1>6, <2>1, <2>2, <2>3, <2>4, <2>5 DEF Layout
<1>10. Apart(hs, C)
  BY <1>2, <1>4, <1>6 DEF Apart
<1>11. FreeNow = Cardinality(FreeSpan(hs, C))
  <2>1. FreeSpan(hs, C) = HeapStart .. HeapStart + size - 1
    BY <1>6 DEF FreeSpan
  <2>2. HeapStart \in Int /\ HeapStart + size - 1 \in Int
    BY <1>2, <1>4
  <2>3. Cardinality(HeapStart .. HeapStart + size - 1)
          = IF HeapStart > HeapStart + size - 1 THEN 0 ELSE (HeapStart + size - 1) - HeapStart + 1
    BY <2>2, FS_Interval
  <2>4. Cardinality(HeapStart .. HeapStart + size - 1) = size
    BY <1>2, <1>4, <2>3
  <2> QED
    BY <1>7, <2>1, <2>4
<1>12. Sound(hs, C, granted, FreeNow, MinFreeNow)
  BY <1>4, <1>7, <1>8, <1>9, <1>10, <1>11 DEF Sound
<1>13. ChainOf(hs) = C
  <2>1. Blocks(C) /\ Threaded(hs, C)
    BY <1>9, LayoutFacts DEF Layout
  <2> QED
    BY <2>1, ChainIs
<1> QED
  BY <1>1, <1>12, <1>13, SoundIs DEF hs

\* Every step keeps the invariant.
LEMMA HeapNextKept == HeapIInv /\ [HeapNext]_heapVars => HeapIInv'
<1> SUFFICES ASSUME HeapIInv, [HeapNext]_heapVars
             PROVE  HeapIInv'
  OBVIOUS
<1>1. ASSUME NEW size \in Requests, Alloc(size)
      PROVE  HeapIInv'
  BY <1>1, AllocKept
<1>2. ASSUME NEW memory \in HeapBase .. HeapBase + HeapBytes - 1, FreeBlock(memory)
      PROVE  HeapIInv'
  BY <1>2, FreeBlockKept
<1>3. CASE HeapGet
  BY <1>3, LookedAt DEF HeapGet
<1>4. ASSUME NEW a \in Aligned \ {HeapEnd}, NEW size \in {Align, HeapBytes}, Write(a, size)
      PROVE  HeapIInv'
  BY <1>4, WriteKept
<1>5. CASE UNCHANGED heapVars
  BY <1>5, HeapStutter
<1> QED
  BY <1>1, <1>2, <1>3, <1>4, <1>5 DEF HeapNext

\* The inductive invariant of os_mem.c, for any size and alignment of the heap.
THEOREM HeapInvariance == HeapSpec => []HeapIInv
  BY HeapInitHolds, HeapNextKept, PTL DEF HeapSpec

\* What the invariant says of the heap in use.
LEMMA HeapIsExact == HeapIInv => HeapExact
<1> SUFFICES ASSUME HeapIInv, end # Null
             PROVE  Tiled /\ Merged /\ Granted /\ Counted
  BY DEF HeapExact
<1> DEFINE G == DOMAIN granted
<1>1. Headers = headerAt /\ FreeNow = freeBytes /\ MinFreeNow = minFreeBytes
  BY DEF Headers, FreshHeap, FreeNow, MinFreeNow
<1>2. /\ Sound(headerAt, Chain, granted, freeBytes, minFreeBytes)
      /\ Layout(headerAt, Chain, G) /\ Apart(headerAt, Chain)
  BY <1>1, SoundFacts DEF Chain
<1>3. \A b \in Chain \cup G : /\ b \in Nat /\ HeapStart <= b /\ headerAt[b].size \in Nat /\ b # HeadBlock
                              /\ b + headerAt[b].size <= HeapEnd /\ headerAt[b].size >= 1
  BY <1>2, LayoutFacts
<1>4. /\ Chain \cap G = {}
      /\ \A x \in HeapStart .. HeapEnd - 1 : \E b \in Chain \cup G : b <= x /\ x < b + headerAt[b].size
      /\ \A b \in Chain : ~headerAt[b].taken
      /\ \A b \in G : headerAt[b].taken
  BY <1>2 DEF Layout
<1>5. HeapStart \in Nat /\ HeapEnd \in Nat
  BY HeapBounds
<1>6. ASSUME NEW b \in Chain \cup G
      PROVE  \A z : z \in Extent(b) <=> z \in HeapStart .. HeapEnd - 1 /\ Covers(headerAt, b, z)
  <2>1. b \in Nat /\ HeapStart <= b /\ headerAt[b].size \in Nat /\ b + headerAt[b].size <= HeapEnd
    BY <1>3
  <2> QED
    BY <1>5, <2>1 DEF Extent, Covers
<1>7. Tiled
  <2>1. \A z : z \in UNION {Extent(b) : b \in Chain \cup G} <=> \E b \in Chain \cup G : z \in Extent(b)
    OBVIOUS
  <2>2. UNION {Extent(b) : b \in Chain \cup G} = HeapStart .. HeapEnd - 1
    <3>1. \A z : z \in HeapStart .. HeapEnd - 1 <=> \E b \in Chain \cup G : z \in Extent(b)
      BY <1>4, <1>6 DEF Covers
    <3> HIDE DEF G
    <3> QED
      BY <2>1, <3>1
  <2>3. ASSUME NEW b \in Chain \cup G, NEW c \in Chain \cup G, b # c
        PROVE  Extent(b) \cap Extent(c) = {}
    <3>1. ASSUME NEW z \in Extent(b), z \in Extent(c)
          PROVE  FALSE
      <4>1. z \in HeapStart .. HeapEnd - 1 /\ Covers(headerAt, b, z) /\ Covers(headerAt, c, z)
        BY <1>6, <3>1
      <4>2. z \in Int
        BY <1>5, <4>1
      <4> QED
        BY <1>2, <2>3, <4>1, <4>2, NoOverlap
    <3> QED
      BY <3>1
  <2> QED
    BY <1>4, <2>2, <2>3 DEF Tiled
<1>8. Merged
  <2>1. ASSUME NEW b \in Chain
        PROVE  ~headerAt[b].taken /\ headerAt[b].next > b /\ b + headerAt[b].size \notin Chain
    <3>1. b \in Chain \cup {HeadBlock} /\ b # HeadBlock /\ b \in Nat
      BY <1>3
    <3>2. b < headerAt[b].next /\ headerAt[b].next \in Nat
      BY <1>2, <3>1, NextOf
    <3> QED
      BY <1>2, <1>4, <3>1, <3>2 DEF Apart
  <2> QED
    BY <2>1 DEF Merged
<1>9. Granted
  BY <1>2, <1>4 DEF Granted, Sound
<1>10. Counted
  <2>1. UNION {Extent(b) : b \in Chain} = FreeSpan(headerAt, Chain)
    BY DEF FreeSpan, Extent
  <2> QED
    BY <1>2, <2>1 DEF Counted, Sound
<1> QED
  BY <1>7, <1>8, <1>9, <1>10

\* The invariant gives the types.
LEMMA HeapTypes == HeapIInv => HeapTypeOK
<1> SUFFICES ASSUME HeapIInv
             PROVE  HeapTypeOK
  OBVIOUS
<1>1. /\ Layout(Headers, ChainOf(Headers), DOMAIN granted)
      /\ FreeNow \in Nat /\ FreeNow <= HeapBytes /\ MinFreeNow \in Nat /\ MinFreeNow <= FreeNow
  BY SoundFacts
<1>2. Headers \in [Aligned \cup {HeadBlock} -> HeaderOf] /\ DOMAIN granted \subseteq Aligned
  BY <1>1 DEF Layout
<1>3. end \in {Null, HeapEnd} /\ HeapBytes \in Nat
  BY SoundIs, HeapSizes
<1>4. CASE end = Null
  <2>1. HeapInit
    BY <1>4, SoundIs
  <2>2. [next |-> Null, size |-> 0, taken |-> FALSE] \in HeaderOf
    BY DEF HeaderOf
  <2> QED
    BY <1>2, <1>3, <2>1, <2>2 DEF HeapInit, HeapTypeOK
<1>5. CASE end # Null
  <2>1. Headers = headerAt /\ FreeNow = freeBytes /\ MinFreeNow = minFreeBytes
    BY <1>5 DEF Headers, FreshHeap, FreeNow, MinFreeNow
  <2> QED
    BY <1>1, <1>2, <1>3, <2>1 DEF HeapTypeOK
<1> QED
  BY <1>4, <1>5

\* Whatever is allocated and freed, in any order, twice, or at a pointer into a
\* block: free blocks and blocks in use tile the heap, the list is in the order of
\* the addresses with no two of its blocks touching, every block in use holds what
\* was asked for, and the free total is that of the list (os_mem_alloc, os_mem_free).
THEOREM HeapAlwaysExact == HeapSpec => []HeapExact
  BY HeapInvariance, HeapIsExact, PTL

\* Headers, totals and holders of the heap keep to their types.
THEOREM HeapTypesHold == HeapSpec => []HeapTypeOK
  BY HeapInvariance, HeapTypes, PTL
=============================================================================
