----------------------------- MODULE ElideCopies -----------------------------
(***************************************************************************)
(* The pass eclipse-elide-copies.  It walks the operations once and pairs  *)
(* every DMA_LOAD of a buffer with the last DMA_STORE to it seen before;   *)
(* then it lets the users of each load read the SRAM buffer of the store   *)
(* instead and erases the load; then it erases the stores whose buffer it  *)
(* takes to be dead.  Operations keep their position; erased ones are put  *)
(* in a set.                                                               *)
(***************************************************************************)
EXTENDS EclipseIR

VARIABLES
  func,        \* the function being compiled
  low,         \* its operations as the patterns recognised them
  ir,          \* the operations of the dialect they became
  phase,       \* "lower", "walk", "rewire", "erase", then the later passes
  at,          \* the next operation, or pair, of the phase
  lastStore,   \* of each DDR buffer: the last store seen, 0 if none
  matchList,   \* the pairs [store, load] found
  erased       \* the operations erased

elideVars == <<func, low, ir, phase, at, lastStore, matchList, erased>>

ElideInit ==
  /\ low = <<>>
  /\ ir = <<>>
  /\ phase = "lower"
  /\ at = 1
  /\ lastStore = [b \in Buffers |-> 0]
  /\ matchList = <<>>
  /\ erased = {}

\* convert-linalg-to-eclipse, one linalg operation at a time.
LowerOne ==
  /\ phase = "lower" /\ at <= Len(func.ops)
  /\ \E l \in Accepted(func.shape, func.ops[at]) :
       /\ low' = Append(low, l)
       /\ ir' = ir \o Lower(func.shape, l, at)
  /\ at' = at + 1
  /\ UNCHANGED <<func, phase, lastStore, matchList, erased>>

\* No pattern applies, or a verifier fails: nothing is compiled.
Reject ==
  /\ phase = "lower" /\ at <= Len(func.ops)
  /\ Accepted(func.shape, func.ops[at]) = {}
  /\ phase' = "rejected"
  /\ UNCHANGED <<func, low, ir, at, lastStore, matchList, erased>>

StartPass(from, last, to) ==
  /\ phase = from /\ at = last + 1
  /\ phase' = to
  /\ at' = 1
  /\ UNCHANGED <<func, low, ir, lastStore, matchList, erased>>

Lowered == StartPass("lower", Len(func.ops), "walk")

-----------------------------------------------------------------------------

\* Mutant: a load may be paired with a store of another block.
AnyBlock(j, k) == TRUE

\* The scf.for of the function is a block of its own.
SameBlock(j, k) == InLoop(func, ir[j].at) = InLoop(func, ir[k].at)

Visit ==
  /\ phase = "walk" /\ at <= Len(ir)
  /\ at' = at + 1
  /\ UNCHANGED <<func, low, ir, phase, erased>>

\* Mutant: the first store to a buffer is remembered.
WalkStoreKeepsFirst ==
  /\ Visit /\ ir[at].op = "store"
  /\ lastStore' = IF ir[at].part = "whole" /\ lastStore[ir[at].buf] = 0
                  THEN [lastStore EXCEPT ![ir[at].buf] = at] ELSE lastStore
  /\ UNCHANGED matchList

\* getCastSource stops at an expand_shape, which is new for every store.
WalkStore ==
  /\ Visit /\ ir[at].op = "store"
  /\ lastStore' = IF ir[at].part = "whole" THEN [lastStore EXCEPT ![ir[at].buf] = at]
                  ELSE lastStore
  /\ UNCHANGED matchList

\* It stops at a subview too, which no store has for its key.
IsMatch(k) ==
  /\ ir[k].op = "load" /\ ir[k].part = "whole"
  /\ lastStore[ir[k].buf] # 0
  /\ SameBlock(lastStore[ir[k].buf], k)

WalkMatch ==
  /\ Visit /\ IsMatch(at)
  /\ matchList' = Append(matchList, [store |-> lastStore[ir[at].buf], load |-> at])
  /\ UNCHANGED lastStore

WalkOther ==
  /\ Visit /\ ir[at].op # "store" /\ ~IsMatch(at)
  /\ UNCHANGED <<lastStore, matchList>>

Walked == StartPass("walk", Len(ir), "rewire")

-----------------------------------------------------------------------------

\* replaceAllUsesWith(old, new) on the SRAM operands of an operation.
Replace(o, old, new) ==
  LET Sub(s) == IF s = old THEN new ELSE s
  IN  CASE o.op = "compute" -> [o EXCEPT !.dst = Sub(@),
                                         !.srcs = [k \in DOMAIN @ |-> Sub(@[k])]]
        [] o.op \in {"load", "store"} -> [o EXCEPT !.sram = Sub(@)]
        [] o.op = "sync" -> o

Rewire ==
  /\ phase = "rewire" /\ at <= Len(matchList)
  /\ LET m == matchList[at]
     IN  /\ ir' = [k \in DOMAIN ir |-> Replace(ir[k], ir[m.load].sram, ir[m.store].sram)]
         /\ erased' = erased \union {m.load}
  /\ at' = at + 1
  /\ UNCHANGED <<func, low, phase, lastStore, matchList>>

Rewired == StartPass("rewire", Len(matchList), "erase")

-----------------------------------------------------------------------------

\* Mutant: a load keeps its buffer alive after it is erased.
UsersOfEvenErased(b) == {k \in DOMAIN ir : ir[k].op \in {"load", "store"} /\ ir[k].buf = b}

UsersOf(b) == {k \in DOMAIN ir \ erased : ir[k].op \in {"load", "store"} /\ ir[k].buf = b}

\* Mutant: the func.return of a buffer is not a user.
RootIsDeadIgnoringReturn(s) ==
  \A k \in UsersOf(ir[s].buf) : k = s \/ ir[k].part \in {"cols", "rows"}

\* Every cast of the buffer feeds this store, nothing, or subviews; what the
\* subviews feed is not looked at.  An expand_shape of the buffer is in the way.
RootIsDead(s) ==
  /\ ir[s].buf \notin func.ret
  /\ \A k \in UsersOf(ir[s].buf) : k = s \/ ir[k].part \in {"cols", "rows"}

\* The set done makes each store be tried once; a second try would find it
\* erased already.
EraseStore ==
  /\ phase = "erase" /\ at <= Len(matchList)
  /\ LET s == matchList[at].store
         first == \A n \in 1 .. at - 1 : matchList[n].store # s
     IN  erased' = IF first /\ RootIsDead(s) THEN erased \union {s} ELSE erased
  /\ at' = at + 1
  /\ UNCHANGED <<func, low, ir, phase, lastStore, matchList>>

Elided == StartPass("erase", Len(matchList), "allocate")

ElideNext ==
  \/ LowerOne \/ Reject \/ Lowered
  \/ WalkStore \/ WalkMatch \/ WalkOther \/ Walked
  \/ Rewire \/ Rewired
  \/ EraseStore \/ Elided

\* The operations left, in order.
Remaining == Without(ir, erased)

-----------------------------------------------------------------------------

IsStoreTo(k, b) == ir[k].op = "store" /\ ir[k].part = "whole" /\ ir[k].buf = b
IsLoadOf(k, b) == ir[k].op = "load" /\ ir[k].part = "whole" /\ ir[k].buf = b

\* A load is paired with the last store of its buffer ahead of it in the code,
\* no other store to the buffer lies between the two, and both lie outside the
\* loop or both inside: in one run of their block the one always meets the
\* other, also while the operations are rewired (runOnOperation, the walk).
LoadsMeetLastStore ==
  \A n \in 1 .. Len(matchList) :
    LET s == matchList[n].store
        l == matchList[n].load
        b == ir[l].buf
    IN  /\ s < l /\ IsStoreTo(s, b) /\ IsLoadOf(l, b)
        /\ InLoop(func, ir[s].at) <=> InLoop(func, ir[l].at)
        /\ \A k \in s + 1 .. l - 1 : ~IsStoreTo(k, b)

\* A buffer whose store is erased is not returned, and nothing that is left
\* loads it or stores to it as a whole: a store goes only after all the loads
\* it was paired with, and never one of several (rootIsDead).
ErasedStoresWereLast ==
  \A s \in erased : ir[s].op = "store" =>
    /\ ir[s].buf \notin func.ret
    /\ \A k \in DOMAIN ir \ erased : ~IsStoreTo(k, ir[s].buf) /\ ~IsLoadOf(k, ir[s].buf)
=============================================================================
