--------------------------- MODULE MCLoaderLarge ---------------------------
(***************************************************************************)
(* The instruction stream of one matmul of Tiles tiles, at the addresses   *)
(* of eclipse_isa.h in slots of DESC_LEN = 64 bytes above DDR_ADDR.  Its   *)
(* two inputs are a slot each; what it loads and stores is of no matter.   *)
(***************************************************************************)
EXTENDS Loader

CONSTANT Tiles

Op(sync) == [sync |-> sync, load |-> {}, store |-> {}]

\* Per tile two loads, SYNC, MATMUL, SYNC; then the store.
MatmulTrace == [n \in 1 .. 5 * Tiles + 1 |-> Op(n % 5 \in {0, 3})]

MCPrograms == {MatmulTrace}
MCInputs == {<<1, 1>>}
=============================================================================
