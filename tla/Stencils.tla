------------------------------ MODULE Stencils ------------------------------
(* What a kernel of idefix does to the arrays of a DataBlock, without the      *)
(* formulas: over which cells its loop goes, which cells of which arrays each  *)
(* of them reads, and which arrays it writes. From this the reach of the       *)
(* computed values follows, and with it whether the ghost cells, the loops and *)
(* the stencils of a stage fit together.                                       *)
(*                                                                             *)
(* A region of an array is <<l, r>> in each direction: its cells go from       *)
(* beg - l to end - 1 + r. A stencil is <<first, last>> in each direction: the *)
(* cells from first to last around the one that is computed. A direction that  *)
(* the problem does not have has one cell.                                     *)
EXTENDS Integers, Sequences, SequencesExt, FiniteSets

VARIABLES
    conf,   \* the build and the input file
    dir,    \* the direction of the sweep
    mem,    \* the arrays: where they hold what the stage needs, and made of what
    last    \* the loops of the last step

Dirs == 1..3
IDIR == 1
JDIR == 2
KDIR == 3

Active == 1..conf.dims

\* Grid::Grid gives two ghost cells to orders up to 3 and three to order 4.
nghost == IF conf.order = 4 THEN 3 ELSE 2

Here == [d \in Dirs |-> <<0, 0>>]

Region(l, r) == [d \in Dirs |-> IF d \in Active THEN <<l, r>> ELSE <<0, 0>>]

Interior == Region(0, 0)

Nowhere == [d \in Dirs |-> <<-99, -99>>]

\* The cells and the faces along d that idefix_for goes over from beg to end + offset.
Faces(d) == [Interior EXCEPT ![d] = <<0, 1>>]

\* A stencil along one direction, and along all those that the build has: the
\* sources write them with ioffset, joffset, koffset and D_EXPAND.
Along(d, lo, hi) ==
    [e \in Dirs |-> IF e = d /\ d \in Active THEN <<lo, hi>> ELSE <<0, 0>>]

Box(i, j, k) == [d \in Dirs |-> IF d \in Active THEN <<i, j, k>>[d] ELSE <<0, 0>>]

Around == Region(-1, 1)

\* What is in all of them.
Meet(regions) ==
    [d \in Dirs |-> <<Min({r[d][1] : r \in regions}), Min({r[d][2] : r \in regions})>>]

Within(a, b) == \A d \in Dirs : a[d][1] <= b[d][1] /\ a[d][2] <= b[d][2]

\* The cells whose stencil lies in a region, and those that the stencils of a
\* region read.
Reach(region, box) ==
    [d \in Dirs |-> <<region[d][1] + box[d][1], region[d][2] - box[d][2]>>]

Touch(region, box) ==
    [d \in Dirs |-> <<region[d][1] - box[d][1], region[d][2] + box[d][2]>>]

(***************************************************************************)
(* A statement sets an array or adds to it, from other arrays through        *)
(* stencils. Its parts name what it contributes.                             *)
(***************************************************************************)
Set(out, ins, parts) == [out |-> out, add |-> FALSE, ins |-> ins, parts |-> parts]

Add(out, ins, parts) == [out |-> out, add |-> TRUE, ins |-> ins, parts |-> parts]

Loop(over, does) == [over |-> over, does |-> does]

Unset == [valid |-> Nowhere, parts |-> {}, twice |-> {}]

\* An array that the options do not need is not allocated.
Look(m, a) == IF a \in DOMAIN m THEN m[a].valid ELSE Nowhere

\* Where what a statement gives is what is wanted: where it goes and all that it
\* reads is.
Computed(m, over, s) ==
    Meet({over} \cup (IF s.add THEN {m[s.out].valid} ELSE {})
                \cup {Reach(Look(m, r[1]), r[2]) : r \in s.ins})

Apply(m, over, s) ==
    [valid |-> Computed(m, over, s),
     parts |-> s.parts \cup (IF s.add THEN m[s.out].parts ELSE {}),
     twice |-> IF s.add THEN m[s.out].twice \cup (m[s.out].parts \cap s.parts) ELSE {}]

Execute(m, loop) ==
    [a \in DOMAIN m |->
        IF \E s \in loop.does : s.out = a
        THEN Apply(m, loop.over, CHOOSE s \in loop.does : s.out = a)
        ELSE m[a]]

\* The kernels of one function, in order.
After(m, loops) ==
    LET after[n \in 0..Len(loops)] ==
            IF n = 0 THEN m ELSE Execute(after[n - 1], loops[n])
    IN  after[Len(loops)]

\* They allocate nothing.
Launch(loops) ==
    /\ LET result == After(mem, loops)
       IN  mem' = [a \in DOMAIN mem |-> result[a]]
    /\ last' = loops
=============================================================================
