------------------------------- MODULE Fargo -------------------------------
(* The shift of a solution by the mean azimuthal flow (dataBlock/fargo.hpp), *)
(* along a periodic direction of Cells cells cut in equal parts, one for each *)
(* process. A displacement is a number of Q-ths of a cell: what w*dt/dphi is  *)
(* in the code. A value is a sum: a function from terms to integers, where a  *)
(* term is a cell of the solution before the shift, or a flux, of which only  *)
(* the cells it is made from and the fraction of a cell it moves matter.      *)
EXTENDS Integers, FiniteSets

CONSTANTS Cells, MaxShift, Q

(***************************************************************************)
(* Sums of terms.                                                           *)
(***************************************************************************)
Cell(c) == <<"cell", c>>

Flux(stencil, e) == <<"flux", stencil, e>>

Term(u) == [v \in {u} |-> 1]

Zero == [v \in {} |-> 0]

Coefficient(f, u) == IF u \in DOMAIN f THEN f[u] ELSE 0

\* f + k * g, where only the terms with a coefficient are kept.
AddTimes(f, k, g) ==
    LET Value(u) == Coefficient(f, u) + k * Coefficient(g, u)
    IN [u \in {v \in DOMAIN f \cup DOMAIN g : Value(v) # 0} |-> Value(u)]

(***************************************************************************)
(* The displacement, in whole cells and the rest of it.                     *)
(***************************************************************************)
\* The remainder of C: it has the sign of a.
fmod(a, b) == IF a >= 0 THEN a % b ELSE -((-a) % b)

dL(w) == fmod(w, Cells * Q)

WholeCells(w) == (2 * dL(w) + Q) \div (2 * Q)

eps(w) == dL(w) - Q * WholeCells(w)

(***************************************************************************)
(* One of parts processes; g is the width of the ghost region of its        *)
(* arrays, where active cells go from g to g + np - 1. scrh is indexed as   *)
(* in the code: moved by MaxShift, and with as many ghosts more, when there  *)
(* are several processes; its ghosts come from Exchange.                     *)
(***************************************************************************)
np(parts) == Cells \div parts

Accepted(parts, g) == parts = 1 \/ np(parts) >= MaxShift + g

Owned(parts, g, p, s) == (p * np(parts) + s - g) % Cells

\* Mutant: the ghosts of the scratch array are not exchanged.
StoreWithoutExchange(parts, g, p) ==
    IF parts = 1 THEN [x \in g..g + Cells - 1 |-> Owned(1, g, 0, x)]
    ELSE [x \in g + MaxShift..g + MaxShift + np(parts) - 1 |->
             Owned(parts, g, p, x - MaxShift)]

StoreToScratch(parts, g, p) ==
    IF parts = 1 THEN [x \in g..g + Cells - 1 |-> Owned(1, g, 0, x)]
    ELSE [x \in 0..np(parts) + 2 * (g + MaxShift) - 1 |->
             Owned(parts, g, p, x - MaxShift)]

\* What is in memory beyond the scratch array is no cell.
Beyond == -1

Read(scrh, x) == IF x \in DOMAIN scrh THEN scrh[x] ELSE Beyond

\* Mutant: the last cell is taken for one before the end.
BesideOff(parts, g, s, i) ==
    IF parts > 1 THEN s + i
    ELSE LET x == s + i
         IN CASE x - g > Cells -> x - Cells
              [] x - g < 0 -> x + Cells
              [] OTHER -> x

\* The index of the cell i cells away from one of scrh; a process that is
\* alone turns around.
Beside(parts, g, s, i) ==
    IF parts > 1 THEN s + i
    ELSE LET x == s + i
         IN CASE x - g >= Cells -> x - Cells
              [] x - g < 0 -> x + Cells
              [] OTHER -> x

\* The index in scrh of what comes to s from m cells away.
Origin(parts, g, s, m) ==
    IF parts > 1 THEN s - m + MaxShift ELSE g + ((s - m - g) % Cells)

\* The flux between two cells: made of the cells up to reach away from so.
FargoFlux(scrh, parts, g, reach, so, e) ==
    IF e = 0 THEN Zero
    ELSE Term(Flux([i \in -reach..reach |-> Read(scrh, Beside(parts, g, so, i))], e))

\* The cell at index s of the process.
CellOf(scrh, parts, g, s) == Cell(Read(scrh, Origin(parts, g, s, 0)))

\* The sum of the cells at the indices from first to last - 1.
SumOver(scrh, parts, g, first, last) ==
    [u \in {CellOf(scrh, parts, g, ss) : ss \in first..last - 1} |->
        Cardinality({ss \in first..last - 1 : CellOf(scrh, parts, g, ss) = u})]

\* Cell s of process p, shifted.
ShiftVc(parts, g, reach, p, s, w) ==
    LET scrh == StoreToScratch(parts, g, p)
        m == WholeCells(w)
        so == Origin(parts, g, s, m)
        F(x) == FargoFlux(scrh, parts, g, reach, x, eps(w))
        Fl == IF eps(w) >= 0 THEN F(Beside(parts, g, so, -1)) ELSE F(so)
        Fr == IF eps(w) >= 0 THEN F(so) ELSE F(Beside(parts, g, so, 1))
    IN AddTimes(AddTimes(Term(Cell(Read(scrh, so))), -1, Fr), 1, Fl)

\* The electric field of the shift on the edge at the left of s: what crosses
\* it of the component of the field normal to the plane of the shift.
ComputeEk(parts, g, reach, p, s, w) ==
    LET scrh == StoreToScratch(parts, g, p)
        m == WholeCells(w)
        so == Origin(parts, g, s, m)
        rest == FargoFlux(scrh, parts, g, reach,
                          IF eps(w) >= 0 THEN Origin(parts, g, s, m + 1) ELSE so, eps(w))
    IN IF m > 0 THEN AddTimes(rest, 1, SumOver(scrh, parts, g, s - m, s))
       ELSE AddTimes(rest, -1, SumOver(scrh, parts, g, s, s - m))

\* The same component of the field, after that electric field.
EvolvMagField(parts, g, reach, p, s, w) ==
    AddTimes(AddTimes(Term(Cell(Owned(parts, g, p, s))),
                      -1, ComputeEk(parts, g, reach, p, s + 1, w)),
             1, ComputeEk(parts, g, reach, p, s, w))

\* The velocity at the left face of column i is the mean of two columns.
FaceVelocity(meanV, i) == (meanV[i - 1] + meanV[i]) \div 2

\* dt > dtMax: only active columns are looked at.
TooFar(meanV) == \E i \in DOMAIN meanV \ {0} : meanV[i] > MaxShift * Q \/ -meanV[i] > MaxShift * Q

(***************************************************************************)
(* What a shift is, on the whole direction.                                 *)
(***************************************************************************)
\* The nearest whole number of cells, and what remains.
Nearest(w) ==
    LET m == w \div Q
    IN IF 2 * (w - Q * m) >= Q THEN m + 1 ELSE m

Rest(w) == w - Q * Nearest(w)

\* The flux between cells c and c + 1.
FluxAfter(reach, c, e) ==
    IF e = 0 THEN Zero
    ELSE Term(Flux([i \in -reach..reach |-> (c + i) % Cells], e))

\* What enters cell c: it comes from as far as the cell itself.
Entering(reach, c, w) ==
    LET from == c - Nearest(w)
    IN FluxAfter(reach, IF Rest(w) >= 0 THEN from - 1 ELSE from, Rest(w))

\* The value of cell c of the shifted solution.
Exact(reach, c, w) ==
    AddTimes(AddTimes(Term(Cell((c - Nearest(w)) % Cells)), -1, Entering(reach, c + 1, w)),
             1, Entering(reach, c, w))
=============================================================================
