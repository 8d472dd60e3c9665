# A TLA+ model of Idefix

Idefix is a finite-volume code for astrophysical flows: C++ with Kokkos on each
process, MPI between processes. This directory holds TLA+ modules translated
from its source, the TLC configurations that check them on small instances, and
proofs that TLAPS checks. Paths below are relative to the repository; the C++
of the program is in `src/`.

What is modelled is the *control* of the program: what it decides, in which
order, on which process, and what a kill, a signal, an exception or a message
in flight does to it. Floating point data is abstracted: a cell's value is a
symbol that says where it belongs, which process computed it and in which
stage; a time is an integer in units of a common divisor of the periods. The
kernels of a stage are modelled by what they read and write, cell by cell
around the one they compute, without their formulas; the iterative solvers are
modelled by their algebra, in exact arithmetic.

## Inventory

| component | state it keeps | operations | interacts with | hard behaviour | what makes it correct |
|---|---|---|---|---|---|
| outputs (`output/output.cpp`, `output/slice.cpp`) | last date, period and file number of each output | `CheckForWrites`, `ForceWriteDump`, `ForceWriteVtk`, `RestartFromDump` | called by `main`; calls Vtk, Xdmf, Slice, Dump; registers its dates in Dump | long cycles, kills between two files, restarts from any dump, periods changed at a restart | no date missed or repeated, no file of the history overwritten |
| dump files (`output/dump.cpp`) | registry of fields, file number, files on disk | `RegisterVariable`, `Write`, `Read` | every component registers what a restart needs | kill inside `Write`, restart on another number of processes | the restart point is always complete; what is read is what was written |
| vtk, xdmf (`output/vtk.cpp`, `output/xdmf.cpp`) | file number | `Write` | called by outputs and slices | collective writes | as outputs |
| main loop (`main.cpp`) | `returnCode` | initialisation, the loop, the exception handler | everything | ends of the run on several processes | all processes end, together |
| time integrator (`timeIntegrator.cpp`) | `ncycles`, `dt`, weights | `Cycle`, `ShowLog`, `CheckForMaxRuntime` | DataBlock, Fluid, RKL, Fargo, gravity, planets | a reduction overlapping the stages, exceptions between collective calls | one time step for all processes |
| interruption (`input.cpp`, `global.cpp`, `error.cpp`) | `abortRequested` | signal handler, stop file, `CheckForAbort`, `safeExit` | main loop | a signal on any process | every process is told |
| MPI layer (`mpi/`) | buffers, persistent requests, boxes | `Init`, `Exchange`, `CheckSync` | boundaries, Fargo, gravity, RKL | buffers in flight, corners, faces owned by two processes, time-out | ghosts are those of a single process |
| boundaries (`fluid/boundary/`) | ghost boxes | `SetBoundaries`, `Enforce*` | MPI layer, user functions | order of directions, the axis that half a turn of processes share, shearing box | as above |
| grid (`grid.cpp`, `gridHost.cpp`, `utils`) | sizes, `nproc`, `xproc` | decomposition, refinement of coordinates, coarsening | everything | sizes that do not divide | subdomains tile the grid |
| data block (`dataBlock/`) | arrays, states "current" and "begin" | stages, `AddAndStore` | fluids, integrator | conversions between conservative and primitive variables | each kernel reads the kind of variable it expects |
| Fargo (`dataBlock/fargo.*`) | mean velocity, shift | add or subtract velocity, `ShiftSolution` | integrator, MPI | exchange wider than the ghosts | mass is moved, not made |
| RKL (`rkl/rkl.hpp`) | stage, `dt` | `Cycle` | integrator, boundaries | number of stages, alternation | the parabolic terms cover the same time |
| fluid (`fluid/fluid.hpp`, `evolveStage.hpp`) | `Vc`, `Uc`, `Vs`, fluxes, `InvDt` | `EvolveStage`, `LoopDir`, conversions, `CheckNan` | all the kernels below, data block, RKL | thirty kernels that share arrays, in an order that depends on the options | at the end of a stage the domain has its new values, from values that were there |
| Riemann solvers, reconstruction (`fluid/RiemannSolver/`) | face fluxes, largest waves, electric field of the faces | `CalcFlux`, `ExtrapolatePrimVar`, `FindShock` | constrained transport | rows beside the faces, arrays by dimension | loops and stencils that fit ghosts and arrays |
| constrained transport (`fluid/constrainedTransport/`) | electric field at edges, field on faces, vector potential | `CalcCornerEMF`, `CalcNonidealEMF`, `EnforceEMFBoundary`, `EvolveMagField`, `EvolveVectorPotential` | Riemann solvers, MPI layer, axis | an edge computed by up to four processes, the axis | every copy of an edge has one value |
| diffusion (`fluid/viscosity.cpp`, `thermalDiffusion.cpp`, `braginskii/`, `calcParabolicFlux.hpp`) | diffusivities, sources of curvature, `dMax` | `Add*Flux` | right hand side, RKL, Fargo | explicit or RKL each, gradients written by hand per direction and geometry | each term once, centred, in its frame |
| right hand side (`fluid/calcRightHandSide.hpp`, `addSourceTerms.hpp`, `tracer/`) | `Uc`, `InvDt` | `CorrectFlux`, `CalcRHS`, tracers, sources | Fargo, rotation, gravity | what frames add in one kernel is taken back in another | conservation |
| equations of state (`fluid/eos/`) | sound speed of the user | `Refresh`, `GetWaveSpeed` | Riemann solvers | floating point | accuracy, out of scope |
| coarsening (`dataBlock/coarsen.cpp`, `fluid/coarsenFlow.hpp`) | levels | `Coarsen` | integrator, boundaries | blocks at the borders | averages conserve |
| dust and drag (`fluid/drag.cpp`) | implicit factor | drag terms | `EvolveStage` | gas and dust updated by one kernel | momentum |
| gravity (`gravity/`) | potentials, when each is due | `ComputeGravity`, `SolvePoisson`, `Laplacian` | integrator, solvers | failures, fall-back, potentials kept from cycle to cycle | the potential of the density |
| iterative solvers (`utils/iterativesolver/`) | residual, directions, images, scalars | `Solve`, `PerformIter`, `InitSolver` | gravity | recurrences that drift from what they stand for, what a solve leaves to the next | the residual is that of the solution, and becomes small |
| planets (`dataBlock/planetarySystem/`) | positions | `EvolveSystem` | integrator, dumps | floating point | out of scope |
| input (`input.cpp`) | parameters | parser, command line | everything | - | what was written is what is read |
| dump images (`utils/dumpImage.cpp`) | arrays of a dump | constructor | dump files, user functions | where a field lives is guessed from its size | what is read is what was written |
| utilities (`utils/`, `loop.hpp`, `profiler.cpp`, `pydefix.cpp`) | - | column, look-up table, profiler | various | flattened loops | bijections |

`PROJECT.json` lists the same components with their status and the hazards of
the code, each at its line with the properties that cover it.

## Modules

| module | models | how |
|---|---|---|
| `Cadence` | the catch-up arithmetic of `CheckForWrites` | pure operators: `Due`, `CatchUp`, `Advance` |
| `Output` | `Output`, `Slice::CheckForWrite`, the numbers and registry of `Dump`, and the calls of `main` to them | one process at a time, killed and restarted; the files on disk survive |
| `OutputProofs` | theorems about `Output` | |
| `MainLoop` | the loop of `main.cpp`, `Cycle`, `CheckForAbort`, `CheckForMaxRuntime`, `CheckSync` | N processes that interact by collective calls and neighbour messages |
| `MainLoopProofs` | theorems about `MainLoop`, with the refinement of `AgreedEnd` | |
| `AgreedEnd` | what the end of a run promises | abstract specification, implemented by `MainLoop` |
| `Fractions` | exact arithmetic, polynomials of degree 3 | pure operators, used by `Cycle` |
| `Fargo` | the shift of `dataBlock/fargo.hpp` and its scratch array | pure operators, used by `Cycle` |
| `Cycle` | `TimeIntegrator::Cycle`, `RKLegendre::Cycle`, the calls they make on the data block | one action per kernel; all processes do the same |
| `CycleProofs` | theorems about the control of `Cycle`, its accuracy and its times, about `Fargo` and `ShiftSolution` | |
| `Halo` | `SetBoundaries`, `Exchanger`, `Buffer`, the periodic, outflow, reflective and axis boundaries | a grid of processes, messages in flight |
| `HaloProofs` | the theorem about `Halo`: ghosts are those of a single process | |
| `Edges` | `EnforceEMFBoundary`, `EnforceVectorPotentialBoundary`, the average on the axis | a grid of processes, messages in flight, reductions around the axis |
| `EdgeProofs` | the theorem about `Edges`: the copies of an edge agree | |
| `Stencils` | what any kernel does: its loop, its stencils, the arrays it sets or adds to | the notation of the five below |
| `Riemann` | reconstruction, the nine Riemann solvers, what they store for the edges | operators: the loops of each function |
| `Induction` | the current, the five averages at edges, the non-ideal terms, the evolution of the field or of its potential | operators |
| `Diffusion` | the fluxes of viscosity, conduction, both Braginskii terms, resistivity and ambipolar diffusion | operators |
| `RightHandSide` | what makes of the fluxes the evolution of the cells; frames, potential, tracers, sources, drag | operators |
| `EvolveStage` | `Fluid::EvolveStage`, `Fluid::LoopDir`, `RKLegendre::EvolveStage`, `RKLegendre::LoopDir` | one action per function called |
| `KernelProofs` | theorems about `EvolveStage`: its kernels stay in the arrays, do not race and are centred; its stages lose no term, balance their frames, give viscosity the whole flow | |
| `RegionProofs` | the theorem about where a stage of `EvolveStage` computes: it reaches all cells | |
| `Gravity` | `ComputeGravity`, `SelfGravity`, `Laplacian`, Jacobi, CG, MINRES, BICGSTAB | one action per step of a solver, exact arithmetic |
| `Subdomain` | the index ranges of a process (`DataBlock`, `MPI_Cart_create`) | pure operators on constants, used by the two below |
| `Decomposition` | the checks of the constructor of `Grid`, `-dec`, `makeDomainDecomposition` | one computation, the same on all processes |
| `DumpFile` | the layout of a dump, `Dump::Write` and `Dump::Read` over MPI-IO, `DumpImage` | the processes of a run that writes, then those of a run that reads |
| `SubdomainProofs` | theorems about `DumpFile`, `Decomposition` and `Subdomain` | in one module since both rest on `Subdomain` and its arithmetic |
| `MCOutput`, `MCMainLoop`, `MCCycle`, `MCHalo`, `MCDecomposition`, `MCDumpFile`, `MCKernels` | values of constants that a .cfg cannot write; `MCHalo` puts five instances in one run and `MCCycle` two | |

### Output

Each `Output` variable is one of the code's: `last` holds `vtkLast`,
`xdmfLast`, `analysisLast`, `sliceLast`, `pythonLast`; `num` the file numbers;
`dumpLast`, `dumpNum` those of dumps; `conf` the input file and `-nowrite`.
`dumps` is the directory: a number maps to nothing, to a torn file or to what
the file holds. `newest` is the set of dumps of the most recent date, from
which `GetLastDumpInDirectory` may take any; `lastDone`, a history variable, is
the dump the history was last resumed from or completed.

`Fresh` and `Restart` are the start of `main` up to its loop; `Cycle` is
`Tint.Cycle` seen from the outputs; `CheckStream` one block of
`CheckForWrites`, in the order of its text; `CheckDump`, `OpenDump` and
`CloseDump` its last block, cut where a kill leaves a torn file; `Decide` the
tests after it; `Emergency` the handler of an exception; `Stop` a kill or the
normal end. The choice `\E clock` is the wall clock of rank 0.

Abstractions: reading a torn dump stops the process (this is what the serial
reader does; the MPI one does not look at the number of bytes it got); periods
are integers; one slice; the clock period only decides nondeterministically.

### MainLoop

`calls[r]` is the sequence of collective calls process r has made on
MPI_COMM_WORLD. MPI matches the i-th calls of all processes: a reduction or a
barrier is complete when all of them are posted, a broadcast when rank 0's is;
calls of different kinds never complete. `dtCall` is the position of the
non-blocking reduction of `newdt`. `sent` counts the exchanges of ghost cells
each process took part in, on a ring. An exception is a jump to "sync".
Every block of code between two waits is one action: `Top`, `DivB`, `User`,
`Evolve`, `CheckNan`, `EndStage`, `EndCycle`, `ClockDump`, `WriteDump`,
`CheckForAbort`, `CheckForMaxRuntime`, `Interrupted`, `CheckSync`,
`SyncTimeout`, `EmergencyVtk`. A stop file is a signal to rank 0.

Abstractions: the build is MHD (ShowLog reduces divB); the internal causes of
exceptions follow global reductions, as in the code, and only user functions
may throw on one process (`LocalFaults`); periodic outputs, gravity, Fargo and
RKL make further collective calls that all processes make alike and are left
out; `fixed_dt` is not modelled; a wrong sum in `CheckSync` aborts. The integer
division in `Combine` only matters for the time shown at an exception, since
`EndCycle` sets t again.

### Cycle

The question is whether the kernels of a cycle, in the order and with the
weights of the code, make the scheme that its names promise. It is answered on
a linear problem, where a scheme is a polynomial. With H for the hyperbolic
operator, P for that of the RKL terms and dt for the unit of time, an
evaluation of the right hand side multiplies by H or by P (`Raise`), and
`AddAndStore` and the RKL updates are linear combinations (`Scale`, `Sum2`),
exact in `Fractions`. At the end of the stages or of the RKL loop the polynomial
is compared with the exponential, to the order of the integrator, and its
letter is appended to `word`, which so lists what the cycles applied in which
order.

`Vc`, `Uc` and `begin` are the arrays of the code with what a wrong order would
spoil: the frame of the velocity, coarsening, Nans, and for `Vc` the time of
its boundaries. `pc` names the next kernel, an action of the same name: the
loop on stages is `SetBoundaries` to `AddVelocity`; `RklStart` is
`RKLegendre::Cycle` up to its loop, `RklBoundaries` and `RklStage` the loop.
`rkl` keeps its Uc0, Uc1, dU0. The number of stages solves the inequality
of the square root with integers (`AtMostNrkl`). `born` is a history variable.

`ShiftSolution` fills `place` with what the shift brings to each cell and face,
from the operators of `Fargo`: a cell is a name, a flux is the cells its
stencil reads and the fraction it moves. `Fargo` follows the code's indices: the
scratch array moved by `maxShift` with several processes, the modulo with one,
the wrap in `FargoFlux`, the reads out of an array. The displacement of columns
0, a ghost, and 1 is given in Q-ths of a cell.

Abstractions: polynomials in P are cut after degree 2, since RKL is of order 2
at most; user functions, gravity (see `Gravity`), planets and dust do not change what is
followed; the Nans of the field, at which `CheckNan` looks after they appeared
and not before, are left out; `dt` does not change, since every cycle starts
from a word of whole operators; the shift moves one row of cells, along the
direction of the flow, and the electric field of the third direction is left
out; the exchange of the scratch array is exact (`Halo` shows it of the same
`Exchanger`).

### Halo

Two successive directions, X1 and X2 or, next to an axis, X2 and X3; one
cell-centered variable and the components of the field on the faces across
each. `field[r]` holds for every cell and face, ghosts included, a symbol: the
place of the global grid it belongs to, the process that computed it, the
stage, and whether a wall or the axis changed its sign. `Start` is `Exchange` up
to `MPI_Startall` of the sends; `Leave` is MPI reading a send buffer, at any time
while the request is active; `Receive` and `WaitForSends` are the two
`MPI_Waitall` with what follows them; `BoundOnly` a direction with one process.
The messages of one direction and side are delivered in order, as MPI promises
for one tag. Across an axis whose turn several processes share,
`EnforceBoundaryDir` stops at `Axis::ExchangeMPI` with the process half a turn
away: `AxisReceive` and `AxisSent` are its two waits, and one persistent request
serves the two axes one after the other.

Abstractions: the faces beyond a boundary that is not periodic, which
`ReconstructNormalField` computes from the divergence, and the field on the
axis itself (`RegularizeBX2s`, `FixBx2sAxis`) are not followed; outflow does not
show that it sets a velocity that comes in to zero; shearing box and user
boundaries are left out.

### Edges

The nodes of a plane of two successive directions, with the component of the
electric field (or of the vector potential) along the third, which lives there:
Ex3 in X1 and X2, or Ex1 in X2 and X3 next to an axis. A value says which
process computed it, at which of its nodes, in which stage; on the axis it is a
sum of such values with its divisor. `Regularize` is `Axis::RegularizeEMFs`
where each process has the whole turn, `Allreduce` the reduction around the axis
where several share it, a joint step of all of them; `Start`, `Leave`, `Receive`
and `WaitForSends` are `ExchangeX1` to `X3`, which send both lines but load only
the right buffer; `Periodized` is `EnforceEMFBoundaryPeriodic`, and `Evolve` the
next stage.

Abstractions: the average of Ex3 on the axis is zero or local and is left out,
as are `RegularizeCurrentSide`, which is the same sum on the current, and the
boundaries of shearing boxes and users. A wedge of 2pi/N around the axis shared
by several processes is left out (see the disagreements).

### Stencils, Riemann, Induction, Diffusion, RightHandSide, EvolveStage

The question is whether the some thirty kernels of a stage fit together, for
every combination of the options that select them: whether each reads what was
computed before it, within the arrays, around what it computes, and whether what
each contributes arrives where it should, once. The formulas do not matter for
that; the loops, the stencils, the arrays and the order do.

A region `<<l, r>>` of an array goes from `beg - l` to `end - 1 + r` in each
direction; a stencil `<<first, last>>` from the first to the last cell around
the one computed. A loop has a region and a set of statements: `Set` or `Add`
an array from others through stencils, contributing `parts`. `mem[a]` keeps the
region where array a is valid, that is, computed from valid values only; the
parts that went into it; and those added `twice`. `Execute` is one `idefix_for`.

`Riemann` to `RightHandSide` translate the functions, one operator each, to
their lists of loops. `EvolveStage` calls them: `Calls` is the order of the
text, `Wanted` the conditions of each call, and each action of `Next` one call.
`conf` is the build (dimensions, components, order, geometry, physics) and the
input file (solver, averages, terms, which of them RKL takes, frames, sources).
`cycle` tells a stage of the fluid (`"explicit"`) from the first stage of RKL and
from the later ones; `NextStage` stands for all the later ones, which are alike.
`Given` are the arrays that boundary conditions, conversions and other
components leave to the stage.

Abstractions: sources of users, cooling and the implicit drag act on one cell;
one species of dust; the exchange of electric fields at the end of
`CalcCornerEMF` is in `Edges`; a function of the user fills all the cells it is
asked for; a term and its coefficient of the time step are one part per sweep.
The components of an array are one: a component is told apart (`Velocity`,
`Pressure`, `EnergyFlux`, `BragField`) where a kernel names it outside of the
macros and conditions that leave out those the build does not have; it is then
an array of its own, `noVc` or `noFlux`, that no constructor allocates. The
arrays of one dimension of the grid, the small arrays of a thread and the energy
that cooling takes are not followed.

### Gravity

`ComputeGravity` to `Evolve` are a cycle as gravity sees it: whether it is due,
the density and its mean, the solver, the failure of BICGSTAB and its second
chance from zero, the sum of potentials. `JacobiSolve` to `BicgstabSolve` are
the parts of `Solve` before the loop, `Jacobi` to `Bicgstab` one `PerformIter`
each, with the arrays and scalars that a `Solve` leaves to the next. `Laplacian`
has the five kinds of boundaries, uneven cells, the cells that the origin adds
and the preconditioner.

A number is a residue modulo a prime, so that what a real number would do
exactly is exact here, divisions included, and a quantity that is zero by
algebra is zero. An error below the target is a nondeterministic choice unless
the residual is zero, which stands for any target. 0/0 is NaN, with the branches
the code has for it; a number that is not zero divided by zero has no value and
would stop TLC: the run shows that it does not happen in the instance.

Abstractions: all processes decide alike, from reduced numbers (the reductions
themselves are collective calls that all make, see `MainLoop`); one solve per
cycle, though the code solves at each stage; areas are Cartesian; user
boundaries are left out, and a potential with gradients given on every side,
which has no solution; the step of Jacobi is any number; the period of 20
iterations after which MINRES starts anew is a parameter.

### Decomposition

`Manual` and `Automatic` are the two branches of the constructor of `Grid`;
`Split` is one turn of the loop of `makeDomainDecomposition`, with `nlocal`,
`nleft` and `nproc` as in the code. `isPow2` is defined by its meaning, the
absence of odd divisors, and `MCDecomposition` assumes, so that TLC evaluates
it, that `n & (n-1)` bit by bit says the same up to 64, since `Bitwise` is out
of the prover's reach.
`Subdomain` holds what `DataBlock` computes from the result; `DumpFile` uses
the same operators. A grid of more dimensions than `DIMENSIONS` has one point
and one process in the directions that do not exist.

### DumpFile

`file` maps an offset in bytes to what starts there: the properties of a field
(its name, dimensions and the width of its values), or a value. The value of an
array is a symbol: its name, its place on the global grid and the process that
wrote it. `Write` is the turn of one process in `WriteSerial` or
`WriteDistributed`, at its own `Dump::offset`; nothing orders the turns of two
processes. `Viewed` is the MPI view of a subarray, `DescriptorW` and
`DescriptorR` the two families of `CreateMPIDataType`. `Hear` is
`ReadNextFieldProperties`: rank 0 reads and broadcasts. `ReadField` is the loop
of `Dump::Read` with its skipped and refused fields, `ReadImage` that of
`DumpImage`. `Open` takes the mode and the registered fields of the second run.

Abstractions: the arrays x1, xl1, xr1 of a direction are one entry; a scalar is
one value, of the width of an int, whatever the number of its elements, which its
properties record; a field of a given name lives at the same place in both runs,
and no name is one of those that `Write` adds (x1 to x3, eof); reading past the end of the file stops the run (as the
serial reader does; the MPI one does not look at the count it gets); the image
is made on the grid of the dump, and a descriptor outside its array is any of
those next to it.

## Runs

| run | what it checks | instance |
|---|---|---|
| `output_cadence` | `TypeOK`, `NotOverdue`, `NotAhead`, `RestartPointIntact` | a vtk output of period 2 or 3, an analysis of period -1 or 2, dumps of period -1 or 2 and a clock, two processes, restart from any dump |
| `output_restart` | `DumpsAreUpToDate`, `FilesKept`, `FilesInOrder` | vtk, slice and python outputs of periods 1, 2, 0, dumps of period 2 and a clock, three processes |
| `loop` | `CollectivesMatch`, `SameStep`, `EmergencyIsCollective`, `EndsTogether` (the refinement of `AgreedEnd`), `Termination` | two processes, two stages, two cycles at most, Nans, divB, signals, clocks, user functions that throw on one process |
| `cycle` | `Accurate`, `Symmetric`, `StageTimes`, `Frames`, `EvolvesCoarse`, `RklStable`, `ShiftExact`, `EdgesAgree`, `NanFound` | four cycles; 1 to 3 stages; RKL of order 1 and 2 with six ratios of time steps, exact roots among them, each chosen anew at every cycle; Fargo on one or two processes of 10 or 5 cells, stencils of 1 and 2 cells, all the displacements of halves of a cell allowed and one that is not, or more than one turn; Nans in cycles 0 to 2 with a look at every cycle, every second or every third |
| `cycle` | `MCTrueResidual`, `MCFiniteTermination` (of `Gravity`) | five sets of boundaries and cells by four solvers, 4 to 6 cells, 7 iterations, two solves in a row from two densities, Nans, prime 46337 |
| `halo` | `MCGhostsAreSerial`, `MCEdgesMatch`, `MCAllStagesDone` | three grids of `Halo` in one run: 2x2 processes of 2x2 cells with one ghost, periodic by outflow, two stages; 3x1 processes of 3x1 cells with two ghosts, outflow and a wall by periodic, two stages; 1x4 processes of 2x2 cells around two axes, one stage. Two planes of `Edges`: 2x2 processes of 2x2 cells around one axis; 2x1 processes, two axes, each process with the whole turn |
| `decomposition` | `EvenShares`, `Tiled`, `NeverTooSmall` | 1 to 3 dimensions, all grids of 1, 2, 4 or 6 points in each, 1 to 16 processes, without `-dec` and with all of 1 to 3 processes in each direction |
| `dump` | `NothingOverwritten`, `RestartIsExact`, `RefusedTogether`, `ImageIsExact` | 4x2 cells in two dimensions, written by 2x2 processes, read by 1x2, with centers, both faces, the edges of the vector potential and scalars; the same fields, fewer and other fields, a scalar of another size |
| `kernels` | `InBounds`, `NoRace`, `Centred`, `StageComplete`, `NothingIsLost`, `FrameTermsBalance`, `ViscousFrame` | every solver with every average at the edges, every order, with and without shock flattening, Hall or vector potential; every diffusive term and pair of terms, explicit and RKL, in every geometry, constant and of the user, limited or not; every frame with every source; gas with and without a field, and dust; 1 to 3 dimensions with 1 to 3 components |

The bounds. `MaxDt` reaches every period, so that a cycle skips several dates;
three processes are one kill after a restart after a kill; `MaxNum` is never
reached before `MaxRuns` and `Tstop` are in the run about files. Two stages
are enough to overlap a reduction with another stage, to pack a buffer again
while a neighbour is one stage behind, and no invariant compares more than two
successive stages. Two cycles are enough for a reduced time step to be used.
2x2 processes have corners that cross two exchanges, and each is both the left
and the right neighbour of another; the strip of 3x1 processes has a process
with no boundary of its own, a periodic direction of a single process with more
ghosts than cells, and two ghosts, which tell a box from a shifted one.
Four processes around the axis are the fewest for which the opposite process is
not a neighbour. Each module with a state has a `TypeOK`; those of `Output`, checked in
`output_cadence`, of `MainLoop`, of `Decomposition` and of `DumpFile` are proved, and the others hold in the
instances above but are left out of the runs.

In `cycle`, four cycles are two of each parity; the longest RKL cycle has five
stages, three more than those with coefficients of their own. A displacement of
two cells with `maxShift` 2, a half beyond it for a face, and both signs reach
all the branches of `Fargo`; the run has one ghost more than the stencil is wide
(see below for why).

`Gravity` has 4 to 6 cells and one iteration more than the largest grid has
cells, so that the solvers that must end by then do; the density without
symmetry keeps the algebra general, the uniform one is the degenerate right hand
side of a periodic box. Two cycles are two solves, the second from the potential
and the scalars of the first.

In `kernels` a state is a call of one configuration. There is no bound but the
pairs of diffusive terms: kernels interact through the shared flux, the shared
`dMax` and the shared source of curvature, two at a time.

The properties of `kernels` except cases that the code does not handle, by name:
`Overreach` (of `InBounds`), `OffCentre` (of `Centred`), `Starved` (of
`StageComplete`), `MixedFrames` (of `FrameTermsBalance`), and `Due` and `Limit`,
which say what must arrive (`NothingIsLost`), leave out the source of Braginskii
viscosity next to the ordinary one and the coefficients that the collisionless
flux scales. Each is explained below, under the disagreements; without its
exception TLC finds the property violated.

In `dump`, 2x2 writers have each a
first or last process of every direction, and the corner that has the extra
edge of both; 1x2 readers share one direction in two, so that a face is read by
both, and have the other whole, so that reading is not writing again.

Fairness. `MainLoop` assumes weak fairness of each process's steps: MPI makes
progress on posted operations, the operating system runs every process, a timer
expires. `Halo` and `Edges` need less: something happens while a process can run or a send
whose receive was started is under way. Nothing is assumed of a send whose
receive was not started, of signals, faults or user decisions. Deadlock is not
checked, since processes really end; `Termination` and `MCAllStagesDone` say what
deadlock freedom would. The other modules are about safety and have no fairness.

### What the documentation says and the code does not do

Each of these runs has one property, taken from a document or a comment, that
TLC finds violated; `PROJECT.json` quotes the sentence.

| run | property | what happens |
|---|---|---|
| `output_xdmf` | `AllFilesKept` | xdmf file numbers are not in the dumps: a restart overwrites the files |
| `loop_signal` | `SignalHonoured` | a signal to another process than rank 0 is lost |
| `dump_image` | `ImageIsExact` | the X2 component of a vector potential in three dimensions is taken for a field without direction: a distributed image reads it through `descER[-1]` |
| `halo_thin` | `GhostsAreSerial` | subdomains thinner than the ghost region are accepted, and get wrong ghosts |

Other disagreements met while reading, plain enough not to need a run:

- `-restart` takes the most recently written dump (`output/dump.cpp:609`), not
  "the highest value from existing dump files" (`commandline.rst:17`);
- a negative analysis period does not disable the analysis
  (`output/output.cpp:86-90`) as `idefix.ini.rst:446` says: it is made at every
  cycle;
- a dump written after a cycle longer than its period records a `dumpLast` that
  is not caught up yet (`output/output.cpp:307-317`): the run restarted from it
  writes another dump at once;
- with a clock period of dumps only, a run started afresh in the directory of an
  older one and killed before its first dump leaves the older run's dump the
  newest, and has overwritten files that this dump counts (`main.cpp:159-171`;
  see `FilesOrdered`);
- `main` returns 0 whatever `returnCode` is (`main.cpp:51-53` and `303`);
- a last step cut to less than 1e-15 / `CFL_max_var` makes a run that reached
  tstop end with an exception (`timeIntegrator.cpp:390-405`);
- a Nan found after the first stage leaves `Cycle` while `MPI_Iallreduce` still
  writes to its local `newdt` (`timeIntegrator.cpp:307` and `318`);
- `CheckNan` looks at primitive variables before `ConsToPrim`
  (`timeIntegrator.cpp:307` and `346`): a Nan of the last stage is only found
  by the next cycle that looks (`NanFound` says how late), and on an exception
  `Vc` has the residual velocity, which the emergency vtk then shows;
- RKL of order 2 evaluates its second stage at the time of the first
  (`rkl.hpp:387` is 0 for stage 1, though the solution moved by w1/3); and in
  even cycles, where it runs after the stages, its times start from a `data.t`
  already advanced (`rkl.hpp:307`, `timeIntegrator.cpp:362`). Only boundaries and
  diffusivities that depend on time see it; `StageTimes` leaves the first out
  and states times from `data.t`;
- PPM fluxes in Fargo read two cells on each side and LimO3 runs have two ghosts
  (`grid.cpp:62-66`). `CheckMaxDisplacement` looks at active columns only, and a
  face next to a ghost column may move more than `maxShift`: its flux then reads
  out of the scratch array, without the error that `fargo.rst:36-39` promises.
  With `nghost` equal to `reach` TLC finds `ShiftExact` violated;
- `Fargo` with the shearing box's velocity never calls `CheckMaxDisplacement`,
  so `dtMax` stays 0 and a decomposition along X2 is always refused
  (`fargo.hpp:311`), where `fargo.rst:34-35` allows any direction.
- a bool registered as a variable leaves the MPI type of `WriteSerial`
  uninitialised (`output/dump.cpp:305`); a variable whose type differs from that
  of the dump is read all the same, only the number of values is compared
  (`output/dump.cpp:776`);
- `coarsening` asked for as dynamic is overwritten by static (`grid.cpp:266`).

Of the kernels, each under the exception that names it in `EvolveStage`:

- `Overreach`: with the average `uct_hll` and three components in less than
  three dimensions, `K_StoreHLL` writes to `eyi` and `exj`, which
  `ConstrainedTransport` allocates in three dimensions only; with Hall it reads
  the current beyond where `CalcCurrent` computes it (`EdgesOverreach`).
  `BragOverreach` and `ComponentOverreach` are kernels that name what the build
  does not have, which compiles, since `idefix.hpp:77-94` gives it a number
  beyond the arrays, and which Kokkos does not check: no constructor refuses
  a term of Braginskii to a fluid without a field, whose kernels then read `Vs`,
  which only MHD allocates (`fluid.hpp:563`): `BragThermalDiffusion` means to
  ("requires MHD", `bragThermalDiffusion.hpp:167`) but tests `#ifndef MHD`, and
  MHD is always defined, as YES or as NO; `BragViscosity` has no such test. In
  two dimensions with three components the sweep of `BragThermalDiffusion` along
  X2 takes the field with `EXPAND`, by components, where the one along X1 has
  `D_EXPAND`: `BZ_J` is then a third component of `Vs`, one cell beyond its only
  layer (`bragThermalDiffusion.hpp:526-528`, `fluid.hpp:563`); the value is not used.
  In cylindrical coordinates `BragViscosity` takes `VX3`, 254 with fewer than
  three components, under `D_EXPAND` (`bragViscosity.hpp:318`). Dust has no
  energy, even in a build that has one (`physics.hpp:48`), but nothing refuses
  its `TDiffusion` or `viscosity`, which read `PRS` (`thermalDiffusion.cpp:108`)
  and add to the flux of `ENG` under `HAVE_ENERGY` (`viscosity.cpp:381`). A Cartesian
  rotation takes `VX2` and adds to `MX2` with one component too
  (`addSourceTerms.hpp:94-95`). TLC finds `InBounds` violated when any one of
  these is left out of `Overreach`;
- `Starved`: TVDLF and Roe compute one row of faces beside the domain, whatever
  `uct_hll` and `uct_hlld` read; the shocks are looked for one cell beside it,
  and the same averages read more; with resistivity or ambipolar diffusion of
  the user in RKL and nothing for the cells to do, `LoopDir`, which fills the
  diffusivities, is called in the first stage only (`rkl.hpp:704`), so that
  later stages use those of the first;
- `MixedFrames`: with Fargo and energy, viscosity in RKL takes the work of the
  stress from the deviations (`viscosity.cpp:365`), but the cells have the total
  velocity there (`timeIntegrator.cpp:258`), and nothing in `CalcParabolicRHS`
  adds what is missing; if RKL is first, the mean velocity was not even computed
  when the first cycle uses it;
- `Due`: the curvature source of Braginskii viscosity is in the `else` of that of
  the ordinary viscosity (`calcRightHandSide.hpp:414-424`): with both explicit
  it is dropped; RKL adds both;
- `Limit`: the collisionless flux multiplies the whole of `dMax`, that of the
  other terms included (`bragThermalDiffusion.hpp:809-811`);
- `OffCentre`: the collisionless flux, when limited, takes the slope of one cell
  for both sides of the face; along X2, in three dimensions, the limited gradient
  along X3 is made of differences along X1 (`bragThermalDiffusion.hpp:541`); in
  spherical coordinates the mean flow of `Viscosity` along X1 is taken in the cell
  beside the face (`viscosity.cpp:376`), and the stress at cells along X2 uses
  the viscosity of the face.

Of the kernels, not followed by the model:

- `SlopeLimiter::MinModLim` redefines `dq` in its branch and always returns 0
  (`utils/slopeLimiter.hpp:16-23`), where `idefix.ini.rst:196` says "reverts to
  minmod"; two formulas of `viscosity.cpp` assign a stress twice or use the left
  coordinate for the centre; explicit Braginskii viscosity under Fargo sees the
  residual velocity; a limited Braginskii viscosity in two dimensions leaves out
  the gradients of the third component;
- a shearing box of two dimensions with MHD uses `ey`, which is not allocated; the
  buffers of the electric field of one dimension are as short as if it had no
  second row, though the loops go one further;
- dust without a drag entry has no drag object, and `DataBlock::EvolveStage` uses
  the one of the first species all the same;
- a wedge of 2pi/N around the axis, which `CHANGELOG.md:328` allows, and several
  processes along X3: `SymmetrizeEx1Side` sums on one process and divides by the
  cells of all, and no check refuses it. An odd number of cells on the turn puts
  the opposite meridian half a cell off.

Of gravity (`Gravity` follows the first five):

- `Bicgstab::InitSolver` has the reset of its scalars commented out, and starts
  with a direction and an image that the algorithm does not: `TrueResidual` holds
  all the same, but the first direction of a solve is not its residual;
- an exact guess, or a zero right hand side (a uniform density in a periodic
  box), makes `alpha` NaN in CG and MINRES: `restart` and `shouldReset` are set
  and never read, the loop runs idle to the last iteration, and that is an error
  that stops the run; BICGSTAB fails twice, which is an error too;
- CG and MINRES raise that error also when they converge at the last iteration
  allowed, where Jacobi and BICGSTAB warn;
- the preconditioner divides rows, and uneven cells scale them: the operator is
  then not symmetric, as CG and MINRES need (`FiniteTermination` asks for it);
- with both skips, self-gravity is updated at multiples of both, where the
  documentation says every `skip` cycles; and it is solved at every stage of
  such a cycle;
- an infinite `alpha` or `omega` is not a NaN: it stops the run in `TestErrorL2`
  instead of starting anew;
- a user boundary with values other than zero makes the operator affine, which
  the recurrences of directions do not allow; periodic gravity of a fluid that
  is not periodic leaves ghosts unset with several processes.

## Proofs

`OutputProofs` proves, for all outputs, periods and bounds allowed by
`OutputAssumption`:

- `TypeCorrect`: `Spec => []TypeOK`, by the inductive `TypeInv`, which adds to
  `TypeOK` that a due date exists only for a process that is running.
- `RestartPointSafe`: `Spec => []RestartPointIntact`. The invariant is not
  inductive alone: it holds because the next number of a process is above that
  of the dump it started from or completed. `DumpInv` says so of the memory and
  of every complete dump n (it records the number n + 1), which is why the
  argument survives a restart from an arbitrary dump.
- `CadenceSafe`: `Spec => [](NotOverdue /\ NotAhead)`. It rests on two lemmas
  on the arithmetic, `CatchUpBounds` and `AdvanceBounds` (the date ends in
  (now - period, now] if it was in the past), and on `CadenceInv`, which adds
  that dates in memory and in dumps are in the past of the time next to them.

- `DumpsUpToDate`: `Spec => []DumpsAreUpToDate`. A dump is written last, from a
  memory in which nothing is due (`CadenceInv`, while one is written).
- `FilesSafe`: `Spec => FilesKept`, the action property. `Counted` says that the
  next file of a running process is never numbered below those counted by the
  dump it stands on.
- `FilesOrdered`: `Spec => []FilesInOrder` if `OneHistory` holds: the user
  resumes from the last dump only, two dumps have not the same date, and dumps
  have a period of time. The last condition was found by the attempt to prove
  the rest: with a clock period only, a fresh start that is killed before its
  first dump has written files over those counted by the older dump, which is
  still the newest (TLC shows it with `DumpPeriods = {0}`). With a period of
  time a fresh start writes a dump at once. The invariant `OrderInv` speaks of
  the memory and of each dump that can be resumed: the files below its next
  number are in order and before its next date.

TLC checks the same formulas in `output_cadence` and `output_restart`.

`MainLoopProofs` proves, for any number of processes and of stages and all
options, from `MainLoopAssumption` alone:

- `Types`, and `Scheduled`: `Spec => []OneSchedule`. The processes are at
  different places of a run, so that no invariant can compare their variables
  directly. The one that works says that there is a sequence, the schedule, of
  the collective calls with what a process that made each call knows (time,
  time step, cycle, stage, position of its last reduction), that every process
  is at an entry of it, and that its calls are those of the schedule up to
  there. Each entry follows from the one before and from the answers to the
  calls (`Follows`, in which an answer is read only if MPI has given it). A
  process ahead of the others extends the schedule; another one that comes to
  the same place reads the same answers, so that it must extend it alike.
- `SameCalls` (`CollectivesMatch`) and `SameSteps` (`SameStep`) read off it.
- `CollectiveEmergency` (`EmergencyIsCollective`) adds `Emergency`: when one
  process writes the file, the others have caught their exception after the
  same calls.
- `Ends`: `Spec => EndsTogether`, the refinement of `AgreedEnd` step by step.
  For the return code 1 the time of the end is t0, that of the beginning of the
  cycle: with three stages and exceptions of one process the intermediate times
  at which processes stop differ, which the instance with two stages hid and
  the proof did not.

`CycleProofs` proves, for all inputs allowed by `CycleAssumption`:

- `FramesMatch` (`Frames`): `LoopInv` knows where the loop on stages is,
  `FrameInv` the frame of the three arrays at each kernel, of the saved state
  too, from the first stage of several on.
- `Coarsened` (`EvolvesCoarse`): `Vc` is coarsened throughout, since it is made
  of a `Uc` that was.
- `NansAreFound` (`NanFound`): `BornInv` says that a Nan spreads and is
  remembered, `LateInv` that in a cycle that looks for them it can only have
  appeared after the look of the stage under way.
- `RklIsStable` (`RklStable`), for any ratio of time steps and both orders. The
  CHOOSE of `rklstages` needs a witness: the least s that is not at most nrkl
  exists because `MaxStages` is one (`RatiosAssumption`), and `EnoughStages1` and
  `EnoughStages2` take the inequality with the square root back to that of the
  stability.

- `CyclesAreAccurate` (`Accurate`), `SplittingIsSymmetric` (`Symmetric`) and
  `StagesAreOnTime` (`StageTimes`), from `SolutionHyp`. None of the three is
  inductive: they speak of the ends of cycles. `SolutionInv` has the polynomial
  and the word at each place (`Early` before a stage, `Grown` after its fluxes,
  `Ended` after its weights; `Letters`: the operators in the order in which
  cycles take turns), `TimeInv` the time at the same places, which is the
  coefficient of degree 1, and `RklInv` what RKL keeps of the two stages before.
  Fractions are compared in lowest terms, so that equal ones are one value: the
  least denominator is found by the well-founded order of naturals (`LowestIs`)
  and is the same for both (`FracSame`), from which sums, products and quotients
  follow (`AddFrac`, `MulFrac`, `DivFrac`). The stages of Runge-Kutta are three
  computations (`Grows`, `Weighted`, `WeightedTime`). Those of RKL are any
  number: after stage j of s the coefficient of degree 1 is
  b_j (2 (j^2 + j)) / (s^2 + s - 2) at order 2, that of degree 2
  b_j (j^2 + j)(j^2 + j - 2) / (s^2 + s - 2)^2, and (j^2 + j) / (s^2 + s) that of
  degree 1 at order 1 (`First`, `Second`). The recurrence of the code keeps this
  form (`SteppedIs`) because of two identities between polynomials in j
  (`Recurrence`), with what 1 - mu - nu and gamma bring; at j = s it is the
  exponential (`LastIs`), because b_s is a half of (s^2 + s - 2) / (s^2 + s), for
  s = 2 too, where the code sets it to 1/3.

Of `Fargo`, `CycleProofs` proves, for any number of cells, processes and ghosts, all
displacements and every stencil narrower than the ghost region, that what the
processes compute from their scratch arrays is the shift on the whole direction
(`ShiftIsExact`: `ShiftExact`) and that they agree on shared edges
(`SharedEdges`: `EdgesAgree`). The lemmas follow the code's indices: the rounding
and the sign of `fmod` give the nearest whole number of cells up to whole turns
(`SameDisplacement`); each read is inside the scratch array and of the right
cell (`ReadIs`, `BesideIs`, `OriginIs`); `ShiftVcIs` is the cell; the loop that
adds up the cells crossing a face counts each of them once (`ComputeEkIs`), and
the two faces of a cell differ by what leaves and what comes (`CrossedDiffer`,
`EvolvMagFieldIs`). The hypothesis `ShearBounded` is one on the input: with
several processes, a ghost column moves at most one cell more or less than its
neighbour. It is needed because the code compares the displacement of active
columns only with `maxShift`, and shifts the faces between both by the mean
(see the disagreements); one process needs nothing.

`SubdomainProofs` proves of `DumpFile`, for all grids, shares, fields and numbers of processes
that write and that read, from `DumpFileAssumption` alone:

- `NeverOverwritten` (`NothingOverwritten`) and `Typed`. The offset of an entry
  is in no variable: each process counts its own. `Inv` says that there is one
  list of offsets, as long as the foremost process has come, that all count,
  that the file holds what they have written, and nothing else. Two entries do
  not meet because each offset comes after the bytes of those before
  (`Offsets`), two processes in one entry because each element has one writer:
  `OneOwner` is the arithmetic of a direction, with the face or edge that its
  last process keeps, `RankIs` and `ElementIs` say that elements and their
  indices correspond, and `ViewedIs` what the view of a subarray reaches.
- `RestartExact` (`RestartIsExact`). Once the file is closed its content is
  known (`FileIs`), and what a reading process has heard of says where it is,
  at which offset, and what is in its memory (`Position`, `Restored`). A process
  reads through its view its part of the array (`DistributedIs`), though it
  shares the grid in another way than those that wrote.
- `AllRefuse` (`RefusedTogether`): what one process refused, all those that come
  past it would have refused.
- `ImageExact` (`ImageIsExact`) for a whole image, and for a distributed one if
  `AllGuessable`: no field has an element more in X1 and one in X3, which
  is what `DumpImage` does not look for, and `dump_image` what it then does.
  Everything else is told by its dimensions alone (`GuessIs`).

`SubdomainProofs` proves of `Decomposition`, for all grids, numbers of processes and `-dec`
allowed by `DecompositionAssumption`:

- `DecompositionCorrect`: `GridSpec => [](GridTypeOK /\ EvenShares /\ NeverTooSmall)`.
  While halving, the inductive `GridInv` knows (`Halved`) that `nleft` and the
  points left in each direction are powers of two, that `nleft` times the
  processes placed is `psize`, and that in each direction points times
  processes are those of the grid. If one point was left in each direction
  with `nleft > 1`, the processes placed would be as many as the cells of the
  grid, which `psize`, a multiple of them, divides (`PointsLeft`): so the last
  error of the function cannot be raised. Halves are exact (`Half`), and at
  the end the number of processes is `psize` and each divides its direction.
- `SubdomainsTile`: `GridSpec => []Tiled`. Lemma `OneShare`: in a direction shared
  evenly each index is in one and only one range; `Tiling` takes the three
  directions together.

TLC checks all of these but `GridTypeOK` in `decomposition`.

`HaloProofs` proves `GhostsSerial`: `Wide => (Spec => []GhostsAreSerial)`, for all
grids of processes, cells, ghosts, boundaries and stages that `HaloAssumption`
allows, and all delays of messages. `Wide` is what the input has to provide and no
check of the code does: more active cells than ghosts in a direction that
several processes share, since a message takes its cells, and one face more,
from one neighbour (`halo_thin` shows what happens otherwise); as many active
cells as ghosts at a wall or an axis; and a turn around the axis that is periodic.
`MCAssumption` evaluates it for the instances TLC checks. The argument:

- Geometry. Two sites of two processes that stand for one coordinate have one
  value (`Congruent`); a ghost beyond a wall, an outflow or an axis has that of the
  site it mirrors, with its sign (`Mirrored`); owner and process agree on the
  sites a process computes (`OwnRight`).
- What a process holds. `Exact(array, r, e, F, n)`: the array is right, in stage `n`,
  at the sites the process owns and those beyond the sides `F` of direction `e`,
  all indices of the directions before included. A local boundary
  (`EnforcedExact`), a message of the neighbour (`PackGood`, `UnpackedExact`) and
  one from across the axis (`AxisPackGood`, `FoldedExact`) each take only what
  `Exact` already covers and add one side to `F`; two sides give the next
  direction all its indices (`ExactNext`), which is why corners are right.
- Messages. `GhostsAreSerial` is not inductive, since what is in a buffer or on its
  way decides what is received. `IInv` adds that a send is under way only in the
  exchange that started it, with its message still in the buffer (`Sending`), and
  that a queue holds in order the messages that left and were not received
  (`Flying`), each good for its exchange: `Begun` and `Got` count them from what
  `pc`, `dir`, `side` and `stage` say. Across two axes a process starts two
  exchanges in a stage over one channel, and `Ticket` numbers them: `TicketOnce`
  is that the number tells the side.

TLC checked `IInv` on small instances before it was proved, with one and with
two axes, walls, and more ghosts than one.

`EdgeProofs` proves `EdgesAlwaysMatch`: `Given => (Spec => []EdgesMatch)`, for all
planes of processes, cells, boundaries and stages that `EdgesAssumption` allows, in
any interleaving. `Given` adds `TurnShared`: around the axis, a direction that
several processes share is a whole turn, since each of them sums its share of a
wedge alone (see the disagreements). Messages are plainer than those of `Halo`,
reductions are what is new:

- What an array holds is a function of the stage: `Regular` after the axis,
  `Exchanged` after the first direction, `Both` after the second, where a first line
  is the last one of the process before (`Left`). `Fine` says so at each place of
  `pc`, `Sending` of a buffer under way, `Flying` of each message of a queue, which
  `Begun` and `Taken` count.
- `Together`: the processes around an axis have passed it in the same stages and
  are at the same side of it. A reduction then takes from all of them nodes that
  were computed in one stage and not averaged yet (`SumIs`), and leaves all of
  them one side further (`AllreduceKeeps`).
- `FineMatch`: the two exchanges and the periodic copy follow a node to its
  `Origin` (`BothIs`, `PeriodizedIs`), one direction after the other, corners
  included; a node that is taken from the process before is on the axis of
  neither (`PoleIs`).

`KernelProofs` proves of `EvolveStage`:

- `KernelsInBounds`: `Spec => []InBounds`;
- `KernelsDoNotRace`: `Spec => []NoRace`;
- `KernelsCentred`: `Spec => []Centred`;
- `StagesLoseNothing`: `Spec => []NothingIsLost`;
- `StagesBalanceFrames`: `Spec => []FrameTermsBalance`;
- `ViscosityOfTheWholeFlow`: `Spec => []ViscousFrame`.

and `RegionProofs`, which extends it, the seventh invariant:

- `StagesReachAllCells`: `Spec => []StageComplete`.

TLC checks the seven for the configurations of `MCKernels`, the theorems hold
for any set of configurations that `ConfigsAssumption` admits: `Options` lists
what a build and an input file can say, all solvers, averages, orders,
geometries, dimensions, components, terms with any of them in RKL, frames;
`Consistent` what they cannot say together. No more dimensions than components
(`doc/source/reference/definitions.hpp.rst:11`); cylindrical coordinates in at most
two dimensions (`idefix.hpp:58-60`), polar ones with an angular velocity (`iVPHI`,
`idefix.hpp:155-157`, which `addSourceTerms.hpp:137` names); no conduction of heat, isotropic or
not, without an energy (`thermalDiffusion.hpp:86-88`,
`bragThermalDiffusion.hpp:170-173`); a drag of dust only (`drag.hpp:117`); Hall, resistivity, ambipolar
diffusion (`fluid.hpp:453`) and a vector potential are of MHD only, the last not
in one dimension (`fluid.hpp:566`); RKL takes terms that exist, and a cycle of
RKL needs one. The argument of the first three:

- `Good` is what a read has to be: in an array, with its stencil inside it all
  along the loop, centred, and of nothing the kernel writes unless at the same
  cell. `Fine` says so of a statement, `Kernel` of a loop, `Kernels` of the loops
  of a function.
- Most reads need no arithmetic: a stencil of one cell to each side (`Small`),
  over a loop that leaves a ghost cell (`Near`), fits in two ghosts
  (`SmallInside`). Reconstruction, which goes up to three cells along the sweep,
  and the extension across it that averages at edges ask for, are `StatesInside`.
- One lemma per function of `Riemann`, `Induction`, `Diffusion` and
  `RightHandSide` gives the `Kernels` of its loops, and one per call those of the
  call under its condition `Wanted`: an array that is read is one that the
  constructors allocate for the options with which the function is called.
- The properties look at the last call only, but `Wanted` is about the next:
  `StageInv` has that the options are consistent (`Setting`), that `mem` has
  exactly what they allocate, that `pc` is a call that is wanted, and the
  `Kernels` of the last. `FollowingWanted` takes the least call after this one
  that is wanted, which the well-founded order of naturals provides.

The next three are about what whole stages make of the arrays. None is
inductive: what an array holds when a stage ends comes from calls of long ago, in
sweeps that ended, and a call is sure not to add twice only because of what was
added before it. The argument keeps books:

- Memory. `Launch` takes an array of memories, one after each loop of a function
  (`After`), and never more than the loops of a function that is known: no loop
  of a function writes an array of another of its loops, so what it leaves in an
  array is what the one statement that writes it sets, or adds to what was there.
- Books. One lemma per function says which array it writes, whether it sets or
  adds to it, and which parts (`Entry`, `Books`), for all solvers, averages, orders
  and geometries; one per call says which arrays it leaves alone.
- Order. `Been(call)` is that the call has been made, in this sweep or, outside
  of the sweeps, in this stage: it precedes `pc` in `Calls` and is wanted. When a
  call is made, it is the only one for which `Been` changes.
- `Ledger` gives, at each point of a stage, the parts of each array by what has
  been made: `FluxLedger` the fluxes and largest coefficients of the sweep,
  `CellLedger` what the directions of the sweeps that ended (`Done`) have brought to
  the cells, time step and tracers, `FrameLedger` the velocity, `FieldLedger` the edges
  and faces, `OrderInv` which direction it is. `Clean` adds that no array has a part
  twice, since the shares of two directions, and of two calls of one direction,
  have none in common.
- A stage begins with empty books (`Init`, `NextStage`), and the next direction with
  those of the sweeps before: all that a sweep uses of its own it sets before it reads.
- At the end of a stage the options leave nothing of `Been` open, and the ledger is
  compared with `Due`, `Limit` and the frames.

TLC checked `Ledger` on the configurations of `MCKernels` before it was proved.

`StageComplete` is about where: two ghost cells, three at order 4, have to be
enough for a chain of stencils that goes over four functions (current, flux,
field at the edges, field on the faces). The valid regions that `mem` records
depend on all the options, so the invariant does not say what they are but what
they must hold:

- Regions. `Need` gives each array the region a stage relies on: all cells and
  ghosts of the primitive variables and of what the user fills, the cells of the
  domain for what is summed there, the faces of the sweep for its fluxes, and for
  what the Riemann solver stores the faces with as many cells across as the
  average at the edges asks for (`perpExtension`). `EvolveMagField` takes new faces from old ones, and what is
  needed of the field shrinks there (`Moved`, `NeedLess`).
- Loops. `Serves` is what the loops of a function must be to give what is needed:
  each statement goes over all the cells where its array is, and where it reads, the
  cells around those (`Touch`) are in what is needed of the array it reads, which
  was there before or comes from an earlier loop of the same function. `AfterCovers`
  takes this to the memory: regions only meet (`Meet`), so what all of them hold
  the result holds (`MeetCovers`, `ReachCovers`).
- Calls. `Ready` lists the arrays that are filled at each point of a stage and
  `Gain` what a call adds; `CallsFed` is that the loops of every call serve its gain
  from what is ready, one lemma per function and per solver, average and order.
  This is where `Starved` is needed: under the options it names a call reads what
  nobody has filled, and the lemmas show that there is no other such case.
- Stages. `Covered` says that what is ready holds what is needed. A stage begins with
  what it is given (`Blank`), a sweep forgets what was of its own (`TurnReady`), and
  at the end what the options evolve is ready, over the cells, faces and edges of
  the domain.

TLC checked `Covered`, and that all calls serve, on `MCKernels` before they were proved.

Model-checked only. `Termination` and `MCAllStagesDone` are liveness, out of the
prover's reach. The solvers of `Gravity` (`MCTrueResidual`, `MCFiniteTermination`)
compute with sums over the whole grid, and their number of iterations is an
induction on its size. `MCGhostsAreSerial` and `MCEdgesMatch`, which `MCHalo` states
for its instances, are what `HaloProofs` and `EdgeProofs` prove for all.

## Plan

Done: outputs, the main loop, cycles with RKL and Fargo, exchanges of ghosts and
of edges, the axis, the decomposition, dumps, the kernels of a stage, gravity
and its solvers, in the order of what a fault would cost. Next:

1. `Coarsening`: averages over blocks, and the levels, with `ReconstructNormalField`.
2. The shearing box's boundaries, composed with `Halo` and `Edges`.
3. `InputFile`, `Column`, `LookupTable`, the vtk layout.

## Not modelled, and why

Formulas: fluxes of the Riemann solvers, equations of state, diffusivities,
orbits of planets (whose registration in dumps `Output` covers) and the implicit
drag, which divides each cell by a factor. They are floating point, cell by
cell, without control of their own; what surrounds them is in the modules of the
kernels. Sources and boundaries of users: any code.

The shearing box's interpolation, coarsening's averages, `ReconstructNormalField`,
column integration and table look-up: planned. Formats of vtk, xdmf, npy,
images and logs: wording and layout. The parser of the input file: text.
`pydefix`: passes arrays to an interpreter. Kokkos: external, an `idefix_for` is
one atomic step of the process that launches it, except that `NoRace` looks at
its threads. Tests and python tools: not part of the program.
