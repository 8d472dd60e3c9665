------------------------------ MODULE DumpFile ------------------------------
(***************************************************************************)
(* What is inside a restart dump (dump.cpp) and an image of one            *)
(* (utils/dumpImage.cpp).  The processes of one run write the file         *)
(* together, each keeping its own offset; the processes of a later run,    *)
(* which may share the grid in another way and know other fields, read it. *)
(*                                                                         *)
(* A field is a record: where it lives ("scalar", "center", "face",        *)
(* "edge"), its direction (0 when it has none) and the number of its       *)
(* values if it is a scalar.  The value of an array is a symbol: its name, *)
(* its place on the global grid and the process that computed it.          *)
(***************************************************************************)
EXTENDS Subdomain, Sequences, FiniteSets

CONSTANTS
  Dim,      \* DIMENSIONS
  Np,       \* np_int of the grid
  Writers,  \* nproc of the run that writes
  Readers,  \* nproc of the run that reads
  Saved,    \* dumpFieldMap of the run that writes: fields by name
  Names,    \* their names, in the order of std::map
  Loads,    \* dumpFieldMap of the run that reads, any of a set
  Modes     \* how it reads: "restart", "image", "distributed image"

Field == [at: {"scalar", "center", "face", "edge"}, dir: 0..3, size: Nat \ {0}]

\* The names that Dump::Write adds to those of the fields, and none.
Reserved == {"x1", "x2", "x3", "eof", "garbage"}

\* A field of a given name lives at the same place in all runs: it is registered
\* by one line of the code.
ASSUME DumpFileAssumption ==
  /\ Dim \in Dirs
  /\ \A f \in {Np, Writers, Readers}: f \in [Dirs -> Nat \ {0}]
  /\ \A d \in Dirs: Np[d] % Writers[d] = 0 /\ Np[d] % Readers[d] = 0
  /\ \A map \in {Saved} \cup Loads: \A name \in DOMAIN map: map[name] \in Field
  /\ \A map \in Loads: \A name \in DOMAIN map \cap DOMAIN Saved:
        map[name].at = Saved[name].at /\ map[name].dir = Saved[name].dir
  /\ "time" \in DOMAIN Saved => Saved["time"].at = "scalar"
  /\ DOMAIN Saved \cap Reserved = {}
  /\ Names \in Seq(DOMAIN Saved) /\ \A i, j \in DOMAIN Names: Names[i] = Names[j] => i = j
  /\ \A name \in DOMAIN Saved: \E i \in DOMAIN Names: Names[i] = name
  /\ Modes \subseteq {"restart", "image", "distributed image"}

VARIABLES
  file,    \* the file: what it holds at an offset
  wrote,   \* how many entries each writing process has written
  woff,    \* its Dump::offset
  mode,    \* what the second run does, "none" before it starts
  loaded,  \* its dumpFieldMap
  pc,      \* where each reading process is: "x1", "x2", "x3", "fields", "end", "refused"
  roff,    \* its Dump::offset
  heads,   \* what rank 0 has read and broadcast
  heard,   \* how many of these broadcasts each process has taken part in
  memory   \* what each process has loaded, by name

writing == <<file, wrote, woff>>
reading == <<pc, roff, heads, heard, memory>>
vars == <<writing, mode, loaded, reading>>
-----------------------------------------------------------------------------
(* The layout of the file *)

Root == <<0, 0, 0>>
HeaderSize == 128
\* The name, the type, the number of dimensions and the dimensions.
PropertiesSize(ndim) == 16 + 4 + 4 + 4 * ndim
SizeOf(f) == IF f.at = "scalar" THEN 4 ELSE 8   \* an int, a double

\* The extra element an array of faces or edges has in direction d.
Extra(f, d) ==
  IF (f.at = "face" /\ d = f.dir) \/ (f.at = "edge" /\ d <= Dim /\ d # f.dir) THEN 1 ELSE 0

Whole(f) == [d \in Dirs |-> Np[d] + Extra(f, d)]

\* Mutant: every process keeps its last face.
WriteShapeAll(f, x) == [d \in Dirs |-> Local(Np, Writers, d) + Extra(f, d)]

\* nx of Dump::Write: the last process of a direction keeps its last face.
WriteShape(f, x) ==
  [d \in Dirs |-> Local(Np, Writers, d) + (IF x[d] = Writers[d] - 1 THEN Extra(f, d) ELSE 0)]

\* CreateMPIDataType, for writing and, where the shares overlap, for reading.
DescriptorW(f, procs, x) ==
  [size  |-> Whole(f),
   start |-> [d \in Dirs |-> Start(Np, procs, x, d)],
   sub   |-> [d \in Dirs |-> Local(Np, procs, d) + (IF x[d] = procs[d] - 1 THEN Extra(f, d) ELSE 0)]]

\* Mutant: reading, too, only the last process has the last face.
DescriptorRLikeW(f, box) ==
  [size  |-> Whole(f), start |-> box.start,
   sub   |-> [d \in Dirs |-> box.size[d] + (IF box.start[d] + box.size[d] = Np[d]
                                              THEN Extra(f, d) ELSE 0)]]

DescriptorR(f, box) ==
  [size  |-> Whole(f), start |-> box.start, sub |-> [d \in Dirs |-> box.size[d] + Extra(f, d)]]

OwnBox(x) == [start |-> [d \in Dirs |-> Start(Np, Readers, x, d)],
              size  |-> [d \in Dirs |-> Local(Np, Readers, d)]]

\* The m-th element of an array, the first index running first, and back.
Element(m, n) == <<m % n[1], (m \div n[1]) % n[2], m \div (n[1] * n[2])>>
Rank(c, n) == c[1] + n[1] * (c[2] + n[2] * c[3])

\* Where the m-th element goes through the view of a subarray, which MPI
\* repeats when there are more elements than it has.
Viewed(m, desc) ==
  LET c == Element(m % Product(desc.sub), desc.sub)
  IN  Rank([d \in Dirs |-> desc.start[d] + c[d]], desc.size)
        + Product(desc.size) * (m \div Product(desc.sub))

Elements(n) == 0..(Product(n) - 1)
Shape(n) == (0..(n[1] - 1)) \X (0..(n[2] - 1)) \X (0..(n[3] - 1))

\* What Write puts in the file, in order: x1, xl1, xr1 and so on (taken as one
\* entry for each direction), the registered fields, the end.
Entries == <<"x1", "x2", "x3">> \o Names \o <<"eof">>
Coordinate == [x1 |-> 1, x2 |-> 2, x3 |-> 3]

Properties(name) ==
  IF name \in DOMAIN Coordinate THEN [name |-> name, dims |-> <<Np[Coordinate[name]]>>, width |-> 8]
  ELSE IF name = "eof" THEN [name |-> name, dims |-> <<1>>, width |-> 8]
  ELSE [name |-> name, width |-> SizeOf(Saved[name]),
        dims |-> IF Saved[name].at = "scalar" THEN <<Saved[name].size>> ELSE Whole(Saved[name])]

\* The number of values: ntot or nglob.
Count(dims) == IF Len(dims) = 1 THEN dims[1] ELSE Product(dims)

\* Three arrays for each direction.
Arrays(name) == IF name \in DOMAIN Coordinate THEN 3 ELSE 1

\* What an entry takes in the file.
Size(p) == Arrays(p.name) * (PropertiesSize(Len(p.dims)) + Count(p.dims) * p.width)

Value(name, c, x) == [name |-> name, at |-> c, by |-> x]
Constant(name) == Value(name, <<>>, Root)

\* What is at one place, and next to what is already there.
Single(q, v) == [k \in {q} |-> v]
Over(f, g) == [q \in DOMAIN f \cup DOMAIN g |-> IF q \in DOMAIN f THEN f[q] ELSE g[q]]
-----------------------------------------------------------------------------
(* Dump::Write *)

\* What a process writes of a distributed field, by place in the array.
Share(f, x, name) ==
  LET nx   == WriteShape(f, x)
      desc == DescriptorW(f, Writers, x)
  IN  [q \in {Viewed(m, desc): m \in Elements(nx)} |->
         LET c == Element(CHOOSE m \in Elements(nx): q = Viewed(m, desc), nx)
         IN  Value(name, [d \in Dirs |-> Start(Np, Writers, x, d) + c[d]], x)]

Shares == [x \in Coordinates(Writers) |->
             [name \in {n \in DOMAIN Saved: Saved[n].at # "scalar"} |->
                Share(Saved[name], x, name)]]

\* Rank 0 writes the properties and, of an entry that is not distributed, the
\* value; every process writes its share of an array.
Written(name, x, o) ==
  LET p     == Properties(name)
      data  == o + Arrays(name) * PropertiesSize(Len(p.dims))
      share == Shares[x][name]
  IN  Over(IF x = Root THEN Single(o, p) ELSE <<>>,
           IF Len(p.dims) = 3
             THEN [q \in {data + p.width * r: r \in DOMAIN share} |->
                      share[(q - data) \div p.width]]
           ELSE IF x = Root THEN Single(data, Constant(name)) ELSE <<>>)

\* WriteSerial or WriteDistributed, and the offset of the next entry.
Write(x) ==
  /\ wrote[x] < Len(Entries)
  /\ LET name == Entries[wrote[x] + 1]
     IN  /\ file' = Over(Written(name, x, woff[x]), file)
         /\ woff' = [woff EXCEPT ![x] = @ + Size(Properties(name))]
  /\ wrote' = [wrote EXCEPT ![x] = @ + 1]
  /\ UNCHANGED <<mode, loaded, reading>>
-----------------------------------------------------------------------------
(* Dump::Read and DumpImage::DumpImage *)

Closed == \A x \in Coordinates(Writers): wrote[x] = Len(Entries)

\* The second run opens the file.
Open == /\ Closed /\ mode = "none"
        /\ mode' \in Modes /\ loaded' \in Loads
        /\ UNCHANGED <<writing, reading>>

Garbage == [name |-> "garbage", dims |-> <<0>>, width |-> 0]
At(o) == IF o \in DOMAIN file THEN file[o] ELSE Garbage
PropertiesAt(o) == IF "dims" \in DOMAIN At(o) THEN At(o) ELSE Garbage

\* ReadNextFieldProperties, and ReadSerial with it: rank 0 reads and
\* broadcasts, the others get what it read.
Heard(x) == IF x = Root THEN PropertiesAt(roff[x]) ELSE heads[heard[x] + 1]
Hear(x) ==
  /\ mode # "none"
  /\ x = Root \/ heard[x] < Len(heads)
  /\ heads' = IF x = Root THEN Append(heads, Heard(x)) ELSE heads
  /\ heard' = [heard EXCEPT ![x] = @ + 1]
  /\ UNCHANGED <<writing, mode, loaded>>

\* The offset after the properties and the values (Skip, where they are not read).
After(x) == roff[x] + Size(Heard(x))

Values(x) == roff[x] + PropertiesSize(Len(Heard(x).dims))

NextPart == [x1 |-> "x2", x2 |-> "x3", x3 |-> "fields"]

\* The coordinates of a direction, whose number must be that of the grid for a
\* restart.
ReadCoordinates(x) ==
  /\ pc[x] \in DOMAIN Coordinate /\ Hear(x)
  /\ LET dims == Heard(x).dims
         fits == Len(dims) = 1 /\ (mode = "restart" => dims[1] = Np[Coordinate[pc[x]]])
     IN  pc' = [pc EXCEPT ![x] = IF fits THEN NextPart[@] ELSE "refused"]
  /\ roff' = [roff EXCEPT ![x] = After(x)]
  /\ memory' = memory

\* nx of Dump::Read: a process holds all the faces and edges of its cells.
ReadShape(f) == [d \in Dirs |-> Local(Np, Readers, d) + Extra(f, d)]

\* ReadDistributed: the elements of the view, into an array of shape nx.
Distributed(x, desc, nx) ==
  [c \in Shape(nx) |-> At(Values(x) + 8 * Viewed(Rank(c, nx), desc))]

\* Mutant: the values of a field that is not registered are not skipped.
AfterUnskipped(x) ==
  IF Heard(x).name \in DOMAIN loaded THEN After(x) ELSE Values(x)

\* A field this run has not registered is skipped.
AfterField(x) == After(x)

\* The body of the loop of Dump::Read, up to "eof".
ReadField(x) ==
  /\ pc[x] = "fields" /\ mode = "restart" /\ Hear(x)
  /\ LET p == Heard(x)
         f == loaded[p.name]
         known == p.name \in DOMAIN loaded
         load(v) == memory' = [memory EXCEPT ![x] = Over(Single(p.name, v), @)]
     IN  IF p.name = "eof"
           THEN pc' = [pc EXCEPT ![x] = "end"] /\ UNCHANGED <<roff, memory>>
         ELSE IF p = Garbage \/ (known /\ f.at = "scalar" /\ p.dims[1] # f.size)
           THEN pc' = [pc EXCEPT ![x] = "refused"] /\ UNCHANGED <<roff, memory>>
         ELSE /\ pc' = pc
              /\ roff' = [roff EXCEPT ![x] = AfterField(x)]
              /\ IF ~known THEN memory' = memory
                 ELSE IF f.at = "scalar" THEN load(At(Values(x)))
                 ELSE load(Distributed(x, DescriptorR(f, OwnBox(x)), ReadShape(f)))

\* DumpImage::GetBox: the cells of the dump from the last one that starts at
\* or before the subdomain, to the last one that ends at or before its end.
GetBox(x) ==
  LET last(S) == CHOOSE i \in S: \A j \in S: j <= i
      beg == [d \in Dirs |-> last({i \in 0..(Np[d] - 1): i <= Start(Np, Readers, x, d)})]
      end == [d \in Dirs |-> last({i \in 0..(Np[d] - 1): i + 1 <= Stop(Np, Readers, x, d)})]
  IN  [start |-> beg, size |-> [d \in Dirs |-> end[d] - beg[d] + 1]]

\* Mutant: the direction of a face is taken for that of an edge.
GuessSwapped(dims) ==
  LET more == {d \in Dirs: dims[d] = Np[d] + 1}
  IN  [nType |-> Cardinality(more), surfaceDir |-> IF 1 \in more THEN 2 ELSE 1, edgeDir |-> 3]

\* What DumpImage guesses of a field from its dimensions: how many of them
\* have one element more, and edgeDir, which is left at its first value (-1 in
\* the code) for two of them whose first is X1 and second X3.
Guess(dims) ==
  LET more == {d \in Dirs: dims[d] = Np[d] + 1}
  IN  [nType |-> Cardinality(more),
       surfaceDir |-> IF more = {} THEN 0 ELSE CHOOSE d \in more: \A e \in more: e >= d,
       edgeDir |-> IF 2 \notin more THEN 0 ELSE IF 1 \in more THEN 3 ELSE 1]

\* The descriptors DumpImage may use for it.  descER[-1] is outside its array:
\* any descriptor of the object may be there, in practice its neighbour.
Guessed(x, dims) ==
  LET g == Guess(dims)
      R(at, dir) == DescriptorR([at |-> at, dir |-> dir, size |-> 1], GetBox(x))
      W(at, dir) == DescriptorW([at |-> at, dir |-> dir, size |-> 1], Readers, x)
  IN  CASE g.nType = 0 -> {R("center", 0)}
        [] g.nType = 1 -> {R("face", g.surfaceDir)}
        [] g.nType = 2 /\ g.edgeDir # 0 -> {R("edge", g.edgeDir)}
        [] OTHER -> UNION {{R("face", d), W("face", d)}: d \in Dirs}

\* The body of the loop of the constructor: arrays are kept under their names,
\* "time" is the one scalar kept here, and the others are read over.
ReadImage(x) ==
  /\ pc[x] = "fields" /\ mode # "restart" /\ Hear(x)
  /\ LET p == Heard(x)
         box == GetBox(x)
         load(v) == memory' = [memory EXCEPT ![x] = Over(Single(p.name, v), @)]
     IN  IF p.name = "eof"
           THEN pc' = [pc EXCEPT ![x] = "end"] /\ UNCHANGED <<roff, memory>>
         ELSE IF p = Garbage
           THEN pc' = [pc EXCEPT ![x] = "refused"] /\ UNCHANGED <<roff, memory>>
         ELSE /\ pc' = pc
              /\ roff' = [roff EXCEPT ![x] = After(x)]
              /\ IF p.name = "time" THEN load(At(Values(x)))
                 ELSE IF Len(p.dims) # 3 THEN memory' = memory
                 ELSE IF mode = "image"
                   THEN load([c \in Shape(p.dims) |-> At(Values(x) + 8 * Rank(c, p.dims))])
                 ELSE \E desc \in Guessed(x, p.dims):
                        load(Distributed(x, desc, [d \in Dirs |->
                          box.size[d] + (IF p.dims[d] = Np[d] + 1 THEN 1 ELSE 0)]))
-----------------------------------------------------------------------------
Init ==
  /\ file = <<>>
  /\ wrote = [x \in Coordinates(Writers) |-> 0]
  /\ woff = [x \in Coordinates(Writers) |-> HeaderSize]
  /\ mode = "none" /\ loaded = <<>>
  /\ pc = [x \in Coordinates(Readers) |-> "x1"]
  /\ roff = [x \in Coordinates(Readers) |-> HeaderSize]
  /\ heads = <<>> /\ heard = [x \in Coordinates(Readers) |-> 0]
  /\ memory = [x \in Coordinates(Readers) |-> <<>>]

Read(x) == ReadCoordinates(x) \/ ReadField(x) \/ ReadImage(x)

\* The only end of the system: anything else that stops is a deadlock.
AllRead == (\A x \in Coordinates(Readers): pc[x] \in {"end", "refused"}) /\ UNCHANGED vars

Next == \/ \E x \in Coordinates(Writers): Write(x)
        \/ Open
        \/ \E x \in Coordinates(Readers): Read(x)
        \/ AllRead

Spec == Init /\ [][Next]_vars
-----------------------------------------------------------------------------
(* Properties *)

TypeOK ==
  /\ \A o \in DOMAIN file: o \in Nat /\ o >= HeaderSize
  /\ wrote \in [Coordinates(Writers) -> 0..Len(Entries)]
  /\ woff \in [Coordinates(Writers) -> Nat]
  /\ mode \in Modes \cup {"none"} /\ loaded \in Loads \cup {<<>>}
  /\ pc \in [Coordinates(Readers) -> DOMAIN Coordinate \cup {"fields", "end", "refused"}]
  /\ roff \in [Coordinates(Readers) -> Nat]
  /\ heard \in [Coordinates(Readers) -> 0..Len(heads)]

\* The processes write without locks: whatever the order of their writes, no
\* process ever writes where another one has written (WriteSerial and
\* WriteDistributed, each with its own offset).
NothingOverwritten ==
  [][\A o \in DOMAIN file: o \in DOMAIN file' /\ file'[o] = file[o]]_vars

\* The value a place of the grid had in the run that wrote: a face between two
\* processes is that of the one on its right.
Original(name, c) ==
  Value(name, c, [d \in Dirs |-> LET p == c[d] \div Local(Np, Writers, d)
                                 IN  IF p = Writers[d] THEN p - 1 ELSE p])

\* The values that belong in an array of shape nx of a reading process.
Part(x, nx, name) ==
  [c \in Shape(nx) |-> Original(name, [d \in Dirs |-> Start(Np, Readers, x, d) + c[d]])]

\* The two runs may share the grid in different ways: each process of the
\* restarted run holds, in all its cells, faces and edges, the original values
\* of every field it registered that was in the dump, and only those, although
\* fields were skipped and the grid is shared in another way.
RestartIsExact ==
  \A x \in Coordinates(Readers): mode = "restart" /\ pc[x] = "end" =>
    /\ DOMAIN memory[x] = DOMAIN loaded \cap DOMAIN Saved
    /\ \A name \in DOMAIN memory[x]:
         memory[x][name] = IF loaded[name].at = "scalar" THEN Constant(name)
                           ELSE Part(x, ReadShape(loaded[name]), name)

\* A dump is refused only for a field whose size is not the one registered,
\* and then by all processes.
RefusedTogether ==
  \A x \in Coordinates(Readers): pc[x] = "refused" =>
    /\ \E name \in DOMAIN loaded \cap DOMAIN Saved: loaded[name].size # Saved[name].size
    /\ \A y \in Coordinates(Readers): pc[y] # "end"

\* "DumpImage can load dump and distribute dump in memory, following the
\* domain decomposition used in the current simulation" (CHANGELOG.md): each
\* array of an image is the whole of the dump's array, or its part in the
\* subdomain of the process.
ImageIsExact ==
  \A x \in Coordinates(Readers): mode # "restart" /\ pc[x] = "end" =>
    \A name \in DOMAIN Saved: Saved[name].at # "scalar" =>
      memory[x][name] =
        IF mode = "image" THEN [c \in Shape(Whole(Saved[name])) |-> Original(name, c)]
        ELSE Part(x, ReadShape(Saved[name]), name)
=============================================================================
