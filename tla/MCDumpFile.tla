----------------------------- MODULE MCDumpFile -----------------------------
(* The instances of DumpFile that TLC checks. *)
EXTENDS DumpFile, TLC

Center(d) == [at |-> "center", dir |-> d, size |-> 1]
Face(d) == [at |-> "face", dir |-> d, size |-> 1]
Edge(d) == [at |-> "edge", dir |-> d, size |-> 1]
Scalar(n) == [at |-> "scalar", dir |-> 0, size |-> n]

\* Two dimensions, with the vector potential: 2x2 processes write, 1x2 read.
FlatGrid == <<4, 2, 1>>
FourWriters == <<2, 2, 1>>
TwoReaders == <<1, 2, 1>>
FlatNames == <<"Vc-RHO", "Ve-AX3e", "Vs-BX1s", "Vs-BX2s", "periodicity", "time">>
FlatSaved == ("Vc-RHO" :> Center(0) @@ "Ve-AX3e" :> Edge(3) @@ "Vs-BX1s" :> Face(1)
              @@ "Vs-BX2s" :> Face(2) @@ "periodicity" :> Scalar(3) @@ "time" :> Scalar(1))
Without(map, names) == [n \in DOMAIN map \ names |-> map[n]]
\* The same code; one that knows fewer fields and one more; one with another size.
FlatLoads == {FlatSaved,
              Without(FlatSaved, {"Ve-AX3e", "periodicity"}) @@ "x_p0" :> Scalar(1),
              [FlatSaved EXCEPT !["periodicity"] = Scalar(2)]}

\* Three dimensions: the edges of the vector potential.
Cube == <<2, 2, 2>>
OneProcess == <<1, 1, 1>>
CubeNames == <<"Ve-AX1e", "Ve-AX2e", "Ve-AX3e">>
CubeSaved == "Ve-AX1e" :> Edge(1) @@ "Ve-AX2e" :> Edge(2) @@ "Ve-AX3e" :> Edge(3)
CubeLoads == {CubeSaved}
=============================================================================
