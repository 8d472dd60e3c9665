----------------------------- MODULE MCKernels -----------------------------
(* The builds and input files that TLC goes through. *)
EXTENDS EvolveStage

NoTerms == [t \in Terms |-> "no"]

Base ==
    [dims |-> 3, comps |-> 3, order |-> 2, geo |-> "cartesian", energy |-> TRUE,
     phys |-> "hd", solver |-> "hll", emf |-> "uct_contact", eos |-> "ideal",
     shock |-> FALSE, hall |-> "no", terms |-> NoTerms, rkl |-> {}, cycle |-> "explicit",
     lim |-> FALSE, cless |-> FALSE, fargo |-> "no", rotation |-> FALSE, tracer |-> FALSE,
     potential |-> FALSE, body |-> FALSE, vecpot |-> FALSE, drag |-> FALSE]

Shapes == {<<1, 1>>, <<1, 3>>, <<2, 2>>, <<2, 3>>, <<3, 3>>}

Shaped(c, shape) == [c EXCEPT !.dims = shape[1], !.comps = shape[2]]

Emfs == {"arithmetic", "uct0", "uct_contact", "uct_hll", "uct_hlld"}

\* Every solver with every average at the edges and every order.
Solvers ==
    {[Shaped(Base, s) EXCEPT !.phys = "mhd", !.solver = x[1], !.emf = x[2], !.order = n,
                             !.shock = b, !.hall = x[3]] :
        s \in Shapes, n \in 1..4, b \in BOOLEAN,
        x \in {x \in {"tvdlf", "hll", "hlld", "roe"} \X Emfs \X {"no", "userdef"} :
                  /\ x[3] # "no" => x[1] = "hll"
                  /\ x[2] = "uct_hlld" => x[1] \in {"hlld", "roe"}}}
    \cup {[Shaped(Base, s) EXCEPT !.phys = x[1], !.solver = x[2], !.order = n, !.shock = b,
                                  !.energy = FALSE, !.eos = "userdef"] :
             s \in Shapes, n \in 1..4, b \in BOOLEAN,
             x \in {<<"hd", "tvdlf">>, <<"hd", "hll">>, <<"hd", "hllc">>, <<"hd", "roe">>,
                    <<"dust", "dust">>}}
    \cup {[Shaped(Base, s) EXCEPT !.phys = "mhd", !.vecpot = TRUE, !.emf = e] :
             s \in {<<2, 2>>, <<2, 3>>, <<3, 3>>}, e \in Emfs \ {"uct_hlld"}}

\* The dimensions that a geometry has.
Fits(c) ==
    /\ c.geo = "cylindrical" => c.dims <= 2
    /\ c.geo \in {"polar", "spherical"} => c.comps >= 2
    /\ c.fargo # "no" => c.dims >= 2 /\ c.comps >= 2 /\ c.geo # "cylindrical"
    /\ c.fargo # "no" /\ c.geo = "spherical" => c.dims = 3
    /\ c.fargo = "shearingbox" => c.geo = "cartesian"

Geometries == {"cartesian", "cylindrical", "polar", "spherical"}

Evolutions(c) ==
    UNION {{[c EXCEPT !.rkl = r, !.cycle = y] :
               y \in IF r = {} THEN {"explicit"} ELSE {"explicit", "rkl"}} :
           r \in SUBSET {t \in Terms : c.terms[t] # "no"}}

\* The fluids without a field.
Neutral == {<<"hd", "hll">>, <<"dust", "dust">>}

\* One diffusive term, or two, with each way to integrate them.
Diffuses(c) ==
    /\ Fits(c)
    /\ Consistent(c)
    /\ c.cless => c.terms["bragConduction"] # "no"
    /\ c.lim => c.terms["bragConduction"] # "no" \/ c.terms["bragViscosity"] # "no"

Diffusions ==
    UNION {Evolutions(c) : c \in
        {c \in {[Shaped(Base, s) EXCEPT
                    !.phys = "mhd", !.geo = g, !.energy = e, !.cless = k, !.lim = l,
                    !.terms = [NoTerms EXCEPT ![t] = status]] :
                    s \in Shapes, g \in Geometries, e \in BOOLEAN, k \in BOOLEAN,
                    l \in BOOLEAN, status \in {"constant", "userdef"}, t \in Terms}
               \cup {[Shaped(Base, s) EXCEPT
                    !.phys = "mhd", !.geo = g, !.cless = k, !.lim = k,
                    !.terms = [t \in Terms |-> IF t \in pair THEN "userdef" ELSE "no"]] :
                    s \in {<<2, 3>>, <<3, 3>>}, g \in {"cartesian", "spherical"}, k \in BOOLEAN,
                    pair \in {p \in SUBSET Terms : Cardinality(p) = 2}}
               \cup {[Shaped(Base, s) EXCEPT
                    !.phys = x[1], !.solver = x[2], !.geo = g, !.energy = e,
                    !.terms = [NoTerms EXCEPT ![t] = "userdef"]] :
                    x \in Neutral, s \in Shapes, g \in Geometries, e \in BOOLEAN,
                    t \in Terms \ {"ohmic", "ambipolar"}} :
            Diffuses(c)}}

\* The frames and the sources.
Sources ==
    UNION {Evolutions(c) : c \in {c \in {[Shaped(Base, s) EXCEPT
                !.phys = x[1], !.solver = x[2], !.drag = (x[1] = "dust" /\ p),
                !.geo = g, !.energy = e, !.fargo = f, !.rotation = r, !.tracer = b, !.body = b,
                !.potential = p,
                !.terms = [NoTerms EXCEPT !["viscosity"] = v]] :
                x \in Neutral, s \in Shapes, g \in Geometries, e \in BOOLEAN, r \in BOOLEAN, b \in BOOLEAN,
                p \in BOOLEAN, f \in {"no", "userdef", "shearingbox"},
                v \in {"no", "constant", "userdef"}} : Fits(c)}}

Cases == Solvers \cup Diffusions \cup Sources
=============================================================================
