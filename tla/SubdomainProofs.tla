-------------------------- MODULE SubdomainProofs --------------------------
(***************************************************************************)
(* Theorems about what is made of Subdomain. The first part is about        *)
(* DumpFile, for all grids, numbers of processes that write and that read,  *)
(* and fields. The second is about Decomposition: whatever the sizes, a     *)
(* decomposition that is accepted gives every process that was started an   *)
(* even share, and the shares tile the grid; the automatic one never runs   *)
(* out of points.                                                          *)
(***************************************************************************)
EXTENDS DumpFile, Decomposition, FiniteSetTheorems, TLAPS

USE DEF Dirs

-----------------------------------------------------------------------------
(* Remainders *)

LEMMA Quotients ==
  ASSUME NEW n \in Int, NEW m \in Int, m > 0
  PROVE  n \div m \in Int /\ n % m \in 0..(m - 1) /\ n = m * (n \div m) + (n % m)
OBVIOUS

\* A remainder is what is left, and a quotient the only one that leaves it.
LEMMA Division ==
  ASSUME NEW m \in Int, m > 0, NEW n \in Int, NEW q \in Int, NEW r \in 0..(m - 1), n = r + m * q
  PROVE  n % m = r /\ n \div m = q
<1> DEFINE p == n \div m
           s == n % m
<1>1. p \in Int /\ s \in 0..(m - 1) /\ n = m * p + s
  BY Quotients
<1> HIDE DEF p, s
<1>2. m * (q - p) = s - r
  BY <1>1
<1>3. q - p < 1 /\ q - p > -1
  BY <1>1, <1>2
<1>4. q = p
  BY <1>1, <1>3
<1> QED
  BY <1>1, <1>2, <1>4 DEF p, s

\* A smaller factor makes a smaller product.
LEMMA Smaller ==
  ASSUME NEW m \in Int, m > 0, NEW p \in Int, NEW q \in Int
  PROVE  /\ p <= q <=> m * p <= m * q
         /\ p < q => m * p + m <= m * q
<1>1. p < q => m * p + m <= m * q
  OBVIOUS
<1>2. p <= q => m * p <= m * q
  OBVIOUS
<1>3. q < p => m * q < m * p
  OBVIOUS
<1> QED
  BY <1>1, <1>2, <1>3
-----------------------------------------------------------------------------
(* The elements of an array *)

\* The shape of an array.
Sizes3(n) == n \in [Dirs -> Nat \ {0}]

LEMMA ShapeIs ==
  ASSUME NEW n, Sizes3(n), NEW c
  PROVE  /\ c \in Shape(n) <=> c \in [Dirs -> Int] /\ \A d \in Dirs: 0 <= c[d] /\ c[d] < n[d]
<1>0. \A d \in 1..3: n[d] \in Int
  BY DEF Sizes3
<1>1. ASSUME c \in Shape(n)
      PROVE  c \in [Dirs -> Int] /\ \A d \in Dirs: 0 <= c[d] /\ c[d] < n[d]
  <2>1. c = <<c[1], c[2], c[3]>>
    BY <1>1 DEF Shape
  <2>2. c[1] \in 0..(n[1] - 1) /\ c[2] \in 0..(n[2] - 1) /\ c[3] \in 0..(n[3] - 1)
    BY <1>1 DEF Shape
  <2>3. \A d \in 1..3: c[d] \in Int /\ 0 <= c[d] /\ c[d] < n[d]
    BY <1>0, <2>2
  <2>4. c \in [1..3 -> Int]
    BY <2>1, <2>2
  <2> QED
    BY <2>3, <2>4
<1>2. ASSUME c \in [Dirs -> Int], \A d \in Dirs: 0 <= c[d] /\ c[d] < n[d]
      PROVE  c \in Shape(n)
  <2>1. c = <<c[1], c[2], c[3]>>
    BY <1>2
  <2>2. c[1] \in 0..(n[1] - 1) /\ c[2] \in 0..(n[2] - 1) /\ c[3] \in 0..(n[3] - 1)
    BY <1>0, <1>2
  <2>3. <<c[1], c[2], c[3]>> \in Shape(n)
    BY <2>2 DEF Shape
  <2> QED
    BY <2>1, <2>3
<1> QED
  BY <1>1, <1>2

LEMMA ProductPositive ==
  ASSUME NEW n, Sizes3(n)
  PROVE  /\ n[1] \in Int /\ n[2] \in Int /\ n[3] \in Int /\ n[1] > 0 /\ n[2] > 0 /\ n[3] > 0
         /\ n[1] * n[2] \in Int /\ n[1] * n[2] > 0
         /\ Product(n) \in Int /\ Product(n) > 0 /\ Product(n) = (n[1] * n[2]) * n[3]
<1>1. n[1] \in Int /\ n[2] \in Int /\ n[3] \in Int /\ n[1] > 0 /\ n[2] > 0 /\ n[3] > 0
  BY DEF Sizes3
<1> DEFINE a == n[1]
           b == n[2]
           e == n[3]
<1> HIDE DEF a, b, e
<1>2. a * b \in Int /\ a * b > 0
  BY <1>1 DEF a, b
<1>3. (a * b) * e \in Int /\ (a * b) * e > 0
  <2> DEFINE ab == a * b
  <2> HIDE DEF ab
  <2>1. ab * e \in Int /\ ab * e > 0
    BY <1>1, <1>2 DEF ab, e
  <2> QED
    BY <2>1 DEF ab
<1>4. Product(n) = (a * b) * e
  BY DEF Product, a, b, e
<1> QED
  BY <1>1, <1>2, <1>3, <1>4 DEF a, b, e

\* The element of an index, and the index of an element.
LEMMA RankIs ==
  ASSUME NEW n, Sizes3(n), NEW c \in Shape(n)
  PROVE  Rank(c, n) \in Elements(n) /\ Element(Rank(c, n), n) = c
<1> DEFINE n1 == n[1]
           n2 == n[2]
           n3 == n[3]
           c1 == c[1]
           c2 == c[2]
           c3 == c[3]
           m == c1 + n1 * (c2 + n2 * c3)
<1>1. /\ n1 \in Int /\ n1 > 0 /\ n2 \in Int /\ n2 > 0 /\ n3 \in Int /\ n3 > 0
      /\ n1 * n2 \in Int /\ n1 * n2 > 0 /\ Product(n) = (n1 * n2) * n3
  BY ProductPositive
<1>2. /\ c1 \in 0..(n1 - 1) /\ c2 \in 0..(n2 - 1) /\ c3 \in 0..(n3 - 1)
      /\ c = <<c1, c2, c3>>
  <2>1. c \in [1..3 -> Int] /\ \A d \in 1..3: 0 <= c[d] /\ c[d] < n[d]
    BY ShapeIs
  <2> QED
    BY <1>1, <2>1
<1>3. Rank(c, n) = m
  BY DEF Rank
<1>4. Element(m, n) = <<m % n1, (m \div n1) % n2, m \div (n1 * n2)>>
  BY DEF Element
<1> HIDE DEF n1, n2, n3, c1, c2, c3
<1> DEFINE h == c2 + n2 * c3
           l == c1 + n1 * c2
           p == n1 * n2
<1>5. h \in Int /\ l \in Int /\ m \in Int /\ m = c1 + n1 * h /\ m = l + p * c3 /\ p \in Int /\ p > 0
  BY <1>1, <1>2
<1>6. l \in 0..(p - 1)
  <2>1. n1 * c2 + n1 <= n1 * n2 /\ n1 * c2 >= 0
    BY <1>1, <1>2
  <2>2. n1 * c2 \in Int
    BY <1>1, <1>2
  <2> DEFINE x == n1 * c2
  <2> HIDE DEF x
  <2>3. x \in Int /\ x + n1 <= p /\ x >= 0 /\ l = c1 + x
    BY <2>1, <2>2 DEF x
  <2> HIDE DEF l, p
  <2> QED
    BY <1>1, <1>2, <1>5, <2>3
<1> HIDE DEF m, l, p
<1>7. m % n1 = c1 /\ m \div n1 = h
  <2> HIDE DEF h
  <2> QED
    BY <1>1, <1>2, <1>5, Division
<1>8. h % n2 = c2
  BY <1>1, <1>2, <1>5, Division
<1>9. m \div p = c3
  BY <1>1, <1>2, <1>5, <1>6, Division
<1>10. m \in 0..(p * n3 - 1)
  <2>1. p * c3 + p <= p * n3 /\ p * c3 >= 0 /\ p * c3 \in Int /\ p * n3 \in Int
    BY <1>1, <1>2, <1>5
  <2> QED
    BY <1>5, <1>6, <2>1
<1>11. Rank(c, n) \in Elements(n)
  BY <1>1, <1>3, <1>10 DEF Elements, p
<1> QED
  BY <1>2, <1>3, <1>4, <1>7, <1>8, <1>9, <1>11 DEF p

LEMMA ElementIs ==
  ASSUME NEW n, Sizes3(n), NEW m \in Elements(n)
  PROVE  Element(m, n) \in Shape(n) /\ Rank(Element(m, n), n) = m
<1> DEFINE n1 == n[1]
           n2 == n[2]
           n3 == n[3]
           p == n1 * n2
           q == m \div n1
           c1 == m % n1
           c2 == q % n2
           c3 == m \div p
<1>1. /\ n1 \in Int /\ n1 > 0 /\ n2 \in Int /\ n2 > 0 /\ n3 \in Int /\ n3 > 0
      /\ p \in Int /\ p > 0 /\ Product(n) = p * n3 /\ Product(n) \in Int
  BY ProductPositive
<1>2. m \in Int /\ 0 <= m /\ m < p * n3
  BY <1>1 DEF Elements
<1>3. Element(m, n) = <<c1, c2, c3>>
  BY DEF Element
<1>a. \A d \in Dirs: n[d] = IF d = 1 THEN n1 ELSE IF d = 2 THEN n2 ELSE n3
  OBVIOUS
<1>4. Rank(<<c1, c2, c3>>, n) = c1 + n1 * (c2 + n2 * c3)
  BY DEF Rank
<1>b. p = n1 * n2
  OBVIOUS
<1> HIDE DEF n1, n2, n3, p
<1>5. q \in Int /\ c1 \in 0..(n1 - 1) /\ m = n1 * q + c1
  BY <1>1, <1>2, Quotients
<1>c. q = m \div n1
  OBVIOUS
<1> HIDE DEF q, c1
<1> DEFINE t == q \div n2
<1>6. t \in Int /\ c2 \in 0..(n2 - 1) /\ q = n2 * t + c2
  BY <1>1, <1>5, Quotients
<1> HIDE DEF c2, t
\* The quotient of a quotient.
<1>7. c3 = t
  <2> DEFINE l == c1 + n1 * c2
  <2>1. l \in Int /\ m = l + p * t
    <3>1. n1 * (n2 * t + c2) = (n1 * n2) * t + n1 * c2
      BY <1>1, <1>5, <1>6
    <3>2. n1 * c2 \in Int /\ p * t \in Int
      BY <1>1, <1>6
    <3> QED
      BY <1>b, <1>5, <1>6, <3>1, <3>2
  <2>2. l \in 0..(p - 1)
    <3>1. n1 * c2 + n1 <= n1 * n2 /\ n1 * c2 >= 0 /\ n1 * c2 \in Int
      BY <1>1, <1>6
    <3> QED
      BY <1>1, <1>b, <1>5, <3>1
  <2> HIDE DEF l
  <2> QED
    BY <1>1, <1>2, <1>6, <2>1, <2>2, Division
<1>8. 0 <= t /\ t < n3
  <2>1. p * t \in Int /\ p * t <= m /\ m < p * t + p
    <3>1. n1 * (n2 * t + c2) = (n1 * n2) * t + n1 * c2
      BY <1>1, <1>5, <1>6
    <3>2. n1 * c2 + n1 <= n1 * n2 /\ n1 * c2 >= 0 /\ n1 * c2 \in Int /\ p * t \in Int
      BY <1>1, <1>6
    <3> QED
      BY <1>1, <1>b, <1>5, <1>6, <3>1, <3>2
  <2>2. t >= 0
    <3>1. p * t > -p
      BY <1>1, <1>2, <2>1
    <3> QED
      BY <1>1, <1>6, <3>1
  <2>3. t < n3
    <3>1. p * t < p * n3
      BY <1>1, <1>2, <1>6, <2>1
    <3> QED
      BY <1>1, <1>6, <3>1
  <2> QED
    BY <2>2, <2>3
<1> HIDE DEF c3
<1>9. <<c1, c2, c3>> \in Shape(n)
  <2>1. c3 \in 0..(n3 - 1)
    BY <1>1, <1>6, <1>7, <1>8
  <2> QED
    BY <1>5, <1>6, <2>1 DEF Shape, n1, n2, n3
<1>10. c1 + n1 * (c2 + n2 * c3) = m
  BY <1>1, <1>5, <1>6, <1>7
<1> QED
  BY <1>3, <1>4, <1>9, <1>10
-----------------------------------------------------------------------------
(* The shares of the processes *)

\* A number of processes in each direction that share the grid evenly.
Even(procs) == Sizes3(procs) /\ \A d \in Dirs: Np[d] % procs[d] = 0

LEMMA Input ==
  /\ Sizes3(Np) /\ Even(Writers) /\ Even(Readers)
BY DumpFileAssumption DEF Sizes3, Even

LEMMA Locals ==
  ASSUME NEW procs, Even(procs), NEW d \in Dirs
  PROVE  /\ Np[d] \in Int /\ Np[d] > 0 /\ procs[d] \in Int /\ procs[d] > 0
         /\ Local(Np, procs, d) \in Int /\ Local(Np, procs, d) > 0
         /\ Np[d] = procs[d] * Local(Np, procs, d)
<1> DEFINE n == Np[d]
           p == procs[d]
           l == n \div p
<1>1. n \in Int /\ n > 0 /\ p \in Int /\ p > 0 /\ n % p = 0
  BY Input DEF Even, Sizes3
<1> HIDE DEF n, p
<1>2. l \in Int /\ n = p * l
  BY <1>1, Quotients
<1> HIDE DEF l
<1>3. l > 0
  BY <1>1, <1>2
<1>4. Local(Np, procs, d) = l
  BY DEF Local, l, n, p
<1> QED
  BY <1>1, <1>2, <1>3, <1>4 DEF n, p

LEMMA WholeIs ==
  ASSUME NEW f
  PROVE  /\ Sizes3(Whole(f))
         /\ \A d \in Dirs: Extra(f, d) \in {0, 1} /\ Whole(f)[d] = Np[d] + Extra(f, d)
<1>1. \A d \in Dirs: Extra(f, d) \in {0, 1}
  BY DEF Extra
<1>2. \A d \in Dirs: Np[d] \in Nat \ {0}
  BY Input DEF Sizes3
<1>3. \A d \in Dirs: Np[d] + Extra(f, d) \in Nat \ {0}
  BY <1>1, <1>2
<1> QED
  BY <1>1, <1>3 DEF Whole, Sizes3

\* A process of those that share the grid.
LEMMA ProcessIs ==
  ASSUME NEW procs, Even(procs), NEW x \in Coordinates(procs)
  PROVE  x \in [Dirs -> Int] /\ \A d \in Dirs: 0 <= x[d] /\ x[d] < procs[d]
<1>1. x \in Shape(procs)
  BY DEF Coordinates, Shape
<1> QED
  BY <1>1, ShapeIs DEF Even

\* A subarray of an array of shape n.
Inside(desc, n) ==
  /\ desc.size = n /\ Sizes3(desc.sub) /\ desc.start \in [Dirs -> Int]
  /\ \A d \in Dirs: 0 <= desc.start[d] /\ desc.start[d] + desc.sub[d] <= n[d]

Shifted(start, c) == [d \in Dirs |-> start[d] + c[d]]

LEMMA RankInjective ==
  ASSUME NEW n, Sizes3(n), NEW c \in Shape(n), NEW e \in Shape(n), Rank(c, n) = Rank(e, n)
  PROVE  c = e
BY RankIs

\* The view of a subarray takes its elements to their places in the array.
LEMMA ViewedIs ==
  ASSUME NEW n, Sizes3(n), NEW desc, Inside(desc, n), NEW c \in Shape(desc.sub)
  PROVE  /\ Shifted(desc.start, c) \in Shape(n)
         /\ Viewed(Rank(c, desc.sub), desc) = Rank(Shifted(desc.start, c), n)
<1> DEFINE s == desc.sub
           m == Rank(c, s)
           p == Product(s)
<1>1. Sizes3(s) /\ c \in Shape(s)
  BY DEF Inside
<1>2. m \in Elements(s) /\ Element(m, s) = c
  BY <1>1, RankIs
<1>3. p \in Int /\ p > 0
  BY <1>1, ProductPositive
<1>4. m \in 0..(p - 1) /\ m \in Int
  BY <1>2, <1>3 DEF Elements
<1>5. m % p = m /\ m \div p = 0
  <2> HIDE DEF m, p
  <2>1. m = m + p * 0
    BY <1>3, <1>4
  <2> QED
    BY <1>3, <1>4, <2>1, Division
<1>6. Shifted(desc.start, c) \in Shape(n)
  <2>1. c \in [Dirs -> Int] /\ \A d \in Dirs: 0 <= c[d] /\ c[d] < s[d]
    BY <1>1, ShapeIs
  <2>2. \A d \in Dirs: desc.start[d] \in Int /\ c[d] \in Int /\ s[d] \in Int /\ n[d] \in Int
    BY <1>1, <2>1 DEF Inside, Sizes3
  <2>3. \A d \in Dirs: 0 <= desc.start[d] + c[d] /\ desc.start[d] + c[d] < n[d]
    BY <2>1, <2>2 DEF Inside
  <2> HIDE DEF s
  <2> DEFINE e == Shifted(desc.start, c)
  <2>4. e \in [Dirs -> Int] /\ \A d \in Dirs: 0 <= e[d] /\ e[d] < n[d]
    BY <2>2, <2>3 DEF Shifted
  <2> HIDE DEF e
  <2>5. e \in Shape(n)
    BY <2>4, ShapeIs
  <2> QED
    BY <2>5 DEF e
<1>7. Viewed(m, desc) = Rank(Shifted(desc.start, c), n) + Product(n) * 0
  <2>1. desc.size = n
    BY DEF Inside
  <2>2. Viewed(m, desc) = Rank([d \in Dirs |-> desc.start[d] + Element(m % p, s)[d]], desc.size)
                            + Product(desc.size) * (m \div p)
    BY DEF Viewed
  <2> HIDE DEF m, p, s
  <2> QED
    BY <1>2, <1>5, <2>1, <2>2 DEF Shifted
<1>8. Product(n) * 0 = 0
  BY ProductPositive
<1>9. Rank(Shifted(desc.start, c), n) \in Int
  BY <1>6, RankIs, ProductPositive DEF Elements
<1> QED
  BY <1>6, <1>7, <1>8, <1>9

\* What process x writes of a field: the places that Write gives it.
InShare(f, x, g) ==
  \A d \in Dirs: /\ x[d] * Local(Np, Writers, d) <= g[d]
                 /\ g[d] < x[d] * Local(Np, Writers, d) + WriteShape(f, x)[d]

LEMMA WriterBox ==
  ASSUME NEW f, NEW x \in Coordinates(Writers)
  PROVE  /\ Inside(DescriptorW(f, Writers, x), Whole(f))
         /\ DescriptorW(f, Writers, x).sub = WriteShape(f, x)
         /\ DescriptorW(f, Writers, x).start = [d \in Dirs |-> Start(Np, Writers, x, d)]
<1> DEFINE desc == DescriptorW(f, Writers, x)
           n == Whole(f)
<1>1. desc.sub = WriteShape(f, x)
  BY DEF DescriptorW, WriteShape
<1>2. desc.start = [d \in Dirs |-> Start(Np, Writers, x, d)] /\ desc.size = n
  BY DEF DescriptorW
<1>3. ASSUME NEW d \in Dirs
      PROVE  /\ WriteShape(f, x)[d] \in Nat \ {0}
             /\ Start(Np, Writers, x, d) \in Int /\ 0 <= Start(Np, Writers, x, d)
             /\ Start(Np, Writers, x, d) + WriteShape(f, x)[d] <= n[d]
  <2> DEFINE l == Local(Np, Writers, d)
             w == Writers[d]
             y == x[d]
             e == Extra(f, d)
  <2>1. l \in Int /\ l > 0 /\ w \in Int /\ w > 0 /\ Np[d] = w * l
    BY Input, Locals
  <2>2. y \in Int /\ 0 <= y /\ y < w
    BY Input, ProcessIs
  <2>3. e \in {0, 1} /\ n[d] = w * l + e
    BY <2>1, WholeIs
  <2>4. WriteShape(f, x)[d] = l + (IF y = w - 1 THEN e ELSE 0)
    BY DEF WriteShape
  <2>5. Start(Np, Writers, x, d) = y * l
    BY DEF Start
  <2> HIDE DEF l, w, y, e
  <2>6. y * l \in Int /\ y * l >= 0 /\ y * l + l <= w * l
    BY <2>1, <2>2
  <2>7. y = w - 1 \/ y * l + l <= w * l
    BY <2>6
  <2> QED
    BY <2>1, <2>3, <2>4, <2>5, <2>6
<1>4. \A d \in Dirs: Start(Np, Writers, x, d) \in Int
  BY <1>3
<1>5. Sizes3(WriteShape(f, x))
  <2>1. DOMAIN WriteShape(f, x) = Dirs
    BY DEF WriteShape
  <2>2. WriteShape(f, x) = [d \in Dirs |-> WriteShape(f, x)[d]]
    BY DEF WriteShape
  <2> QED
    BY <1>3, <2>2 DEF Sizes3
<1> HIDE DEF desc, n
<1>6. Inside(desc, n)
  BY <1>1, <1>2, <1>3, <1>4, <1>5 DEF Inside
<1> QED
  BY <1>1, <1>2, <1>6 DEF desc, n

\* The share of process x holds the values of its places, and nothing else.
LEMMA ShareIs ==
  ASSUME NEW f, NEW x \in Coordinates(Writers), NEW name
  PROVE  /\ \A q \in DOMAIN Share(f, x, name): \E g \in Shape(Whole(f)):
               InShare(f, x, g) /\ q = Rank(g, Whole(f))
         /\ \A g \in Shape(Whole(f)): InShare(f, x, g) =>
               /\ Rank(g, Whole(f)) \in DOMAIN Share(f, x, name)
               /\ Share(f, x, name)[Rank(g, Whole(f))] = Value(name, g, x)
<1> DEFINE n == Whole(f)
           desc == DescriptorW(f, Writers, x)
           s == desc.sub
           start == desc.start
           share == Share(f, x, name)
           From(q) == CHOOSE m \in Elements(s): q = Viewed(m, desc)
           At1(q) == Value(name, [d \in Dirs |-> Start(Np, Writers, x, d) + Element(From(q), s)[d]], x)
<1>1. /\ Sizes3(n) /\ Inside(desc, n) /\ Sizes3(s)
      /\ s = WriteShape(f, x) /\ start = [d \in Dirs |-> Start(Np, Writers, x, d)]
  BY WholeIs, WriterBox DEF Inside
<1>2. share = [q \in {Viewed(m, desc): m \in Elements(s)} |-> At1(q)]
  BY <1>1 DEF Share
<1>3. ASSUME NEW m \in Elements(s)
      PROVE  /\ Element(m, s) \in Shape(s) /\ Rank(Element(m, s), s) = m
             /\ Shifted(start, Element(m, s)) \in Shape(n)
             /\ Viewed(m, desc) = Rank(Shifted(start, Element(m, s)), n)
  <2>1. Element(m, s) \in Shape(s) /\ Rank(Element(m, s), s) = m
    BY <1>1, ElementIs
  <2> QED
    BY <1>1, <2>1, ViewedIs
<1>4. ASSUME NEW c \in Shape(s)
      PROVE  InShare(f, x, Shifted(start, c))
  <2>1. c \in [Dirs -> Int] /\ \A d \in Dirs: 0 <= c[d] /\ c[d] < s[d]
    BY <1>1, ShapeIs
  <2> DEFINE g == Shifted(start, c)
  <2>2. ASSUME NEW d \in Dirs
        PROVE  /\ x[d] * Local(Np, Writers, d) <= g[d]
               /\ g[d] < x[d] * Local(Np, Writers, d) + WriteShape(f, x)[d]
    <3> DEFINE a == x[d] * Local(Np, Writers, d)
    <3>1. start[d] = a
      BY <1>1 DEF Start
    <3>2. a \in Int
      BY <1>1, <3>1 DEF Inside
    <3>3. g[d] = a + c[d]
      BY <3>1 DEF Shifted
    <3>4. s[d] \in Int /\ s[d] = WriteShape(f, x)[d] /\ c[d] \in Int
      BY <1>1, <2>1 DEF Sizes3
    <3> HIDE DEF a, g, s
    <3>5. a <= g[d] /\ g[d] < a + s[d]
      BY <2>1, <3>2, <3>3, <3>4
    <3> QED
      BY <3>4, <3>5 DEF a
  <2> QED
    BY <2>2 DEF InShare
<1>5. ASSUME NEW g \in Shape(n), InShare(f, x, g)
      PROVE  \E c \in Shape(s): Shifted(start, c) = g
  <2> DEFINE c == [d \in Dirs |-> g[d] - start[d]]
  <2>1. g \in [Dirs -> Int]
    BY <1>1, ShapeIs
  <2>2. start \in [Dirs -> Int] /\ \A d \in Dirs: s[d] \in Int
    BY <1>1 DEF Inside, Sizes3
  <2>3. ASSUME NEW d \in Dirs
        PROVE  c[d] \in Int /\ 0 <= c[d] /\ c[d] < s[d] /\ start[d] + c[d] = g[d]
    <3>1. start[d] = x[d] * Local(Np, Writers, d)
      BY <1>1 DEF Start
    <3>2. start[d] <= g[d] /\ g[d] < start[d] + s[d]
      BY <1>1, <1>5, <3>1 DEF InShare
    <3>3. start[d] \in Int /\ g[d] \in Int /\ s[d] \in Int
      BY <2>1, <2>2
    <3>4. c[d] = g[d] - start[d]
      OBVIOUS
    <3> HIDE DEF c, s, start
    <3> QED
      BY <3>2, <3>3, <3>4
  <2>4. c \in [Dirs -> Int]
    BY <2>3
  <2> HIDE DEF c, s, start
  <2>5. c \in Shape(s)
    BY <1>1, <2>3, <2>4, ShapeIs
  <2>6. Shifted(start, c) = [d \in Dirs |-> g[d]]
    BY <2>3 DEF Shifted
  <2>7. [d \in Dirs |-> g[d]] = g
    BY <2>1
  <2> QED
    BY <2>5, <2>6, <2>7
<1>6. ASSUME NEW g \in Shape(n), InShare(f, x, g)
      PROVE  Rank(g, n) \in DOMAIN share /\ share[Rank(g, n)] = Value(name, g, x)
  <2>1. PICK c \in Shape(s): Shifted(start, c) = g
    BY <1>5, <1>6
  <2> DEFINE m == Rank(c, s)
             q == Rank(g, n)
  <2>2. m \in Elements(s) /\ Viewed(m, desc) = q
    BY <1>1, <2>1, RankIs, ViewedIs
  <2>3. From(q) \in Elements(s) /\ q = Viewed(From(q), desc)
    BY <2>2
  <2> DEFINE k == From(q)
  <2> HIDE DEF k
  <2>4. k \in Elements(s) /\ q = Viewed(k, desc)
    BY <2>3 DEF k
  <2>5. Shifted(start, Element(k, s)) \in Shape(n) /\ q = Rank(Shifted(start, Element(k, s)), n)
    BY <1>3, <2>4
  <2>6. Shifted(start, Element(k, s)) = g
    BY <1>1, <1>6, <2>5, RankInjective
  <2>7. q \in DOMAIN share /\ share[q] = At1(q)
    BY <1>2, <2>2
  <2>8. At1(q) = Value(name, Shifted(start, Element(k, s)), x)
    BY <1>1 DEF k, Shifted
  <2> QED
    BY <2>6, <2>7, <2>8
<1>7. ASSUME NEW q \in DOMAIN share
      PROVE  \E g \in Shape(n): InShare(f, x, g) /\ q = Rank(g, n)
  <2>1. PICK m \in Elements(s): q = Viewed(m, desc)
    BY <1>2, <1>7
  <2> QED
    BY <1>3, <1>4, <2>1
<1> QED
  BY <1>6, <1>7

\* In one direction, where n points are shared by w processes, l to each, with e
\* faces or edges more at the end.
LEMMA OneOwner ==
  ASSUME NEW w \in Int, w > 0, NEW l \in Int, l > 0, NEW e \in {0, 1},
         NEW g \in Int, 0 <= g, g < w * l + e
  PROVE  LET p == g \div l
             y == IF p = w THEN p - 1 ELSE p
         IN  /\ y \in 0..(w - 1)
             /\ \A x \in 0..(w - 1):
                  x * l <= g /\ g < x * l + (l + (IF x = w - 1 THEN e ELSE 0)) <=> x = y
<1> DEFINE p == g \div l
           r == g % l
           y == IF p = w THEN p - 1 ELSE p
<1>1. p \in Int /\ r \in 0..(l - 1) /\ g = l * p + r
  BY Quotients
<1> HIDE DEF p, r
<1>2. l * p \in Int /\ l * w \in Int /\ w * l = l * w
  BY <1>1
<1>3. p >= 0
  <2>1. l * p > -l
    BY <1>1, <1>2
  <2> QED
    BY <1>1, <2>1
<1>4. p <= w
  <2>1. l * p <= l * w
    BY <1>1, <1>2
  <2> QED
    BY <1>1, <2>1, Smaller
<1>5. p = w => e = 1 /\ r = 0
  BY <1>1, <1>2
<1>6. y \in 0..(w - 1)
  BY <1>1, <1>3, <1>4
<1>7. ASSUME NEW x \in 0..(w - 1)
      PROVE  x * l <= g /\ g < x * l + (l + (IF x = w - 1 THEN e ELSE 0)) <=> x = y
  <2>1. x \in Int /\ l * x \in Int /\ x * l = l * x
    BY <1>7
  <2>2. CASE x < p
    <3>1. l * x + l <= l * p
      BY <1>1, <2>1, <2>2, Smaller
    <3>2. CASE x = w - 1
      <4>1. p = w
        BY <1>1, <1>4, <2>1, <2>2, <3>2
      <4>2. g = l * w /\ l * w = l * x + l
        BY <1>1, <1>5, <3>2, <4>1
      <4> QED
        BY <1>1, <1>2, <1>5, <2>1, <3>2, <4>1, <4>2
    <3>3. CASE x # w - 1
      <4>1. ~(g < x * l + l)
        BY <1>1, <1>2, <2>1, <3>1
      <4>2. x # y
        BY <1>1, <1>4, <2>1, <2>2, <3>3
      <4> QED
        BY <3>3, <4>1, <4>2
    <3> QED
      BY <3>2, <3>3
  <2>3. CASE x > p
    <3>1. l * p + l <= l * x
      BY <1>1, <2>1, <2>3, Smaller
    <3>2. ~(x * l <= g)
      BY <1>1, <1>2, <2>1, <3>1
    <3>3. x # y
      BY <1>1, <2>1, <2>3
    <3> QED
      BY <3>2, <3>3
  <2>4. CASE x = p
    <3>1. p # w /\ y = p
      BY <1>7, <2>4
    <3>2. x * l <= g /\ g < x * l + l
      BY <1>1, <1>2, <2>1, <2>4
    <3>3. x * l + l \in Int
      BY <2>1
    <3> QED
      BY <1>1, <2>1, <2>4, <3>1, <3>2, <3>3
  <2> QED
    BY <1>1, <2>1, <2>2, <2>3, <2>4
<1> QED
  BY <1>6, <1>7 DEF p

\* Original says by which process a value is written, and no other writes it.
Writer(g) ==
  [d \in Dirs |-> LET p == g[d] \div Local(Np, Writers, d) IN IF p = Writers[d] THEN p - 1 ELSE p]

LEMMA OneWriter ==
  ASSUME NEW f, NEW g \in Shape(Whole(f))
  PROVE  /\ Writer(g) \in Coordinates(Writers) /\ InShare(f, Writer(g), g)
         /\ \A x \in Coordinates(Writers): InShare(f, x, g) => x = Writer(g)
<1>1. g \in [Dirs -> Int] /\ \A d \in Dirs: 0 <= g[d] /\ g[d] < Whole(f)[d]
  BY WholeIs, ShapeIs
<1>2. ASSUME NEW d \in Dirs
      PROVE  /\ Writer(g)[d] \in 0..(Writers[d] - 1)
             /\ \A x \in Coordinates(Writers):
                  /\ x[d] * Local(Np, Writers, d) <= g[d]
                  /\ g[d] < x[d] * Local(Np, Writers, d) + WriteShape(f, x)[d]
                  => x[d] = Writer(g)[d]
             /\ Writer(g)[d] * Local(Np, Writers, d) <= g[d]
             /\ g[d] < Writer(g)[d] * Local(Np, Writers, d) + WriteShape(f, Writer(g))[d]
  <2> DEFINE l == Local(Np, Writers, d)
             w == Writers[d]
             e == Extra(f, d)
             y == Writer(g)[d]
  <2>1. l \in Int /\ l > 0 /\ w \in Int /\ w > 0 /\ Np[d] = w * l
    BY Input, Locals
  <2>2. e \in {0, 1} /\ g[d] \in Int /\ 0 <= g[d] /\ g[d] < w * l + e
    BY <1>1, <2>1, WholeIs
  <2>3. y = LET p == g[d] \div l IN IF p = w THEN p - 1 ELSE p
    BY DEF Writer
  <2>4. \A x: WriteShape(f, x)[d] = l + (IF x[d] = w - 1 THEN e ELSE 0)
    BY DEF WriteShape
  <2>5. \A x \in Coordinates(Writers): x[d] \in 0..(w - 1)
    BY <2>1, Input, ProcessIs
  <2> HIDE DEF l, w, e, y
  <2>6. /\ y \in 0..(w - 1)
        /\ \A x \in 0..(w - 1):
             x * l <= g[d] /\ g[d] < x * l + (l + (IF x = w - 1 THEN e ELSE 0)) <=> x = y
    BY <2>1, <2>2, <2>3, OneOwner
  <2>7. y * l <= g[d] /\ g[d] < y * l + (l + (IF y = w - 1 THEN e ELSE 0))
    BY <2>6
  <2>8. ASSUME NEW x \in Coordinates(Writers),
               x[d] * l <= g[d], g[d] < x[d] * l + WriteShape(f, x)[d]
        PROVE  x[d] = y
    BY <2>4, <2>5, <2>6, <2>8
  <2>9. WriteShape(f, Writer(g))[d] = l + (IF y = w - 1 THEN e ELSE 0)
    BY <2>4 DEF y
  <2> QED
    BY <2>6, <2>7, <2>8, <2>9 DEF l, w, y
<1>3. Writer(g) = [d \in Dirs |-> Writer(g)[d]]
  BY DEF Writer
<1>4. Writer(g) \in Coordinates(Writers)
  <2> DEFINE y == Writer(g)
  <2>1. \A d \in Dirs: Writers[d] \in Int
    BY Input, Locals
  <2> HIDE DEF y
  <2>2. y = [d \in Dirs |-> y[d]] /\ \A d \in Dirs: y[d] \in 0..(Writers[d] - 1)
    BY <1>2, <1>3 DEF y
  <2>3. y \in [Dirs -> Int] /\ \A d \in Dirs: 0 <= y[d] /\ y[d] < Writers[d]
    BY <2>1, <2>2
  <2>4. y \in Shape(Writers)
    BY <2>3, Input, ShapeIs DEF Even
  <2> QED
    BY <2>4 DEF y, Shape, Coordinates
<1>5. InShare(f, Writer(g), g)
  BY <1>2 DEF InShare
<1>6. ASSUME NEW x \in Coordinates(Writers), InShare(f, x, g)
      PROVE  x = Writer(g)
  <2>1. \A d \in Dirs: x[d] = Writer(g)[d]
    BY <1>2, <1>6 DEF InShare
  <2>2. x \in [Dirs -> Int]
    BY Input, ProcessIs
  <2>3. x = [d \in Dirs |-> x[d]]
    BY <2>2
  <2> HIDE DEF Writer
  <2> QED
    BY <1>3, <2>1, <2>3
<1> QED
  BY <1>4, <1>5, <1>6
-----------------------------------------------------------------------------
(* The entries *)

LEMMA EntriesAre ==
  /\ Len(Entries) \in Int /\ Len(Entries) > 3
  /\ Entries[1] = "x1" /\ Entries[2] = "x2" /\ Entries[3] = "x3" /\ Entries[Len(Entries)] = "eof"
  /\ \A k \in 4..(Len(Entries) - 1): Entries[k] \in DOMAIN Saved
  /\ \A name \in DOMAIN Saved: \E k \in 4..(Len(Entries) - 1): Entries[k] = name
  /\ \A j, k \in 1..Len(Entries): Entries[j] = Entries[k] => j = k
<1> DEFINE n == Len(Names)
<1>1. /\ Names \in Seq(DOMAIN Saved) /\ \A i, j \in DOMAIN Names: Names[i] = Names[j] => i = j
      /\ \A name \in DOMAIN Saved: \E i \in DOMAIN Names: Names[i] = name
      /\ \A name \in DOMAIN Saved: name \notin {"x1", "x2", "x3", "eof"}
  BY DumpFileAssumption DEF Reserved
<1>2. n \in Nat /\ DOMAIN Names = 1..n
  BY <1>1
<1> DEFINE S == Reserved \cup DOMAIN Saved
<1>3. Names \in Seq(S) /\ <<"x1", "x2", "x3">> \in Seq(S) /\ <<"eof">> \in Seq(S)
  BY <1>1 DEF Reserved
<1> DEFINE M == <<"x1", "x2", "x3">> \o Names
<1> HIDE DEF S
<1>4. M \in Seq(S) /\ Len(M) = n + 3 /\ \A k \in 1..(n + 3): M[k] = IF k <= 3 THEN <<"x1", "x2", "x3">>[k] ELSE Names[k - 3]
  BY <1>2, <1>3
<1> HIDE DEF M
<1>5. Len(M \o <<"eof">>) = n + 4 /\ \A k \in 1..(n + 4): (M \o <<"eof">>)[k] = IF k <= n + 3 THEN M[k] ELSE "eof"
  BY <1>2, <1>3, <1>4
<1>6. Entries = M \o <<"eof">>
  BY DEF Entries, M
<1> HIDE DEF n
<1>7. /\ Len(Entries) = n + 4
      /\ \A k \in 4..(n + 3): Entries[k] = Names[k - 3]
      /\ Entries[1] = "x1" /\ Entries[2] = "x2" /\ Entries[3] = "x3" /\ Entries[n + 4] = "eof"
  BY <1>2, <1>4, <1>5, <1>6
<1>8. \A k \in 4..(n + 3): k - 3 \in DOMAIN Names /\ Entries[k] \in DOMAIN Saved
  BY <1>1, <1>2, <1>7
<1>9. \A name \in DOMAIN Saved: \E k \in 4..(n + 3): Entries[k] = name
  <2> TAKE name \in DOMAIN Saved
  <2>1. PICK i \in 1..n: Names[i] = name
    BY <1>1, <1>2
  <2>2. i + 3 \in 4..(n + 3) /\ Entries[i + 3] = Names[(i + 3) - 3] /\ (i + 3) - 3 = i
    BY <1>2, <1>7
  <2> QED
    BY <2>1, <2>2
<1>10. \A j, k \in 1..(n + 4): Entries[j] = Entries[k] => j = k
  <2> TAKE j, k \in 1..(n + 4)
  <2> HAVE Entries[j] = Entries[k]
  <2>1. j \in 4..(n + 3) \/ j \in {1, 2, 3, n + 4}
    BY <1>2
  <2>2. k \in 4..(n + 3) \/ k \in {1, 2, 3, n + 4}
    BY <1>2
  <2>3. CASE j \in 4..(n + 3) /\ k \in 4..(n + 3)
    <3>1. Names[j - 3] = Names[k - 3]
      BY <1>7, <2>3
    <3>2. j - 3 = k - 3
      BY <1>1, <1>8, <2>3, <3>1
    <3> QED
      BY <2>3, <3>2
  <2>4. CASE j \in {1, 2, 3, n + 4} /\ k \in {1, 2, 3, n + 4}
    BY <1>7, <2>4
  <2>5. CASE j \in 4..(n + 3) /\ k \in {1, 2, 3, n + 4}
    BY <1>1, <1>7, <1>8, <2>5
  <2>6. CASE k \in 4..(n + 3) /\ j \in {1, 2, 3, n + 4}
    BY <1>1, <1>7, <1>8, <2>6
  <2> QED
    BY <2>1, <2>2, <2>3, <2>4, <2>5, <2>6
<1> QED
  BY <1>2, <1>7, <1>8, <1>9, <1>10

\* An array that the processes write together.
IsArray(name) == name \in DOMAIN Saved /\ Saved[name].at # "scalar"

\* What may be in the file under a name.
IsEntry(name) == name \in {"x1", "x2", "x3", "eof"} \cup DOMAIN Saved

\* Where its values start.
Data(name, o) == o + Arrays(name) * PropertiesSize(Len(Properties(name).dims))

LEMMA PropertiesAre ==
  ASSUME NEW name, IsEntry(name), NEW o \in Nat
  PROVE  /\ Properties(name).name = name
         /\ "dims" \in DOMAIN Properties(name) /\ Properties(name) # Garbage
         /\ IsArray(name) =>
              /\ Len(Properties(name).dims) = 3 /\ Properties(name).width = 8
              /\ Properties(name).dims = Whole(Saved[name])
              /\ o < Data(name, o)
              /\ Data(name, o) + 8 * Product(Whole(Saved[name])) = o + Size(Properties(name))
         /\ ~IsArray(name) =>
              /\ Len(Properties(name).dims) = 1
              /\ o < Data(name, o)
              /\ Data(name, o) < o + Size(Properties(name))
         /\ Data(name, o) \in Nat
         /\ Size(Properties(name)) \in Nat
<1> DEFINE p == Properties(name)
<1>1. name # "garbage"
  BY DumpFileAssumption DEF IsEntry, Reserved
<1>2. \A f: Len(Whole(f)) = 3
  <2> TAKE f
  <2>1. Whole(f) = <<Whole(f)[1], Whole(f)[2], Whole(f)[3]>>
    BY DEF Whole
  <2> QED
    BY <2>1
<1>3. CASE name \in {"x1", "x2", "x3", "eof"}
  <2>1. name \notin DOMAIN Saved
    BY <1>3, DumpFileAssumption DEF Reserved
  <2>2. PICK m \in Nat: m > 0 /\ p = [name |-> name, dims |-> <<m>>, width |-> 8]
    <3>1. CASE name = "eof"
      BY <3>1 DEF Properties, Coordinate
    <3>2. CASE name # "eof"
      <4>1. name \in DOMAIN Coordinate /\ Coordinate[name] \in Dirs
        BY <1>3, <3>2 DEF Coordinate
      <4>2. Np[Coordinate[name]] \in Nat /\ Np[Coordinate[name]] > 0
        BY <4>1, Input DEF Sizes3
      <4> QED
        BY <4>1, <4>2 DEF Properties
    <3> QED
      BY <3>1, <3>2
  <2>3. Arrays(name) \in {1, 3}
    BY DEF Arrays
  <2>4. Len(p.dims) = 1 /\ Count(p.dims) = m /\ p.width = 8 /\ p.name = name /\ "dims" \in DOMAIN p
    BY <2>2 DEF Count
  <2>5. PropertiesSize(1) = 28
    BY DEF PropertiesSize
  <2>6. Data(name, o) = o + Arrays(name) * 28 /\ Size(p) = Arrays(name) * (28 + m * 8)
    BY <2>4, <2>5 DEF Data, Size
  <2>7. p # Garbage
    BY <1>1, <2>4 DEF Garbage
  <2>8. m * 8 \in Nat /\ m * 8 > 0
    BY <2>2
  <2>9. o < Data(name, o) /\ Data(name, o) < o + Size(p) /\ Size(p) \in Nat /\ Data(name, o) \in Nat
    BY <2>3, <2>6, <2>8
  <2>10. ~IsArray(name)
    BY <2>1 DEF IsArray
  <2> QED
    BY <2>4, <2>7, <2>9, <2>10
<1>4. CASE name \in DOMAIN Saved
  <2> DEFINE f == Saved[name]
  <2>1. name \notin {"x1", "x2", "x3", "eof"} /\ f \in Field
    BY <1>4, DumpFileAssumption DEF Reserved
  <2>2. p = [name |-> name, width |-> SizeOf(f), dims |-> IF f.at = "scalar" THEN <<f.size>> ELSE Whole(f)]
    BY <2>1 DEF Properties, Coordinate
  <2>3. Arrays(name) = 1
    BY <2>1 DEF Arrays, Coordinate
  <2>4. f.size \in Nat /\ f.size > 0
    BY <2>1 DEF Field
  <2>5. p.name = name /\ "dims" \in DOMAIN p /\ p.width = SizeOf(f)
    BY <2>2
  <2>6. p # Garbage
    BY <1>1, <2>5 DEF Garbage
  <2>7. CASE f.at = "scalar"
    <3>1. p.dims = <<f.size>> /\ p.width = 4
      BY <2>2, <2>7 DEF SizeOf
    <3>2. Len(p.dims) = 1 /\ Count(p.dims) = f.size
      BY <3>1 DEF Count
    <3>3. Data(name, o) = o + 28 /\ Size(p) = 28 + f.size * 4
      BY <2>3, <2>4, <2>5, <3>1, <3>2 DEF Data, Size, PropertiesSize
    <3>4. ~IsArray(name)
      BY <2>7 DEF IsArray
    <3>5. o < Data(name, o) /\ Data(name, o) < o + Size(p) /\ Size(p) \in Nat /\ Data(name, o) \in Nat
      BY <2>4, <3>3
    <3> QED
      BY <2>5, <2>6, <3>2, <3>4, <3>5
  <2>8. CASE f.at # "scalar"
    <3>1. p.dims = Whole(f) /\ p.width = 8
      BY <2>2, <2>8 DEF SizeOf
    <3>2. Len(p.dims) = 3 /\ Count(p.dims) = Product(Whole(f))
      BY <1>2, <3>1 DEF Count
    <3>3. Product(Whole(f)) \in Int /\ Product(Whole(f)) > 0
      BY WholeIs, ProductPositive
    <3> DEFINE m == Product(Whole(f))
    <3> HIDE DEF m
    <3>4. Data(name, o) = o + 36 /\ Size(p) = 36 + m * 8
      BY <2>3, <2>5, <3>1, <3>2, <3>3 DEF Data, Size, PropertiesSize, m
    <3>5. IsArray(name)
      BY <1>4, <2>8 DEF IsArray
    <3>6. o < Data(name, o) /\ Data(name, o) + 8 * m = o + Size(p) /\ Size(p) \in Nat /\ Data(name, o) \in Nat
      BY <3>3, <3>4 DEF m
    <3> QED
      BY <2>5, <2>6, <3>1, <3>2, <3>5, <3>6 DEF m
  <2> QED
    BY <2>7, <2>8
<1> QED
  BY <1>3, <1>4 DEF IsEntry

\* Where process x writes something of an entry at offset o.
Place(name, x, o, q) ==
  \/ x = Root /\ (q = o \/ (~IsArray(name) /\ q = Data(name, o)))
  \/ /\ IsArray(name)
     /\ \E g \in Shape(Whole(Saved[name])):
          InShare(Saved[name], x, g) /\ q = Data(name, o) + 8 * Rank(g, Whole(Saved[name]))

LEMMA RootWrites == Root \in Coordinates(Writers) /\ Root \in Coordinates(Readers)
<1>1. ASSUME NEW procs, Sizes3(procs)
      PROVE  Root \in Coordinates(procs)
  <2>1. 0 \in 0..(procs[1] - 1) /\ 0 \in 0..(procs[2] - 1) /\ 0 \in 0..(procs[3] - 1)
    BY <1>1, ProductPositive
  <2> QED
    BY <2>1 DEF Root, Coordinates
<1> QED
  BY <1>1, Input DEF Even

LEMMA WrittenIs ==
  ASSUME NEW x \in Coordinates(Writers), NEW name, IsEntry(name), NEW o \in Nat
  PROVE  /\ \A q \in DOMAIN Written(name, x, o): Place(name, x, o, q)
         /\ x = Root => o \in DOMAIN Written(name, x, o) /\ Written(name, x, o)[o] = Properties(name)
         /\ x = Root /\ ~IsArray(name) => /\ Data(name, o) \in DOMAIN Written(name, x, o)
                                          /\ Written(name, x, o)[Data(name, o)] = Constant(name)
         /\ IsArray(name) => \A g \in Shape(Whole(Saved[name])): InShare(Saved[name], x, g) =>
              LET q == Data(name, o) + 8 * Rank(g, Whole(Saved[name]))
              IN  q \in DOMAIN Written(name, x, o) /\ Written(name, x, o)[q] = Value(name, g, x)
<1> DEFINE p == Properties(name)
           data == Data(name, o)
           share == Shares[x][name]
           head == IF x = Root THEN Single(o, p) ELSE <<>>
           array == [q \in {data + p.width * r: r \in DOMAIN share} |-> share[(q - data) \div p.width]]
           one == IF x = Root THEN Single(data, Constant(name)) ELSE <<>>
           body == IF Len(p.dims) = 3 THEN array ELSE one
           W == Written(name, x, o)
<1>1. W = Over(head, body)
  <2>1. p.name = name
    BY PropertiesAre
  <2> QED
    BY DEF Written, Data
<1>2. /\ p.name = name /\ data \in Nat /\ o < data
      /\ IsArray(name) => Len(p.dims) = 3 /\ p.width = 8
      /\ ~IsArray(name) => Len(p.dims) = 1
  BY PropertiesAre
<1>3. /\ DOMAIN head = IF x = Root THEN {o} ELSE {}
      /\ x = Root => head[o] = p
  BY DEF Single
<1> HIDE DEF p, data
<1>4. /\ DOMAIN one = IF x = Root THEN {data} ELSE {}
      /\ x = Root => one[data] = Constant(name)
  BY DEF Single
<1> HIDE DEF head, one, array
<1>5. /\ DOMAIN W = DOMAIN head \cup DOMAIN body
      /\ \A q \in DOMAIN W: W[q] = IF q \in DOMAIN head THEN head[q] ELSE body[q]
  BY <1>1 DEF Over
<1> HIDE DEF W
<1>6. CASE ~IsArray(name)
  <2>1. body = one
    BY <1>2, <1>6
  <2>2. \A q \in DOMAIN W: x = Root /\ (q = o \/ q = data)
    BY <1>3, <1>4, <1>5, <2>1
  <2>3. \A q \in DOMAIN W: Place(name, x, o, q)
    BY <1>6, <2>2 DEF Place, data
  <2>4. x = Root => o \in DOMAIN W /\ W[o] = p
    BY <1>3, <1>5
  <2>5. x = Root => data \in DOMAIN W /\ W[data] = Constant(name)
    BY <1>2, <1>3, <1>4, <1>5, <2>1
  <2> QED
    BY <1>6, <2>3, <2>4, <2>5 DEF W, p, data
<1>7. CASE IsArray(name)
  <2> DEFINE f == Saved[name]
             n == Whole(f)
  <2>1. body = array /\ p.width = 8
    BY <1>2, <1>7
  <2>2. share = Share(f, x, name)
    BY <1>7 DEF Shares, IsArray
  <2>3. /\ \A q \in DOMAIN share: \E g \in Shape(n): InShare(f, x, g) /\ q = Rank(g, n)
        /\ \A g \in Shape(n): InShare(f, x, g) =>
             Rank(g, n) \in DOMAIN share /\ share[Rank(g, n)] = Value(name, g, x)
    BY <2>2, ShareIs
  <2>4. \A g \in Shape(n): Rank(g, n) \in Int /\ Rank(g, n) >= 0
    BY WholeIs, RankIs, ProductPositive DEF Elements
  <2> HIDE DEF share, n
  <2>5. DOMAIN array = {data + p.width * r: r \in DOMAIN share}
    BY DEF array
  <2>6. ASSUME NEW q \in DOMAIN array
        PROVE  \E g \in Shape(n): InShare(f, x, g) /\ q = data + 8 * Rank(g, n)
    <3>1. PICK r \in DOMAIN share: q = data + p.width * r
      BY <2>5
    <3> QED
      BY <2>1, <2>3, <3>1
  <2>7. \A q \in DOMAIN W: Place(name, x, o, q)
    <3> TAKE q \in DOMAIN W
    <3>1. CASE q \in DOMAIN head
      BY <1>3, <3>1 DEF Place
    <3>2. CASE q \in DOMAIN array
      BY <1>7, <2>6, <3>2 DEF Place, data, n
    <3> QED
      BY <1>5, <2>1, <3>1, <3>2
  <2>8. x = Root => o \in DOMAIN W /\ W[o] = p
    BY <1>3, <1>5
  <2>9. ASSUME NEW g \in Shape(n), InShare(f, x, g)
        PROVE  data + 8 * Rank(g, n) \in DOMAIN W /\ W[data + 8 * Rank(g, n)] = Value(name, g, x)
    <3> DEFINE r == Rank(g, n)
               q == data + 8 * r
    <3>1. r \in DOMAIN share /\ share[r] = Value(name, g, x) /\ r \in Int /\ r >= 0
      BY <2>3, <2>4, <2>9
    <3> HIDE DEF r
    <3>2. q \in Int /\ q # o /\ q - data = 8 * r
      BY <1>2, <3>1
    <3>3. (8 * r) \div 8 = r
      <4> DEFINE e == 8 * r
      <4>1. e \in Int /\ e = 0 + 8 * r
        BY <3>1
      <4> HIDE DEF e
      <4> QED
        BY <3>1, <4>1, Division DEF e
    <3>4. q \in DOMAIN array
      BY <2>1, <2>5, <3>1
    <3> HIDE DEF q
    <3>5. array[q] = share[(q - data) \div p.width]
      BY <2>5, <3>4 DEF array
    <3>6. array[q] = share[r]
      BY <2>1, <3>2, <3>3, <3>5
    <3>7. q \notin DOMAIN head
      BY <1>3, <3>2
    <3> QED
      BY <1>5, <2>1, <3>1, <3>4, <3>6, <3>7 DEF q, r
  <2> QED
    BY <1>7, <2>7, <2>8, <2>9 DEF W, p, data, n
<1> QED
  BY <1>6, <1>7

\* It is in the part of the file that the entry takes,
LEMMA PlaceInside ==
  ASSUME NEW x, NEW name, IsEntry(name), NEW o \in Nat, NEW q, Place(name, x, o, q)
  PROVE  q \in Nat /\ o <= q /\ q < o + Size(Properties(name))
<1> DEFINE data == Data(name, o)
           s == Size(Properties(name))
<1>1. data \in Nat /\ s \in Nat /\ o < data
  BY PropertiesAre
<1>2. CASE ~IsArray(name)
  <2>1. (q = o \/ q = data) /\ data < o + s
    BY <1>2, PropertiesAre DEF Place
  <2> HIDE DEF data, s
  <2> QED
    BY <1>1, <2>1 DEF s
<1>3. CASE IsArray(name)
  <2> DEFINE n == Whole(Saved[name])
             m == Product(n)
  <2>1. data + 8 * m = o + s
    BY <1>3, PropertiesAre
  <2>2. m \in Int /\ m > 0
    BY WholeIs, ProductPositive
  <2>3. \A g \in Shape(n): Rank(g, n) \in 0..(m - 1)
    BY WholeIs, RankIs DEF Elements
  <2>4. q = o \/ \E g \in Shape(n): q = data + 8 * Rank(g, n)
    BY <1>3 DEF Place
  <2> HIDE DEF data, s, m, n
  <2>5. q = o \/ \E r \in 0..(m - 1): q = data + 8 * r
    BY <2>3, <2>4
  <2> QED
    BY <1>1, <2>1, <2>2, <2>5 DEF s
<1> QED
  BY <1>2, <1>3

\* and no other process writes there.
LEMMA PlaceIsOnes ==
  ASSUME NEW x \in Coordinates(Writers), NEW y \in Coordinates(Writers),
         NEW name, IsEntry(name), NEW o \in Nat, NEW q, Place(name, x, o, q), Place(name, y, o, q)
  PROVE  x = y
<1> DEFINE n == Whole(Saved[name])
           data == Data(name, o)
<1>1. data \in Nat /\ o < data
  BY PropertiesAre
<1>2. CASE ~IsArray(name)
  BY <1>2 DEF Place
<1>3. CASE IsArray(name)
  <2>1. \A g \in Shape(n): Rank(g, n) \in Int /\ Rank(g, n) >= 0
    BY WholeIs, RankIs, ProductPositive DEF Elements
  <2> DEFINE of(z) == \E g \in Shape(n): InShare(Saved[name], z, g) /\ q = data + 8 * Rank(g, n)
  <2>2. \A z: Place(name, z, o, q) => (z = Root /\ q = o) \/ of(z)
    BY <1>3 DEF Place
  <2>3. \A z: of(z) => q # o
    <3> HIDE DEF data, n
    <3> QED
      BY <1>1, <2>1
  <2>4. CASE q = o
    BY <2>2, <2>3, <2>4
  <2>5. CASE q # o
    <3>1. PICK g \in Shape(n): InShare(Saved[name], x, g) /\ q = data + 8 * Rank(g, n)
      BY <2>2, <2>5
    <3>2. PICK h \in Shape(n): InShare(Saved[name], y, h) /\ q = data + 8 * Rank(h, n)
      BY <2>2, <2>5
    <3>3. Rank(g, n) = Rank(h, n)
      <4>1. Rank(g, n) \in Int /\ Rank(h, n) \in Int
        BY <2>1
      <4> HIDE DEF data
      <4> QED
        BY <1>1, <3>1, <3>2, <4>1
    <3>4. g = h
      BY <3>3, WholeIs, RankInjective
    <3> QED
      BY <3>1, <3>2, <3>4, OneWriter
  <2> QED
    BY <2>4, <2>5
<1> QED
  BY <1>2, <1>3
-----------------------------------------------------------------------------
(* The processes write the file *)

Procs == Coordinates(Writers)

\* What entry k takes in the file.
Bytes(k) == Size(Properties(Entries[k]))

\* The first offsets of the entries: each comes after those before it.
Offsets(O) ==
  /\ O \in Seq(Nat) /\ Len(O) \in 1..(Len(Entries) + 1) /\ O[1] = HeaderSize
  /\ \A k \in 1..(Len(O) - 1): O[k + 1] = O[k] + Bytes(k)
  /\ \A j, k \in 1..Len(O): j < k => O[j] + Bytes(j) <= O[k]

\* All processes count the same offsets, each as far as it has written.
Counted(O) ==
  /\ wrote \in [Procs -> Int] /\ woff \in [Procs -> Int]
  /\ \A x \in Procs: /\ 0 <= wrote[x] /\ wrote[x] + 1 <= Len(O)
                     /\ woff[x] = O[wrote[x] + 1]

\* The file holds what they have written, and nothing else.
Held(O) ==
  /\ \A q \in DOMAIN file: \E x \in Procs: \E k \in 1..wrote[x]: Place(Entries[k], x, O[k], q)
  /\ \A x \in Procs: \A k \in 1..wrote[x]: \A q \in DOMAIN Written(Entries[k], x, O[k]):
        q \in DOMAIN file /\ file[q] = Written(Entries[k], x, O[k])[q]

LEMMA IsEntries ==
  ASSUME NEW k \in 1..Len(Entries)
  PROVE  IsEntry(Entries[k]) /\ Bytes(k) \in Nat
<1>1. Entries[k] \in {"x1", "x2", "x3", "eof"} \cup DOMAIN Saved
  <2>1. k \in 4..(Len(Entries) - 1) \/ k \in {1, 2, 3, Len(Entries)}
    BY EntriesAre
  <2> QED
    BY <2>1, EntriesAre
<1>2. IsEntry(Entries[k])
  BY <1>1 DEF IsEntry
<1> QED
  BY <1>2, PropertiesAre DEF Bytes

LEMMA OffsetsFrom ==
  ASSUME NEW O, Offsets(O)
  PROVE  /\ Len(O) \in Int /\ Len(O) >= 1 /\ Len(O) <= Len(Entries) + 1
         /\ \A k \in 1..Len(O): O[k] \in Nat /\ O[k] >= HeaderSize
<1>1. Len(O) \in Int /\ Len(O) >= 1 /\ Len(O) <= Len(Entries) + 1
  BY EntriesAre DEF Offsets
<1>2. ASSUME NEW k \in 1..Len(O)
      PROVE  O[k] \in Nat /\ O[k] >= HeaderSize
  <2>1. O[k] \in Nat
    BY <1>1 DEF Offsets
  <2>2. CASE k = 1
    BY <2>1, <2>2 DEF Offsets, HeaderSize
  <2>3. CASE k # 1
    <3>1. 1 \in 1..Len(O) /\ 1 < k
      BY <1>1, <2>3
    <3>2. O[1] + Bytes(1) <= O[k] /\ O[1] = HeaderSize
      BY <3>1 DEF Offsets
    <3>3. Bytes(1) \in Nat
      BY EntriesAre, IsEntries
    <3> QED
      BY <2>1, <3>2, <3>3 DEF HeaderSize
  <2> QED
    BY <2>2, <2>3
<1> QED
  BY <1>1, <1>2

\* An entry, and what is written of it, lies where no other has written.
LEMMA Fresh ==
  ASSUME NEW O, Offsets(O), Counted(O), Held(O), NEW x \in Procs, wrote[x] < Len(Entries),
         NEW q \in DOMAIN file
  PROVE  q \notin DOMAIN Written(Entries[wrote[x] + 1], x, woff[x])
<1> DEFINE k == wrote[x] + 1
<1>1. k \in 1..Len(Entries) /\ k \in 1..Len(O) /\ woff[x] = O[k] /\ k \in Int
  BY EntriesAre, OffsetsFrom DEF Counted
<1>2. PICK y \in Procs: \E j \in 1..wrote[y]: Place(Entries[j], y, O[j], q)
  BY DEF Held
<1>3. PICK j \in 1..wrote[y]: Place(Entries[j], y, O[j], q)
  BY <1>2
<1>4. j \in 1..Len(O) /\ j \in 1..Len(Entries) /\ j \in Int
  BY OffsetsFrom, EntriesAre DEF Counted
<1> SUFFICES ASSUME q \in DOMAIN Written(Entries[k], x, woff[x])
             PROVE  FALSE
  OBVIOUS
<1>a. j <= wrote[y]
  BY <1>4
<1>b. x = y => j < k
  BY <1>a, <1>4 DEF Counted
<1> HIDE DEF k
<1>5. O[j] \in Nat /\ O[k] \in Nat /\ IsEntry(Entries[j]) /\ IsEntry(Entries[k])
  BY <1>1, <1>4, OffsetsFrom, IsEntries
<1>6. Place(Entries[k], x, O[k], q)
  BY <1>1, <1>5, WrittenIs DEF Procs
<1>7. q \in Nat /\ O[k] <= q /\ q < O[k] + Bytes(k)
  BY <1>5, <1>6, PlaceInside DEF Bytes
<1>8. O[j] <= q /\ q < O[j] + Bytes(j)
  BY <1>3, <1>5, PlaceInside DEF Bytes
<1>9. Bytes(j) \in Nat /\ Bytes(k) \in Nat
  BY <1>1, <1>4, IsEntries
<1>10. CASE j = k
  <2>1. x = y
    BY <1>3, <1>5, <1>6, <1>10, PlaceIsOnes DEF Procs
  <2> QED
    BY <1>10, <1>1, <1>b, <2>1
<1>11. CASE j < k
  <2>1. O[j] + Bytes(j) <= O[k]
    BY <1>1, <1>4, <1>11 DEF Offsets
  <2> QED
    BY <1>5, <1>7, <1>8, <1>9, <2>1
<1>12. CASE k < j
  <2>1. O[k] + Bytes(k) <= O[j]
    BY <1>1, <1>4, <1>12 DEF Offsets
  <2> QED
    BY <1>5, <1>7, <1>8, <1>9, <2>1
<1> QED
  BY <1>1, <1>4, <1>10, <1>11, <1>12

\* The offset after the last one.
LEMMA NextOffset ==
  ASSUME NEW O, Offsets(O), NEW k \in Int, k = Len(O), k <= Len(Entries)
  PROVE  LET P == Append(O, O[k] + Bytes(k))
         IN  /\ Offsets(P) /\ Len(P) = k + 1 /\ P[k + 1] = O[k] + Bytes(k)
             /\ \A j \in 1..k: P[j] = O[j]
<1> DEFINE o == O[k] + Bytes(k)
           P == Append(O, o)
<1>1. k >= 1 /\ k \in 1..Len(O) /\ k \in 1..Len(Entries)
  BY OffsetsFrom, EntriesAre
<1>2. O \in Seq(Nat) /\ O[k] \in Nat /\ Bytes(k) \in Nat
  BY <1>1, OffsetsFrom, IsEntries DEF Offsets
<1>3. o \in Nat /\ O[k] <= o
  BY <1>2
<1>o. o = O[k] + Bytes(k)
  OBVIOUS
<1> HIDE DEF o
<1>4. /\ P \in Seq(Nat) /\ Len(P) = k + 1 /\ P[k + 1] = o
      /\ \A j \in 1..k: P[j] = O[j]
  BY <1>2, <1>3
<1> HIDE DEF P
<1>5. Len(P) \in 1..(Len(Entries) + 1) /\ P[1] = HeaderSize
  BY <1>1, <1>4, EntriesAre DEF Offsets
<1>6. ASSUME NEW j \in 1..(Len(P) - 1)
      PROVE  P[j + 1] = P[j] + Bytes(j)
  <2>1. CASE j = k
    BY <1>1, <1>4, <1>o, <2>1
  <2>2. CASE j # k
    <3>1. j \in 1..(Len(O) - 1) /\ j + 1 \in 1..k /\ j \in 1..k
      BY <1>1, <1>4, <2>2
    <3>2. O[j + 1] = O[j] + Bytes(j)
      BY <3>1 DEF Offsets
    <3> QED
      BY <1>4, <3>1, <3>2
  <2> QED
    BY <2>1, <2>2
<1>7. ASSUME NEW i \in 1..Len(P), NEW j \in 1..Len(P), i < j
      PROVE  P[i] + Bytes(i) <= P[j]
  <2>1. i \in 1..k /\ P[i] = O[i] /\ i \in 1..Len(O)
    BY <1>1, <1>4, <1>7
  <2>2. CASE j = k + 1
    <3>1. CASE i = k
      BY <1>3, <1>4, <1>o, <2>1, <2>2, <3>1
    <3>2. CASE i # k
      <4>1. O[i] + Bytes(i) <= O[k]
        BY <1>1, <2>1, <3>2 DEF Offsets
      <4>2. O[i] \in Nat /\ Bytes(i) \in Nat
        BY <1>1, <2>1, OffsetsFrom, IsEntries, EntriesAre
      <4> QED
        BY <1>2, <1>3, <1>4, <2>1, <2>2, <4>1, <4>2
    <3> QED
      BY <3>1, <3>2
  <2>3. CASE j # k + 1
    <3>1. j \in 1..Len(O) /\ P[j] = O[j]
      BY <1>1, <1>4, <2>3
    <3> QED
      BY <1>7, <2>1, <3>1 DEF Offsets
  <2> QED
    BY <2>2, <2>3
<1>8. Offsets(P)
  BY <1>4, <1>5, <1>6, <1>7 DEF Offsets
<1> QED
  BY <1>4, <1>8, <1>o DEF P, o

\* A write keeps what the file holds and adds to it.
LEMMA WriteStep ==
  ASSUME NEW O, Offsets(O), Counted(O), Held(O), NEW x \in Procs, Write(x)
  PROVE  /\ \A q \in DOMAIN file: q \in DOMAIN file' /\ file'[q] = file[q]
         /\ \E P: Offsets(P) /\ Counted(P)' /\ Held(P)'
<1> DEFINE k == wrote[x] + 1
           W == Written(Entries[k], x, woff[x])
<1>1. wrote[x] < Len(Entries)
  BY DEF Write
<1>2. file' = Over(W, file)
  BY DEF Write
<1>3. /\ woff' = [woff EXCEPT ![x] = @ + Bytes(k)]
      /\ wrote' = [wrote EXCEPT ![x] = @ + 1]
  BY DEF Write, Bytes
<1>4. k \in 1..Len(Entries) /\ k \in 1..Len(O) /\ woff[x] = O[k] /\ k \in Int
  BY <1>1, EntriesAre, OffsetsFrom DEF Counted
<1>5. \A q \in DOMAIN file: q \notin DOMAIN W
  BY <1>1, Fresh
<1>k. wrote'[x] = k /\ \A y \in Procs: y # x => wrote'[y] = wrote[y]
  BY <1>3 DEF Counted
<1>w. /\ wrote' \in [Procs -> Int] /\ woff' = [woff EXCEPT ![x] = O[k] + Bytes(k)]
      /\ woff'[x] = O[k] + Bytes(k) /\ \A y \in Procs: y # x => woff'[y] = woff[y]
  BY <1>3, <1>4 DEF Counted
<1>z. wrote \in [Procs -> Int] /\ \A y \in Procs: 0 <= wrote[y] /\ wrote[y] + 1 <= Len(O)
  BY DEF Counted
<1>e. \A y \in Procs: \A j: j \in 1..wrote'[y] <=> j \in 1..wrote[y] \/ (y = x /\ j = k)
  <2> TAKE y \in Procs
  <2> TAKE j
  <2>1. CASE y # x
    BY <1>k, <2>1
  <2>2. CASE y = x
    <3>1. wrote[x] \in Int /\ wrote[x] >= 0 /\ k = wrote[x] + 1
      BY <1>z
    <3> HIDE DEF k
    <3>2. wrote'[y] = k
      BY <1>k, <2>2
    <3> QED
      BY <2>2, <3>1, <3>2
  <2> QED
    BY <2>1, <2>2
<1>kk. wrote[x] = k - 1
  BY <1>z
<1>W. W = Written(Entries[k], x, O[k])
  BY <1>4
<1> HIDE DEF k, W
<1>6. /\ DOMAIN file' = DOMAIN W \cup DOMAIN file
      /\ \A q \in DOMAIN W: file'[q] = W[q]
      /\ \A q \in DOMAIN file: file'[q] = file[q]
  BY <1>2, <1>5 DEF Over
<1>7. ASSUME NEW P, Offsets(P), Len(P) >= Len(O), Len(P) >= k + 1, \A j \in 1..Len(O): P[j] = O[j],
             P[k + 1] = O[k] + Bytes(k)
      PROVE  Counted(P)' /\ Held(P)'
  <2>1. Counted(P)'
    <3>1. ASSUME NEW y \in Procs
          PROVE  0 <= wrote'[y] /\ wrote'[y] + 1 <= Len(P) /\ woff'[y] = P[wrote'[y] + 1]
      <4>1. CASE y = x
        BY <1>4, <1>7, <1>k, <1>w, <4>1
      <4>2. CASE y # x
        <5>1. wrote'[y] = wrote[y] /\ woff'[y] = woff[y]
          BY <1>k, <1>w, <4>2
        <5>2. wrote[y] + 1 \in 1..Len(O) /\ woff[y] = O[wrote[y] + 1] /\ 0 <= wrote[y] /\ wrote[y] \in Int
          BY OffsetsFrom DEF Counted
        <5>3. Len(P) \in Int /\ Len(O) \in Int
          BY <1>7, OffsetsFrom
        <5> QED
          BY <1>7, <5>1, <5>2, <5>3
      <4> QED
        BY <4>1, <4>2
    <3>2. woff' \in [Procs -> Int]
      <4>1. O[k] + Bytes(k) \in Int
        BY <1>4, OffsetsFrom, IsEntries
      <4> QED
        BY <1>w, <4>1 DEF Counted
    <3> QED
      BY <1>w, <3>1, <3>2 DEF Counted
  <2>2. ASSUME NEW q \in DOMAIN file'
        PROVE  \E y \in Procs: \E j \in 1..wrote'[y]: Place(Entries[j], y, P[j], q)
    <3>1. CASE q \in DOMAIN W
      <4>1. Place(Entries[k], x, O[k], q)
        BY <1>4, <1>W, <3>1, OffsetsFrom, IsEntries, WrittenIs DEF Procs
      <4> QED
        BY <1>4, <1>7, <1>e, <4>1
    <3>2. CASE q \in DOMAIN file
      <4>1. PICK y \in Procs: \E j \in 1..wrote[y]: Place(Entries[j], y, O[j], q)
        BY <3>2 DEF Held
      <4>2. PICK j \in 1..wrote[y]: Place(Entries[j], y, O[j], q)
        BY <4>1
      <4>3. j \in 1..Len(O)
        BY <1>z, OffsetsFrom
      <4> QED
        BY <1>7, <1>e, <4>2, <4>3
    <3> QED
      BY <1>6, <3>1, <3>2
  <2>3. ASSUME NEW y \in Procs, NEW j \in 1..wrote'[y], NEW q \in DOMAIN Written(Entries[j], y, P[j])
        PROVE  q \in DOMAIN file' /\ file'[q] = Written(Entries[j], y, P[j])[q]
    <3>1. CASE y = x /\ j = k
      <4>1. P[j] = O[k]
        BY <1>4, <1>7, <3>1
      <4> QED
        BY <1>6, <1>W, <2>3, <3>1, <4>1
    <3>2. CASE j \in 1..wrote[y]
      <4>1. j \in 1..Len(O)
        BY <1>z, <3>2, OffsetsFrom
      <4>2. P[j] = O[j]
        BY <1>7, <4>1
      <4>3. q \in DOMAIN file /\ file[q] = Written(Entries[j], y, O[j])[q]
        BY <2>3, <3>2, <4>2 DEF Held
      <4> QED
        BY <1>6, <4>2, <4>3
    <3> QED
      BY <1>e, <2>3, <3>1, <3>2
  <2>4. Held(P)'
    BY <2>2, <2>3 DEF Held
  <2> QED
    BY <2>1, <2>4
<1>8. CASE k < Len(O)
  <2>1. k \in 1..(Len(O) - 1) /\ Len(O) >= k + 1
    BY <1>4, <1>8, OffsetsFrom
  <2>2. O[k + 1] = O[k] + Bytes(k)
    BY <2>1 DEF Offsets
  <2>3. Len(O) >= Len(O)
    BY OffsetsFrom
  <2>4. Counted(O)' /\ Held(O)'
    BY <1>7, <2>1, <2>2, <2>3
  <2> QED
    BY <1>6, <2>4
<1>9. CASE k = Len(O)
  <2>1. PICK P: Offsets(P) /\ Len(P) = k + 1 /\ P[k + 1] = O[k] + Bytes(k) /\ \A j \in 1..k: P[j] = O[j]
    <3> DEFINE Q == Append(O, O[k] + Bytes(k))
    <3>1. k \in Int /\ k <= Len(Entries)
      BY <1>4, EntriesAre
    <3>2. Offsets(Q) /\ Len(Q) = k + 1 /\ Q[k + 1] = O[k] + Bytes(k) /\ \A j \in 1..k: Q[j] = O[j]
      BY <1>9, <3>1, NextOffset
    <3> HIDE DEF Q
    <3> QED
      BY <3>2
  <2>2. Len(P) >= Len(O) /\ Len(P) >= k + 1 /\ \A j \in 1..Len(O): P[j] = O[j]
    BY <1>4, <1>9, <2>1
  <2>3. Counted(P)' /\ Held(P)'
    BY <1>7, <2>1, <2>2
  <2> QED
    BY <1>6, <2>1, <2>3
<1> QED
  BY <1>4, <1>6, <1>8, <1>9, OffsetsFrom
-----------------------------------------------------------------------------
(* What is in the file when all have written it *)

LEMMA FileIs ==
  ASSUME NEW O, Offsets(O), Counted(O), Held(O), Closed
  PROVE  /\ Len(O) = Len(Entries) + 1
         /\ \A k \in 1..Len(Entries):
              /\ PropertiesAt(O[k]) = Properties(Entries[k])
              /\ ~IsArray(Entries[k]) => At(Data(Entries[k], O[k])) = Constant(Entries[k])
              /\ IsArray(Entries[k]) => \A g \in Shape(Whole(Saved[Entries[k]])):
                   At(Data(Entries[k], O[k]) + 8 * Rank(g, Whole(Saved[Entries[k]])))
                     = Original(Entries[k], g)
<1>1. \A x \in Procs: wrote[x] = Len(Entries)
  BY DEF Closed, Procs
<1>2. Root \in Procs
  BY RootWrites DEF Procs
<1>3. Len(O) = Len(Entries) + 1
  <2>1. wrote[Root] = Len(Entries) /\ wrote[Root] + 1 <= Len(O)
    BY <1>1, <1>2 DEF Counted
  <2> QED
    BY <2>1, OffsetsFrom, EntriesAre
<1>4. ASSUME NEW k \in 1..Len(Entries)
      PROVE  /\ PropertiesAt(O[k]) = Properties(Entries[k])
             /\ ~IsArray(Entries[k]) => At(Data(Entries[k], O[k])) = Constant(Entries[k])
             /\ IsArray(Entries[k]) => \A g \in Shape(Whole(Saved[Entries[k]])):
                  At(Data(Entries[k], O[k]) + 8 * Rank(g, Whole(Saved[Entries[k]])))
                    = Original(Entries[k], g)
  <2> DEFINE name == Entries[k]
             o == O[k]
             data == Data(name, o)
             n == Whole(Saved[name])
  <2>1. o \in Nat /\ IsEntry(name)
    BY <1>3, OffsetsFrom, IsEntries, EntriesAre
  <2>2. \A x \in Procs: \A q \in DOMAIN Written(name, x, o): At(q) = Written(name, x, o)[q]
    BY <1>1 DEF Held, At
  <2> HIDE DEF name, o
  <2>3. At(o) = Properties(name)
    BY <1>2, <2>1, <2>2, WrittenIs DEF Procs
  <2>4. PropertiesAt(o) = Properties(name)
    BY <2>1, <2>3, PropertiesAre DEF PropertiesAt
  <2>5. ~IsArray(name) => At(data) = Constant(name)
    BY <1>2, <2>1, <2>2, WrittenIs DEF Procs
  <2>6. ASSUME IsArray(name), NEW g \in Shape(n)
        PROVE  At(data + 8 * Rank(g, n)) = Original(name, g)
    <3> DEFINE y == Writer(g)
    <3>1. y \in Procs /\ InShare(Saved[name], y, g)
      BY OneWriter DEF Procs
    <3> HIDE DEF y
    <3> DEFINE q == data + 8 * Rank(g, n)
    <3>2. q \in DOMAIN Written(name, y, o) /\ Written(name, y, o)[q] = Value(name, g, y)
      BY <2>1, <2>6, <3>1, WrittenIs DEF Procs
    <3> HIDE DEF q
    <3>3. At(q) = Value(name, g, y)
      BY <2>2, <3>1, <3>2
    <3>4. Original(name, g) = Value(name, g, y)
      BY DEF Original, Writer, y
    <3> QED
      BY <3>3, <3>4 DEF q
  <2> QED
    BY <2>4, <2>5, <2>6 DEF name, o
<1> QED
  BY <1>3, <1>4

-----------------------------------------------------------------------------
(* The part of an array that a process reads *)

LEMMA ReaderBox ==
  ASSUME NEW f, NEW x \in Coordinates(Readers)
  PROVE  /\ Inside(DescriptorR(f, OwnBox(x)), Whole(f))
         /\ DescriptorR(f, OwnBox(x)).sub = ReadShape(f)
         /\ DescriptorR(f, OwnBox(x)).start = [d \in Dirs |-> Start(Np, Readers, x, d)]
<1> DEFINE desc == DescriptorR(f, OwnBox(x))
           n == Whole(f)
<1>1. desc.sub = ReadShape(f)
  BY DEF DescriptorR, ReadShape, OwnBox
<1>2. desc.start = [d \in Dirs |-> Start(Np, Readers, x, d)] /\ desc.size = n
  BY DEF DescriptorR, OwnBox
<1>3. ASSUME NEW d \in Dirs
      PROVE  /\ ReadShape(f)[d] \in Nat \ {0}
             /\ Start(Np, Readers, x, d) \in Int /\ 0 <= Start(Np, Readers, x, d)
             /\ Start(Np, Readers, x, d) + ReadShape(f)[d] <= n[d]
  <2> DEFINE l == Local(Np, Readers, d)
             w == Readers[d]
             y == x[d]
             e == Extra(f, d)
  <2>1. l \in Int /\ l > 0 /\ w \in Int /\ w > 0 /\ Np[d] = w * l
    BY Input, Locals
  <2>2. y \in Int /\ 0 <= y /\ y < w
    BY Input, ProcessIs
  <2>3. e \in {0, 1} /\ n[d] = w * l + e
    BY <2>1, WholeIs
  <2>4. ReadShape(f)[d] = l + e
    BY DEF ReadShape
  <2>5. Start(Np, Readers, x, d) = y * l
    BY DEF Start
  <2> HIDE DEF l, w, y, e
  <2>6. y * l \in Int /\ y * l >= 0 /\ y * l + l <= w * l
    BY <2>1, <2>2
  <2> QED
    BY <2>1, <2>3, <2>4, <2>5, <2>6
<1>4. \A d \in Dirs: Start(Np, Readers, x, d) \in Int
  BY <1>3
<1>5. Sizes3(ReadShape(f))
  <2>1. ReadShape(f) = [d \in Dirs |-> ReadShape(f)[d]]
    BY DEF ReadShape
  <2> QED
    BY <1>3, <2>1 DEF Sizes3
<1> HIDE DEF desc, n
<1>6. Inside(desc, n)
  BY <1>1, <1>2, <1>3, <1>4, <1>5 DEF Inside
<1> QED
  BY <1>1, <1>2, <1>6 DEF desc, n

\* Two fields that have the same extra elements have the same arrays.
Alike(f, g) == \A d \in Dirs: Extra(f, d) = Extra(g, d)

LEMMA AlikeArrays ==
  ASSUME NEW f, NEW g, Alike(f, g)
  PROVE  /\ Whole(f) = Whole(g) /\ ReadShape(f) = ReadShape(g)
         /\ \A box: DescriptorR(f, box) = DescriptorR(g, box)
BY DEF Alike, Whole, ReadShape, DescriptorR

\* What a process reads through its view is its part of the original array.
LEMMA DistributedIs ==
  ASSUME NEW x \in Coordinates(Readers), NEW name, NEW f, Alike(f, Saved[name]),
         \A g \in Shape(Whole(Saved[name])):
           At(Values(x) + 8 * Rank(g, Whole(Saved[name]))) = Original(name, g)
  PROVE  Distributed(x, DescriptorR(f, OwnBox(x)), ReadShape(f)) = Part(x, ReadShape(f), name)
<1> DEFINE desc == DescriptorR(f, OwnBox(x))
           n == Whole(f)
           nx == ReadShape(f)
           start == [d \in Dirs |-> Start(Np, Readers, x, d)]
<1>1. n = Whole(Saved[name])
  BY AlikeArrays
<1>2. Sizes3(n) /\ Inside(desc, n) /\ desc.sub = nx /\ desc.start = start
  BY WholeIs, ReaderBox
<1>3. ASSUME NEW c \in Shape(nx)
      PROVE  At(Values(x) + 8 * Viewed(Rank(c, nx), desc)) = Original(name, Shifted(start, c))
  <2>1. Shifted(start, c) \in Shape(n) /\ Viewed(Rank(c, nx), desc) = Rank(Shifted(start, c), n)
    BY <1>2, ViewedIs
  <2> HIDE DEF desc, n, nx, start
  <2> QED
    BY <1>1, <2>1
<1>4. Distributed(x, desc, nx) = [c \in Shape(nx) |-> At(Values(x) + 8 * Viewed(Rank(c, nx), desc))]
  BY DEF Distributed
<1>5. Part(x, nx, name) = [c \in Shape(nx) |-> Original(name, Shifted(start, c))]
  BY DEF Part, Shifted
<1> HIDE DEF desc, nx, start
<1> QED
  BY <1>3, <1>4, <1>5 DEF desc, nx

\* The cells of an image's process are its own.
LEMMA GetBoxIs ==
  ASSUME NEW x \in Coordinates(Readers)
  PROVE  GetBox(x) = OwnBox(x)
<1> DEFINE last(S) == CHOOSE i \in S: \A j \in S: j <= i
           Beg(d) == last({i \in 0..(Np[d] - 1): i <= Start(Np, Readers, x, d)})
           End(d) == last({i \in 0..(Np[d] - 1): i + 1 <= Stop(Np, Readers, x, d)})
           beg == [d \in Dirs |-> Beg(d)]
           end == [d \in Dirs |-> End(d)]
<1>1. ASSUME NEW d \in Dirs
      PROVE  /\ Beg(d) = Start(Np, Readers, x, d)
             /\ End(d) - Beg(d) + 1 = Local(Np, Readers, d)
  <2> DEFINE l == Local(Np, Readers, d)
             w == Readers[d]
             y == x[d]
             n == Np[d]
             s == Start(Np, Readers, x, d)
             t == Stop(Np, Readers, x, d)
  <2>1. l \in Int /\ l > 0 /\ w \in Int /\ w > 0 /\ n = w * l
    BY Input, Locals
  <2>2. y \in Int /\ 0 <= y /\ y < w
    BY Input, ProcessIs
  <2>3. s = y * l /\ t = s + l
    <3>1. s = y * l
      BY DEF Start
    <3>2. t = s + l \/ t = (y + 1) * l
      BY DEF Stop
    <3> HIDE DEF l, y, s, t
    <3> QED
      BY <2>1, <2>2, <3>1, <3>2
  <2>4. s \in Int /\ s >= 0 /\ s + l <= n /\ n \in Int
    <3> HIDE DEF l, w, y, s, t, n
    <3>1. y * l \in Int /\ y * l >= 0 /\ y * l + l <= w * l
      BY <2>1, <2>2
    <3> QED
      BY <2>1, <2>3, <3>1
  <2> HIDE DEF l, w, y, s, t, n
  <2>5. ASSUME NEW S, NEW i \in S, \A j \in S: j <= i, \A j \in S: j \in Int
        PROVE  last(S) = i
    <3>1. \A j \in S: (\A k \in S: k <= j) => j = i
      BY <2>5
    <3> QED
      BY <2>5, <3>1
  <2>6. last({i \in 0..(n - 1): i <= s}) = s
    <3> DEFINE S == {i \in 0..(n - 1): i <= s}
    <3>1. s \in S /\ (\A j \in S: j <= s) /\ \A j \in S: j \in Int
      BY <2>1, <2>4
    <3> HIDE DEF S
    <3>2. last(S) = s
      BY <2>5, <3>1
    <3> QED
      BY <3>2 DEF S
  <2>7. last({i \in 0..(n - 1): i + 1 <= t}) = s + l - 1
    <3> DEFINE S == {i \in 0..(n - 1): i + 1 <= t}
               e == s + l - 1
    <3>1. e \in S /\ (\A j \in S: j <= e) /\ \A j \in S: j \in Int
      BY <2>1, <2>3, <2>4
    <3> HIDE DEF S, e
    <3>2. last(S) = e
      BY <2>5, <3>1
    <3> QED
      BY <3>2 DEF S, e
  <2>8. Beg(d) = s /\ End(d) = s + l - 1
    BY <2>6, <2>7 DEF s, t, n
  <2> HIDE DEF Beg, End
  <2> QED
    BY <2>1, <2>4, <2>8 DEF s, l
<1>2. GetBox(x) = [start |-> beg, size |-> [d \in Dirs |-> end[d] - beg[d] + 1]]
  BY DEF GetBox
<1>3. \A d \in Dirs: beg[d] = Beg(d) /\ end[d] = End(d)
  OBVIOUS
<1> HIDE DEF Beg, End, last
<1>4. beg = [d \in Dirs |-> Start(Np, Readers, x, d)]
  BY <1>1
<1>5. [d \in Dirs |-> end[d] - beg[d] + 1] = [d \in Dirs |-> Local(Np, Readers, d)]
  BY <1>1, <1>3
<1> QED
  BY <1>2, <1>4, <1>5 DEF OwnBox
-----------------------------------------------------------------------------
(* What an image guesses *)

\* DumpImage knows the place of a field from its dimensions, unless it has one
\* element more in X1 and in X3: it looks for X1 and X2, then for X2 and X3.
Guessable(f) == ~(Extra(f, 1) = 1 /\ Extra(f, 3) = 1)

LEMMA Cardinals ==
  /\ Cardinality({}) = 0
  /\ \A a: Cardinality({a}) = 1
  /\ \A a, b: a # b => Cardinality({a, b}) = 2
<1>1. \A a: IsFiniteSet({a}) /\ Cardinality({a}) = 1
  BY FS_Singleton
<1>2. ASSUME NEW a, NEW b, a # b
      PROVE  Cardinality({a, b}) = 2
  <2>1. Cardinality({a} \cup {b}) = Cardinality({a}) + 1
    BY <1>1, <1>2, FS_AddElement
  <2>2. {a} \cup {b} = {a, b}
    OBVIOUS
  <2>3. Cardinality({a}) = 1
    BY <1>1
  <2> QED
    BY <2>1, <2>2, <2>3
<1> QED
  BY <1>1, <1>2, FS_EmptySet

LEMMA GuessIs ==
  ASSUME NEW f \in Field, f.at # "scalar", Guessable(f), NEW x, NEW desc \in Guessed(x, Whole(f))
  PROVE  desc = DescriptorR(f, GetBox(x))
<1> DEFINE more == {d \in Dirs: Whole(f)[d] = Np[d] + 1}
           g == Guess(Whole(f))
           Likely(at, dir) == [at |-> at, dir |-> dir, size |-> 1]
           R(at, dir) == DescriptorR(Likely(at, dir), GetBox(x))
           e1 == Extra(f, 1)
           e2 == Extra(f, 2)
           e3 == Extra(f, 3)
<1>1. /\ \A d \in Dirs: d \in more <=> Extra(f, d) = 1
      /\ e1 \in {0, 1} /\ e2 \in {0, 1} /\ e3 \in {0, 1}
  <2>1. \A d \in Dirs: Np[d] \in Int
    BY Input DEF Sizes3
  <2> QED
    BY <2>1, WholeIs
<1>2. ASSUME NEW at, NEW dir, Alike(Likely(at, dir), f), desc \in {R(at, dir)}
      PROVE  desc = DescriptorR(f, GetBox(x))
  <2> HIDE DEF Likely
  <2> QED
    BY <1>2, AlikeArrays
<1>3. /\ g.nType = Cardinality(more)
      /\ g.surfaceDir = IF more = {} THEN 0 ELSE CHOOSE d \in more: \A e \in more: e >= d
      /\ g.edgeDir = IF 2 \notin more THEN 0 ELSE IF 1 \in more THEN 3 ELSE 1
  BY DEF Guess
<1>4. /\ g.nType = 0 => desc \in {R("center", 0)}
      /\ g.nType = 1 => desc \in {R("face", g.surfaceDir)}
      /\ g.nType = 2 /\ g.edgeDir # 0 => desc \in {R("edge", g.edgeDir)}
  BY DEF Guessed
<1>5. more \subseteq Dirs
  OBVIOUS
<1>6. Dim \in 1..3 /\ f.dir \in 0..3 /\ f.at \in {"center", "face", "edge"}
  BY DumpFileAssumption DEF Field
<1>s. \A d: d \in more <=> (d = 1 /\ e1 = 1) \/ (d = 2 /\ e2 = 1) \/ (d = 3 /\ e3 = 1)
  BY <1>1, <1>5
<1> HIDE DEF more, g, R, e1, e2, e3
<1>7. CASE e1 = 0 /\ e2 = 0 /\ e3 = 0
  <2>1. more = {}
    BY <1>1, <1>5, <1>7 DEF e1, e2, e3
  <2>2. desc \in {R("center", 0)}
    BY <1>3, <1>4, <2>1, Cardinals
  <2>3. Alike(Likely("center", 0), f)
    BY <1>7 DEF Alike, Extra, e1, e2, e3
  <2> QED
    BY <1>2, <2>2, <2>3
<1>8. ASSUME NEW d \in Dirs, more = {d}
      PROVE  desc = DescriptorR(f, GetBox(x))
  <2>1. g.surfaceDir = d
    <3>1. (CHOOSE c \in {d}: \A e \in {d}: e >= c) = d
      OBVIOUS
    <3> QED
      BY <1>3, <1>8, <3>1
  <2>2. desc \in {R("face", d)}
    BY <1>3, <1>4, <1>8, <2>1, Cardinals
  <2>3. \A c \in Dirs: Extra(f, c) = IF c = d THEN 1 ELSE 0
    BY <1>1, <1>8 DEF e1, e2, e3
  <2>4. \A c \in Dirs: Extra(Likely("face", d), c) = IF c = d THEN 1 ELSE 0
    BY DEF Extra
  <2>5. Alike(Likely("face", d), f)
    BY <2>3, <2>4 DEF Alike
  <2> QED
    BY <1>2, <2>2, <2>5
<1>9. CASE e1 = 1 /\ e2 = 1 /\ e3 = 0
  <2>1. more = {1, 2}
    <3>1. \A d: d \in more <=> d \in {1, 2}
      BY <1>s, <1>9
    <3> QED
      BY <3>1
  <2>2. desc \in {R("edge", 3)}
    <3>1. Cardinality({1, 2}) = 2
      <4>1. 1 # 2
        OBVIOUS
      <4> QED
        BY <4>1, Cardinals, Zenon
    <3>2. g.nType = 2
      BY <1>3, <2>1, <3>1
    <3>3. g.edgeDir = 3
      BY <1>3, <2>1
    <3> QED
      BY <1>4, <3>2, <3>3
  <2>3. f.at = "edge" /\ 2 <= Dim
    BY <1>6, <1>9 DEF Extra, e1, e2
  <2>4. Alike(Likely("edge", 3), f)
    BY <1>6, <1>9, <2>3 DEF Alike, Extra, e1, e2, e3
  <2> QED
    BY <1>2, <2>2, <2>4
<1>10. CASE e1 = 0 /\ e2 = 1 /\ e3 = 1
  <2>1. more = {2, 3}
    <3>1. \A d: d \in more <=> d \in {2, 3}
      BY <1>s, <1>10
    <3> QED
      BY <3>1
  <2>2. desc \in {R("edge", 1)}
    <3>1. Cardinality({2, 3}) = 2
      <4>1. 2 # 3
        OBVIOUS
      <4> QED
        BY <4>1, Cardinals, Zenon
    <3>2. g.nType = 2
      BY <1>3, <2>1, <3>1
    <3>3. g.edgeDir = 1
      BY <1>3, <2>1
    <3> QED
      BY <1>4, <3>2, <3>3
  <2>3. f.at = "edge" /\ 3 <= Dim
    BY <1>6, <1>10 DEF Extra, e2, e3
  <2>4. Alike(Likely("edge", 1), f)
    BY <1>6, <1>10, <2>3 DEF Alike, Extra, e1, e2, e3
  <2> QED
    BY <1>2, <2>2, <2>4
<1>11. CASE e1 = 1 /\ e2 = 0 /\ e3 = 0
  <2>1. more = {1}
    <3>1. \A d: d \in more <=> d \in {1}
      BY <1>s, <1>11
    <3> QED
      BY <3>1
  <2> QED
    BY <1>8, <2>1
<1>12. CASE e1 = 0 /\ e2 = 1 /\ e3 = 0
  <2>1. more = {2}
    <3>1. \A d: d \in more <=> d \in {2}
      BY <1>s, <1>12
    <3> QED
      BY <3>1
  <2> QED
    BY <1>8, <2>1
<1>13. CASE e1 = 0 /\ e2 = 0 /\ e3 = 1
  <2>1. more = {3}
    <3>1. \A d: d \in more <=> d \in {3}
      BY <1>s, <1>13
    <3> QED
      BY <3>1
  <2> QED
    BY <1>8, <2>1
<1>14. ~(e1 = 1 /\ e3 = 1)
  BY DEF Guessable, e1, e3
<1> QED
  BY <1>1, <1>7, <1>9, <1>10, <1>11, <1>12, <1>13, <1>14
-----------------------------------------------------------------------------
(* The processes read the file *)

Ranks == Coordinates(Readers)

Headers == {Properties(Entries[k]): k \in 1..Len(Entries)}

\* Rank 0 reads the properties of one entry after another, and the others hear
\* the first of them.
Broadcast ==
  /\ heads \in Seq(Headers)
  /\ \A k \in 1..Len(heads): k <= Len(Entries) /\ heads[k] = Properties(Entries[k])
  /\ heard \in [Ranks -> Int] /\ heard[Root] = Len(heads)
  /\ \A x \in Ranks: 0 <= heard[x] /\ heard[x] <= Len(heads)

\* A field whose size is not the one registered.
Unfit(name) ==
  /\ name \in DOMAIN Saved /\ name \in DOMAIN loaded
  /\ Saved[name].at = "scalar" /\ loaded[name].size # Saved[name].size

\* Process x has come past a field of the dump.
Past(name, x) == \E k \in 4..(Len(Entries) - 1): k <= heard[x] /\ Entries[k] = name

\* Each process is where the number of the entries it has heard of says.
Position(O, x) ==
  /\ pc[x] = "x1" => heard[x] = 0
  /\ pc[x] = "x2" => heard[x] = 1
  /\ pc[x] = "x3" => heard[x] = 2
  /\ pc[x] = "fields" => 3 <= heard[x] /\ heard[x] < Len(Entries)
  /\ pc[x] = "end" => heard[x] = Len(Entries)
  /\ pc[x] \in {"x1", "x2", "x3", "fields"} => roff[x] = O[heard[x] + 1]
  /\ pc[x] = "refused" => mode = "restart" /\ \E name \in DOMAIN Saved: Unfit(name)
  /\ mode = "restart" /\ pc[x] # "refused" => \A name \in DOMAIN Saved: Past(name, x) => ~Unfit(name)

Restores(x, name) ==
  IF loaded[name].at = "scalar" THEN Constant(name) ELSE Part(x, ReadShape(loaded[name]), name)

Restored(x) ==
  mode = "restart" /\ pc[x] # "refused" =>
    /\ DOMAIN memory[x] = {name \in DOMAIN loaded \cap DOMAIN Saved: Past(name, x)}
    /\ \A name \in DOMAIN memory[x]: memory[x][name] = Restores(x, name)

\* The dumps whose fields an image can tell from their dimensions.
AllGuessable == \A name \in DOMAIN Saved: Guessable(Saved[name])

ImageOf(x, name) ==
  IF mode = "image" THEN [c \in Shape(Whole(Saved[name])) |-> Original(name, c)]
  ELSE Part(x, ReadShape(Saved[name]), name)

Imaged(x) ==
  mode = "image" \/ (mode = "distributed image" /\ AllGuessable) =>
    \A name \in DOMAIN Saved: IsArray(name) /\ Past(name, x) =>
      name \in DOMAIN memory[x] /\ memory[x][name] = ImageOf(x, name)

Started ==
  /\ mode = "none" => /\ loaded = <<>> /\ heads = <<>>
                      /\ \A x \in Ranks: /\ pc[x] = "x1" /\ heard[x] = 0
                                         /\ roff[x] = HeaderSize /\ memory[x] = <<>>
  /\ mode # "none" => mode \in Modes /\ loaded \in Loads /\ Closed

Shapes ==
  /\ pc \in [Ranks -> DOMAIN Coordinate \cup {"fields", "end", "refused"}]
  /\ roff \in [Ranks -> Nat] /\ DOMAIN memory = Ranks

Heeded(O) ==
  /\ Started /\ Shapes /\ Broadcast
  /\ \A x \in Ranks: Position(O, x) /\ Restored(x) /\ Imaged(x)

FileInv(O) == Offsets(O) /\ Counted(O) /\ Held(O)

LEMMA Offset ==
  ASSUME NEW O, FileInv(O), Closed, NEW k \in 1..Len(Entries)
  PROVE  /\ O[k] \in Nat /\ O[k + 1] \in Nat /\ O[k + 1] = O[k] + Bytes(k)
         /\ PropertiesAt(O[k]) = Properties(Entries[k])
<1>1. Len(O) = Len(Entries) + 1 /\ PropertiesAt(O[k]) = Properties(Entries[k])
  BY FileIs DEF FileInv
<1>2. k \in 1..(Len(O) - 1) /\ k + 1 \in 1..Len(O) /\ k \in 1..Len(O)
  BY <1>1, EntriesAre
<1> QED
  BY <1>1, <1>2, OffsetsFrom DEF FileInv, Offsets

\* The next entry, for the process that reads it and those that hear of it.
LEMMA HeardIs ==
  ASSUME NEW O, FileInv(O), Heeded(O), NEW x \in Ranks, Hear(x),
         pc[x] \in {"x1", "x2", "x3", "fields"}, NEW k, k = heard[x] + 1
  PROVE  /\ k \in 1..Len(Entries) /\ Closed
         /\ Heard(x) = Properties(Entries[k]) /\ roff[x] = O[k]
         /\ After(x) = O[k + 1] /\ After(x) \in Nat
         /\ mode \in Modes /\ loaded \in Loads /\ mode # "none"
         /\ Broadcast' /\ heard'[x] = k /\ \A y \in Ranks: y # x => heard'[y] = heard[y]
<1>1. Position(O, x) /\ Broadcast
  BY DEF Heeded
<1>2. mode # "none" /\ Closed /\ mode \in Modes /\ loaded \in Loads
  BY DEF Hear, Heeded, Started
<1>3. heard[x] \in Int /\ 0 <= heard[x] /\ heard[x] < Len(Entries)
  BY <1>1, EntriesAre DEF Position, Broadcast
<1>4. k \in 1..Len(Entries) /\ k \in Int
  BY <1>3, EntriesAre
<1>5. roff[x] = O[k]
  BY <1>1 DEF Position
<1>6. PropertiesAt(O[k]) = Properties(Entries[k]) /\ O[k + 1] \in Nat /\ O[k + 1] = O[k] + Bytes(k)
  BY <1>2, <1>4, Offset
<1>7. Heard(x) = Properties(Entries[k])
  <2>1. CASE x = Root
    BY <1>5, <1>6, <2>1 DEF Heard
  <2>2. CASE x # Root
    <3>1. heard[x] < Len(heads)
      BY <2>2 DEF Hear
    <3>2. k \in 1..Len(heads)
      <4>1. Len(heads) \in Nat
        BY <1>1 DEF Broadcast
      <4> QED
        BY <1>3, <3>1, <4>1
    <3> QED
      BY <1>1, <2>2, <3>2 DEF Heard, Broadcast
  <2> QED
    BY <2>1, <2>2
<1>8. After(x) = O[k + 1]
  BY <1>5, <1>6, <1>7 DEF After, Bytes
<1>9. heard'[x] = k /\ \A y \in Ranks: y # x => heard'[y] = heard[y]
  BY <1>1 DEF Hear, Broadcast
<1>10. Root \in Ranks
  BY RootWrites DEF Ranks
<1>11. heard' \in [Ranks -> Int]
  <2>1. heard' = [heard EXCEPT ![x] = k]
    BY DEF Hear
  <2> QED
    BY <1>1, <1>4, <2>1 DEF Broadcast
<1>12. CASE x = Root
  <2>1. heads' = Append(heads, Properties(Entries[k])) /\ k = Len(heads) + 1
    BY <1>1, <1>7, <1>12 DEF Hear, Broadcast
  <2> DEFINE p == Properties(Entries[k])
  <2>2. p \in Headers
    BY <1>4 DEF Headers
  <2> HIDE DEF p
  <2>3. heads \in Seq(Headers) /\ Len(heads) \in Nat
    BY <1>1 DEF Broadcast
  <2>4. /\ heads' \in Seq(Headers) /\ Len(heads') = k /\ heads'[k] = p
        /\ \A j \in 1..Len(heads): heads'[j] = heads[j]
    BY <2>1, <2>2, <2>3 DEF p
  <2>5. ASSUME NEW j \in 1..k
        PROVE  j <= Len(Entries) /\ heads'[j] = Properties(Entries[j])
    <3>1. CASE j = k
      BY <1>4, <2>4, <3>1 DEF p
    <3>2. CASE j # k
      <4>1. j \in 1..Len(heads)
        BY <1>4, <2>1, <2>3, <3>2
      <4> QED
        BY <1>1, <2>4, <4>1 DEF Broadcast
    <3> QED
      BY <3>1, <3>2
  <2>6. \A y \in Ranks: 0 <= heard'[y] /\ heard'[y] <= k
    <3> TAKE y \in Ranks
    <3>1. CASE y = x
      BY <1>4, <1>9, <3>1
    <3>2. CASE y # x
      <4>1. heard'[y] = heard[y] /\ heard[y] \in Int /\ 0 <= heard[y] /\ heard[y] <= Len(heads)
        BY <1>1, <1>9, <3>2 DEF Broadcast
      <4> QED
        BY <2>1, <2>3, <4>1
    <3> QED
      BY <3>1, <3>2
  <2>7. Broadcast'
    BY <1>9, <1>11, <1>12, <2>4, <2>5, <2>6 DEF Broadcast
  <2> QED
    BY <1>2, <1>4, <1>5, <1>6, <1>7, <1>8, <1>9, <2>7
<1>13. CASE x # Root
  <2>1. heads' = heads /\ heard[x] < Len(heads)
    BY <1>13 DEF Hear
  <2>2. Len(heads) \in Nat
    BY <1>1 DEF Broadcast
  <2>3. \A y \in Ranks: 0 <= heard'[y] /\ heard'[y] <= Len(heads)
    <3> TAKE y \in Ranks
    <3>1. CASE y = x
      BY <1>3, <1>9, <2>1, <2>2, <3>1
    <3>2. CASE y # x
      BY <1>1, <1>9, <3>2 DEF Broadcast
    <3> QED
      BY <3>1, <3>2
  <2>4. Broadcast'
    BY <1>1, <1>9, <1>10, <1>11, <1>13, <2>1, <2>3 DEF Broadcast
  <2> QED
    BY <1>2, <1>4, <1>5, <1>6, <1>7, <1>8, <1>9, <2>4
<1> QED
  BY <1>12, <1>13

\* A process that does not move keeps what it knows.
LEMMA OthersKeep ==
  ASSUME NEW O, NEW y \in Ranks, Position(O, y), Restored(y), Imaged(y),
         UNCHANGED <<mode, loaded>>, pc'[y] = pc[y], roff'[y] = roff[y], heard'[y] = heard[y],
         memory'[y] = memory[y]
  PROVE  Position(O, y)' /\ Restored(y)' /\ Imaged(y)'
<1>1. \A name: Past(name, y)' <=> Past(name, y)
  BY DEF Past
<1>2. \A name: Unfit(name)' <=> Unfit(name)
  BY DEF Unfit
<1>3. \A name: Restores(y, name)' = Restores(y, name)
  BY DEF Restores
<1>4. \A name: ImageOf(y, name)' = ImageOf(y, name)
  BY DEF ImageOf
<1>5. Position(O, y)'
  BY <1>1, <1>2 DEF Position
<1>6. {name \in DOMAIN loaded' \cap DOMAIN Saved: Past(name, y)'}
        = {name \in DOMAIN loaded \cap DOMAIN Saved: Past(name, y)}
  BY <1>1
<1>7. Restored(y)'
  BY <1>3, <1>6 DEF Restored
<1>8. Imaged(y)'
  BY <1>1, <1>4 DEF Imaged
<1> QED
  BY <1>5, <1>7, <1>8

\* A field of the dump, and where a process that reads it is.
LEMMA SavedEntry ==
  ASSUME NEW k \in 4..(Len(Entries) - 1), NEW name, name = Entries[k]
  PROVE  /\ name \in DOMAIN Saved /\ name # "eof" /\ IsEntry(name) /\ Saved[name] \in Field
         /\ Properties(name).name = name /\ Arrays(name) = 1
         /\ Saved[name].at = "scalar" => Properties(name).dims[1] = Saved[name].size
         /\ IsArray(name) <=> Saved[name].at # "scalar"
<1>1. name \in DOMAIN Saved
  BY EntriesAre
<1>2. name \notin {"x1", "x2", "x3", "eof"} /\ Saved[name] \in Field
  BY <1>1, DumpFileAssumption DEF Reserved
<1>3. IsEntry(name)
  BY <1>1 DEF IsEntry
<1>4. Properties(name).name = name
  BY <1>3, PropertiesAre
<1>5. Arrays(name) = 1
  BY <1>2 DEF Arrays, Coordinate
<1>6. Saved[name].at = "scalar" => Properties(name).dims = <<Saved[name].size>>
  BY <1>2 DEF Properties, Coordinate
<1> QED
  BY <1>1, <1>2, <1>3, <1>4, <1>5, <1>6 DEF IsArray

\* The run that reads has a field at the same place as the one that wrote.
LEMMA SamePlace ==
  ASSUME NEW map \in Loads, NEW name \in DOMAIN map, name \in DOMAIN Saved
  PROVE  map[name].at = Saved[name].at /\ Alike(map[name], Saved[name])
<1>1. map[name].at = Saved[name].at /\ map[name].dir = Saved[name].dir
  BY DumpFileAssumption
<1> QED
  BY <1>1 DEF Alike, Extra

LEMMA PastNext ==
  ASSUME NEW x, heard[x] \in Int, NEW k, k = heard[x] + 1, heard'[x] = k, NEW name
  PROVE  Past(name, x)' <=> Past(name, x) \/ (k \in 4..(Len(Entries) - 1) /\ Entries[k] = name)
<1>1. Len(Entries) \in Int
  BY EntriesAre
<1>2. Past(name, x)' <=> \E j \in 4..(Len(Entries) - 1): j <= k /\ Entries[j] = name
  BY DEF Past
<1>3. Past(name, x) <=> \E j \in 4..(Len(Entries) - 1): j <= heard[x] /\ Entries[j] = name
  BY DEF Past
<1>4. \A j \in 4..(Len(Entries) - 1): j <= k <=> j <= heard[x] \/ j = k
  BY <1>1
<1> QED
  BY <1>2, <1>3, <1>4

\* It is enough to look at the process that moves.
LEMMA ReadKeeps ==
  ASSUME NEW O, FileInv(O), Heeded(O), NEW x \in Ranks, Hear(x),
         pc[x] \in {"x1", "x2", "x3", "fields"},
         \A y \in Ranks: y # x => pc'[y] = pc[y] /\ roff'[y] = roff[y] /\ memory'[y] = memory[y],
         Shapes', Position(O, x)', Restored(x)', Imaged(x)'
  PROVE  Heeded(O)'
<1> DEFINE k == heard[x] + 1
<1>1. /\ Broadcast' /\ \A y \in Ranks: y # x => heard'[y] = heard[y]
      /\ mode # "none" /\ mode \in Modes /\ loaded \in Loads /\ Closed
  BY HeardIs
<1>2. UNCHANGED <<writing, mode, loaded>>
  BY DEF Hear
<1>3. Closed'
  BY <1>1, <1>2 DEF Closed, writing
<1>4. Started'
  BY <1>1, <1>2, <1>3 DEF Started
<1>5. \A y \in Ranks: y # x => Position(O, y)' /\ Restored(y)' /\ Imaged(y)'
  <2> TAKE y \in Ranks
  <2> HAVE y # x
  <2>1. Position(O, y) /\ Restored(y) /\ Imaged(y)
    BY DEF Heeded
  <2> QED
    BY <1>1, <1>2, <2>1, OthersKeep
<1> QED
  BY <1>1, <1>4, <1>5 DEF Heeded

LEMMA CoordinatesStep ==
  ASSUME NEW O, FileInv(O), Heeded(O), NEW x \in Ranks, ReadCoordinates(x)
  PROVE  Heeded(O)'
<1> DEFINE k == heard[x] + 1
<1>1. pc[x] \in {"x1", "x2", "x3"} /\ Hear(x)
  BY DEF ReadCoordinates, Coordinate
<1>2. /\ k \in 1..Len(Entries) /\ Heard(x) = Properties(Entries[k])
      /\ After(x) = O[k + 1] /\ After(x) \in Nat /\ heard'[x] = k
  BY <1>1, HeardIs
<1>3. Position(O, x) /\ Restored(x) /\ Imaged(x) /\ Shapes /\ heard[x] \in Int
  BY DEF Heeded, Broadcast
<1>4. k \in 1..3 /\ Entries[k] = pc[x] /\ pc[x] \in DOMAIN Coordinate
      /\ NextPart[pc[x]] = IF k = 1 THEN "x2" ELSE IF k = 2 THEN "x3" ELSE "fields"
  BY <1>1, <1>3, EntriesAre DEF Position, Coordinate, NextPart
<1>5. Heard(x).dims = <<Np[Coordinate[pc[x]]]>>
  BY <1>2, <1>4 DEF Properties
<1>6. Len(Heard(x).dims) = 1 /\ Heard(x).dims[1] = Np[Coordinate[pc[x]]]
  BY <1>5
<1>7. pc' = [pc EXCEPT ![x] = NextPart[@]]
  BY <1>6 DEF ReadCoordinates
<1>8. roff' = [roff EXCEPT ![x] = After(x)] /\ memory' = memory /\ UNCHANGED <<mode, loaded>>
  BY DEF ReadCoordinates, Hear
<1>9. Shapes'
  <2>1. NextPart[pc[x]] \in DOMAIN Coordinate \cup {"fields", "end", "refused"}
    BY <1>4 DEF Coordinate
  <2>2. pc' = [pc EXCEPT ![x] = NextPart[pc[x]]]
    BY <1>7
  <2> QED
    BY <1>2, <1>3, <1>8, <2>1, <2>2 DEF Shapes
<1>10. pc'[x] = NextPart[pc[x]] /\ roff'[x] = O[k + 1]
  BY <1>2, <1>3, <1>7, <1>8 DEF Shapes
<1>11. \A y \in Ranks: y # x => pc'[y] = pc[y] /\ roff'[y] = roff[y] /\ memory'[y] = memory[y]
  BY <1>3, <1>7, <1>8 DEF Shapes
<1>12. \A name: ~Past(name, x) /\ ~Past(name, x)'
  <2>1. heard[x] < 4 /\ heard'[x] < 4 /\ heard'[x] \in Int
    BY <1>2, <1>3, <1>4
  <2>2. \A j \in 4..(Len(Entries) - 1): ~(j <= heard[x]) /\ ~(j <= heard'[x])
    BY <1>3, <2>1, EntriesAre
  <2> QED
    BY <2>2 DEF Past
<1> HIDE DEF k
<1>13. Position(O, x)'
  BY <1>2, <1>4, <1>10, <1>12, EntriesAre DEF Position
<1>14. Restored(x)'
  <2>1. mode = "restart" => DOMAIN memory[x] = {}
    BY <1>1, <1>3, <1>12 DEF Restored
  <2> QED
    BY <1>8, <1>12, <2>1 DEF Restored
<1>15. Imaged(x)'
  BY <1>12 DEF Imaged
<1> QED
  BY <1>1, <1>9, <1>11, <1>13, <1>14, <1>15, ReadKeeps

\* Process x is where the original values of an array are in the file.
Finds(x, name) ==
  \A g \in Shape(Whole(Saved[name])):
    At(Values(x) + 8 * Rank(g, Whole(Saved[name]))) = Original(name, g)

\* The values of a field, for the process that has heard its properties.
LEMMA ValuesAre ==
  ASSUME NEW O, FileInv(O), Closed, NEW x \in Ranks, NEW k \in 4..(Len(Entries) - 1), NEW name,
         name = Entries[k], Heard(x) = Properties(name), roff[x] = O[k]
  PROVE  /\ ~IsArray(name) => At(Values(x)) = Constant(name)
         /\ IsArray(name) =>
              /\ Finds(x, name)
              /\ \A f: Alike(f, Saved[name]) =>
                   Distributed(x, DescriptorR(f, OwnBox(x)), ReadShape(f)) = Part(x, ReadShape(f), name)
<1>1. k \in 1..Len(Entries)
  BY EntriesAre
<1>2. Arrays(name) = 1
  BY SavedEntry
<1>3. Values(x) = Data(name, O[k])
  <2> DEFINE s == PropertiesSize(Len(Properties(name).dims))
  <2>1. Values(x) = O[k] + s
    BY DEF Values
  <2>2. Data(name, O[k]) = O[k] + 1 * s
    BY <1>2 DEF Data
  <2>3. IsArray(name) => Len(Properties(name).dims) = 3
    BY <1>1, IsEntries, PropertiesAre
  <2>4. ~IsArray(name) => Len(Properties(name).dims) = 1
    BY <1>1, IsEntries, PropertiesAre
  <2>5. s \in Int
    BY <2>3, <2>4 DEF PropertiesSize
  <2> HIDE DEF s
  <2> QED
    BY <2>1, <2>2, <2>5
<1>4. ~IsArray(name) => At(Values(x)) = Constant(name)
  BY <1>1, <1>3, FileIs DEF FileInv
<1>5. IsArray(name) => Finds(x, name)
  BY <1>1, <1>3, FileIs DEF FileInv, Finds
<1>6. ASSUME IsArray(name), NEW f, Alike(f, Saved[name])
      PROVE  Distributed(x, DescriptorR(f, OwnBox(x)), ReadShape(f)) = Part(x, ReadShape(f), name)
  BY <1>5, <1>6, DistributedIs DEF Ranks, Finds
<1> QED
  BY <1>4, <1>5, <1>6

LEMMA FieldStep ==
  ASSUME NEW O, FileInv(O), Heeded(O), NEW x \in Ranks, ReadField(x)
  PROVE  Heeded(O)'
<1> DEFINE k == heard[x] + 1
           name == Entries[k]
           p == Heard(x)
           f == loaded[name]
           v == IF f.at = "scalar" THEN At(Values(x))
                ELSE Distributed(x, DescriptorR(f, OwnBox(x)), ReadShape(f))
           known == name \in DOMAIN loaded
           bad == known /\ f.at = "scalar" /\ p.dims[1] # f.size
<1>1. pc[x] = "fields" /\ mode = "restart" /\ Hear(x)
  BY DEF ReadField
<1>2. /\ k \in 1..Len(Entries) /\ p = Properties(name) /\ roff[x] = O[k] /\ Closed
      /\ After(x) = O[k + 1] /\ After(x) \in Nat /\ heard'[x] = k /\ loaded \in Loads
  BY <1>1, HeardIs
<1>3. Position(O, x) /\ Restored(x) /\ Imaged(x) /\ Shapes /\ heard[x] \in Int
  BY DEF Heeded, Broadcast
<1>4. k >= 4 /\ k \in Int /\ Len(Entries) \in Int
  BY <1>1, <1>2, <1>3, EntriesAre DEF Position
<1>5. UNCHANGED <<mode, loaded, file>>
  BY <1>1 DEF Hear, writing
<1>p. \A n: Past(n, x)' <=> Past(n, x) \/ (k \in 4..(Len(Entries) - 1) /\ name = n)
  BY <1>2, <1>3, PastNext
<1>u. \A n: Unfit(n)' <=> Unfit(n)
  BY <1>5 DEF Unfit
<1>r. \A n: Restores(x, n)' = Restores(x, n)
  BY <1>5 DEF Restores
<1>i. Imaged(x)'
  BY <1>1, <1>5, DumpFileAssumption DEF Imaged
<1>n. p.name = name /\ p # Garbage
  BY <1>2, IsEntries, PropertiesAre
<1> HIDE DEF k, p
<1>6. CASE name = "eof"
  <2>1. k = Len(Entries)
    BY <1>2, <1>6, EntriesAre
  <2>2. pc' = [pc EXCEPT ![x] = "end"] /\ UNCHANGED <<roff, memory>>
    BY <1>6, <1>n DEF ReadField, p
  <2>3. \A n: Past(n, x)' <=> Past(n, x)
    BY <1>4, <1>p, <2>1
  <2>4. Shapes' /\ pc'[x] = "end" /\ \A y \in Ranks: y # x => pc'[y] = pc[y]
    BY <1>3, <2>2 DEF Shapes
  <2>5. Position(O, x)'
    BY <1>1, <1>2, <1>3, <1>5, <1>u, <2>1, <2>3, <2>4 DEF Position
  <2>6. {n \in DOMAIN loaded \cap DOMAIN Saved: Past(n, x)'} = {n \in DOMAIN loaded \cap DOMAIN Saved: Past(n, x)}
    BY <2>3
  <2>7. Restored(x)'
    BY <1>1, <1>3, <1>5, <1>r, <2>2, <2>6 DEF Restored
  <2> QED
    BY <1>1, <1>i, <2>2, <2>4, <2>5, <2>7, ReadKeeps
<1>7. CASE name # "eof"
  <2>1. k \in 4..(Len(Entries) - 1)
    BY <1>2, <1>4, <1>7, EntriesAre
  <2>2. /\ name \in DOMAIN Saved /\ Saved[name] \in Field
        /\ Saved[name].at = "scalar" => p.dims[1] = Saved[name].size
        /\ IsArray(name) <=> Saved[name].at # "scalar"
    BY <1>2, <2>1, SavedEntry
  <2>3. known => f.at = Saved[name].at /\ Alike(f, Saved[name])
    BY <1>2, <2>2, SamePlace
  <2>4. known => v = Restores(x, name)
    <3>1. ~IsArray(name) => At(Values(x)) = Constant(name)
      BY <1>2, <2>1, ValuesAre DEF FileInv, p, Ranks
    <3>2. IsArray(name) /\ known =>
            Distributed(x, DescriptorR(f, OwnBox(x)), ReadShape(f)) = Part(x, ReadShape(f), name)
      BY <1>2, <2>1, <2>3, ValuesAre DEF FileInv, p, Ranks
    <3> HIDE DEF f
    <3>3. Restores(x, name) = IF f.at = "scalar" THEN Constant(name) ELSE Part(x, ReadShape(f), name)
      BY DEF Restores, f
    <3> QED
      BY <2>2, <2>3, <3>1, <3>2, <3>3
  <2>5. bad <=> Unfit(name)
    BY <2>2, <2>3 DEF Unfit
  <2>6. CASE bad
    <3>1. pc' = [pc EXCEPT ![x] = "refused"] /\ UNCHANGED <<roff, memory>>
      BY <1>7, <1>n, <2>6 DEF ReadField, p
    <3>2. Shapes' /\ pc'[x] = "refused" /\ \A y \in Ranks: y # x => pc'[y] = pc[y]
      BY <1>3, <3>1 DEF Shapes
    <3>3. Position(O, x)'
      BY <1>1, <1>5, <1>u, <2>2, <2>5, <2>6, <3>2 DEF Position
    <3>4. Restored(x)'
      BY <3>2 DEF Restored
    <3> QED
      BY <1>1, <1>i, <3>1, <3>2, <3>3, <3>4, ReadKeeps
  <2>7. CASE ~bad
    <3>1. pc' = pc /\ roff' = [roff EXCEPT ![x] = After(x)]
      BY <1>7, <1>n, <2>7 DEF ReadField, AfterField, p
    <3>2. ~known => memory' = memory
      BY <1>7, <1>n, <2>7 DEF ReadField, p
    <3>3. known => memory' = [memory EXCEPT ![x] = Over(Single(name, v), @)]
      <4>1. known /\ f.at = "scalar" => memory' = [memory EXCEPT ![x] = Over(Single(name, At(Values(x))), @)]
        BY <1>7, <1>n, <2>7 DEF ReadField, p
      <4>2. known /\ f.at # "scalar" =>
              memory' = [memory EXCEPT ![x] =
                Over(Single(name, Distributed(x, DescriptorR(f, OwnBox(x)), ReadShape(f))), @)]
        BY <1>7, <1>n, <2>7 DEF ReadField, p
      <4> HIDE DEF name, f
      <4> QED
        BY <4>1, <4>2
    <3> DEFINE m == Over(Single(name, v), memory[x])
    <3>4. known => memory'[x] = m
      <4> HIDE DEF v, name
      <4> QED
        BY <1>3, <3>3 DEF Shapes
    <3>5. DOMAIN memory' = Ranks /\ \A y \in Ranks: y # x => memory'[y] = memory[y]
      <4> HIDE DEF v, name
      <4> QED
        BY <1>3, <3>2, <3>3 DEF Shapes
    <3>6. Shapes'
      BY <1>2, <1>3, <3>1, <3>5 DEF Shapes
    <3>7. pc'[x] = "fields" /\ roff'[x] = O[k + 1]
          /\ \A y \in Ranks: y # x => pc'[y] = pc[y] /\ roff'[y] = roff[y]
      BY <1>1, <1>2, <1>3, <3>1 DEF Shapes
    <3>8. Position(O, x)'
      <4>1. \A n \in DOMAIN Saved: Past(n, x)' => ~Unfit(n)'
        BY <1>1, <1>3, <1>p, <1>u, <2>5, <2>7 DEF Position
      <4> QED
        BY <1>2, <1>4, <2>1, <3>7, <4>1 DEF Position
    <3>9. Restored(x)'
      <4>1. DOMAIN memory[x] = {n \in DOMAIN loaded \cap DOMAIN Saved: Past(n, x)}
            /\ \A n \in DOMAIN memory[x]: memory[x][n] = Restores(x, n)
        BY <1>1, <1>3 DEF Restored
      <4>2. CASE ~known
        <5>1. \A n \in DOMAIN loaded: Past(n, x)' <=> Past(n, x)
          BY <1>p, <4>2
        <5>2. {n \in DOMAIN loaded \cap DOMAIN Saved: Past(n, x)'} = {n \in DOMAIN loaded \cap DOMAIN Saved: Past(n, x)}
          BY <5>1
        <5> QED
          BY <1>5, <1>r, <3>2, <4>1, <4>2, <5>2 DEF Restored
      <4>3. CASE known
        <5>1. DOMAIN m = {name} \cup DOMAIN memory[x] /\ m[name] = v /\ \A n \in DOMAIN memory[x]: n # name => m[n] = memory[x][n]
          <6> HIDE DEF v, name
          <6> QED
            BY DEF Over, Single
        <5> HIDE DEF m, v
        <5>2. \A n \in DOMAIN m: m[n] = Restores(x, n)
          BY <2>4, <4>1, <4>3, <5>1
        <5>3. DOMAIN m = {n \in DOMAIN loaded \cap DOMAIN Saved: Past(n, x)'}
          <6>1. \A n: n \in DOMAIN m <=> n \in DOMAIN loaded /\ n \in DOMAIN Saved /\ Past(n, x)'
            BY <1>p, <2>1, <2>2, <4>1, <4>3, <5>1
          <6> QED
            BY <6>1
        <5>4. memory'[x] = m
          BY <3>4, <4>3
        <5> QED
          BY <1>5, <1>r, <5>2, <5>3, <5>4 DEF Restored
      <4> QED
        BY <4>2, <4>3
    <3> QED
      BY <1>1, <1>i, <3>5, <3>6, <3>7, <3>8, <3>9, ReadKeeps
  <2> QED
    BY <2>6, <2>7
<1> QED
  BY <1>6, <1>7

LEMMA ImageStep ==
  ASSUME NEW O, FileInv(O), Heeded(O), NEW x \in Ranks, ReadImage(x)
  PROVE  Heeded(O)'
<1> DEFINE k == heard[x] + 1
           name == Entries[k]
           p == Heard(x)
           f == Saved[name]
           box == GetBox(x)
           whole == [c \in Shape(p.dims) |-> At(Values(x) + 8 * Rank(c, p.dims))]
           nx == [d \in Dirs |-> box.size[d] + (IF p.dims[d] = Np[d] + 1 THEN 1 ELSE 0)]
           told == mode = "image" \/ AllGuessable
<1>1. pc[x] = "fields" /\ mode # "restart" /\ Hear(x)
  BY DEF ReadImage
<1>2. /\ k \in 1..Len(Entries) /\ p = Properties(name) /\ roff[x] = O[k] /\ Closed
      /\ After(x) = O[k + 1] /\ After(x) \in Nat /\ heard'[x] = k /\ mode \in Modes
  BY <1>1, HeardIs
<1>3. Position(O, x) /\ Restored(x) /\ Imaged(x) /\ Shapes /\ heard[x] \in Int
  BY DEF Heeded, Broadcast
<1>4. k >= 4 /\ k \in Int /\ Len(Entries) \in Int
  BY <1>1, <1>2, <1>3, EntriesAre DEF Position
<1>5. UNCHANGED <<mode, loaded, file>>
  BY <1>1 DEF Hear, writing
<1>m. mode = "image" \/ mode = "distributed image"
  BY <1>1, <1>2, DumpFileAssumption
<1>p. \A n: Past(n, x)' <=> Past(n, x) \/ (k \in 4..(Len(Entries) - 1) /\ name = n)
  BY <1>2, <1>3, PastNext
<1>i. \A n: ImageOf(x, n)' = ImageOf(x, n)
  BY <1>5 DEF ImageOf
<1>r. Restored(x)'
  BY <1>1, <1>5 DEF Restored
<1>n. p.name = name /\ p # Garbage
  BY <1>2, IsEntries, PropertiesAre
<1>o. Imaged(x) <=> (told => \A n \in DOMAIN Saved: IsArray(n) /\ Past(n, x) =>
                              n \in DOMAIN memory[x] /\ memory[x][n] = ImageOf(x, n))
  BY <1>m DEF Imaged
<1>q. Imaged(x)' <=> (told => \A n \in DOMAIN Saved: IsArray(n) /\ Past(n, x)' =>
                              n \in DOMAIN memory'[x] /\ memory'[x][n] = ImageOf(x, n))
  BY <1>m, <1>5, <1>i DEF Imaged
<1> HIDE DEF k, p
<1>6. CASE name = "eof"
  <2>1. k = Len(Entries)
    BY <1>2, <1>6, EntriesAre
  <2>2. pc' = [pc EXCEPT ![x] = "end"] /\ UNCHANGED <<roff, memory>>
    BY <1>6, <1>n DEF ReadImage, p
  <2>3. \A n: Past(n, x)' <=> Past(n, x)
    BY <1>4, <1>p, <2>1
  <2>4. Shapes' /\ pc'[x] = "end" /\ \A y \in Ranks: y # x => pc'[y] = pc[y]
    BY <1>3, <2>2 DEF Shapes
  <2>5. Position(O, x)'
    BY <1>1, <1>2, <1>5, <2>1, <2>4 DEF Position
  <2>6. Imaged(x)'
    BY <1>3, <1>o, <1>q, <2>2, <2>3
  <2> QED
    BY <1>1, <1>r, <2>2, <2>4, <2>5, <2>6, ReadKeeps
<1>7. CASE name # "eof"
  <2>1. k \in 4..(Len(Entries) - 1)
    BY <1>2, <1>4, <1>7, EntriesAre
  <2>2. name \in DOMAIN Saved /\ f \in Field /\ (IsArray(name) <=> f.at # "scalar")
    BY <2>1, SavedEntry
  <2>3. /\ IsArray(name) => Len(p.dims) = 3 /\ p.dims = Whole(f)
        /\ ~IsArray(name) => Len(p.dims) = 1
    BY <1>2, IsEntries, PropertiesAre
  <2>4. name = "time" => ~IsArray(name)
    BY <2>2, DumpFileAssumption
  <2>5. IsArray(name) /\ mode = "image" => whole = ImageOf(x, name)
    <3> SUFFICES ASSUME IsArray(name), mode = "image"
                 PROVE  whole = ImageOf(x, name)
      OBVIOUS
    <3>1. \A g \in Shape(Whole(f)): At(Values(x) + 8 * Rank(g, Whole(f))) = Original(name, g)
      <4>1. Finds(x, name)
        BY <1>2, <2>1, ValuesAre DEF FileInv, p, Ranks
      <4> QED
        BY <4>1 DEF Finds
    <3>2. ImageOf(x, name) = [c \in Shape(Whole(f)) |-> Original(name, c)]
      BY DEF ImageOf
    <3> HIDE DEF f, name
    <3> QED
      BY <2>3, <3>1, <3>2
  <2>6. ASSUME IsArray(name), mode = "distributed image", AllGuessable,
               NEW desc \in Guessed(x, p.dims)
        PROVE  Distributed(x, desc, nx) = ImageOf(x, name)
    <3>1. desc = DescriptorR(f, OwnBox(x))
      BY <2>2, <2>3, <2>6, GuessIs, GetBoxIs DEF AllGuessable, Ranks
    <3>2. nx = ReadShape(f)
      <4>1. box.size = [d \in Dirs |-> Local(Np, Readers, d)]
        BY GetBoxIs DEF OwnBox, Ranks
      <4>2. \A d \in Dirs: (IF p.dims[d] = Np[d] + 1 THEN 1 ELSE 0) = Extra(f, d)
        <5>1. \A d \in Dirs: Np[d] \in Int /\ Extra(f, d) \in {0, 1} /\ Whole(f)[d] = Np[d] + Extra(f, d)
          BY Input, WholeIs DEF Sizes3
        <5> DEFINE n == Whole(f)
        <5>2. p.dims = n
          BY <2>3, <2>6
        <5> HIDE DEF f, name, n
        <5> QED
          BY <5>1, <5>2 DEF n
      <4> HIDE DEF f, name, box
      <4> QED
        BY <4>1, <4>2 DEF ReadShape
    <3>3. Distributed(x, DescriptorR(f, OwnBox(x)), ReadShape(f)) = Part(x, ReadShape(f), name)
      <4>1. Alike(f, Saved[name])
        BY DEF Alike
      <4> QED
        BY <1>2, <2>1, <2>6, <4>1, ValuesAre DEF FileInv, p, Ranks
    <3>4. ImageOf(x, name) = Part(x, ReadShape(f), name)
      BY <2>6 DEF ImageOf
    <3> HIDE DEF f, name, nx
    <3> QED
      BY <3>1, <3>2, <3>3, <3>4
  <2>7. pc' = pc /\ roff' = [roff EXCEPT ![x] = After(x)]
    BY <1>7, <1>n DEF ReadImage, p
  <2>8. \/ memory' = memory /\ ~IsArray(name)
        \/ \E v: /\ memory' = [memory EXCEPT ![x] = Over(Single(name, v), @)]
                 /\ IsArray(name) /\ told => v = ImageOf(x, name)
    <3>1. CASE name = "time"
      <4>1. memory' = [memory EXCEPT ![x] = Over(Single(name, At(Values(x))), @)]
        BY <1>7, <1>n, <3>1 DEF ReadImage, p
      <4> QED
        BY <2>4, <3>1, <4>1
    <3>2. CASE name # "time" /\ ~IsArray(name)
      <4>1. memory' = memory
        BY <1>7, <1>n, <2>3, <3>2 DEF ReadImage, p
      <4> QED
        BY <3>2, <4>1
    <3>3. CASE IsArray(name) /\ mode = "image"
      <4>1. memory' = [memory EXCEPT ![x] = Over(Single(name, whole), @)]
        BY <1>7, <1>n, <2>3, <2>4, <3>3 DEF ReadImage, p
      <4> HIDE DEF whole, name
      <4> QED
        BY <2>5, <3>3, <4>1
    <3>4. CASE IsArray(name) /\ mode = "distributed image"
      <4>1. \E desc \in Guessed(x, p.dims):
              memory' = [memory EXCEPT ![x] = Over(Single(name, Distributed(x, desc, nx)), @)]
        BY <1>7, <1>n, <2>3, <2>4, <3>4 DEF ReadImage, p
      <4>2. PICK desc \in Guessed(x, p.dims):
              memory' = [memory EXCEPT ![x] = Over(Single(name, Distributed(x, desc, nx)), @)]
        BY <4>1
      <4>3. told => AllGuessable
        BY <3>4
      <4>4. told => Distributed(x, desc, nx) = ImageOf(x, name)
        BY <2>6, <3>4, <4>3
      <4> HIDE DEF nx, name, told
      <4> QED
        BY <4>2, <4>4
    <3> QED
      BY <1>m, <3>1, <3>2, <3>3, <3>4
  <2> HIDE DEF told
  <2> DEFINE kept ==
        /\ DOMAIN memory' = Ranks /\ \A y \in Ranks: y # x => memory'[y] = memory[y]
        /\ \A n \in DOMAIN memory[x]: n # name => n \in DOMAIN memory'[x] /\ memory'[x][n] = memory[x][n]
        /\ IsArray(name) /\ told => name \in DOMAIN memory'[x] /\ memory'[x][name] = ImageOf(x, name)
  <2>9. kept
    <3> HIDE DEF name
    <3>1. CASE memory' = memory /\ ~IsArray(name)
      BY <1>3, <3>1 DEF Shapes
    <3>2. ASSUME NEW v, memory' = [memory EXCEPT ![x] = Over(Single(name, v), @)],
                 IsArray(name) /\ told => v = ImageOf(x, name)
          PROVE  kept
      <4>1. DOMAIN memory' = Ranks /\ \A y \in Ranks: y # x => memory'[y] = memory[y]
        BY <1>3, <3>2 DEF Shapes
      <4>2. memory'[x] = Over(Single(name, v), memory[x])
        BY <1>3, <3>2 DEF Shapes
      <4>3. /\ \A n \in DOMAIN memory[x]: n # name => n \in DOMAIN memory'[x] /\ memory'[x][n] = memory[x][n]
            /\ name \in DOMAIN memory'[x] /\ memory'[x][name] = v
        BY <4>2 DEF Over, Single
      <4> QED
        BY <3>2, <4>1, <4>3
    <3> QED
      BY <2>8, <3>1, <3>2
  <2>10. Shapes'
    BY <1>2, <1>3, <2>7, <2>9 DEF Shapes
  <2>11. pc'[x] = "fields" /\ roff'[x] = O[k + 1]
         /\ \A y \in Ranks: y # x => pc'[y] = pc[y] /\ roff'[y] = roff[y]
    BY <1>1, <1>2, <1>3, <2>7 DEF Shapes
  <2>12. Position(O, x)'
    BY <1>1, <1>2, <1>4, <1>5, <2>1, <2>11 DEF Position
  <2>13. Imaged(x)'
    <3> SUFFICES ASSUME told, NEW n \in DOMAIN Saved, IsArray(n), Past(n, x)'
                 PROVE  n \in DOMAIN memory'[x] /\ memory'[x][n] = ImageOf(x, n)
      BY <1>q
    <3>1. CASE n = name
      BY <2>9, <3>1
    <3>2. CASE n # name
      <4>1. Past(n, x)
        BY <1>p, <3>2
      <4>2. n \in DOMAIN memory[x] /\ memory[x][n] = ImageOf(x, n)
        BY <1>3, <1>o, <4>1
      <4> QED
        BY <2>9, <3>2, <4>2
    <3> QED
      BY <3>1, <3>2
  <2> QED
    BY <1>1, <1>r, <2>9, <2>10, <2>11, <2>12, <2>13, ReadKeeps
<1> QED
  BY <1>6, <1>7

LEMMA OpenStep ==
  ASSUME NEW O, FileInv(O), Heeded(O), Open
  PROVE  Heeded(O)'
<1>1. /\ Closed /\ mode = "none" /\ mode' \in Modes /\ loaded' \in Loads
      /\ UNCHANGED <<file, wrote, woff, pc, roff, heads, heard, memory>>
  BY DEF Open, writing, reading
<1>2. /\ heads = <<>> /\ Shapes /\ Broadcast
      /\ \A x \in Ranks: Position(O, x) /\ pc[x] = "x1" /\ heard[x] = 0 /\ memory[x] = <<>>
  BY <1>1 DEF Heeded, Started
<1>3. mode' # "none"
  BY <1>1, DumpFileAssumption
<1>4. Closed' /\ Shapes' /\ Broadcast'
  BY <1>1, <1>2 DEF Closed, Shapes, Broadcast
<1>5. Started'
  BY <1>1, <1>3, <1>4 DEF Started
<1>6. ASSUME NEW x \in Ranks
      PROVE  Position(O, x)' /\ Restored(x)' /\ Imaged(x)'
  <2>1. \A name: ~Past(name, x)'
    <3>1. heard'[x] = 0
      BY <1>1, <1>2
    <3>2. \A j \in 4..(Len(Entries) - 1): ~(j <= 0)
      BY EntriesAre
    <3> QED
      BY <3>1, <3>2 DEF Past
  <2>2. Position(O, x)'
    BY <1>1, <1>2, <2>1 DEF Position
  <2>3. Restored(x)'
    <3>1. DOMAIN memory'[x] = {}
      BY <1>1, <1>2
    <3> QED
      BY <2>1, <3>1 DEF Restored
  <2>4. Imaged(x)'
    BY <2>1 DEF Imaged
  <2> QED
    BY <2>2, <2>3, <2>4
<1> QED
  BY <1>4, <1>5, <1>6 DEF Heeded

\* The second run has not started while a process of the first still writes.
LEMMA HeededWhileWriting ==
  ASSUME NEW O, FileInv(O), Heeded(O), NEW x \in Procs, Write(x), NEW P, Offsets(P)
  PROVE  Heeded(P)'
<1>1. mode = "none"
  <2>1. ~Closed
    BY EntriesAre DEF Write, Closed, Procs
  <2> QED
    BY <2>1 DEF Heeded, Started
<1>2. UNCHANGED <<mode, loaded, pc, roff, heads, heard, memory>>
  BY DEF Write, reading
<1>3. Started' /\ Shapes' /\ Broadcast'
  BY <1>1, <1>2 DEF Heeded, Started, Shapes, Broadcast
<1>4. ASSUME NEW y \in Ranks
      PROVE  Position(P, y)' /\ Restored(y)' /\ Imaged(y)'
  <2>1. pc[y] = "x1" /\ heard[y] = 0 /\ roff[y] = HeaderSize /\ P[1] = HeaderSize
    BY <1>1 DEF Heeded, Started, Offsets
  <2>2. Position(P, y)'
    BY <1>1, <1>2, <2>1 DEF Position
  <2>3. Restored(y)' /\ Imaged(y)'
    BY <1>1, <1>2 DEF Restored, Imaged
  <2> QED
    BY <2>2, <2>3
<1> QED
  BY <1>3, <1>4 DEF Heeded
-----------------------------------------------------------------------------
(* The theorems *)

\* The offsets are not in the state, and each process keeps only its own: that
\* there is one list of them for all is the invariant.
Inv == \E O: FileInv(O) /\ Heeded(O)

LEMMA InvInit == Init => Inv
<1> SUFFICES ASSUME Init PROVE Inv
  OBVIOUS
<1> DEFINE O == <<HeaderSize>>
<1>1. O \in Seq(Nat) /\ Len(O) = 1 /\ O[1] = HeaderSize
  BY DEF HeaderSize
<1> HIDE DEF O
<1>2. Offsets(O)
  BY <1>1, EntriesAre DEF Offsets
<1>3. Counted(O) /\ Held(O)
  BY <1>1 DEF Init, Counted, Held, Procs, HeaderSize
<1>4. Started /\ Shapes
  BY DEF Init, Started, Shapes, Ranks, Coordinate, HeaderSize
<1>5. Broadcast
  BY RootWrites DEF Init, Broadcast, Ranks
<1>6. \A x \in Ranks: Position(O, x) /\ Restored(x) /\ Imaged(x)
  <2> TAKE x \in Ranks
  <2>1. pc[x] = "x1" /\ heard[x] = 0 /\ roff[x] = HeaderSize /\ mode = "none"
    BY DEF Init, Ranks
  <2> QED
    BY <1>1, <2>1 DEF Position, Restored, Imaged
<1> QED
  BY <1>2, <1>3, <1>4, <1>5, <1>6 DEF Inv, FileInv, Heeded

LEMMA InvNext ==
  ASSUME Inv, [Next]_vars
  PROVE  Inv' /\ \A o \in DOMAIN file: o \in DOMAIN file' /\ file'[o] = file[o]
<1>1. PICK O: FileInv(O) /\ Heeded(O)
  BY DEF Inv
<1> DEFINE kept == \A o \in DOMAIN file: o \in DOMAIN file' /\ file'[o] = file[o]
<1>2. ASSUME NEW x \in Coordinates(Writers), Write(x)
      PROVE  Inv' /\ kept
  <2>1. kept /\ \E P: Offsets(P) /\ Counted(P)' /\ Held(P)'
    BY <1>1, <1>2, WriteStep DEF FileInv, Procs
  <2>2. PICK P: Offsets(P) /\ Counted(P)' /\ Held(P)'
    BY <2>1
  <2>3. Heeded(P)'
    BY <1>1, <1>2, <2>2, HeededWhileWriting DEF Procs
  <2> QED
    BY <2>1, <2>2, <2>3 DEF Inv, FileInv
\* The other steps leave the file alone.
<1>3. ASSUME UNCHANGED writing, Heeded(O)'
      PROVE  Inv' /\ kept
  <2>1. FileInv(O)'
    BY <1>1, <1>3 DEF FileInv, Counted, Held, writing
  <2> QED
    BY <1>3, <2>1 DEF Inv, writing
<1>4. CASE Open
  BY <1>1, <1>3, <1>4, OpenStep DEF Open
<1>5. ASSUME NEW x \in Coordinates(Readers), Read(x)
      PROVE  Inv' /\ kept
  <2>1. Heeded(O)'
    BY <1>1, <1>5, CoordinatesStep, FieldStep, ImageStep DEF Read, Ranks
  <2>2. UNCHANGED writing
    BY <1>5 DEF Read, ReadCoordinates, ReadField, ReadImage, Hear
  <2> QED
    BY <1>3, <2>1, <2>2
<1>6. CASE UNCHANGED vars
  <2>1. UNCHANGED <<file, wrote, woff, mode, loaded, pc, roff, heads, heard, memory>>
    BY <1>6 DEF vars, writing, reading
  <2>2. Started' /\ Shapes' /\ Broadcast'
    BY <1>1, <2>1 DEF Heeded, Started, Closed, Shapes, Broadcast
  <2>3. \A x \in Ranks: Position(O, x)' /\ Restored(x)' /\ Imaged(x)'
    BY <1>1, <2>1, OthersKeep DEF Heeded
  <2> QED
    BY <1>3, <2>1, <2>2, <2>3 DEF Heeded, writing
<1> QED
  BY <1>2, <1>4, <1>5, <1>6 DEF Next, AllRead

\* Offsets and counts are numbers, what is in the file comes after the header,
\* and each process is at a known point of Write or Read (dump.cpp).
THEOREM Typed == Spec => []TypeOK
<1>1. Inv => TypeOK
  <2> SUFFICES ASSUME Inv PROVE TypeOK
    OBVIOUS
  <2>1. PICK O: FileInv(O) /\ Heeded(O)
    BY DEF Inv
  <2>2. Len(O) \in Int /\ Len(O) <= Len(Entries) + 1 /\ Len(Entries) \in Int
    BY <2>1, OffsetsFrom, EntriesAre DEF FileInv
  <2>3. wrote \in [Coordinates(Writers) -> 0..Len(Entries)]
    BY <2>1, <2>2 DEF FileInv, Counted, Procs
  <2>4. \A x \in Procs: \A k \in 1..wrote[x]: k \in 1..Len(O) /\ k \in 1..Len(Entries)
    BY <2>1, <2>2 DEF FileInv, Counted
  <2>5. woff \in [Coordinates(Writers) -> Nat]
    <3>1. \A x \in Procs: wrote[x] + 1 \in 1..Len(O) /\ woff[x] = O[wrote[x] + 1]
      BY <2>1, <2>2 DEF FileInv, Counted
    <3>2. \A x \in Procs: woff[x] \in Nat
      BY <2>1, <3>1, OffsetsFrom DEF FileInv
    <3> QED
      BY <2>1, <3>2 DEF FileInv, Counted, Procs
  <2>6. ASSUME NEW o \in DOMAIN file
        PROVE  o \in Nat /\ o >= HeaderSize
    <3>1. PICK x \in Procs: \E k \in 1..wrote[x]: Place(Entries[k], x, O[k], o)
      BY <2>1 DEF FileInv, Held
    <3>2. PICK k \in 1..wrote[x]: Place(Entries[k], x, O[k], o)
      BY <3>1
    <3>3. O[k] \in Nat /\ O[k] >= HeaderSize /\ IsEntry(Entries[k])
      BY <2>1, <2>4, OffsetsFrom, IsEntries DEF FileInv
    <3>4. o \in Nat /\ O[k] <= o
      BY <3>2, <3>3, PlaceInside
    <3> QED
      BY <3>3, <3>4 DEF HeaderSize
  <2>7. mode \in Modes \cup {"none"} /\ loaded \in Loads \cup {<<>>}
    BY <2>1 DEF Heeded, Started
  <2>8. /\ pc \in [Coordinates(Readers) -> DOMAIN Coordinate \cup {"fields", "end", "refused"}]
        /\ roff \in [Coordinates(Readers) -> Nat]
    BY <2>1 DEF Heeded, Shapes, Ranks
  <2>9. heard \in [Coordinates(Readers) -> 0..Len(heads)]
    BY <2>1 DEF Heeded, Broadcast, Ranks
  <2> QED
    BY <2>3, <2>5, <2>6, <2>7, <2>8, <2>9 DEF TypeOK
<1> QED
  BY <1>1, InvInit, InvNext, PTL DEF Spec

\* Whatever the order in which the processes write, none ever writes where
\* another one has (WriteSerial, WriteDistributed).
THEOREM NeverOverwritten == Spec => NothingOverwritten
<1>1. Inv /\ [Next]_vars => [\A o \in DOMAIN file: o \in DOMAIN file' /\ file'[o] = file[o]]_vars
  BY InvNext
<1>2. Inv /\ [Next]_vars => Inv'
  BY InvNext
<1> QED
  BY <1>1, <1>2, InvInit, PTL DEF Spec, NothingOverwritten

LEMMA AllPast ==
  ASSUME NEW x, heard[x] = Len(Entries), NEW name \in DOMAIN Saved
  PROVE  Past(name, x)
<1>1. PICK k \in 4..(Len(Entries) - 1): Entries[k] = name
  BY EntriesAre
<1>2. k <= heard[x]
  BY EntriesAre
<1> QED
  BY <1>1, <1>2 DEF Past

\* Each process of a restarted run holds the original values of the fields that
\* both runs registered, and only those (Dump::Read), however the runs share the
\* grid and whatever fields one has and the other has not.
THEOREM RestartExact == Spec => []RestartIsExact
<1>1. Inv => RestartIsExact
  <2> SUFFICES ASSUME Inv, NEW x \in Coordinates(Readers), mode = "restart", pc[x] = "end"
               PROVE  /\ DOMAIN memory[x] = DOMAIN loaded \cap DOMAIN Saved
                      /\ \A name \in DOMAIN memory[x]:
                           memory[x][name] = IF loaded[name].at = "scalar" THEN Constant(name)
                                             ELSE Part(x, ReadShape(loaded[name]), name)
    BY DEF RestartIsExact
  <2>1. PICK O: Heeded(O)
    BY DEF Inv
  <2>2. heard[x] = Len(Entries) /\ Restored(x)
    BY <2>1 DEF Heeded, Position, Ranks
  <2>3. DOMAIN memory[x] = {name \in DOMAIN loaded \cap DOMAIN Saved: Past(name, x)}
        /\ \A name \in DOMAIN memory[x]: memory[x][name] = Restores(x, name)
    BY <2>2 DEF Restored
  <2>4. \A name \in DOMAIN Saved: Past(name, x)
    BY <2>2, AllPast
  <2> QED
    BY <2>3, <2>4 DEF Restores
<1> QED
  BY <1>1, InvInit, InvNext, PTL DEF Spec

\* A restart refuses a dump only for a field of another size, and then no
\* process of it reads the dump to its end (Dump::Read).
THEOREM AllRefuse == Spec => []RefusedTogether
<1>1. Inv => RefusedTogether
  <2> SUFFICES ASSUME Inv, NEW x \in Coordinates(Readers), pc[x] = "refused"
               PROVE  /\ \E name \in DOMAIN loaded \cap DOMAIN Saved: loaded[name].size # Saved[name].size
                      /\ \A y \in Coordinates(Readers): pc[y] # "end"
    BY DEF RefusedTogether
  <2>1. PICK O: Heeded(O)
    BY DEF Inv
  <2>2. mode = "restart" /\ \E name \in DOMAIN Saved: Unfit(name)
    BY <2>1 DEF Heeded, Position, Ranks
  <2>3. PICK name \in DOMAIN Saved: Unfit(name)
    BY <2>2
  <2>4. ASSUME NEW y \in Coordinates(Readers), pc[y] = "end"
        PROVE  FALSE
    <3>1. Position(O, y)
      BY <2>1 DEF Heeded, Ranks
    <3>2. heard[y] = Len(Entries) /\ (Past(name, y) => ~Unfit(name))
      BY <2>2, <2>4, <3>1 DEF Position
    <3> QED
      BY <2>3, <3>2, AllPast
  <2>5. name \in DOMAIN loaded \cap DOMAIN Saved /\ loaded[name].size # Saved[name].size
    BY <2>3 DEF Unfit
  <2> QED
    BY <2>4, <2>5
<1> QED
  BY <1>1, InvInit, InvNext, PTL DEF Spec

\* A whole image holds the arrays of the dump, and one that is distributed its
\* process's part of them, if no field has one element more in X1 and one in X3:
\* what DumpImage does not tell from others (DumpImage::DumpImage).
THEOREM ImageExact == Spec => [](mode = "image" \/ AllGuessable => ImageIsExact)
<1>1. Inv => (mode = "image" \/ AllGuessable => ImageIsExact)
  <2> SUFFICES ASSUME Inv, mode = "image" \/ AllGuessable, NEW x \in Coordinates(Readers),
                      mode # "restart", pc[x] = "end", NEW name \in DOMAIN Saved,
                      Saved[name].at # "scalar"
               PROVE  memory[x][name] =
                        IF mode = "image" THEN [c \in Shape(Whole(Saved[name])) |-> Original(name, c)]
                        ELSE Part(x, ReadShape(Saved[name]), name)
    BY DEF ImageIsExact
  <2>1. PICK O: Heeded(O)
    BY DEF Inv
  <2>2. heard[x] = Len(Entries) /\ Imaged(x)
    BY <2>1 DEF Heeded, Position, Ranks
  <2>3. mode = "image" \/ mode = "distributed image"
    <3>1. mode # "none"
      BY <2>1 DEF Heeded, Started, Ranks
    <3> QED
      BY <2>1, <3>1, DumpFileAssumption DEF Heeded, Started
  <2>4. IsArray(name) /\ Past(name, x)
    BY <2>2, AllPast DEF IsArray
  <2> QED
    BY <2>2, <2>3, <2>4 DEF Imaged, ImageOf
<1> QED
  BY <1>1, InvInit, InvNext, PTL DEF Spec
-----------------------------------------------------------------------------
(* The decomposition of the grid. What its halves and its shares need of      *)
(* arithmetic.                                                               *)

USE DecompositionAssumption

\* What a remainder and a quotient are.
LEMMA NatQuotients ==
  ASSUME NEW n \in Nat, NEW m \in Nat \ {0}
  PROVE  /\ n \div m \in Nat /\ n % m \in 0..(m - 1)
         /\ n = m * (n \div m) + (n % m)
<1>1. n % m \in 0..(m - 1)
  OBVIOUS
<1>2. n \div m \in Int
  OBVIOUS
<1>3. n = m * (n \div m) + (n % m)
  OBVIOUS
<1>4. ASSUME NEW q \in Int, NEW r \in 0..(m - 1), n = m * q + r
      PROVE  q >= 0
  <2>1. CASE q <= -1
    <3>1. m * q <= m * (-1)
      BY <2>1
    <3> QED
      BY <3>1, <1>4
  <2> QED
    BY <2>1
<1> QED
  BY <1>1, <1>2, <1>3, <1>4

\* A quotient is the only one whose remainder is small enough.
LEMMA QuotientIsUnique ==
  ASSUME NEW m \in Nat \ {0}, NEW p \in Nat, NEW q \in Nat, NEW c \in Nat,
         m * p <= c, c < m * (p + 1), m * q <= c, c < m * (q + 1)
  PROVE  p = q
<1>1. m * p < m * (q + 1) /\ m * q < m * (p + 1)
  OBVIOUS
<1>2. p < q + 1 /\ q < p + 1
  BY <1>1
<1> QED
  BY <1>2

\* A multiple has no remainder.
LEMMA Multiple ==
  ASSUME NEW m \in Nat \ {0}, NEW q \in Nat
  PROVE  (m * q) % m = 0 /\ (m * q) \div m = q
<1> DEFINE n == m * q
<1>1. n \in Nat
  OBVIOUS
<1>2. n \div m \in Nat /\ n % m \in 0..(m - 1) /\ n = m * (n \div m) + (n % m)
  BY <1>1, NatQuotients
<1>3. m * (n \div m) <= n /\ n < m * ((n \div m) + 1)
  BY <1>2
<1>4. m * q <= n /\ n < m * (q + 1)
  OBVIOUS
<1> HIDE DEF n
<1>5. n \div m = q
  BY <1>1, <1>2, <1>3, <1>4, QuotientIsUnique
<1>6. n % m = 0
  BY <1>2, <1>5 DEF n
<1> QED
  BY <1>5, <1>6 DEF n

\* A power of 2 that is not 1 is even, and its half is one too (isPow2).
LEMMA Half ==
  ASSUME NEW n \in Nat \ {0}, n > 1, isPow2(n)
  PROVE  n \div 2 \in Nat \ {0} /\ n = 2 * (n \div 2) /\ isPow2(n \div 2)
<1>1. n % n = 0
  <2>1. n * 1 = n
    OBVIOUS
  <2> QED
    BY <2>1, Multiple
<1>2. n % 2 = 0
  BY <1>1 DEF isPow2
<1>3. n \div 2 \in Nat \ {0} /\ n = 2 * (n \div 2)
  BY <1>2
<1>4. ASSUME NEW m \in 1..(n \div 2), (n \div 2) % m = 0
      PROVE  m = 1 \/ m % 2 = 0
  <2>1. m \in Nat \ {0} /\ m \in 1..n
    BY <1>3
  <2>2. PICK q \in Nat: n \div 2 = m * q
    <3> DEFINE h == n \div 2
    <3>1. h \in Nat /\ h % m = 0
      BY <1>3, <1>4
    <3> HIDE DEF h
    <3>2. h \div m \in Nat /\ h = m * (h \div m) + (h % m)
      BY <3>1, <2>1, NatQuotients
    <3>3. m * (h \div m) \in Int
      BY <3>2, <2>1
    <3> QED
      BY <3>1, <3>2, <3>3 DEF h
  <2>3. n = m * (2 * q)
    BY <1>3, <2>1, <2>2
  <2>4. n % m = 0
    BY <2>1, <2>3, Multiple
  <2> QED
    BY <2>1, <2>4 DEF isPow2
<1> QED
  BY <1>3, <1>4 DEF isPow2

-----------------------------------------------------------------------------
(* The shares of a direction that is shared evenly. *)

LEMMA LocalShare ==
  ASSUME NEW n \in Nat \ {0}, NEW p \in Nat \ {0}, n % p = 0
  PROVE  n \div p \in Nat \ {0} /\ n = p * (n \div p)
<1>1. n \div p \in Nat /\ n = p * (n \div p) + (n % p)
  BY NatQuotients
<1>2. p * (n \div p) \in Int /\ n % p = 0
  BY <1>1
<1>3. n = p * (n \div p)
  BY <1>1, <1>2
<1> QED
  BY <1>1, <1>3

\* Every index of the direction is in the share of one process, and only one.
LEMMA OneShare ==
  ASSUME NEW n \in Nat \ {0}, NEW p \in Nat \ {0}, n % p = 0,
         NEW c \in 0..(n - 1)
  PROVE  LET l == n \div p IN
         /\ c \div l \in 0..(p - 1)
         /\ (c \div l) * l <= c /\ c < ((c \div l) + 1) * l
         /\ \A y \in 0..(p - 1): y * l <= c /\ c < (y + 1) * l => y = c \div l
<1> DEFINE l == n \div p
           q == c \div l
<1>1. l \in Nat \ {0} /\ n = p * l
  BY LocalShare
<1> HIDE DEF l
<1>a. c \in Nat /\ l \in Nat \ {0}
  BY <1>1
<1>2. q \in Nat /\ c = l * q + (c % l) /\ c % l \in 0..(l - 1)
  BY ONLY <1>a, NatQuotients DEF q
<1> HIDE DEF q
<1>3. q * l <= c /\ c < (q + 1) * l
  BY <1>1, <1>2
<1>4. q < p
  <2>1. CASE q >= p
    <3>1. q * l >= p * l
      BY <1>1, <1>2, <2>1
    <3> QED
      BY <1>1, <1>2, <1>3, <3>1
  <2> QED
    BY <1>2, <2>1
<1>5. ASSUME NEW y \in 0..(p - 1), y * l <= c, c < (y + 1) * l
      PROVE  y = q
  <2>1. l * y <= c /\ c < l * (y + 1) /\ l * q <= c /\ c < l * (q + 1)
    BY <1>1, <1>2, <1>3, <1>5
  <2> QED
    BY <1>1, <1>2, <2>1, QuotientIsUnique
<1> QED
  BY <1>2, <1>3, <1>4, <1>5 DEF l, q

-----------------------------------------------------------------------------
(* The invariant: while the directions are halved, the processes placed so  *)
(* far times those still to be placed are all of them, and the points of a  *)
(* share times the shares are all the points.                               *)

Unplaced ==
  phase = "check" => nproc = [d \in Dirs |-> 1] /\ nlocal = np /\ nleft = psize

Halved ==
  phase = "split" =>
    /\ Divisible /\ nleft * Product(nproc) = psize
    /\ isPow2(nleft)
    /\ \A d \in Dirs: nlocal[d] * nproc[d] = np[d] /\ isPow2(nlocal[d])

GridInv == GridTypeOK /\ Unplaced /\ Halved /\ EvenShares /\ NeverTooSmall

\* Doubling one direction doubles the number of processes placed.
LEMMA ProductDoubles ==
  ASSUME NEW f \in [Dirs -> Nat \ {0}], NEW e \in Dirs
  PROVE  /\ Product(f) \in Nat \ {0}
         /\ Product([f EXCEPT ![e] = @ * 2]) = 2 * Product(f)
<1>1. f[1] \in Nat \ {0} /\ f[2] \in Nat \ {0} /\ f[3] \in Nat \ {0}
  OBVIOUS
<1>2. ASSUME NEW a \in Nat \ {0}, NEW b \in Nat \ {0}, NEW c \in Nat \ {0}
      PROVE  /\ a * b * c \in Nat \ {0}
             /\ (a * 2) * b * c = 2 * (a * b * c)
             /\ a * (b * 2) * c = 2 * (a * b * c)
             /\ a * b * (c * 2) = 2 * (a * b * c)
  OBVIOUS
<1>3. Product(f) \in Nat \ {0}
  BY <1>1, <1>2 DEF Product
<1>4. CASE e = 1
  BY <1>1, <1>2, <1>4 DEF Product
<1>5. CASE e = 2
  BY <1>1, <1>2, <1>5 DEF Product
<1>6. CASE e = 3
  BY <1>1, <1>2, <1>6 DEF Product
<1> QED
  BY <1>3, <1>4, <1>5, <1>6

\* Shares of one point each are as many as the points, and no multiple of that
\* number divides it: while processes are to be placed, a share has two points.
LEMMA PointsLeft ==
  ASSUME NEW f \in [Dirs -> Nat \ {0}], NEW k \in Nat, k > 1,
         Product(f) % (k * Product(f)) = 0
  PROVE  FALSE
<1> DEFINE p == Product(f)
<1>1. p \in Nat \ {0}
  <2>1. 1 \in Dirs
    OBVIOUS
  <2> QED
    BY <2>1, ProductDoubles
<1> HIDE DEF p
<1>2. k * p \in Nat \ {0} /\ p < k * p
  BY <1>1
<1>3. p % (k * p) = p
  BY <1>1, <1>2
<1> QED
  BY <1>1, <1>3 DEF p

LEMMA InitInv == GridInit => GridInv
<1> SUFFICES ASSUME GridInit PROVE GridInv
  OBVIOUS
<1>1. psize \in Nat \ {0} /\ np \in [Dirs -> Nat \ {0}]
  BY DEF GridInit
<1>2. GridTypeOK
  BY <1>1 DEF GridInit, GridTypeOK
<1> QED
  BY <1>2 DEF GridInit, GridInv, Unplaced, Halved, EvenShares, NeverTooSmall

LEMMA SplitInv == GridInv /\ Split => GridInv'
<1> SUFFICES ASSUME GridInv, Split PROVE GridInv'
  OBVIOUS
<1>1. /\ GridTypeOK /\ Halved /\ phase = "split" /\ nleft > 1
      /\ nproc \in [Dirs -> Nat \ {0}] /\ nlocal \in [Dirs -> Nat \ {0}]
      /\ nleft \in Nat \ {0} /\ np \in [Dirs -> Nat \ {0}]
  BY DEF GridInv, GridTypeOK, Split
<1>2. /\ Divisible /\ nleft * Product(nproc) = psize /\ isPow2(nleft)
      /\ \A d \in Dirs: nlocal[d] * nproc[d] = np[d] /\ isPow2(nlocal[d])
  BY <1>1 DEF Halved
<1>3. PICK e \in Dirs:
        /\ Longest(e)
        /\ IF nlocal[e] > 1
             THEN /\ nlocal' = [nlocal EXCEPT ![e] = @ \div 2]
                  /\ nproc' = [nproc EXCEPT ![e] = @ * 2]
                  /\ nleft' = nleft \div 2
                  /\ phase' = phase
             ELSE phase' = "too small" /\ UNCHANGED <<nproc, nlocal, nleft>>
  BY DEF Split
<1>4. UNCHANGED <<dim, psize, np, dec>>
  BY DEF Split
<1>5. nlocal[e] > 1
  <2>1. CASE nlocal[e] <= 1
    <3>1. \A d \in Dirs: nlocal[d] = 1
      <4> SUFFICES ASSUME NEW d \in Dirs PROVE nlocal[d] = 1
        OBVIOUS
      <4>1. nlocal[d] < nlocal[e] \/ nlocal[d] = nlocal[e]
        BY <1>3 DEF Longest
      <4>2. nlocal[d] \in Nat \ {0} /\ nlocal[e] \in Nat \ {0}
        BY <1>1
      <4> QED
        BY <2>1, <4>1, <4>2
    <3>2. \A d \in Dirs: np[d] = nproc[d]
      BY <1>1, <1>2, <3>1
    <3>3. Product(nproc) % (nleft * Product(nproc)) = 0
      BY <1>2, <3>2 DEF Divisible, Product
    <3> QED
      BY <1>1, <3>3, PointsLeft
  <2> QED
    BY <1>1, <2>1
<1>6. /\ nlocal' = [nlocal EXCEPT ![e] = @ \div 2]
      /\ nproc' = [nproc EXCEPT ![e] = @ * 2]
      /\ nleft' = nleft \div 2
      /\ phase' = phase
  BY <1>3, <1>5
<1>7. /\ nleft' \in Nat \ {0} /\ nleft = 2 * nleft' /\ isPow2(nleft')
      /\ nlocal[e] \div 2 \in Nat \ {0} /\ nlocal[e] = 2 * (nlocal[e] \div 2)
      /\ isPow2(nlocal[e] \div 2)
  BY <1>1, <1>2, <1>5, <1>6, Half
<1>8. nproc' \in [Dirs -> Nat \ {0}] /\ nlocal' \in [Dirs -> Nat \ {0}]
  BY <1>1, <1>6, <1>7
<1>9. nleft' * Product(nproc') = psize
  <2>1. Product(nproc') = 2 * Product(nproc) /\ Product(nproc) \in Nat \ {0}
    BY <1>1, <1>6, ProductDoubles
  <2>2. nleft' * (2 * Product(nproc)) = (2 * nleft') * Product(nproc)
    BY <1>7, <2>1
  <2> QED
    BY <1>2, <1>7, <2>1, <2>2
<1>10. \A d \in Dirs: nlocal'[d] * nproc'[d] = np[d] /\ isPow2(nlocal'[d])
  <2> SUFFICES ASSUME NEW d \in Dirs
               PROVE  nlocal'[d] * nproc'[d] = np[d] /\ isPow2(nlocal'[d])
    OBVIOUS
  <2>1. CASE d = e
    <3>1. nlocal'[d] = nlocal[e] \div 2 /\ nproc'[d] = nproc[e] * 2
      BY <1>1, <1>6, <2>1
    <3>2. \A h, p \in Nat: h * (p * 2) = (2 * h) * p
      OBVIOUS
    <3>3. nlocal'[d] * nproc'[d] = (2 * (nlocal[e] \div 2)) * nproc[e]
      BY <1>1, <1>7, <3>1, <3>2
    <3> QED
      BY <1>2, <1>7, <2>1, <3>1, <3>3
  <2>2. CASE d # e
    <3>1. nlocal'[d] = nlocal[d] /\ nproc'[d] = nproc[d]
      BY <1>1, <1>6, <2>2
    <3> QED
      BY <1>2, <3>1
  <2> QED
    BY <2>1, <2>2
<1>11. GridTypeOK'
  <2>1. Flat(np)' /\ dec' \in {f \in Decs: Flat(f)'} \cup {NoDec}
    BY <1>1, <1>4 DEF GridTypeOK, Flat
  <2> QED
    BY <1>1, <1>4, <1>6, <1>7, <1>8, <2>1 DEF GridTypeOK
<1>12. Halved'
  BY <1>2, <1>4, <1>7, <1>9, <1>10 DEF Halved, Divisible
<1> QED
  BY <1>1, <1>6, <1>11, <1>12 DEF GridInv, Unplaced, EvenShares, NeverTooSmall

\* A decomposition that is done, by one of the ways that make no halves.
LEMMA DoneInv == GridInv /\ (OneProcess \/ Manual \/ Automatic) => GridInv'
<1> SUFFICES ASSUME GridInv, OneProcess \/ Manual \/ Automatic PROVE GridInv'
  OBVIOUS
<1>1. /\ GridTypeOK /\ phase = "check" /\ nproc = [d \in Dirs |-> 1]
      /\ nlocal = np /\ nleft = psize
      /\ np \in [Dirs -> Nat \ {0}] /\ psize \in Nat \ {0}
      /\ dec # NoDec => dec \in [Dirs -> Nat \ {0}]
  <2>1. GridTypeOK /\ Unplaced /\ phase = "check"
    BY DEF GridInv, OneProcess, Manual, Automatic
  <2>2. np \in [Dirs -> Nat \ {0}] /\ psize \in Nat \ {0}
    BY <2>1 DEF GridTypeOK
  <2>3. dec # NoDec => dec \in [Dirs -> Nat \ {0}]
    BY <2>1 DEF GridTypeOK
  <2> QED
    BY <2>1, <2>2, <2>3 DEF Unplaced
<1>2. \A n \in Nat \ {0}: n * 1 = n /\ n % 1 = 0
  BY Multiple
<1>3. Product(nproc) = 1
  BY <1>1 DEF Product
<1>4. CASE OneProcess
  <2>1. EvenShares'
    BY <1>1, <1>2, <1>3, <1>4 DEF OneProcess, EvenShares, Product
  <2> QED
    BY <1>1, <1>4, <2>1 DEF OneProcess, GridInv, GridTypeOK, Flat, Unplaced, Halved, NeverTooSmall
<1>5. CASE Manual
  <2>1. EvenShares'
    BY <1>1, <1>5 DEF Manual, EvenShares
  <2>2. nproc' \in [Dirs -> Nat \ {0}] /\ nlocal' = nlocal /\ nleft' = nleft
    BY <1>1, <1>5 DEF Manual
  <2>3. GridTypeOK'
    BY <1>1, <1>5, <2>2 DEF Manual, GridTypeOK, Flat
  <2> QED
    BY <1>1, <1>5, <2>1, <2>3 DEF Manual, GridInv, Unplaced, Halved, NeverTooSmall
<1>6. CASE Automatic
  <2>1. GridTypeOK'
    <3>1. nproc' \in [Dirs -> Nat \ {0}] /\ nlocal' = nlocal /\ nleft' = nleft
      BY <1>1, <1>6 DEF Automatic
    <3>2. phase' \in {"split", "done", "refused"}
      BY <1>6 DEF Automatic
    <3> QED
      BY <1>1, <1>6, <3>1, <3>2 DEF Automatic, GridTypeOK, Flat
  <2>2. Halved'
    <3>1. \A d \in Dirs: nlocal[d] * nproc[d] = np[d]
      BY <1>1, <1>2
    <3>2. nleft * Product(nproc) = psize
      BY <1>1, <1>2, <1>3
    <3> QED
      BY <1>1, <1>6, <3>1, <3>2 DEF Automatic, Halved, Divisible
  <2>3. EvenShares'
    <3> SUFFICES ASSUME phase' = "done"
                 PROVE  /\ Product(nproc') = psize'
                        /\ \A d \in Dirs: np'[d] % nproc'[d] = 0
      BY DEF EvenShares
    <3>1. dim = 1 /\ Divisible /\ nproc' = [nproc EXCEPT ![1] = psize]
      BY <1>6 DEF Automatic
    <3>2. np[2] = 1 /\ np[3] = 1
      BY <1>1, <3>1 DEF GridTypeOK, Flat
    <3> QED
      BY <1>1, <1>2, <1>6, <3>1, <3>2 DEF Automatic, Divisible, Product
  <2> QED
    BY <1>1, <1>6, <2>1, <2>2, <2>3 DEF Automatic, GridInv, Unplaced, NeverTooSmall
<1> QED
  BY <1>4, <1>5, <1>6

LEMMA SplitEndsInv == GridInv /\ SplitEnds => GridInv'
<1> SUFFICES ASSUME GridInv, SplitEnds PROVE GridInv'
  OBVIOUS
<1>1. /\ GridTypeOK /\ Halved /\ phase = "split" /\ nleft = 1 /\ phase' = "done"
      /\ UNCHANGED <<dim, psize, np, dec, nproc, nlocal, nleft>>
      /\ nproc \in [Dirs -> Nat \ {0}] /\ nlocal \in [Dirs -> Nat \ {0}]
      /\ np \in [Dirs -> Nat \ {0}]
  BY DEF GridInv, SplitEnds, GridTypeOK
<1>2. Product(nproc) = psize
  <2>1. 1 \in Dirs
    OBVIOUS
  <2>2. Product(nproc) \in Nat
    BY <1>1, <2>1, ProductDoubles
  <2> QED
    BY <1>1, <2>2 DEF Halved
<1>3. ASSUME NEW d \in Dirs PROVE np[d] % nproc[d] = 0
  <2>1. np[d] = nlocal[d] * nproc[d] /\ nlocal[d] \in Nat /\ nproc[d] \in Nat \ {0}
    BY <1>1 DEF Halved
  <2>2. np[d] = nproc[d] * nlocal[d]
    BY <2>1
  <2> QED
    BY <2>1, <2>2, Multiple
<1>4. EvenShares'
  BY <1>1, <1>2, <1>3 DEF EvenShares
<1>5. GridTypeOK'
  BY <1>1 DEF GridTypeOK, Flat
<1> QED
  BY <1>1, <1>4, <1>5 DEF GridInv, Unplaced, Halved, NeverTooSmall

\* The parameters keep their values, the shares are positive, every process
\* gets an even share, and the grid never runs out of points to halve
\* (Grid::Grid and Grid::makeDomainDecomposition).
THEOREM DecompositionCorrect == GridSpec => [](GridTypeOK /\ EvenShares /\ NeverTooSmall)
<1>1. GridInv /\ [GridNext]_gridVars => GridInv'
  <2> SUFFICES ASSUME GridInv, [GridNext]_gridVars PROVE GridInv'
    OBVIOUS
  <2>1. CASE OneProcess \/ Manual \/ Automatic
    BY <2>1, DoneInv
  <2>2. CASE Split
    BY <2>2, SplitInv
  <2>3. CASE SplitEnds
    BY <2>3, SplitEndsInv
  <2>4. CASE UNCHANGED gridVars
    BY <2>4 DEF gridVars, GridInv, GridTypeOK, Flat, Unplaced, Halved, Divisible, EvenShares,
                NeverTooSmall
  <2> QED
    BY <2>1, <2>2, <2>3, <2>4 DEF GridNext
<1>2. GridInv => GridTypeOK /\ EvenShares /\ NeverTooSmall
  BY DEF GridInv
<1> QED
  BY <1>1, <1>2, InitInv, PTL DEF GridSpec

-----------------------------------------------------------------------------
(* Even shares tile the grid. *)

LEMMA Tiling ==
  ASSUME NEW n \in [Dirs -> Nat \ {0}], NEW p \in [Dirs -> Nat \ {0}],
         \A d \in Dirs: n[d] % p[d] = 0, NEW c \in Cells(n)
  PROVE  \E x \in Coordinates(p):
           Holds(n, p, x, c) /\ \A y \in Coordinates(p): Holds(n, p, y, c) => y = x
<1> DEFINE at(d) == c[d] \div (n[d] \div p[d])
           x == <<at(1), at(2), at(3)>>
<1>1. \A d \in Dirs: c[d] \in 0..(n[d] - 1)
  BY DEF Cells
<1>2. \A d \in Dirs:
        /\ at(d) \in 0..(p[d] - 1)
        /\ at(d) * Local(n, p, d) <= c[d] /\ c[d] < (at(d) + 1) * Local(n, p, d)
        /\ \A y \in 0..(p[d] - 1):
             y * Local(n, p, d) <= c[d] /\ c[d] < (y + 1) * Local(n, p, d) => y = at(d)
  BY <1>1, OneShare DEF Local
<1> HIDE DEF at
<1>3. x \in Coordinates(p) /\ \A d \in Dirs: x[d] = at(d)
  BY <1>2 DEF Coordinates
<1>4. Holds(n, p, x, c)
  BY <1>2, <1>3 DEF Holds, Start, Stop
<1>5. ASSUME NEW y \in Coordinates(p), Holds(n, p, y, c) PROVE y = x
  <2>1. \A d \in Dirs: y[d] \in 0..(p[d] - 1)
    BY DEF Coordinates
  <2>2. y[1] = at(1) /\ y[2] = at(2) /\ y[3] = at(3)
    BY <1>2, <1>5, <2>1 DEF Holds, Start, Stop
  <2> QED
    BY <2>2 DEF Coordinates
<1> QED
  BY <1>3, <1>4, <1>5

\* Every cell of the grid belongs to exactly one DataBlock, for every grid and
\* number of processes the checks of Grid let through.
THEOREM SubdomainsTile == GridSpec => []Tiled
<1>1. GridTypeOK /\ EvenShares => Tiled
  <2> SUFFICES ASSUME GridTypeOK, EvenShares, phase = "done", NEW c \in Cells(np)
               PROVE  \E x \in Coordinates(nproc):
                        /\ Holds(np, nproc, x, c)
                        /\ \A y \in Coordinates(nproc): Holds(np, nproc, y, c) => y = x
    BY DEF Tiled
  <2>1. np \in [Dirs -> Nat \ {0}] /\ nproc \in [Dirs -> Nat \ {0}]
    BY DEF GridTypeOK
  <2>2. \A d \in Dirs: np[d] % nproc[d] = 0
    BY DEF EvenShares
  <2> QED
    BY <2>1, <2>2, Tiling
<1> QED
  BY <1>1, DecompositionCorrect, PTL
=============================================================================
